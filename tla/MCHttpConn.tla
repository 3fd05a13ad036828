----------------------------- MODULE MCHttpConn -----------------------------
(* Requests for model checking HttpConn.                                   *)
EXTENDS HttpConn

Line(text) == <<text, CR, LF>>
End == <<CR, LF>>

Get       == Line("GET") \o End
Forwarded == Line("GET") \o Line("X-Forwarded-By") \o End
Post(b)   == Line("POST") \o Line("Content-length") \o End \o <<b, b>>
BarePost  == Line("POST") \o End
BareFeed  == <<"GET", LF>>
Unknown   == Line("PUT") \o End

MCRequests ==
    {Get, Forwarded, Post("ann"), BarePost, BareFeed, Unknown}

=============================================================================
