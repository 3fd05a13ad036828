------------------------------ MODULE HttpConn ------------------------------
(***************************************************************************)
(* http_conn and http_server::handleClient: one entry of the array users,  *)
(* which serves the clients that get the same descriptor number one after  *)
(* the other.                                                              *)
(*                                                                         *)
(* The read buffer holds units: the text of a line, a body, CR and LF.     *)
(* Header and file bytes are units too; a unit on the wire is named by the *)
(* buffer it came from and its offset, so that a wrong iovec shows.        *)
(* Registration and login are in module Registration: here they only       *)
(* choose a page.  Indices count from 0 as in the code.                    *)
(***************************************************************************)
EXTENDS Integers, Sequences, FiniteSets, SequencesExt

CONSTANTS
    Requests,          \* requests a client may send, sequences of units
    ReadBufferSize,    \* READ_BUFFER_SIZE
    WriteBufferSize,   \* WRITE_BUFFER_SIZE
    HeaderLen,         \* units of a status line with its headers, one a line
    PageLen,           \* units of the text of an error page
    FileSizes,         \* sizes of the files
    MaxClients,        \* bound: clients of this entry
    MaxRequests,       \* bound: requests of one client
    MaxCuts,           \* bound: short recvs of one client
    MaxAgains          \* bound: EAGAIN returns of write() of this entry

ASSUME SizesAssumption ==
    /\ {ReadBufferSize, WriteBufferSize, HeaderLen, PageLen, MaxClients,
        MaxRequests} \subseteq Nat \ {0}
    /\ FileSizes \subseteq Nat /\ {MaxCuts, MaxAgains} \subseteq Nat
    /\ HeaderLen + PageLen < WriteBufferSize - 1
ASSUME RequestsAssumption == Requests \subseteq Seq(STRING)

CR == "CR"
LF == "LF"
Blank == "blank"
BodyLen == 2

(* The proxies the factories make: nginxProxy, noPorxy.                    *)
ProxyTypes == {0, 1}

VARIABLES
    ProxyType,     \* obj->ProxyType: 0 with nginx, 1 without
    m_isKeepalive, \* of the server
    conn,          \* the members of http_conn
    pc,            \* where handleClient is
    decide_proxy,  \* locals of process_read
    line_status,
    code,          \* what process_read returned
    stream,        \* units sent by the client, not received yet
    request,       \* the request the client waits for, <<>> if none
    clients,       \* clients so far
    sent,          \* requests of this client
    cuts,          \* recvs of this client that got less than there was
    answered,      \* responses completed for this client
    stalled,       \* this client takes no more of a response
    wire,          \* units of the response the client has got
    short,         \* writev calls that left a part of the header
    again,         \* write() has returned on EAGAIN since the last init()
    agains,        \* how often it has, over all clients
    maps           \* mmaps that no munmap has released yet

serverVars == <<ProxyType, m_isKeepalive>>
netVars == <<stream, request, clients, sent, cuts, stalled>>
outVars == <<answered, wire, short>>
leftVars == <<again, agains, maps>>
vars == <<serverVars, conn, pc, decide_proxy, line_status, code,
          netVars, outVars, leftVars>>

NoIov == [base |-> 0, len |-> 0]

(* init(): what a new request starts from.  m_linger, m_string, the iovecs *)
(* and the mapping are left as they are.                                   *)
Reset(c) ==
    [c EXCEPT !.mysql = FALSE, !.bytes_to_send = 0, !.bytes_have_send = 0,
              !.m_check_state = "REQUESTLINE", !.m_content_length = 0,
              !.m_start_line = 0, !.m_checked_idx = 0, !.m_write_idx = 0,
              !.cgi = FALSE, !.m_read_buf = <<>>]

(* The model forgets what no request reads of an earlier one: process_write*)
(* sets the iovecs before write() reads them, do_request st_size.          *)
Forget(c) == [c EXCEPT !.m_iv = <<NoIov, NoIov>>, !.m_iv_count = 0,
                       !.st_size = 0]

(* unmap(), and the mappings there are after it.                           *)
Unmap(c) == [c EXCEPT !.m_file_address = "null"]
MapsUnmapped == IF conn.m_file_address = "mapped" THEN maps - 1 ELSE maps

(* initproxy(), before the server starts.                                  *)
InitProxy == ProxyType \in ProxyTypes

Init ==
    /\ InitProxy /\ m_isKeepalive \in BOOLEAN
    /\ conn = [mysql |-> FALSE, bytes_to_send |-> 0, bytes_have_send |-> 0,
               m_check_state |-> "REQUESTLINE", m_content_length |-> 0,
               m_start_line |-> 0, m_checked_idx |-> 0, m_write_idx |-> 0,
               cgi |-> FALSE, m_read_buf |-> <<>>, m_string |-> 0,
               m_linger |-> FALSE, m_file_address |-> "null", st_size |-> 0,
               m_iv |-> <<NoIov, NoIov>>, m_iv_count |-> 0]
    /\ pc = "free"
    /\ decide_proxy = TRUE /\ line_status = "LINE_OK"
    /\ code = "NO_REQUEST"
    /\ stream = <<>> /\ request = <<>>
    /\ clients = 0 /\ sent = 0 /\ cuts = 0
    /\ answered = 0 /\ wire = <<>> /\ short = 0 /\ stalled = FALSE
    /\ again = FALSE /\ agains = 0 /\ maps = 0

-----------------------------------------------------------------------------
(* The client.                                                             *)

(* It sends a request when it has the response to the one before.          *)
ClientSend(r) ==
    /\ pc # "free" /\ request = <<>> /\ sent < MaxRequests
    /\ stream' = stream \o r /\ request' = r /\ sent' = sent + 1
    /\ UNCHANGED <<serverVars, conn, pc, decide_proxy, line_status, code,
                   clients, cuts, stalled, outVars, leftVars>>

(* It stops reading: once the buffers between are full, a writev gets      *)
(* nothing away.  (One that stops for a while only is a slow one.)         *)
ClientStops ==
    /\ pc = "write" /\ ~stalled
    /\ stalled' = TRUE
    /\ UNCHANGED <<serverVars, conn, pc, decide_proxy, line_status, code,
                   stream, request, clients, sent, cuts, outVars, leftVars>>

-----------------------------------------------------------------------------
(* handleClient.                                                           *)

(* init(client, ...): the server's choice of long or short connections.    *)
InitClient(c) == Reset([c EXCEPT !.m_linger = m_isKeepalive])

(* A fiber starts to handle a client that got this descriptor number.      *)
HandleClient ==
    /\ pc = "free" /\ clients < MaxClients
    /\ clients' = clients + 1
    /\ conn' = InitClient(conn) /\ again' = FALSE
    /\ pc' = "read"
    /\ UNCHANGED <<serverVars, decide_proxy, line_status, code,
                   stream, request, sent, cuts, stalled, outVars, agains, maps>>

(* Mutant of ReadOnce: recv is not limited to the room in the buffer.      *)
ReadOnceUnbounded(n) ==
    LET less == n < Min({Len(stream), ReadBufferSize})
        got  == IF less THEN n ELSE Len(stream)
    IN  /\ pc = "read" /\ n <= Len(stream)
        /\ less => cuts < MaxCuts
        /\ conn' = [conn EXCEPT !.m_read_buf = @ \o SubSeq(stream, 1, got)]
        /\ stream' = SubSeq(stream, got + 1, Len(stream))
        /\ cuts' = cuts + (IF less THEN 1 ELSE 0)
        /\ wire' = <<>> /\ short' = 0
        /\ pc' = "connect"
        /\ UNCHANGED <<serverVars, decide_proxy, line_status, code,
                       request, clients, sent, stalled, answered,
                       leftVars>>

(* read_once in LT mode: one recv of what has arrived and fits, or of less.*)
ReadOnce(n) ==
    LET room == ReadBufferSize - Len(conn.m_read_buf)
        less == n < Min({Len(stream), room})
    IN  /\ pc = "read" /\ room > 0
        /\ n <= Len(stream) /\ n <= room
        /\ less => cuts < MaxCuts
        /\ conn' = [conn EXCEPT !.m_read_buf = @ \o SubSeq(stream, 1, n)]
        /\ stream' = SubSeq(stream, n + 1, Len(stream))
        /\ cuts' = cuts + (IF less THEN 1 ELSE 0)
        /\ wire' = <<>> /\ short' = 0
        /\ pc' = "connect"
        /\ UNCHANGED <<serverVars, decide_proxy, line_status, code,
                       request, clients, sent, stalled, answered,
                       leftVars>>

(* read_once returns false: the buffer is full, the client has closed its  *)
(* end, or recv gave up: after m_recvTimeout, or at once when the          *)
(* application has made the descriptor non-blocking.                       *)
ReadFails ==
    /\ pc = "read"
    /\ stream = <<>> \/ Len(conn.m_read_buf) >= ReadBufferSize
    /\ pc' = "end"
    /\ UNCHANGED <<serverVars, conn, decide_proxy, line_status, code,
                   netVars, outVars, leftVars>>

(* connectionRAII at the top of a turn sets mysql; process_read begins.    *)
TakeConnection ==
    /\ pc = "connect"
    /\ \E got \in BOOLEAN : conn' = [conn EXCEPT !.mysql = got]
    /\ decide_proxy' = TRUE /\ line_status' = "LINE_OK" /\ code' = "NO_REQUEST"
    /\ pc' = "parse"
    /\ UNCHANGED <<serverVars, netVars, outVars, leftVars>>

(* The end of handleClient: client->close(), the connection goes back.     *)
CloseClient ==
    /\ pc = "end"
    /\ pc' = "free"
    /\ decide_proxy' = TRUE /\ line_status' = "LINE_OK" /\ code' = "NO_REQUEST"
    /\ request' = <<>> /\ stream' = <<>> /\ sent' = 0 /\ cuts' = 0
    /\ answered' = 0 /\ wire' = <<>> /\ short' = 0 /\ stalled' = FALSE
    /\ conn' = Forget(conn)
    /\ UNCHANGED <<serverVars, clients, leftVars>>

-----------------------------------------------------------------------------
(* process_read.                                                           *)

(* parse_line: the status of the line that starts at m_checked_idx, where  *)
(* m_checked_idx stops, and where the line's text ends.                    *)
ParseLine(c) ==
    LET n == Len(c.m_read_buf)
        at(i) == c.m_read_buf[i + 1]
        stops == {i \in c.m_checked_idx..(n - 1) :
                    \/ at(i) = LF
                    \/ at(i) = CR /\ (i + 1 = n \/ at(i + 1) = LF)}
        i == Min(stops)
        Line(s, k, e) == [status |-> s, checked |-> k, end |-> e]
    IN  CASE stops = {} -> Line("LINE_OPEN", n, n)
          [] stops # {} /\ at(i) = CR /\ i + 1 = n -> Line("LINE_OPEN", i, i)
          [] stops # {} /\ at(i) = CR /\ i + 1 # n -> Line("LINE_OK", i + 2, i)
          [] stops # {} /\ at(i) = LF /\ i > 1 /\ at(i - 1) = CR ->
                Line("LINE_OK", i + 1, i - 1)
          [] OTHER -> Line("LINE_BAD", i, i)

(* get_line: the text from m_start_line to the end of the line.            *)
Text(c, e) == IF c.m_start_line < e THEN c.m_read_buf[c.m_start_line + 1]
                                    ELSE Blank

(* Mutant of ProxyRefuses: only requests that nginx forwarded are checked. *)
ProxyRefusesForwarded(direct) == ~direct /\ ProxyType = 1

(* With nginx only forwarded requests are served, without it only direct   *)
(* ones.                                                                   *)
ProxyRefuses(direct) ==
    IF direct THEN ProxyType = 0 ELSE ProxyType = 1

(* process_read returns r: the incomplete request makes process return     *)
(* false, anything else is answered by process_write.                      *)
ReadReturns(r) ==
    /\ code' = r
    /\ pc' = CASE r = "NO_REQUEST"  -> "end"
              [] r = "GET_REQUEST" -> "do_request"
              [] OTHER             -> "respond"

(* parse_request_line: a GET or a POST with a path and HTTP/1.1, or none.  *)
RequestLine(c, text) ==
    IF text \in {"GET", "POST"}
    THEN /\ conn' = [c EXCEPT !.cgi = @ \/ text = "POST",
                              !.m_check_state = "HEADER"]
         /\ UNCHANGED <<code, pc>>
    ELSE conn' = c /\ ReadReturns("BAD_REQUEST")

(* parse_headers.                                                          *)
Headers(c, text) ==
    /\ decide_proxy' = (/\ decide_proxy
                        /\ text # "X-Forwarded-By" \/ ProxyType = 1)
    /\ CASE text = Blank /\ c.m_content_length # 0 ->
              /\ conn' = [c EXCEPT !.m_check_state = "CONTENT"]
              /\ UNCHANGED <<code, pc>>
         [] text = Blank /\ c.m_content_length = 0 ->
              conn' = c /\ ReadReturns("GET_REQUEST")
         [] text = "X-Forwarded-By" /\ ProxyType = 1 ->
              conn' = c /\ ReadReturns("BAD_REQUEST")
         [] text = "Content-length" ->
              /\ conn' = [c EXCEPT !.m_content_length = BodyLen]
              /\ UNCHANGED <<code, pc>>
         [] OTHER -> conn' = c /\ UNCHANGED <<code, pc>>

(* One turn of the loop of process_read while there is a line to read.     *)
ParseNext ==
    LET l == ParseLine(conn)
        c == [conn EXCEPT !.m_checked_idx = l.checked,
                          !.m_start_line = l.checked]
    IN  /\ pc = "parse" /\ conn.m_check_state # "CONTENT"
        /\ l.status = "LINE_OK"
        /\ \/ /\ conn.m_check_state = "REQUESTLINE"
              /\ RequestLine(c, Text(conn, l.end))
              /\ UNCHANGED decide_proxy
           \/ /\ conn.m_check_state = "HEADER"
              /\ Headers(c, Text(conn, l.end))
        /\ UNCHANGED <<serverVars, line_status, netVars, outVars,
                       leftVars>>

(* Mutant of ParseContent: the body is not waited for.                     *)
ParseContentEarly ==
    /\ pc = "parse" /\ conn.m_check_state = "CONTENT"
    /\ line_status = "LINE_OK"
    /\ ReadReturns("GET_REQUEST")
    /\ UNCHANGED <<serverVars, conn, line_status, decide_proxy,
                   netVars, outVars, leftVars>>

(* parse_content: is the body complete?  If not, the loop ends.  m_string  *)
(* points into the read buffer, so it is an offset here.                   *)
ParseContent ==
    /\ pc = "parse" /\ conn.m_check_state = "CONTENT"
    /\ line_status = "LINE_OK"
    /\ IF Len(conn.m_read_buf) >= conn.m_content_length + conn.m_checked_idx
       THEN /\ conn' = [conn EXCEPT !.m_start_line = conn.m_checked_idx,
                                    !.m_string = conn.m_start_line]
            /\ ReadReturns("GET_REQUEST")
            /\ UNCHANGED line_status
       ELSE /\ conn' = [conn EXCEPT !.m_start_line = conn.m_checked_idx]
            /\ line_status' = "LINE_OPEN"
            /\ UNCHANGED <<code, pc>>
    /\ UNCHANGED <<serverVars, decide_proxy, netVars, outVars, leftVars>>

(* The loop ends without a complete request.                               *)
ParseEnds ==
    /\ pc = "parse"
    /\ conn.m_check_state = "CONTENT" => line_status # "LINE_OK"
    /\ ParseLine(conn).status # "LINE_OK"
    /\ ReadReturns(IF ProxyRefuses(decide_proxy) THEN "BAD_REQUEST"
                                                 ELSE "NO_REQUEST")
    /\ conn' = [conn EXCEPT !.m_checked_idx = ParseLine(conn).checked]
    /\ UNCHANGED <<serverVars, decide_proxy, line_status, netVars,
                   outVars, leftVars>>

(* do_request: the proxy, then the file the page is in.  An unreadable file*)
(* passes the test for S_IROTH, which negates before it masks, and open and*)
(* mmap fail; mmap of an empty file fails as well.                         *)
DoRequest ==
    /\ pc = "do_request" /\ pc' = "respond"
    /\ \/ /\ ProxyRefuses(decide_proxy)
          /\ code' = "BAD_REQUEST" /\ UNCHANGED <<conn, maps>>
       \/ /\ ~ProxyRefuses(decide_proxy)
          /\ \/ /\ code' \in {"NO_RESOURCE", "BAD_REQUEST"}
                /\ UNCHANGED <<conn, maps>>
             \/ \E size \in FileSizes, readable \in BOOLEAN :
                  /\ code' = "FILE_REQUEST"
                  /\ conn' = [conn EXCEPT !.st_size = size,
                       !.m_file_address =
                          IF readable /\ size > 0 THEN "mapped" ELSE "failed"]
                  /\ maps' = maps + (IF readable /\ size > 0 THEN 1 ELSE 0)
    /\ UNCHANGED <<serverVars, decide_proxy, line_status, netVars,
                   outVars, again, agains>>

-----------------------------------------------------------------------------
(* process_write.                                                          *)

(* add_response: appends to the write buffer when it fits.                 *)
Fits(c, len) == len < WriteBufferSize - 1 - c.m_write_idx
AddResponse(c, len) ==
    IF Fits(c, len) THEN [c EXCEPT !.m_write_idx = @ + len] ELSE c

(* The lines of the header, those that fit.                                *)
Headed(c) ==
    [c EXCEPT !.m_write_idx = Min({@ + HeaderLen, WriteBufferSize - 2})]

(* A page built in the write buffer: one iovec.                            *)
ErrorPage ==
    LET c == AddResponse(Headed(conn), PageLen) IN
    /\ code \in {"BAD_REQUEST", "FORBIDDEN_REQUEST", "INTERNAL_ERROR"}
    /\ Fits(Headed(conn), PageLen)
    /\ conn' = [c EXCEPT !.m_iv[1] = [base |-> 0, len |-> c.m_write_idx],
                         !.m_iv_count = 1,
                         !.bytes_to_send = c.m_write_idx]
    /\ pc' = "write"

(* A file: the header from the write buffer, the file from its mapping.    *)
FilePage ==
    LET c == Headed(conn) IN
    /\ code = "FILE_REQUEST" /\ conn.st_size # 0
    /\ conn' = [c EXCEPT !.m_iv = <<[base |-> 0, len |-> c.m_write_idx],
                                    [base |-> 0, len |-> c.st_size]>>,
                         !.m_iv_count = 2,
                         !.bytes_to_send = c.m_write_idx + c.st_size]
    /\ pc' = "write"

(* No page for a missing file; the page for an empty one is built, and the *)
(* case falls through to the default: close_conn, and process is false.  So*)
(* it is when the text of an error page does not fit any more.             *)
NoPage ==
    /\ \/ code = "NO_RESOURCE" /\ UNCHANGED conn
       \/ /\ code \in {"BAD_REQUEST", "FORBIDDEN_REQUEST", "INTERNAL_ERROR"}
          /\ ~Fits(Headed(conn), PageLen)
          /\ conn' = Headed(conn)
       \/ /\ code = "FILE_REQUEST" /\ conn.st_size = 0
          /\ conn' = AddResponse(Headed(conn), PageLen)
    /\ pc' = "end"

ProcessWrite ==
    /\ pc = "respond"
    /\ ErrorPage \/ FilePage \/ NoPage
    /\ UNCHANGED <<serverVars, decide_proxy, line_status, code, netVars,
                   outVars, leftVars>>

-----------------------------------------------------------------------------
(* write().                                                                *)

Units(src, iov) == [i \in 1..iov.len |-> <<src, iov.base + i - 1>>]

(* What the iovecs describe, in the order writev sends it.                 *)
Gathered(c) ==
    Units("header", c.m_iv[1]) \o
        (IF c.m_iv_count = 2 THEN Units("file", c.m_iv[2]) ELSE <<>>)

(* What the client should get: the write buffer, then the file.            *)
Response(c) ==
    Units("header", [base |-> 0, len |-> c.m_write_idx]) \o
        (IF c.m_iv_count = 2
         THEN Units("file", [base |-> 0, len |-> c.st_size]) ELSE <<>>)

(* Mutant of Advance: the file is sent from its start after every short    *)
(* write.                                                                  *)
AdvanceRestartsFile(c, n) ==
    LET have == c.bytes_have_send + n
        left == c.bytes_to_send - n
        d == [c EXCEPT !.bytes_have_send = have, !.bytes_to_send = left]
    IN  IF have >= c.m_iv[1].len
        THEN [d EXCEPT !.m_iv = <<[base |-> c.m_iv[1].base, len |-> 0],
                                  [base |-> 0, len |-> left]>>]
        ELSE [d EXCEPT !.m_iv[1] = [base |-> have,
                                    len |-> c.m_iv[1].len - have]]

(* write() after writev sent n units: the counters, then the iovecs.       *)
Advance(c, n) ==
    LET have == c.bytes_have_send + n
        left == c.bytes_to_send - n
        d == [c EXCEPT !.bytes_have_send = have, !.bytes_to_send = left]
    IN  IF have >= c.m_iv[1].len
        THEN [d EXCEPT !.m_iv = <<[base |-> c.m_iv[1].base, len |-> 0],
                                  [base |-> have - c.m_write_idx,
                                   len |-> left]>>]
        ELSE [d EXCEPT !.m_iv[1] = [base |-> have,
                                    len |-> c.m_iv[1].len - have]]

(* writev sends at least one unit; what was not mapped cannot be sent.     *)
Sendable(c) == IF c.m_file_address = "failed" /\ c.m_iv_count = 2
               THEN c.m_iv[1].len ELSE Len(Gathered(c))

Sends(n) ==
    /\ pc = "write" /\ ~stalled /\ n \in 1..Sendable(conn)
    /\ wire' = wire \o SubSeq(Gathered(conn), 1, n)
    /\ short' = short + (IF n < conn.m_iv[1].len THEN 1 ELSE 0)

(* A turn of the loop of write(): a part of the response is left.          *)
WriteSome(n) ==
    /\ Sends(n) /\ Advance(conn, n).bytes_to_send > 0
    /\ conn' = Advance(conn, n)
    /\ UNCHANGED <<serverVars, pc, decide_proxy, line_status, code,
                   netVars, answered, leftVars>>

(* The last turn: the response is complete.  init() prepares for the next  *)
(* request of a long connection; the connectionRAII of the turn ends.      *)
WriteLast(n) ==
    /\ Sends(n) /\ Advance(conn, n).bytes_to_send <= 0
    /\ LET c == Forget(Unmap(Advance(conn, n)))
       IN  conn' = IF conn.m_linger THEN Reset(c) ELSE c
    /\ pc' = IF conn.m_linger THEN "read" ELSE "end"
    /\ answered' = answered + 1 /\ request' = <<>>
    /\ again' = (again /\ ~conn.m_linger) /\ maps' = MapsUnmapped
    /\ UNCHANGED <<serverVars, decide_proxy, line_status, code, stream,
                   clients, sent, cuts, stalled, agains>>

(* Mutant of WriteFails: the error is taken for EAGAIN and tried again.    *)
WriteFailsRetries == pc = "write" /\ UNCHANGED vars

(* Mutant of WriteFails: the mapping stays.                                *)
WriteFailsMapped ==
    /\ pc = "write" /\ Gathered(conn) # <<>>
    /\ pc' = "end"
    /\ UNCHANGED <<serverVars, conn, decide_proxy, line_status, code,
                   netVars, outVars, leftVars>>

(* writev fails: the peer has gone, or nothing was mapped.                 *)
WriteFails ==
    /\ pc = "write" /\ Gathered(conn) # <<>>
    /\ conn' = Unmap(conn) /\ maps' = MapsUnmapped
    /\ pc' = "end"
    /\ UNCHANGED <<serverVars, decide_proxy, line_status, code,
                   netVars, outVars, again, agains>>

(* writev fails with EAGAIN, which do_io hands on only for a descriptor    *)
(* that the application has made non-blocking: write() returns true, and   *)
(* the next turn reads on with the buffers, the counters, the state of the *)
(* parser and the mapping of the request before.                           *)
WriteAgain ==
    /\ pc = "write" /\ agains < MaxAgains
    /\ again' = TRUE /\ agains' = agains + 1
    /\ pc' = "read"
    /\ UNCHANGED <<serverVars, conn, decide_proxy, line_status, code,
                   netVars, outVars, maps>>

(* Nothing left to gather although bytes_to_send is not zero: writev       *)
(* returns 0, and the loop of write() goes round.                          *)
WriteNothing ==
    /\ pc = "write" /\ Gathered(conn) = <<>>
    /\ UNCHANGED vars

-----------------------------------------------------------------------------
Client == (\E r \in Requests : ClientSend(r)) \/ ClientStops

(* What the fiber does by itself when it is scheduled.                     *)
Handler ==
    \/ (\E n \in 1..ReadBufferSize : ReadOnce(n))
    \/ TakeConnection \/ ParseNext \/ ParseContent \/ ParseEnds
    \/ DoRequest \/ ProcessWrite
    \/ (\E n \in 1..Sendable(conn) : WriteSome(n) \/ WriteLast(n))
    \/ (Sendable(conn) = 0 /\ WriteFails) \/ WriteNothing
    \/ CloseClient

(* How a recv or a writev that waits may end: nobody is sure to end it.  No*)
(* SO_SNDTIMEO is set, so do_io arms no timer for a writev.                *)
Network == ReadFails \/ WriteFails \/ WriteAgain

(* No more clients: the entry stays unused.                                *)
Unused == pc = "free" /\ clients = MaxClients /\ UNCHANGED vars

Next == HandleClient \/ Client \/ Handler \/ Network \/ Unused

Spec == Init /\ [][Next]_vars

(* The fiber is scheduled again whenever it has something to do.  Neither  *)
(* the client nor a timer need do anything.                                *)
FairSpec == Spec /\ WF_vars(Handler)

-----------------------------------------------------------------------------
(* Every variable has its type.                                            *)
TypeOK ==
    /\ pc \in {"free", "read", "connect", "parse", "do_request", "respond",
               "write", "end"}
    /\ conn.m_check_state \in {"REQUESTLINE", "HEADER", "CONTENT"}
    /\ Len(conn.m_read_buf) \in 0..ReadBufferSize
    /\ conn.m_checked_idx \in 0..Len(conn.m_read_buf)
    /\ conn.m_start_line \in 0..Len(conn.m_read_buf)
    /\ conn.m_write_idx \in 0..(WriteBufferSize - 2)
    /\ conn.bytes_to_send \in Nat /\ conn.bytes_have_send \in Nat
    /\ conn.m_file_address \in {"null", "mapped", "failed"}
    /\ maps \in Nat

(* Over any sequence of short writes, as long as no second one falls into  *)
(* the header: what the client has got and what the iovecs still describe  *)
(* is the response, in order and without a gap or a repetition, and a      *)
(* response that write() takes to be complete is complete.  (After an      *)
(* EAGAIN the next response follows the rest of this one, until init().)   *)
ResponseInOrder ==
    [][~again /\ short' <= 1 =>
          /\ pc' = "write" => wire' \o Gathered(conn') = Response(conn')
          /\ answered' > answered => wire' = Response(conn)]_vars

(* Whatever way write() ends, the mapping of a file is released with the  *)
(* response it was made for; only an EAGAIN loses one, and each at most    *)
(* one, although requests go on with the state it leaves, and later clients*)
(* of the same descriptor number with m_file_address.                      *)
MappingsReleased ==
    maps <= agains +
        (IF /\ conn.m_file_address = "mapped" /\ code = "FILE_REQUEST"
            /\ pc \in {"respond", "write"}
         THEN 1 ELSE 0)

(* The text is a line of the head of the request: of what process_read has *)
(* read of the buffer, whatever follows the head or stands within a line.  *)
LineStart(buf, i) == i = 0 \/ (i > 1 /\ buf[i] = LF /\ buf[i - 1] = CR)
HasLine(c, text) ==
    \E i \in 0..(c.m_start_line - 1) :
        LineStart(c.m_read_buf, i) /\ c.m_read_buf[i + 1] = text

(* A file is served only to requests that came the configured way: with    *)
(* nginx those with its header, without it those that have none.  (After an*)
(* EAGAIN the loop reads on behind a header it has refused.)               *)
ProxyAdmission ==
    pc \in {"respond", "write"} /\ code = "FILE_REQUEST" /\ ~again =>
        (HasLine(conn, "X-Forwarded-By") <=> ProxyType = 0)

(* However recv cuts what the client sends, and whatever it has left in the*)
(* stream of a request that was refused early: a file is sent only for a   *)
(* whole request, and what the parser knows of it is what it says, nothing *)
(* is left of an earlier one, of this client or of one before.  (But a POST*)
(* without Content-length has the m_string of an earlier one.)             *)
OwnRequest ==
    pc \in {"respond", "write"} /\ code = "FILE_REQUEST" /\ ~again =>
        \E r \in Requests :
            /\ IsPrefix(r, conn.m_read_buf)
            /\ conn.cgi <=> r[1] = "POST"
            /\ conn.m_content_length # 0 <=> Contains(r, "Content-length")
            /\ conn.m_content_length # 0 => conn.m_string = Len(r) - BodyLen

(* A request is answered or its connection closed, unless write() has lost *)
(* count of the header, has returned on EAGAIN, or waits in a writev for a *)
(* client that does not read.                                              *)
RequestEnds ==
    request # <<>> ~>
        request = <<>> \/ short > 1 \/ again \/ (stalled /\ pc = "write")

(* write ("the first buffer is sent, go on with the second"): what the     *)
(* client has got is the beginning of the response.                        *)
WirePrefix == pc = "write" => IsPrefix(wire, Response(conn))

=============================================================================
