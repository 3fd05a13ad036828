---------------------------- MODULE HttpConnProofs ----------------------------
(***************************************************************************)
(* Proofs about an entry of users, for any requests, any sizes of the      *)
(* buffers, of the headers, of the pages and of the files, any number of   *)
(* clients and of requests, and any way the network cuts what it carries.  *)
(***************************************************************************)
EXTENDS HttpConn, SequenceTheorems, WellFoundedInduction, TLAPS

Iov == [base : Int, len : Nat]
Iovs == Iov \X Iov
IovCounts == 0..2
WireUnits == {"header", "file"} \X Int
ConnRec ==
    [mysql : BOOLEAN, bytes_to_send : Nat, bytes_have_send : Nat,
     m_check_state : {"REQUESTLINE", "HEADER", "CONTENT"},
     m_content_length : {0, BodyLen}, m_start_line : Nat,
     m_checked_idx : Nat, m_write_idx : Nat, cgi : BOOLEAN,
     m_read_buf : Seq(STRING), m_string : Nat, m_linger : BOOLEAN,
     m_file_address : {"null", "mapped", "failed"}, st_size : Nat,
     m_iv : Iovs, m_iv_count : IovCounts]

TypeInv ==
    /\ ProxyType \in ProxyTypes /\ m_isKeepalive \in BOOLEAN
    /\ conn \in ConnRec
    /\ pc \in {"free", "read", "connect", "parse", "do_request", "respond",
               "write", "end"}
    /\ decide_proxy \in BOOLEAN
    /\ code \in {"NO_REQUEST", "GET_REQUEST", "BAD_REQUEST", "NO_RESOURCE",
                 "FILE_REQUEST"}
    /\ stream \in Seq(STRING)
    /\ wire \in Seq(WireUnits) /\ short \in Nat
    /\ answered \in Nat
    /\ again \in BOOLEAN /\ agains \in Nat /\ maps \in Nat

(* The indices stay within the buffers.                                    *)
BufInv ==
    /\ Len(conn.m_read_buf) <= ReadBufferSize
    /\ conn.m_checked_idx <= Len(conn.m_read_buf)
    /\ conn.m_start_line <= Len(conn.m_read_buf)
    /\ conn.m_write_idx <= WriteBufferSize - 2

(* From the start of a request to the end of its parsing nothing is sent;  *)
(* only an EAGAIN leaves the counters of the request before.               *)
Quiet ==
    pc \in {"read", "connect", "parse", "do_request", "respond"} =>
        /\ ~again => /\ conn.m_write_idx = 0 /\ conn.bytes_to_send = 0
                     /\ conn.bytes_have_send = 0
        /\ pc # "read" => wire = <<>> /\ short = 0

FreshInv ==
    ~again =>
        /\ pc \in {"read", "connect"} =>
            /\ conn.m_check_state = "REQUESTLINE" /\ conn.m_content_length = 0
            /\ ~conn.cgi /\ conn.m_start_line = 0 /\ conn.m_checked_idx = 0
        /\ pc = "read" => conn.m_read_buf = <<>>

(* The parser is at the start of a line, and decide_proxy says whether one *)
(* of the lines before was the header that nginx adds.                     *)
Forwarded == HasLine(conn, "X-Forwarded-By")
ParseInv ==
    ~again =>
        /\ pc = "parse" =>
            /\ conn.m_start_line = conn.m_checked_idx
            /\ LineStart(conn.m_read_buf, conn.m_start_line)
            /\ conn.m_check_state = "REQUESTLINE" => conn.m_start_line = 0
            /\ conn.m_check_state = "CONTENT" => conn.m_content_length # 0
        /\ pc \in {"parse", "do_request"} => (decide_proxy <=> ~Forwarded)

(* The response that is being made or sent is of a mapped file.            *)
FileMapped == conn.m_file_address = "mapped" /\ code = "FILE_REQUEST"
              /\ pc \in {"respond", "write"}

(* Every mapping that has no munmap yet is that of this response, or was   *)
(* lost by an EAGAIN; m_file_address is one of them.                       *)
MapInv ==
    /\ MappingsReleased
    /\ conn.m_file_address = "mapped" => maps >= 1
    /\ pc = "respond" /\ FileMapped => conn.st_size # 0

FileLen(c) == IF c.m_iv_count = 2 THEN c.st_size ELSE 0
Total(c) == c.m_write_idx + FileLen(c)

(* The iovecs never describe more than bytes_to_send.                      *)
SumInv ==
    pc = "write" =>
        /\ conn.m_iv_count \in {1, 2}
        /\ conn.m_iv[1].len
             + (IF conn.m_iv_count = 2 THEN conn.m_iv[2].len ELSE 0)
           <= conn.bytes_to_send

(* The i-th unit of the response.                                          *)
Unit(c, i) == IF i <= c.m_write_idx THEN <<"header", i - 1>>
              ELSE <<"file", i - c.m_write_idx - 1>>

(* As long as at most one write has left a part of the header, the counters*)
(* and the iovecs say the same: what is on the wire is the beginning of the*)
(* response, what they describe is the rest.                               *)
Exact ==
    LET w == conn.m_write_idx
        have == conn.bytes_have_send
    IN  /\ have <= Total(conn)
        /\ conn.bytes_to_send = Total(conn) - have
        /\ Len(wire) = have
        /\ \A i \in 1..have : wire[i] = Unit(conn, i)
        /\ \/ /\ have < w
              /\ conn.m_iv[1] = [base |-> have, len |-> w - have]
              /\ conn.m_iv_count = 2 =>
                     conn.m_iv[2] = [base |-> 0, len |-> conn.st_size]
           \/ /\ have >= w
              /\ conn.m_iv[1].len = 0
              /\ conn.m_iv[2] = [base |-> have - w,
                                 len |-> Total(conn) - have]
        /\ short = 0 => have = 0 \/ have >= w
ExactInv == pc = "write" /\ ~again /\ short <= 1 => Exact

Inv ==
    /\ TypeInv /\ BufInv /\ Quiet /\ FreshInv /\ ParseInv
    /\ MapInv /\ SumInv /\ ExactInv /\ ProxyAdmission

-----------------------------------------------------------------------------
(* The operations on the members of http_conn.                             *)

(* A non-empty set of numbers has a least member, and Min is it.           *)
LEMMA LeastMember ==
    ASSUME NEW S, S \subseteq Nat, S # {}
    PROVE  Min(S) \in S /\ \A y \in S : Min(S) =< y
<1>1. PICK x \in S : \A y \in S : ~ (<<y, x>> \in OpToRel(<, Nat))
  BY NatLessThanWellFounded, WFMin, Zenon
<1>2. \A y \in S : ~ (y < x)
  BY <1>1 DEF OpToRel
<1>3. \A y \in S : x =< y
  BY <1>2
<1> QED BY <1>3 DEF Min

(* The sizes of the buffers, the header and a page are numbers.            *)
LEMMA SizesNat ==
    /\ ReadBufferSize \in Nat /\ WriteBufferSize \in Nat /\ HeaderLen \in Nat
    /\ PageLen \in Nat /\ WriteBufferSize - 2 \in Nat
    /\ HeaderLen > 0 /\ WriteBufferSize - 2 > 0
  BY SizesAssumption

(* The smaller of two numbers.                                             *)
LEMMA MinOfTwo ==
    ASSUME NEW a \in Nat, NEW b \in Nat
    PROVE  Min({a, b}) \in {a, b} /\ Min({a, b}) <= a /\ Min({a, b}) <= b
<1>1. {a, b} \subseteq Nat /\ {a, b} # {} /\ a \in {a, b} /\ b \in {a, b}
  OBVIOUS
<1>2. PICK S : S = {a, b}
  OBVIOUS
<1>3. Min(S) \in S /\ \A y \in S : Min(S) =< y
  BY <1>1, <1>2, LeastMember
<1> QED BY <1>1, <1>2, <1>3

(* init() empties the buffers and the parser state of a connection and     *)
(* leaves its mapping alone.                                               *)
LEMMA ResetClears ==
    ASSUME NEW c \in ConnRec
    PROVE  /\ Reset(c) \in ConnRec
           /\ Reset(c).m_read_buf = <<>>
           /\ Reset(c).m_check_state = "REQUESTLINE"
           /\ Reset(c).m_content_length = 0 /\ ~Reset(c).cgi
           /\ Reset(c).m_start_line = 0 /\ Reset(c).m_checked_idx = 0
           /\ Reset(c).m_write_idx = 0 /\ Reset(c).bytes_to_send = 0
           /\ Reset(c).bytes_have_send = 0
           /\ Reset(c).m_file_address = c.m_file_address
<1>1. <<>> \in Seq(STRING) OBVIOUS
<1>2. Reset(c) \in ConnRec
  BY <1>1 DEF ConnRec, Reset
<1>3. Reset(c).cgi = FALSE BY DEF ConnRec, Reset
<1> QED BY <1>2, <1>3 DEF ConnRec, Reset

NoIovs == <<NoIov, NoIov>>

(* Forget and unmap() keep the type of a connection and what has been      *)
(* read and parsed; unmap() ends the mapping.                              *)
LEMMA ForgetUnmapType ==
    ASSUME NEW c \in ConnRec
    PROVE  /\ Forget(c) \in ConnRec /\ Unmap(c) \in ConnRec
           /\ Forget(c).m_read_buf = c.m_read_buf
           /\ Forget(c).m_checked_idx = c.m_checked_idx
           /\ Forget(c).m_start_line = c.m_start_line
           /\ Forget(c).m_write_idx = c.m_write_idx
           /\ Forget(c).m_file_address = c.m_file_address
           /\ Unmap(c).m_read_buf = c.m_read_buf
           /\ Unmap(c).m_checked_idx = c.m_checked_idx
           /\ Unmap(c).m_start_line = c.m_start_line
           /\ Unmap(c).m_write_idx = c.m_write_idx
           /\ Unmap(c).m_file_address = "null"
<1>1. NoIovs \in Iovs
  BY DEF NoIovs, NoIov, Iov, Iovs
<1>2. Forget(c) = [c EXCEPT !.m_iv = NoIovs, !.m_iv_count = 0, !.st_size = 0]
  BY DEF Forget, NoIovs
<1>3. Forget(c) \in ConnRec
  <2>1. 0 \in IovCounts /\ 0 \in Nat
    BY DEF IovCounts
  <2> QED BY <1>1, <1>2, <2>1, ZenonT(30) DEF ConnRec
<1>4. Unmap(c) \in ConnRec
  BY DEF ConnRec, Unmap
<1> QED BY <1>2, <1>3, <1>4 DEF ConnRec, Unmap

(* add_response changes m_write_idx only, and never beyond the last byte   *)
(* of the write buffer.                                                    *)
LEMMA AddResponseType ==
    ASSUME NEW c \in ConnRec, NEW len \in Nat,
           c.m_write_idx <= WriteBufferSize - 2
    PROVE  /\ AddResponse(c, len) =
                [c EXCEPT !.m_write_idx = AddResponse(c, len).m_write_idx]
           /\ AddResponse(c, len) \in ConnRec
           /\ AddResponse(c, len).m_write_idx <= WriteBufferSize - 2
<1>1. CASE Fits(c, len)
  <2>1. AddResponse(c, len) = [c EXCEPT !.m_write_idx = c.m_write_idx + len]
    BY <1>1 DEF AddResponse
  <2>2. c.m_write_idx + len \in Nat
        /\ c.m_write_idx + len <= WriteBufferSize - 2
    <3>1. c.m_write_idx \in Nat
      BY DEF ConnRec
    <3> QED BY <1>1, <3>1, SizesNat DEF Fits
  <2>3. AddResponse(c, len).m_write_idx = c.m_write_idx + len
    BY <2>1 DEF ConnRec
  <2>4. AddResponse(c, len) \in ConnRec
    BY <2>1, <2>2 DEF ConnRec
  <2> QED BY <2>1, <2>2, <2>3, <2>4
<1>2. CASE ~Fits(c, len)
  <2>1. AddResponse(c, len) = c
    BY <1>2 DEF AddResponse
  <2>2. c = [c EXCEPT !.m_write_idx = c.m_write_idx]
    BY DEF ConnRec
  <2> QED BY <2>1, <2>2
<1> QED BY <1>1, <1>2

-----------------------------------------------------------------------------
(* parse_line, from the start of a line: m_checked_idx stays within the    *)
(* buffer; a complete line ends with the first LF, which follows a CR, and *)
(* the next line starts behind it.                                         *)
At(c, i) == c.m_read_buf[i + 1]
Stops(c) ==
    {i \in c.m_checked_idx..(Len(c.m_read_buf) - 1) :
       \/ At(c, i) = LF
       \/ At(c, i) = CR /\ (i + 1 = Len(c.m_read_buf) \/ At(c, i + 1) = LF)}
Stop(c) == Min(Stops(c))
Parsed(s, k, e) == [status |-> s, checked |-> k, end |-> e]

(* The three ways parse_line ends: at the end of the buffer, at a CR, at   *)
(* another character that stops it.                                        *)
LEMMA ParseLineIs ==
    ASSUME NEW c
    PROVE  /\ Stops(c) = {} => ParseLine(c) =
                Parsed("LINE_OPEN", Len(c.m_read_buf), Len(c.m_read_buf))
           /\ Stops(c) # {} /\ At(c, Stop(c)) = CR =>
                ParseLine(c) = IF Stop(c) + 1 = Len(c.m_read_buf)
                               THEN Parsed("LINE_OPEN", Stop(c), Stop(c))
                               ELSE Parsed("LINE_OK", Stop(c) + 2, Stop(c))
           /\ Stops(c) # {} /\ At(c, Stop(c)) # CR =>
                ParseLine(c) =
                  IF /\ At(c, Stop(c)) = LF /\ Stop(c) > 1
                     /\ At(c, Stop(c) - 1) = CR
                  THEN Parsed("LINE_OK", Stop(c) + 1, Stop(c) - 1)
                  ELSE Parsed("LINE_BAD", Stop(c), Stop(c))
<1>1. ParseLine(c) =
        CASE Stops(c) = {} ->
               Parsed("LINE_OPEN", Len(c.m_read_buf), Len(c.m_read_buf))
          [] Stops(c) # {} /\ At(c, Stop(c)) = CR
               /\ Stop(c) + 1 = Len(c.m_read_buf) ->
               Parsed("LINE_OPEN", Stop(c), Stop(c))
          [] Stops(c) # {} /\ At(c, Stop(c)) = CR
               /\ Stop(c) + 1 # Len(c.m_read_buf) ->
               Parsed("LINE_OK", Stop(c) + 2, Stop(c))
          [] Stops(c) # {} /\ At(c, Stop(c)) = LF /\ Stop(c) > 1
               /\ At(c, Stop(c) - 1) = CR ->
               Parsed("LINE_OK", Stop(c) + 1, Stop(c) - 1)
          [] OTHER -> Parsed("LINE_BAD", Stop(c), Stop(c))
  BY DEF ParseLine, Stops, Stop, At, Parsed
<1>2. CR # LF
  BY DEF CR, LF
<1> QED BY <1>1, <1>2

(* parse_line stops at the first CR or LF it has not yet checked.          *)
LEMMA StopIsLeast ==
    ASSUME NEW c \in ConnRec, Stops(c) # {}
    PROVE  Stop(c) \in Stops(c) /\ \A j \in Stops(c) : Stop(c) <= j
<1>1. Stops(c) \subseteq Nat
  BY DEF Stops, ConnRec
<1> QED BY <1>1, LeastMember DEF Stop

(* parse_line leaves m_checked_idx inside what has been read.              *)
LEMMA ParseLineChecked ==
    ASSUME NEW c \in ConnRec, c.m_checked_idx <= Len(c.m_read_buf)
    PROVE  ParseLine(c).checked \in 0..Len(c.m_read_buf)
<1>1. Len(c.m_read_buf) \in Nat /\ c.m_checked_idx \in Nat
  BY DEF ConnRec
<1>2. CASE Stops(c) = {}
  BY <1>1, <1>2, ParseLineIs DEF Parsed
<1>3. CASE Stops(c) # {}
  <2>1. Stop(c) \in c.m_checked_idx..(Len(c.m_read_buf) - 1)
    BY <1>3, StopIsLeast DEF Stops
  <2>2. \/ ParseLine(c).checked \in {Stop(c), Stop(c) + 1}
        \/ /\ ParseLine(c).checked = Stop(c) + 2
           /\ Stop(c) + 1 # Len(c.m_read_buf)
    <3>1. CASE At(c, Stop(c)) = CR
      BY <1>3, <3>1, ParseLineIs DEF Parsed
    <3>2. CASE At(c, Stop(c)) # CR
      BY <1>3, <3>2, ParseLineIs DEF Parsed
    <3> QED BY <3>1, <3>2
  <2> QED BY <1>1, <2>1, <2>2
<1> QED BY <1>2, <1>3

(* When parse_line reports a line, the line ends in CR LF, both have been  *)
(* read, no LF comes before them, and m_checked_idx is behind them.        *)
LEMMA ParseLineOk ==
    ASSUME NEW c \in ConnRec, c.m_checked_idx <= Len(c.m_read_buf),
           LineStart(c.m_read_buf, c.m_checked_idx),
           ParseLine(c).status = "LINE_OK"
    PROVE  \E i \in Nat :
              /\ c.m_checked_idx <= i /\ i + 2 <= Len(c.m_read_buf)
              /\ c.m_read_buf[i + 1] = CR /\ c.m_read_buf[i + 2] = LF
              /\ \A j \in c.m_checked_idx..i : c.m_read_buf[j + 1] # LF
              /\ ParseLine(c).checked = i + 2 /\ ParseLine(c).end = i
<1>1. Len(c.m_read_buf) \in Nat /\ c.m_checked_idx \in Nat
  BY DEF ConnRec
<1>2. Stops(c) # {}
  BY ParseLineIs DEF Parsed
<1>3. PICK i : i = Stop(c)
  OBVIOUS
<1>4. /\ i \in c.m_checked_idx..(Len(c.m_read_buf) - 1)
      /\ \/ At(c, i) = LF
         \/ At(c, i) = CR /\ (i + 1 = Len(c.m_read_buf) \/ At(c, i + 1) = LF)
      /\ \A j \in Stops(c) : i <= j
  BY <1>2, <1>3, StopIsLeast DEF Stops
<1>5. CR # LF
  BY DEF CR, LF
<1>6. CASE At(c, i) = CR
  <2>1. i + 1 # Len(c.m_read_buf)
        /\ ParseLine(c).checked = i + 2 /\ ParseLine(c).end = i
    BY <1>2, <1>3, <1>5, <1>6, ParseLineIs DEF Parsed
  <2>2. At(c, i + 1) = LF /\ i + 2 <= Len(c.m_read_buf)
    BY <1>1, <1>4, <1>5, <1>6, <2>1
  <2>3. \A j \in c.m_checked_idx..i : At(c, j) # LF
    <3> SUFFICES ASSUME NEW j \in c.m_checked_idx..i, At(c, j) = LF
                 PROVE  FALSE
      OBVIOUS
    <3>1. j \in Stops(c)
      BY <1>1, <1>4 DEF Stops
    <3> QED BY <1>1, <1>4, <1>5, <1>6, <3>1
  <2>4. i \in Nat /\ c.m_checked_idx <= i /\ (i + 1) + 1 = i + 2
    BY <1>1, <1>4
  <2> QED BY <1>6, <2>1, <2>2, <2>3, <2>4 DEF At
<1>7. CASE At(c, i) # CR
  <2>1. i > 1 /\ At(c, i - 1) = CR
    BY <1>2, <1>3, <1>7, ParseLineIs DEF Parsed
  <2>2. i - 1 \notin Stops(c)
    BY <1>1, <1>4
  <2>3. i = c.m_checked_idx
    <3> SUFFICES ASSUME i # c.m_checked_idx PROVE FALSE
      OBVIOUS
    <3>1. /\ i - 1 \in c.m_checked_idx..(Len(c.m_read_buf) - 1)
          /\ (i - 1) + 1 = i
      BY <1>1, <1>4
    <3> QED BY <1>4, <1>7, <2>1, <2>2, <3>1 DEF Stops
  <2>4. At(c, i - 1) = LF
    BY <1>1, <2>1, <2>3 DEF LineStart, At
  <2> QED BY <1>5, <2>1, <2>4
<1> QED BY <1>6, <1>7

-----------------------------------------------------------------------------
(* What the iovecs describe, unit by unit.                                 *)

(* The units an iovec describes: as many as its length, consecutive from   *)
(* its base.                                                               *)
LEMMA UnitsAre ==
    ASSUME NEW src \in {"header", "file"}, NEW v \in Iov
    PROVE  /\ Units(src, v) \in Seq(WireUnits)
           /\ Len(Units(src, v)) = v.len
           /\ \A i \in 1..v.len : Units(src, v)[i] = <<src, v.base + i - 1>>
<1>1. v.len \in Nat /\ v.base \in Int
  BY DEF Iov
<1>2. Units(src, v) = [i \in 1..v.len |-> <<src, v.base + i - 1>>]
  BY DEF Units
<1>3. \A i \in 1..v.len : <<src, v.base + i - 1>> \in WireUnits
  BY <1>1 DEF WireUnits
<1>4. Units(src, v) \in [1..v.len -> WireUnits]
  BY <1>2, <1>3
<1>5. Units(src, v) \in Seq(WireUnits)
  BY <1>1, <1>4, SeqDef
<1>6. Len(Units(src, v)) = v.len
  BY <1>1, <1>4, <1>5, LenProperties
<1> QED BY <1>2, <1>5, <1>6

(* The header from x, then the file from y if there are two.               *)
Parts(x, y, k) ==
    Units("header", x) \o (IF k = 2 THEN Units("file", y) ELSE <<>>)
PartsLen(x, y, k) == x.len + (IF k = 2 THEN y.len ELSE 0)

(* The units of the first one or two iovecs: those of the header, then     *)
(* those of the file.                                                      *)
LEMMA PartsAre ==
    ASSUME NEW x \in Iov, NEW y \in Iov, NEW k
    PROVE  /\ Parts(x, y, k) \in Seq(WireUnits)
           /\ PartsLen(x, y, k) \in Nat
           /\ Len(Parts(x, y, k)) = PartsLen(x, y, k)
           /\ \A i \in 1..PartsLen(x, y, k) :
                Parts(x, y, k)[i] =
                  IF i <= x.len THEN <<"header", x.base + i - 1>>
                                ELSE <<"file", y.base + (i - x.len) - 1>>
<1>1. x.len \in Nat /\ y.len \in Nat
  BY DEF Iov
<1>2. PICK f : f = IF k = 2 THEN Units("file", y) ELSE <<>>
  OBVIOUS
<1>3. PICK h : h = Units("header", x)
  OBVIOUS
<1>4. /\ f \in Seq(WireUnits)
      /\ Len(f) = IF k = 2 THEN y.len ELSE 0
      /\ \A i \in 1..Len(f) : f[i] = <<"file", y.base + i - 1>>
  <2>1. CASE k = 2
    BY <1>1, <1>2, <2>1, UnitsAre
  <2>2. CASE k # 2
    BY <1>2, <2>2, EmptySeq
  <2> QED BY <2>1, <2>2
<1>5. /\ h \in Seq(WireUnits) /\ Len(h) = x.len
      /\ \A i \in 1..x.len : h[i] = <<"header", x.base + i - 1>>
  BY <1>3, UnitsAre
<1>6. /\ h \o f \in Seq(WireUnits) /\ Len(h \o f) = Len(h) + Len(f)
      /\ \A i \in 1..(Len(h) + Len(f)) :
           (h \o f)[i] = IF i <= Len(h) THEN h[i] ELSE f[i - Len(h)]
  BY <1>4, <1>5, ConcatProperties
<1>7. Parts(x, y, k) = h \o f /\ PartsLen(x, y, k) = Len(h) + Len(f)
  BY <1>2, <1>3, <1>4, <1>5 DEF Parts, PartsLen
<1>8. Len(h) \in Nat /\ Len(f) \in Nat
  BY <1>1, <1>4, <1>5
<1>9. ASSUME NEW i \in 1..(Len(h) + Len(f))
      PROVE  (h \o f)[i] = IF i <= x.len THEN <<"header", x.base + i - 1>>
                           ELSE <<"file", y.base + (i - x.len) - 1>>
  <2>1. CASE i <= x.len
    BY <1>5, <1>6, <1>8, <2>1
  <2>2. CASE ~(i <= x.len)
    <3>1. i - Len(h) \in 1..Len(f)
      BY <1>5, <1>8, <2>2
    <3> QED BY <1>4, <1>5, <1>6, <2>2, <3>1
  <2> QED BY <2>1, <2>2
<1> QED BY <1>6, <1>7, <1>8, <1>9

(* Both iovecs of a connection are iovecs.                                 *)
LEMMA IovsOf ==
    ASSUME NEW c \in ConnRec
    PROVE  c.m_iv[1] \in Iov /\ c.m_iv[2] \in Iov
<1>1. c.m_iv \in Iovs
  BY DEF ConnRec
<1> QED BY <1>1 DEF Iovs

Described(c) == PartsLen(c.m_iv[1], c.m_iv[2], c.m_iv_count)

(* What a writev of the connection would send: the units its iovecs        *)
(* describe, in order.                                                     *)
LEMMA GatheredAre ==
    ASSUME NEW c \in ConnRec
    PROVE  /\ Gathered(c) \in Seq(WireUnits)
           /\ Described(c) \in Nat
           /\ Len(Gathered(c)) = Described(c)
           /\ \A i \in 1..Described(c) :
                Gathered(c)[i] =
                  IF i <= c.m_iv[1].len
                  THEN <<"header", c.m_iv[1].base + i - 1>>
                  ELSE <<"file", c.m_iv[2].base + (i - c.m_iv[1].len) - 1>>
<1>1. PICK x \in Iov, y \in Iov : x = c.m_iv[1] /\ y = c.m_iv[2]
  BY IovsOf
<1>2. Gathered(c) = Parts(x, y, c.m_iv_count)
  BY <1>1 DEF Gathered, Parts
<1>3. Described(c) = PartsLen(x, y, c.m_iv_count)
  BY <1>1 DEF Described
<1>4. /\ Gathered(c) \in Seq(WireUnits)
      /\ Described(c) \in Nat
      /\ Len(Gathered(c)) = Described(c)
      /\ \A i \in 1..Described(c) :
           Gathered(c)[i] =
             IF i <= x.len THEN <<"header", x.base + i - 1>>
                           ELSE <<"file", y.base + (i - x.len) - 1>>
  BY <1>2, <1>3, PartsAre
<1> QED BY <1>1, <1>4

(* The whole response, unit by unit: the header, then the file.            *)
LEMMA ResponseIs ==
    ASSUME NEW c \in ConnRec
    PROVE  /\ Response(c) \in Seq(WireUnits)
           /\ Total(c) \in Nat
           /\ Len(Response(c)) = Total(c)
           /\ \A i \in 1..Total(c) : Response(c)[i] = Unit(c, i)
<1>1. c.m_write_idx \in Nat /\ c.st_size \in Nat
  BY DEF ConnRec
<1>i. /\ [base |-> 0, len |-> c.m_write_idx] \in Iov
      /\ [base |-> 0, len |-> c.st_size] \in Iov
  BY <1>1 DEF Iov
<1>2. PICK x \in Iov : x = [base |-> 0, len |-> c.m_write_idx]
  BY <1>i
<1>3. PICK y \in Iov : y = [base |-> 0, len |-> c.st_size]
  BY <1>i
<1>4. Response(c) = Parts(x, y, c.m_iv_count)
  BY <1>2, <1>3 DEF Response, Parts
<1>5. PartsLen(x, y, c.m_iv_count) = Total(c)
  BY <1>2, <1>3 DEF PartsLen, Total, FileLen
<1>7. x.base = 0 /\ x.len = c.m_write_idx /\ y.base = 0
  BY <1>2, <1>3
<1>8. /\ Response(c) \in Seq(WireUnits)
      /\ Total(c) \in Nat
      /\ Len(Response(c)) = Total(c)
      /\ \A i \in 1..Total(c) : Response(c)[i] =
           IF i <= x.len THEN <<"header", x.base + i - 1>>
                         ELSE <<"file", y.base + (i - x.len) - 1>>
  <2>1. PICK k : k = c.m_iv_count
    OBVIOUS
  <2>2. Response(c) = Parts(x, y, k) /\ Total(c) = PartsLen(x, y, k)
    BY <1>4, <1>5, <2>1
  <2>3. /\ Parts(x, y, k) \in Seq(WireUnits)
        /\ PartsLen(x, y, k) \in Nat
        /\ Len(Parts(x, y, k)) = PartsLen(x, y, k)
        /\ \A i \in 1..PartsLen(x, y, k) :
             Parts(x, y, k)[i] =
               IF i <= x.len THEN <<"header", x.base + i - 1>>
                             ELSE <<"file", y.base + (i - x.len) - 1>>
    BY PartsAre
  <2> QED BY <2>2, <2>3
<1>9. \A i \in 1..Total(c) : Response(c)[i] = Unit(c, i)
  BY <1>1, <1>7, <1>8 DEF Unit
<1> QED BY <1>8, <1>9

-----------------------------------------------------------------------------
(* The invariant holds initially.                                          *)
LEMMA InvInit == Init => Inv
<1> SUFFICES ASSUME Init PROVE Inv OBVIOUS
<1>1. 0 \in IovCounts /\ <<>> \in Seq(STRING)
  BY DEF IovCounts
<1>2. conn \in ConnRec
  <2>1. <<NoIov, NoIov>> \in Iovs
    BY DEF NoIov, Iov, Iovs
  <2>2. 0 \in Nat
    OBVIOUS
  <2> QED BY <1>1, <2>1, <2>2, Zenon DEF Init, ConnRec
<1>3. ProxyType \in ProxyTypes /\ m_isKeepalive \in BOOLEAN
  BY DEF Init, InitProxy
<1>4. stream \in Seq(STRING) /\ wire \in Seq(WireUnits)
  BY DEF Init
<1>5. decide_proxy \in BOOLEAN /\ again \in BOOLEAN
  BY DEF Init
<1>6. TypeInv
  BY <1>2, <1>3, <1>4, <1>5 DEF Init, TypeInv
<1>7. BufInv
  BY SizesNat, SizesAssumption DEF Init, BufInv
<1>8. Quiet /\ FreshInv /\ ParseInv /\ SumInv /\ ExactInv /\ ProxyAdmission
  BY DEF Init, Quiet, FreshInv, ParseInv, SumInv, ExactInv, ProxyAdmission
<1>9. MapInv
  BY DEF Init, MapInv, MappingsReleased, FileMapped
<1> QED BY <1>6, <1>7, <1>8, <1>9 DEF Inv

(* A step that leaves the entry and the response alone.                    *)
LEMMA FrameStep ==
    ASSUME Inv, stream' \in Seq(STRING),
           UNCHANGED <<serverVars, conn, pc, decide_proxy, code, outVars,
                       leftVars>>
    PROVE  Inv'
<1> USE DEF serverVars, outVars, leftVars
<1>1. TypeInv' /\ BufInv' /\ Quiet' /\ FreshInv'
  BY DEF Inv, TypeInv, BufInv, Quiet, FreshInv
<1>2. ParseInv' /\ ProxyAdmission'
  BY DEF Inv, ParseInv, ProxyAdmission, Forwarded, HasLine, LineStart
<1>3. SumInv' /\ ExactInv'
  BY DEF Inv, SumInv, ExactInv, Exact, Total, FileLen, Unit
<1>4. MapInv'
  BY DEF Inv, MapInv, MappingsReleased, FileMapped
<1> QED BY <1>1, <1>2, <1>3, <1>4 DEF Inv

(* A step that maps and unmaps nothing: the count of the mappings still    *)
(* agrees unless the response of a mapped file is left.                    *)
LEMMA MapKept ==
    ASSUME Inv, UNCHANGED <<agains, maps>>,
           conn'.m_file_address = conn.m_file_address,
           FileMapped => FileMapped',
           pc' = "respond" => code' # "FILE_REQUEST"
    PROVE  MapInv'
<1>1. agains \in Nat /\ maps \in Nat
  BY DEF Inv, TypeInv
<1>2. maps <= agains + (IF FileMapped THEN 1 ELSE 0)
  BY DEF Inv, MapInv, MappingsReleased, FileMapped
<1>3. maps' <= agains' + (IF FileMapped' THEN 1 ELSE 0)
  BY <1>1, <1>2
<1>4. MappingsReleased'
  BY <1>3 DEF MappingsReleased, FileMapped
<1>5. conn'.m_file_address = "mapped" => maps' >= 1
  BY DEF Inv, MapInv
<1> QED BY <1>4, <1>5 DEF MapInv, FileMapped

(* unmap() at the end of write(), when a mapping of this or of an earlier  *)
(* response is there: one less, and the count agrees.                      *)
LEMMA UnmapStep ==
    ASSUME Inv, maps' = MapsUnmapped, agains' = agains,
           conn'.m_file_address = "null"
    PROVE  MapInv' /\ maps' \in Nat
<1>1. agains \in Nat /\ maps \in Nat
  BY DEF Inv, TypeInv
<1>2. maps <= agains + (IF FileMapped THEN 1 ELSE 0)
  BY DEF Inv, MapInv, MappingsReleased, FileMapped
<1>3. conn.m_file_address = "mapped" => maps >= 1
  BY DEF Inv, MapInv
<1>4. maps' \in Nat /\ maps' <= agains'
  <2>1. CASE conn.m_file_address = "mapped"
    <3>1. maps' = maps - 1
      BY <2>1 DEF MapsUnmapped
    <3> QED BY <1>1, <1>2, <1>3, <2>1, <3>1
  <2>2. CASE conn.m_file_address # "mapped"
    <3>1. maps' = maps /\ ~FileMapped
      BY <2>2 DEF MapsUnmapped, FileMapped
    <3> QED BY <1>1, <1>2, <3>1
  <2> QED BY <2>1, <2>2
<1>5. conn'.m_file_address # "mapped"
  OBVIOUS
<1>6. MappingsReleased'
  BY <1>1, <1>4, <1>5 DEF MappingsReleased
<1> QED BY <1>4, <1>5, <1>6 DEF MapInv, FileMapped

(* A step after which the handler is about to close, or has closed.        *)
LEMMA EndStep ==
    ASSUME TypeInv', BufInv', MapInv', pc' \in {"end", "free"}
    PROVE  Inv'
  BY DEF Inv, Quiet, FreshInv, ParseInv, SumInv, ExactInv, ProxyAdmission

(* A step after which the entry waits for a request, with init() done.     *)
LEMMA ReadStep ==
    ASSUME TypeInv', MapInv', pc' = "read", NEW c \in ConnRec,
           conn' = Reset(c)
    PROVE  Inv'
<1>1. BufInv'
  BY ResetClears, SizesNat, EmptySeq DEF BufInv
<1>2. Quiet' /\ FreshInv'
  BY ResetClears DEF Quiet, FreshInv
<1>3. ParseInv' /\ SumInv' /\ ExactInv' /\ ProxyAdmission'
  BY DEF ParseInv, SumInv, ExactInv, ProxyAdmission
<1> QED BY <1>1, <1>2, <1>3 DEF Inv

(* Data arriving from the client preserves the invariant: no member of     *)
(* the connection changes.                                                 *)
LEMMA ClientSendStep ==
    ASSUME Inv, NEW r \in Requests, ClientSend(r)
    PROVE  Inv'
<1>1. stream \in Seq(STRING) /\ r \in Seq(STRING)
  BY RequestsAssumption DEF Inv, TypeInv
<1>2. stream' \in Seq(STRING)
  BY <1>1, ConcatProperties DEF ClientSend
<1> QED BY <1>2, FrameStep DEF ClientSend

(* A client that stops reading preserves the invariant.                    *)
LEMMA ClientStopsStep ==
    ASSUME Inv, ClientStops
    PROVE  Inv'
<1>1. stream' \in Seq(STRING)
  BY DEF Inv, TypeInv, ClientStops
<1> QED BY <1>1, FrameStep DEF ClientStops

(* The start of handleClient preserves the invariant: init() has cleared   *)
(* the entry of the previous client.                                       *)
LEMMA HandleClientStep ==
    ASSUME Inv, HandleClient
    PROVE  Inv'
<1>1. conn \in ConnRec /\ m_isKeepalive \in BOOLEAN
  BY DEF Inv, TypeInv
<1>2. PICK c : c = [conn EXCEPT !.m_linger = m_isKeepalive]
  OBVIOUS
<1>3. c \in ConnRec /\ c.m_file_address = conn.m_file_address
  BY <1>1, <1>2 DEF ConnRec
<1>4. conn' = Reset(c) /\ pc' = "read"
  BY <1>2 DEF HandleClient, InitClient
<1>5. conn'  \in ConnRec
  BY <1>3, <1>4, ResetClears
<1>6. TypeInv'
  <2>1. again' \in BOOLEAN
    BY DEF HandleClient
  <2> QED BY <1>4, <1>5, <2>1
          DEF Inv, TypeInv, HandleClient, serverVars, outVars
<1>7. MapInv'
  <2>1. conn'.m_file_address = conn.m_file_address
    BY <1>3, <1>4, ResetClears
  <2> QED BY <2>1, MapKept DEF HandleClient, FileMapped
<1> QED BY <1>3, <1>4, <1>6, <1>7, ReadStep

(* read_once preserves the invariant: it appends behind what was read,     *)
(* within the buffer.                                                      *)
LEMMA ReadOnceStep ==
    ASSUME Inv, NEW n \in 1..ReadBufferSize, ReadOnce(n)
    PROVE  Inv'
<1>1. conn \in ConnRec /\ conn.m_read_buf \in Seq(STRING)
      /\ stream \in Seq(STRING) /\ n \in Nat
  BY SizesNat DEF Inv, TypeInv, ConnRec
<1>2. PICK b : b = conn.m_read_buf \o SubSeq(stream, 1, n)
  OBVIOUS
<1>3. conn' = [conn EXCEPT !.m_read_buf = b] /\ pc = "read" /\ pc' = "connect"
      /\ wire' = <<>> /\ short' = 0
      /\ UNCHANGED <<ProxyType, m_isKeepalive, decide_proxy, code, answered,
                     again, agains, maps>>
  BY <1>2 DEF ReadOnce, serverVars, leftVars
<1>4. /\ SubSeq(stream, 1, n) \in Seq(STRING)
      /\ Len(SubSeq(stream, 1, n)) = n
  <2>1. n <= Len(stream) /\ Len(stream) \in Nat
    BY <1>1 DEF ReadOnce
  <2>2. \A i \in 1..n : stream[i] \in STRING
    BY <1>1, <2>1, ElementOfSeq
  <2> QED BY <1>1, <2>2, SubSeqProperties
<1>5. stream' \in Seq(STRING)
  <2>1. stream' = SubSeq(stream, n + 1, Len(stream))
    BY DEF ReadOnce
  <2>2. \A i \in (n + 1)..Len(stream) : stream[i] \in STRING
    BY <1>1, ElementOfSeq
  <2> QED BY <1>1, <2>1, <2>2, SubSeqProperties
<1>6. b \in Seq(STRING) /\ Len(b) = Len(conn.m_read_buf) + n
  BY <1>1, <1>2, <1>4, ConcatProperties
<1>7. Len(b) \in Nat /\ Len(b) <= ReadBufferSize
  <2>1. n <= ReadBufferSize - Len(conn.m_read_buf)
        /\ Len(conn.m_read_buf) \in Nat
    BY <1>1 DEF ReadOnce
  <2> QED BY <1>1, <1>6, <2>1, SizesNat
<1>8. /\ conn' \in ConnRec /\ conn'.m_read_buf = b
      /\ conn'.m_checked_idx = conn.m_checked_idx
      /\ conn'.m_start_line = conn.m_start_line
      /\ conn'.m_write_idx = conn.m_write_idx
      /\ conn'.bytes_to_send = conn.bytes_to_send
      /\ conn'.bytes_have_send = conn.bytes_have_send
      /\ conn'.m_check_state = conn.m_check_state
      /\ conn'.m_content_length = conn.m_content_length
      /\ conn'.cgi = conn.cgi
      /\ conn'.m_file_address = conn.m_file_address
  BY <1>1, <1>3, <1>6 DEF ConnRec
<1>9. TypeInv'
  BY <1>3, <1>5, <1>8 DEF Inv, TypeInv
<1>10. BufInv'
  <2>1. /\ Len(conn.m_read_buf) \in Nat /\ conn.m_checked_idx \in Nat
        /\ conn.m_start_line \in Nat
    BY <1>1 DEF ConnRec
  <2>2. /\ conn.m_checked_idx <= Len(conn.m_read_buf)
        /\ conn.m_start_line <= Len(conn.m_read_buf)
        /\ conn.m_write_idx <= WriteBufferSize - 2
    BY DEF Inv, BufInv
  <2>3. conn.m_checked_idx <= Len(b) /\ conn.m_start_line <= Len(b)
    BY <1>1, <1>6, <2>1, <2>2
  <2> QED BY <1>7, <1>8, <2>2, <2>3 DEF BufInv
<1>11. Quiet' /\ FreshInv'
  BY <1>3, <1>8 DEF Inv, Quiet, FreshInv
<1>12. ParseInv' /\ SumInv' /\ ExactInv' /\ ProxyAdmission'
  BY <1>3 DEF ParseInv, SumInv, ExactInv, ProxyAdmission
<1>13. MapInv'
  BY <1>3, <1>8, MapKept DEF FileMapped
<1> QED BY <1>9, <1>10, <1>11, <1>12, <1>13 DEF Inv

(* Taking a connection from the pool, or finding none, preserves the       *)
(* invariant.                                                              *)
LEMMA TakeConnectionStep ==
    ASSUME Inv, TakeConnection
    PROVE  Inv'
<1>1. conn \in ConnRec
  BY DEF Inv, TypeInv
<1>2. PICK got \in BOOLEAN : conn' = [conn EXCEPT !.mysql = got]
  BY DEF TakeConnection
<1>3. /\ pc = "connect" /\ pc' = "parse" /\ code' = "NO_REQUEST"
      /\ UNCHANGED <<ProxyType, m_isKeepalive, stream, wire, short, answered,
                     again, agains, maps>>
  BY DEF TakeConnection, serverVars, netVars, outVars, leftVars
<1>4. decide_proxy' = TRUE
  BY DEF TakeConnection
<1>5. /\ conn' \in ConnRec
      /\ conn'.m_read_buf = conn.m_read_buf
      /\ conn'.m_checked_idx = conn.m_checked_idx
      /\ conn'.m_start_line = conn.m_start_line
      /\ conn'.m_write_idx = conn.m_write_idx
      /\ conn'.bytes_to_send = conn.bytes_to_send
      /\ conn'.bytes_have_send = conn.bytes_have_send
      /\ conn'.m_check_state = conn.m_check_state
      /\ conn'.m_file_address = conn.m_file_address
  BY <1>1, <1>2 DEF ConnRec
<1>6. TypeInv' /\ BufInv'
  <2>1. decide_proxy' \in BOOLEAN
    BY <1>4
  <2> QED BY <1>3, <1>5, <2>1 DEF Inv, TypeInv, BufInv
<1>7. Quiet' /\ FreshInv'
  BY <1>3, <1>5 DEF Inv, Quiet, FreshInv
<1>8. ParseInv'
  <2> SUFFICES ASSUME ~again PROVE ParseInv'
    BY <1>3 DEF ParseInv
  <2>1. conn'.m_start_line = 0 /\ conn'.m_checked_idx = 0
        /\ conn'.m_check_state = "REQUESTLINE"
    BY <1>3, <1>5 DEF Inv, FreshInv
  <2>2. ~Forwarded'
    BY <2>1 DEF Forwarded, HasLine
  <2> QED BY <1>3, <1>4, <2>1, <2>2 DEF ParseInv, LineStart
<1>9. SumInv' /\ ExactInv' /\ ProxyAdmission'
  BY <1>3 DEF SumInv, ExactInv, ProxyAdmission
<1>10. MapInv'
  BY <1>3, <1>5, MapKept DEF FileMapped
<1> QED BY <1>6, <1>7, <1>8, <1>9, <1>10 DEF Inv

-----------------------------------------------------------------------------
(* A turn of process_read: the members after it.                           *)
Moved(d, k) ==
    /\ d \in ConnRec
    /\ d.m_read_buf = conn.m_read_buf
    /\ d.m_checked_idx = k /\ d.m_start_line = k
    /\ d.m_write_idx = conn.m_write_idx
    /\ d.bytes_to_send = conn.bytes_to_send
    /\ d.bytes_have_send = conn.bytes_have_send
    /\ d.m_file_address = conn.m_file_address

(* The lines up to the new line start are those before and the one just    *)
(* read.                                                                   *)
LEMMA OneMoreLine ==
    ASSUME NEW c \in ConnRec, NEW d \in ConnRec, NEW text, NEW i \in Nat,
           d.m_read_buf = c.m_read_buf, d.m_start_line = i + 2,
           c.m_start_line <= i, LineStart(c.m_read_buf, c.m_start_line),
           c.m_read_buf[i + 1] = CR, text # CR, text # LF,
           \A j \in c.m_start_line..i : c.m_read_buf[j + 1] # LF
    PROVE  HasLine(d, text) <=>
             HasLine(c, text)
             \/ (c.m_start_line < i /\ c.m_read_buf[c.m_start_line + 1] = text)
<1>1. c.m_start_line \in Nat
  BY DEF ConnRec
<1>2. ASSUME HasLine(c, text) PROVE HasLine(d, text)
  BY <1>1, <1>2 DEF HasLine
<1>3. ASSUME c.m_start_line < i, c.m_read_buf[c.m_start_line + 1] = text
      PROVE  HasLine(d, text)
  <2>1. c.m_start_line \in 0..(d.m_start_line - 1)
    BY <1>1, <1>3
  <2> QED BY <1>3, <2>1 DEF HasLine
<1>4. ASSUME HasLine(d, text), ~HasLine(c, text)
      PROVE  c.m_start_line < i /\ c.m_read_buf[c.m_start_line + 1] = text
  <2>1. PICK j \in 0..(i + 1) : /\ LineStart(c.m_read_buf, j)
                                /\ c.m_read_buf[j + 1] = text
    BY <1>4 DEF HasLine
  <2>2. ~(j \in 0..(c.m_start_line - 1))
    BY <1>4, <2>1 DEF HasLine
  <2>3. ~(j > c.m_start_line)
    <3> SUFFICES ASSUME j > c.m_start_line PROVE FALSE
      OBVIOUS
    <3>1. j > 0 /\ j - 1 \in c.m_start_line..i /\ (j - 1) + 1 = j
      BY <1>1
    <3>2. c.m_read_buf[j] = LF
      BY <2>1, <3>1 DEF LineStart
    <3> QED BY <3>1, <3>2
  <2>4. j = c.m_start_line
    BY <1>1, <2>2, <2>3
  <2>5. c.m_start_line # i
    BY <2>1, <2>4
  <2> QED BY <1>1, <2>1, <2>4, <2>5
<1> QED BY <1>2, <1>3, <1>4

(* The outcomes of parse_headers for a line: the end of the headers with   *)
(* or without a body, a refusal, or a header that is remembered or         *)
(* ignored. X-Forwarded-By clears decide_proxy unless ProxyType is 1.      *)
LEMMA HeadersCases ==
    ASSUME NEW c, NEW text, Headers(c, text)
    PROVE  /\ decide_proxy' <=>
                decide_proxy /\ (text # "X-Forwarded-By" \/ ProxyType = 1)
           /\ decide_proxy' \in BOOLEAN
           /\ \/ /\ text = Blank /\ c.m_content_length # 0
                 /\ conn' = [c EXCEPT !.m_check_state = "CONTENT"]
                 /\ UNCHANGED <<code, pc>>
              \/ /\ text = Blank /\ c.m_content_length = 0
                 /\ conn' = c /\ code' = "GET_REQUEST" /\ pc' = "do_request"
              \/ conn' = c /\ code' = "BAD_REQUEST" /\ pc' = "respond"
              \/ /\ ~(text = "X-Forwarded-By" /\ ProxyType = 1)
                 /\ \/ conn' = c
                    \/ conn' = [c EXCEPT !.m_content_length = BodyLen]
                 /\ UNCHANGED <<code, pc>>
<1>1. decide_proxy' = (decide_proxy /\ (text # "X-Forwarded-By" \/ ProxyType = 1))
  BY DEF Headers
<1>2. Blank # "X-Forwarded-By" /\ Blank # "Content-length"
  BY DEF Blank
<1>3. CASE text = Blank /\ c.m_content_length # 0
  BY <1>1, <1>2, <1>3 DEF Headers
<1>4. CASE text = Blank /\ c.m_content_length = 0
  BY <1>1, <1>2, <1>4 DEF Headers, ReadReturns
<1>5. CASE text = "X-Forwarded-By" /\ ProxyType = 1
  BY <1>1, <1>2, <1>5 DEF Headers, ReadReturns
<1>6. CASE text # Blank /\ ~(text = "X-Forwarded-By" /\ ProxyType = 1)
  BY <1>1, <1>2, <1>6 DEF Headers
<1> QED BY <1>3, <1>4, <1>5, <1>6

(* After a line: the conjuncts of Inv that do not depend on its text.      *)
LEMMA LineStep ==
    ASSUME Inv, pc = "parse", NEW k \in 0..Len(conn.m_read_buf),
           Moved(conn', k),
           \/ pc' = "parse" /\ code' = code
           \/ pc' = "do_request" /\ code' = "GET_REQUEST"
           \/ pc' = "respond" /\ code' = "BAD_REQUEST",
           decide_proxy' \in BOOLEAN,
           UNCHANGED <<serverVars, stream, outVars, leftVars>>,
           ParseInv'
    PROVE  Inv'
<1> USE DEF serverVars, outVars, leftVars
<1>1. TypeInv'
  BY DEF Inv, TypeInv, Moved
<1>2. BufInv'
  BY DEF Inv, BufInv, Moved
<1>3. Quiet'
  BY DEF Inv, Quiet, Moved
<1>4. FreshInv' /\ SumInv' /\ ExactInv' /\ ProxyAdmission'
  BY DEF FreshInv, SumInv, ExactInv, ProxyAdmission
<1>5. MapInv'
  BY MapKept DEF Moved, FileMapped
<1> QED BY <1>1, <1>2, <1>3, <1>4, <1>5 DEF Inv

(* A turn of the loop of process_read over a complete line, when no EAGAIN *)
(* has left the parser anywhere, preserves the invariant.                  *)
LEMMA ParseNextInOrder ==
    ASSUME Inv, ParseNext, ~again
    PROVE  Inv'
<1>1. conn \in ConnRec /\ conn.m_start_line \in Nat
      /\ conn.m_checked_idx \in Nat /\ Len(conn.m_read_buf) \in Nat
  BY DEF Inv, TypeInv, ConnRec
<1>2. /\ pc = "parse" /\ conn.m_check_state # "CONTENT"
      /\ ParseLine(conn).status = "LINE_OK"
      /\ UNCHANGED <<serverVars, stream, outVars, leftVars>>
  BY DEF ParseNext, netVars
<1>3. /\ conn.m_start_line = conn.m_checked_idx
      /\ LineStart(conn.m_read_buf, conn.m_start_line)
      /\ decide_proxy <=> ~Forwarded
      /\ conn.m_checked_idx <= Len(conn.m_read_buf)
  BY <1>2 DEF Inv, ParseInv, BufInv
<1>4. PICK i \in Nat :
          /\ conn.m_start_line <= i /\ i + 2 <= Len(conn.m_read_buf)
          /\ conn.m_read_buf[i + 1] = CR /\ conn.m_read_buf[i + 2] = LF
          /\ \A j \in conn.m_start_line..i : conn.m_read_buf[j + 1] # LF
          /\ ParseLine(conn).checked = i + 2 /\ ParseLine(conn).end = i
  BY <1>1, <1>2, <1>3, ParseLineOk
<1>5. PICK k \in 0..Len(conn.m_read_buf) : k = i + 2
  BY <1>1, <1>4
<1>6. PICK c : c = [conn EXCEPT !.m_checked_idx = k, !.m_start_line = k]
  OBVIOUS
<1>7. k \in Nat
  BY <1>5
<1>8. Moved(c, k) /\ c \in ConnRec
      /\ c.m_check_state = conn.m_check_state
      /\ c.m_content_length = conn.m_content_length
  BY <1>1, <1>6, <1>7 DEF Moved, ConnRec
<1>9. PICK text : text = Text(conn, i)
  OBVIOUS
<1>10. text = IF conn.m_start_line < i
              THEN conn.m_read_buf[conn.m_start_line + 1] ELSE Blank
  BY <1>9 DEF Text
<1>11. \A d : Moved(d, k) => LineStart(d.m_read_buf, d.m_start_line)
  BY <1>4, <1>5 DEF Moved, LineStart
<1>12. \A d : Moved(d, k) =>
         (HasLine(d, "X-Forwarded-By") <=>
            HasLine(conn, "X-Forwarded-By") \/ text = "X-Forwarded-By")
  <2> SUFFICES ASSUME NEW d, Moved(d, k)
               PROVE  HasLine(d, "X-Forwarded-By") <=>
                        HasLine(conn, "X-Forwarded-By")
                        \/ text = "X-Forwarded-By"
    OBVIOUS
  <2>1. /\ d \in ConnRec /\ d.m_read_buf = conn.m_read_buf
        /\ d.m_start_line = i + 2
    BY <1>5 DEF Moved
  <2>2. "X-Forwarded-By" # CR /\ "X-Forwarded-By" # LF
    BY DEF CR, LF
  <2>3. HasLine(d, "X-Forwarded-By") <=>
          \/ HasLine(conn, "X-Forwarded-By")
          \/ /\ conn.m_start_line < i
             /\ conn.m_read_buf[conn.m_start_line + 1] = "X-Forwarded-By"
    BY <1>1, <1>3, <1>4, <2>1, <2>2, OneMoreLine
  <2> QED BY <1>10, <2>3 DEF Blank
<1>13. decide_proxy \in BOOLEAN
  BY DEF Inv, TypeInv
<1>14. CASE /\ conn.m_check_state = "REQUESTLINE"
            /\ RequestLine(c, text) /\ UNCHANGED decide_proxy
  <2>1. CASE text \in {"GET", "POST"}
    <3>1. /\ conn' = [c EXCEPT !.cgi = (c.cgi \/ text = "POST"),
                               !.m_check_state = "HEADER"]
          /\ UNCHANGED <<code, pc>>
      BY <1>14, <2>1 DEF RequestLine
    <3>2. (c.cgi \/ text = "POST") \in BOOLEAN
      OBVIOUS
    <3>3. Moved(conn', k) /\ conn'.m_check_state = "HEADER"
      BY <1>8, <3>1, <3>2 DEF Moved, ConnRec
    <3>4. ParseInv'
      <4>1. Forwarded' <=> Forwarded
        BY <1>12, <2>1, <3>3 DEF Forwarded
      <4>2. /\ LineStart(conn'.m_read_buf, conn'.m_start_line)
            /\ conn'.m_start_line = conn'.m_checked_idx
        BY <1>11, <3>3 DEF Moved
      <4> QED BY <1>2, <1>3, <1>14, <3>1, <3>3, <4>1, <4>2 DEF ParseInv
    <3> QED BY <1>2, <1>13, <1>14, <3>1, <3>3, <3>4, LineStep
  <2>2. CASE text \notin {"GET", "POST"}
    <3>1. conn' = c /\ code' = "BAD_REQUEST" /\ pc' = "respond"
      BY <1>14, <2>2 DEF RequestLine, ReadReturns
    <3>2. ParseInv'
      BY <3>1 DEF ParseInv
    <3> QED BY <1>2, <1>8, <1>13, <1>14, <3>1, <3>2, LineStep
  <2> QED BY <2>1, <2>2
<1>15. CASE conn.m_check_state = "HEADER" /\ Headers(c, text)
  <2>1. /\ decide_proxy' <=>
             decide_proxy /\ (text # "X-Forwarded-By" \/ ProxyType = 1)
        /\ decide_proxy' \in BOOLEAN
    BY <1>15, HeadersCases
  <2>2. CASE conn' = c /\ code' = "BAD_REQUEST" /\ pc' = "respond"
    <3>1. ParseInv'
      BY <2>2 DEF ParseInv
    <3> QED BY <1>2, <1>8, <2>1, <2>2, <3>1, LineStep
  <2>3. CASE /\ text = Blank /\ c.m_content_length = 0
             /\ conn' = c /\ code' = "GET_REQUEST" /\ pc' = "do_request"
    <3>1. Moved(conn', k) /\ conn'.m_content_length = 0
      BY <1>8, <2>3
    <3>2. Forwarded' <=> Forwarded
      BY <1>12, <2>3, <3>1 DEF Forwarded, Blank
    <3>3. ParseInv'
      BY <1>3, <2>1, <2>3, <3>1, <3>2 DEF ParseInv, Blank
    <3> QED BY <1>2, <2>1, <2>3, <3>1, <3>3, LineStep
  <2>4. CASE /\ text = Blank /\ c.m_content_length # 0
             /\ conn' = [c EXCEPT !.m_check_state = "CONTENT"]
             /\ UNCHANGED <<code, pc>>
    <3>1. Moved(conn', k) /\ conn'.m_content_length # 0
          /\ conn'.m_check_state = "CONTENT"
      BY <1>8, <2>4 DEF Moved, ConnRec
    <3>2. Forwarded' <=> Forwarded
      BY <1>12, <2>4, <3>1 DEF Forwarded, Blank
    <3>3. /\ LineStart(conn'.m_read_buf, conn'.m_start_line)
          /\ conn'.m_start_line = conn'.m_checked_idx
      BY <1>11, <3>1 DEF Moved
    <3>4. ParseInv'
      BY <1>2, <1>3, <2>1, <2>4, <3>1, <3>2, <3>3 DEF ParseInv, Blank
    <3> QED BY <1>2, <2>1, <2>4, <3>1, <3>4, LineStep
  <2>5. CASE /\ ~(text = "X-Forwarded-By" /\ ProxyType = 1)
             /\ \/ conn' = c
                \/ conn' = [c EXCEPT !.m_content_length = BodyLen]
             /\ UNCHANGED <<code, pc>>
    <3>1. Moved(conn', k) /\ conn'.m_check_state = "HEADER"
      <4>1. CASE conn' = c
        BY <1>8, <1>15, <4>1
      <4>2. CASE conn' = [c EXCEPT !.m_content_length = BodyLen]
        BY <1>8, <1>15, <4>2 DEF Moved, ConnRec
      <4> QED BY <2>5, <4>1, <4>2
    <3>2. Forwarded' <=> Forwarded \/ text = "X-Forwarded-By"
      BY <1>12, <3>1 DEF Forwarded
    <3>3. /\ LineStart(conn'.m_read_buf, conn'.m_start_line)
          /\ conn'.m_start_line = conn'.m_checked_idx
      BY <1>11, <3>1 DEF Moved
    <3>4. decide_proxy' <=> ~Forwarded'
      BY <1>3, <2>1, <2>5, <3>2
    <3>5. ParseInv'
      BY <1>2, <2>5, <3>1, <3>3, <3>4 DEF ParseInv
    <3> QED BY <1>2, <2>1, <2>5, <3>1, <3>5, LineStep
  <2> QED BY <1>15, <2>2, <2>3, <2>4, <2>5, HeadersCases
<1>16. \/ /\ conn.m_check_state = "REQUESTLINE"
          /\ RequestLine(c, text) /\ UNCHANGED decide_proxy
       \/ conn.m_check_state = "HEADER" /\ Headers(c, text)
  <2>1. c = [conn EXCEPT !.m_checked_idx = ParseLine(conn).checked,
                         !.m_start_line = ParseLine(conn).checked]
    BY <1>4, <1>5, <1>6
  <2>2. text = Text(conn, ParseLine(conn).end)
    BY <1>4, <1>9
  <2> QED BY <2>1, <2>2 DEF ParseNext
<1> QED BY <1>14, <1>15, <1>16

(* After an EAGAIN the parser may be anywhere in what it has read, but it  *)
(* stays within the buffer.                                                *)
LEMMA ParseNextAfterAgain ==
    ASSUME Inv, ParseNext, again
    PROVE  Inv'
<1>1. conn \in ConnRec /\ Len(conn.m_read_buf) \in Nat
      /\ decide_proxy \in BOOLEAN
  BY DEF Inv, TypeInv, ConnRec
<1>2. /\ pc = "parse" /\ conn.m_check_state # "CONTENT"
      /\ UNCHANGED <<serverVars, stream, outVars, leftVars>>
  BY DEF ParseNext, netVars
<1>3. PICK k \in 0..Len(conn.m_read_buf) : k = ParseLine(conn).checked
  BY <1>1, ParseLineChecked DEF Inv, BufInv
<1>4. PICK c : c = [conn EXCEPT !.m_checked_idx = k, !.m_start_line = k]
  OBVIOUS
<1>5. Moved(c, k) /\ c \in ConnRec
  <2>1. k \in Nat
    BY <1>1
  <2> QED BY <1>1, <1>4, <2>1 DEF Moved, ConnRec
<1>6. PICK text : text = Text(conn, ParseLine(conn).end)
  OBVIOUS
<1>7. \/ RequestLine(c, text) /\ UNCHANGED decide_proxy
      \/ Headers(c, text)
  BY <1>3, <1>4, <1>6 DEF ParseNext
<1>8. ParseInv'
  BY <1>2 DEF ParseInv, leftVars
<1>9. CASE RequestLine(c, text) /\ UNCHANGED decide_proxy
  <2>1. CASE text \in {"GET", "POST"}
    <3>1. /\ conn' = [c EXCEPT !.cgi = (c.cgi \/ text = "POST"),
                               !.m_check_state = "HEADER"]
          /\ UNCHANGED <<code, pc>>
      BY <1>9, <2>1 DEF RequestLine
    <3>2. (c.cgi \/ text = "POST") \in BOOLEAN
      OBVIOUS
    <3>3. Moved(conn', k)
      BY <1>5, <3>1, <3>2 DEF Moved, ConnRec
    <3> QED BY <1>1, <1>2, <1>8, <1>9, <3>1, <3>3, LineStep
  <2>2. CASE text \notin {"GET", "POST"}
    <3>1. conn' = c /\ code' = "BAD_REQUEST" /\ pc' = "respond"
      BY <1>9, <2>2 DEF RequestLine, ReadReturns
    <3> QED BY <1>1, <1>2, <1>5, <1>8, <1>9, <3>1, LineStep
  <2> QED BY <2>1, <2>2
<1>10. CASE Headers(c, text)
  <2>1. decide_proxy' \in BOOLEAN
    BY <1>10, HeadersCases
  <2>2. /\ \/ conn' = c
           \/ conn' = [c EXCEPT !.m_check_state = "CONTENT"]
           \/ conn' = [c EXCEPT !.m_content_length = BodyLen]
        /\ \/ pc' = "parse" /\ code' = code
           \/ pc' = "do_request" /\ code' = "GET_REQUEST"
           \/ pc' = "respond" /\ code' = "BAD_REQUEST"
    BY <1>2, <1>10, HeadersCases
  <2>3. Moved(conn', k)
    BY <1>5, <2>2 DEF Moved, ConnRec
  <2> QED BY <1>2, <1>8, <2>1, <2>2, <2>3, LineStep
<1> QED BY <1>7, <1>9, <1>10

(* A turn of the loop of process_read over a complete line preserves the   *)
(* invariant.                                                              *)
LEMMA ParseNextStep ==
    ASSUME Inv, ParseNext
    PROVE  Inv'
  BY ParseNextInOrder, ParseNextAfterAgain

(* A turn of the loop of process_read over the body preserves the          *)
(* invariant.                                                              *)
LEMMA ParseContentStep ==
    ASSUME Inv, ParseContent
    PROVE  Inv'
<1>1. conn \in ConnRec /\ conn.m_start_line \in Nat
      /\ Len(conn.m_read_buf) \in Nat /\ decide_proxy \in BOOLEAN
  BY DEF Inv, TypeInv, ConnRec
<1>2. /\ pc = "parse" /\ conn.m_check_state = "CONTENT"
      /\ UNCHANGED <<serverVars, decide_proxy, stream, outVars, leftVars>>
  BY DEF ParseContent, netVars
<1>3. PICK k \in 0..Len(conn.m_read_buf) : k = conn.m_checked_idx
  BY <1>1 DEF Inv, BufInv, ConnRec
<1>4. PICK l \in Nat : l = conn.m_start_line
  BY <1>1
<1>5. /\ \/ conn' = [conn EXCEPT !.m_start_line = k, !.m_string = l]
         \/ conn' = [conn EXCEPT !.m_start_line = k]
      /\ \/ pc' = "parse" /\ code' = code
         \/ pc' = "do_request" /\ code' = "GET_REQUEST"
  BY <1>2, <1>3, <1>4 DEF ParseContent, ReadReturns
<1>6. Moved(conn', k) /\ conn'.m_content_length = conn.m_content_length
  <2>1. k \in Nat
    BY <1>1
  <2>2. CASE conn' = [conn EXCEPT !.m_start_line = k, !.m_string = l]
    BY <1>1, <1>3, <2>1, <2>2 DEF Moved, ConnRec
  <2>3. CASE conn' = [conn EXCEPT !.m_start_line = k]
    BY <1>1, <1>3, <2>1, <2>3 DEF Moved, ConnRec
  <2> QED BY <1>5, <2>2, <2>3
<1>7. ParseInv'
  <2> SUFFICES ASSUME ~again PROVE ParseInv'
    BY <1>2 DEF ParseInv, leftVars
  <2>1. /\ conn.m_start_line = k /\ conn.m_content_length # 0
        /\ LineStart(conn.m_read_buf, conn.m_start_line)
        /\ decide_proxy <=> ~Forwarded
    BY <1>2, <1>3 DEF Inv, ParseInv
  <2>2. Forwarded' <=> Forwarded
    BY <1>6, <2>1 DEF Forwarded, HasLine, Moved
  <2>3. conn'.m_check_state = "CONTENT"
    BY <1>1, <1>2, <1>5 DEF ConnRec
  <2> QED BY <1>2, <1>6, <2>1, <2>2, <2>3 DEF ParseInv, Moved
<1> QED BY <1>1, <1>2, <1>5, <1>6, <1>7, LineStep

(* The end of process_read without a complete request preserves the        *)
(* invariant.                                                              *)
LEMMA ParseEndsStep ==
    ASSUME Inv, ParseEnds
    PROVE  Inv'
<1>1. conn \in ConnRec /\ Len(conn.m_read_buf) \in Nat
      /\ decide_proxy \in BOOLEAN
  BY DEF Inv, TypeInv, ConnRec
<1>2. PICK k \in 0..Len(conn.m_read_buf) : k = ParseLine(conn).checked
  BY <1>1, ParseLineChecked DEF Inv, BufInv
<1>3. /\ pc = "parse" /\ conn' = [conn EXCEPT !.m_checked_idx = k]
      /\ UNCHANGED <<serverVars, decide_proxy, stream, outVars, leftVars>>
  BY <1>2 DEF ParseEnds, netVars
<1>4. \/ code' = "BAD_REQUEST" /\ pc' = "respond"
      \/ code' = "NO_REQUEST" /\ pc' = "end"
  BY DEF ParseEnds, ReadReturns
<1>5. /\ conn' \in ConnRec
      /\ conn'.m_read_buf = conn.m_read_buf
      /\ conn'.m_checked_idx = k
      /\ conn'.m_start_line = conn.m_start_line
      /\ conn'.m_write_idx = conn.m_write_idx
      /\ conn'.bytes_to_send = conn.bytes_to_send
      /\ conn'.bytes_have_send = conn.bytes_have_send
      /\ conn'.m_file_address = conn.m_file_address
  <2>1. conn' = [conn EXCEPT !.m_checked_idx = k] /\ k \in Nat
    BY <1>1, <1>2, <1>3 DEF ConnRec
  <2> QED BY <1>1, <2>1 DEF ConnRec
<1>6. TypeInv'
  BY <1>1, <1>3, <1>4, <1>5 DEF Inv, TypeInv, serverVars, outVars, leftVars
<1>7. BufInv'
  BY <1>2, <1>5 DEF Inv, BufInv
<1>8. MapInv'
  BY <1>3, <1>4, <1>5, MapKept DEF FileMapped, leftVars
<1>9. CASE pc' = "end"
  BY <1>6, <1>7, <1>8, <1>9, EndStep
<1>10. CASE pc' = "respond"
  <2>1. Quiet'
    BY <1>3, <1>5, <1>10 DEF Inv, Quiet, outVars, leftVars
  <2>2. FreshInv' /\ ParseInv' /\ SumInv' /\ ExactInv'
        /\ ProxyAdmission'
    BY <1>4, <1>10 DEF FreshInv, ParseInv, SumInv, ExactInv,
       ProxyAdmission
  <2> QED BY <1>6, <1>7, <1>8, <2>1, <2>2 DEF Inv
<1> QED BY <1>4, <1>9, <1>10

-----------------------------------------------------------------------------
(* do_request preserves the invariant: it maps a file at most once.        *)
LEMMA DoRequestStep ==
    ASSUME Inv, DoRequest
    PROVE  Inv'
<1>1. conn \in ConnRec /\ decide_proxy \in BOOLEAN /\ ProxyType \in {0, 1}
  BY DEF Inv, TypeInv, ProxyTypes
<1>2. /\ pc = "do_request" /\ pc' = "respond"
      /\ UNCHANGED <<serverVars, decide_proxy, stream, outVars, again, agains>>
  BY DEF DoRequest, netVars
<1>3. ~again => (decide_proxy <=> ~Forwarded)
  BY <1>2 DEF Inv, ParseInv
<1>4. /\ agains \in Nat /\ maps \in Nat /\ maps <= agains
      /\ conn.m_file_address = "mapped" => maps >= 1
  BY <1>2 DEF Inv, TypeInv, MapInv, MappingsReleased
<1>5. /\ code' \in {"BAD_REQUEST", "NO_RESOURCE", "FILE_REQUEST"}
      /\ conn' \in ConnRec
      /\ conn'.m_read_buf = conn.m_read_buf
      /\ conn'.m_checked_idx = conn.m_checked_idx
      /\ conn'.m_start_line = conn.m_start_line
      /\ conn'.m_write_idx = conn.m_write_idx
      /\ conn'.bytes_to_send = conn.bytes_to_send
      /\ conn'.bytes_have_send = conn.bytes_have_send
      /\ code' = "FILE_REQUEST" => ~ProxyRefuses(decide_proxy)
      /\ \/ /\ code' # "FILE_REQUEST" /\ maps' = maps
            /\ conn'.m_file_address = conn.m_file_address
         \/ /\ conn'.m_file_address = "mapped" /\ maps' = maps + 1
            /\ code' = "FILE_REQUEST" /\ conn'.st_size # 0
         \/ conn'.m_file_address = "failed" /\ maps' = maps
  <2>1. CASE code' \in {"NO_RESOURCE", "BAD_REQUEST"} /\ UNCHANGED <<conn, maps>>
    BY <1>1, <2>1
  <2>2. CASE /\ ~ProxyRefuses(decide_proxy)
             /\ \E size \in FileSizes, readable \in BOOLEAN :
                  /\ code' = "FILE_REQUEST"
                  /\ conn' = [conn EXCEPT !.st_size = size,
                       !.m_file_address =
                          IF readable /\ size > 0 THEN "mapped" ELSE "failed"]
                  /\ maps' = maps + (IF readable /\ size > 0 THEN 1 ELSE 0)
    <3>1. PICK size \in FileSizes, readable \in BOOLEAN :
            /\ code' = "FILE_REQUEST"
            /\ conn' = [conn EXCEPT !.st_size = size,
                 !.m_file_address =
                    IF readable /\ size > 0 THEN "mapped" ELSE "failed"]
            /\ maps' = maps + (IF readable /\ size > 0 THEN 1 ELSE 0)
      BY <2>2
    <3>2. PICK a \in {"null", "mapped", "failed"} :
            a = IF readable /\ size > 0 THEN "mapped" ELSE "failed"
      OBVIOUS
    <3>3. size \in Nat
      BY SizesAssumption
    <3>4. conn' = [conn EXCEPT !.st_size = size, !.m_file_address = a]
      BY <3>1, <3>2
    <3>5. conn' \in ConnRec
      BY <1>1, <3>3, <3>4 DEF ConnRec
    <3>6. /\ conn'.m_read_buf = conn.m_read_buf
          /\ conn'.m_checked_idx = conn.m_checked_idx
          /\ conn'.m_start_line = conn.m_start_line
          /\ conn'.m_write_idx = conn.m_write_idx
          /\ conn'.bytes_to_send = conn.bytes_to_send
          /\ conn'.bytes_have_send = conn.bytes_have_send
          /\ conn'.st_size = size /\ conn'.m_file_address = a
      BY <1>1, <3>4 DEF ConnRec
    <3>7. CASE readable /\ size > 0
      <4>1. a = "mapped" /\ maps' = maps + 1
        BY <3>1, <3>2, <3>7
      <4>2. size # 0
        BY <3>7
      <4> QED BY <2>2, <3>1, <3>5, <3>6, <4>1, <4>2
    <3>8. CASE ~(readable /\ size > 0)
      <4>1. a = "failed" /\ maps' = maps
        BY <1>4, <3>1, <3>2, <3>8
      <4> QED BY <2>2, <3>1, <3>5, <3>6, <4>1
    <3> QED BY <3>7, <3>8
  <2> QED BY <2>1, <2>2 DEF DoRequest
<1>6. TypeInv'
  <2>1. maps' \in Nat
    BY <1>4, <1>5
  <2> QED BY <1>1, <1>2, <1>5, <2>1 DEF Inv, TypeInv, serverVars, outVars
<1>7. BufInv'
  BY <1>5 DEF Inv, BufInv
<1>8. Quiet'
  BY <1>2, <1>5 DEF Inv, Quiet, outVars
<1>9. FreshInv' /\ ParseInv' /\ SumInv' /\ ExactInv'
  BY <1>2 DEF FreshInv, ParseInv, SumInv, ExactInv
<1>10. MapInv'
  <2>1. maps' <= agains' + (IF FileMapped' THEN 1 ELSE 0)
    BY <1>2, <1>4, <1>5 DEF FileMapped
  <2>2. MappingsReleased'
    BY <2>1 DEF MappingsReleased, FileMapped
  <2>3. /\ conn'.m_file_address = "mapped" => maps' >= 1
        /\ FileMapped' => conn'.st_size # 0
    BY <1>4, <1>5 DEF FileMapped
  <2> QED BY <2>2, <2>3 DEF MapInv
<1>11. ProxyAdmission'
  <2>1. HasLine(conn', "X-Forwarded-By") <=> Forwarded
    BY <1>5 DEF HasLine, Forwarded
  <2>2. ProxyType' = ProxyType
    BY <1>2 DEF serverVars
  <2>3. ~again /\ code' = "FILE_REQUEST" => (Forwarded <=> ProxyType = 0)
    BY <1>1, <1>3, <1>5 DEF ProxyRefuses
  <2> QED BY <1>2, <2>1, <2>2, <2>3 DEF ProxyAdmission
<1> QED BY <1>6, <1>7, <1>8, <1>9, <1>10, <1>11 DEF Inv

-----------------------------------------------------------------------------
(* Assigning the first iovec leaves the second one as it was.              *)
LEMMA IovUpdate ==
    ASSUME NEW m \in Iovs, NEW v \in Iov
    PROVE  /\ [m EXCEPT ![1] = v] \in Iovs
           /\ [m EXCEPT ![1] = v][1] = v
           /\ [m EXCEPT ![1] = v][2] = m[2]
  BY DEF Iovs

(* process_write, when it has built a response: the beginning of write().  *)
LEMMA RespondStep ==
    ASSUME Inv, pc = "respond", pc' = "write", conn' \in ConnRec,
           conn'.m_read_buf = conn.m_read_buf,
           conn'.m_checked_idx = conn.m_checked_idx,
           conn'.m_start_line = conn.m_start_line,
           conn'.m_file_address = conn.m_file_address,
           conn'.bytes_have_send = conn.bytes_have_send,
           conn'.m_write_idx > 0, conn'.m_write_idx <= WriteBufferSize - 2,
           conn'.m_iv_count \in {1, 2},
           conn'.m_iv[1] = [base |-> 0, len |-> conn'.m_write_idx],
           conn'.m_iv_count = 2 =>
             conn'.m_iv[2] = [base |-> 0, len |-> conn'.st_size],
           conn'.bytes_to_send = Total(conn'),
           UNCHANGED <<serverVars, decide_proxy, code, stream, outVars,
                       leftVars>>
    PROVE  Inv'
<1> USE DEF serverVars, outVars, leftVars
<1>1. conn'.m_write_idx \in Nat /\ conn'.st_size \in Nat
  BY DEF ConnRec
<1>2. wire = <<>> /\ short = 0
  BY DEF Inv, Quiet
<1>3. TypeInv' /\ BufInv'
  BY DEF Inv, TypeInv, BufInv
<1>4. Quiet' /\ FreshInv' /\ ParseInv'
  BY DEF Quiet, FreshInv, ParseInv
<1>5. MapInv'
  BY MapKept DEF FileMapped
<1>6. SumInv'
  BY <1>1 DEF SumInv, Total, FileLen
<1>7. ExactInv'
  <2> SUFFICES ASSUME ~again PROVE ExactInv'
    BY DEF ExactInv
  <2>1. Total(conn') \in Nat
    BY <1>1 DEF Total, FileLen
  <2>2. Len(wire') = 0
    BY <1>2
  <2>3. conn'.m_write_idx - 0 = conn'.m_write_idx
        /\ Total(conn') - 0 = Total(conn')
    BY <1>1, <2>1
  <2>4. Exact'
    <3>1. conn'.bytes_have_send = 0
      BY DEF Inv, Quiet
    <3> QED BY <1>1, <1>2, <2>1, <2>2, <2>3, <3>1 DEF Exact
  <2> QED BY <2>4 DEF ExactInv
<1>8. ProxyAdmission'
  <2>1. HasLine(conn', "X-Forwarded-By") <=> HasLine(conn, "X-Forwarded-By")
    BY DEF HasLine
  <2> QED BY <2>1 DEF Inv, ProxyAdmission
<1> QED BY <1>3, <1>4, <1>5, <1>6, <1>7, <1>8 DEF Inv

(* The write buffer after the header: what fits of it behind what was there*)
(* already.                                                                *)
LEMMA HeadedIs ==
    ASSUME NEW c \in ConnRec, c.m_write_idx <= WriteBufferSize - 2
    PROVE  \E w \in Nat : /\ Headed(c) = [c EXCEPT !.m_write_idx = w]
                          /\ Headed(c) \in ConnRec
                          /\ w > 0 /\ w <= WriteBufferSize - 2
<1>1. PICK a \in Nat : a = c.m_write_idx + HeaderLen /\ a > 0
  BY SizesNat DEF ConnRec
<1>2. PICK b \in Nat : b = WriteBufferSize - 2 /\ b > 0
  BY SizesNat
<1>3. PICK w : w = Min({a, b})
  OBVIOUS
<1>4. w \in Nat /\ w > 0 /\ w <= b
  BY <1>1, <1>2, <1>3, MinOfTwo
<1>5. Headed(c) = [c EXCEPT !.m_write_idx = w]
  BY <1>1, <1>2, <1>3 DEF Headed
<1>6. Headed(c) \in ConnRec
  BY <1>4, <1>5 DEF ConnRec
<1> QED BY <1>2, <1>4, <1>5, <1>6

(* process_write with an error page preserves the invariant.               *)
LEMMA ErrorPageStep ==
    ASSUME Inv, ProcessWrite, ErrorPage
    PROVE  Inv'
<1>1. conn \in ConnRec /\ conn.m_write_idx <= WriteBufferSize - 2
      /\ pc = "respond"
  BY DEF Inv, TypeInv, BufInv, ProcessWrite
<1>2. PICK v \in Nat : /\ Headed(conn) = [conn EXCEPT !.m_write_idx = v]
                       /\ v > 0 /\ v <= WriteBufferSize - 2
  BY <1>1, HeadedIs
<1>h. Headed(conn) \in ConnRec /\ Headed(conn).m_write_idx = v
  BY <1>1, <1>2 DEF ConnRec
<1>3. PICK w \in Nat : w = v + PageLen /\ w > 0 /\ w <= WriteBufferSize - 2
  <2>1. PageLen < WriteBufferSize - 1 - v
    BY <1>h DEF ErrorPage, Fits
  <2> QED BY <1>2, <2>1, SizesNat
<1>4. PICK c : c = AddResponse(Headed(conn), PageLen)
  OBVIOUS
<1>5. c = [Headed(conn) EXCEPT !.m_write_idx = w]
  BY <1>3, <1>4, <1>h DEF ErrorPage, AddResponse
<1>6. /\ c \in ConnRec /\ c.m_write_idx = w
      /\ c.m_read_buf = conn.m_read_buf
      /\ c.m_checked_idx = conn.m_checked_idx
      /\ c.m_start_line = conn.m_start_line
      /\ c.m_file_address = conn.m_file_address
      /\ c.bytes_have_send = conn.bytes_have_send
  <2>1. Headed(conn) \in ConnRec
        /\ Headed(conn) = [conn EXCEPT !.m_write_idx = v]
    BY <1>2, <1>h
  <2>2. /\ Headed(conn).m_read_buf = conn.m_read_buf
        /\ Headed(conn).m_checked_idx = conn.m_checked_idx
        /\ Headed(conn).m_start_line = conn.m_start_line
        /\ Headed(conn).m_file_address = conn.m_file_address
        /\ Headed(conn).bytes_have_send = conn.bytes_have_send
    BY <1>1, <2>1 DEF ConnRec
  <2> QED BY <1>5, <2>1, <2>2 DEF ConnRec
<1>7. PICK x \in Iov : x = [base |-> 0, len |-> w]
  <2>1. [base |-> 0, len |-> w] \in Iov
    BY DEF Iov
  <2> QED BY <2>1
<1>8. PICK m : m = [c.m_iv EXCEPT ![1] = x]
  OBVIOUS
<1>9. m \in Iovs /\ m[1] = x
  <2>1. c.m_iv \in Iovs
    BY <1>6 DEF ConnRec
  <2> QED BY <1>8, <2>1, IovUpdate
<1>10. conn' = [c EXCEPT !.m_iv = m, !.m_iv_count = 1, !.bytes_to_send = w]
  BY <1>4, <1>6, <1>7, <1>8 DEF ErrorPage
<1>11. PICK one \in IovCounts : one = 1
  BY DEF IovCounts
<1>12. conn' = [c EXCEPT !.m_iv = m, !.m_iv_count = one, !.bytes_to_send = w]
  BY <1>10, <1>11
<1>13. /\ conn' \in ConnRec
       /\ conn'.m_read_buf = conn.m_read_buf
       /\ conn'.m_checked_idx = conn.m_checked_idx
       /\ conn'.m_start_line = conn.m_start_line
       /\ conn'.m_file_address = conn.m_file_address
       /\ conn'.bytes_have_send = conn.bytes_have_send
       /\ conn'.m_write_idx = w /\ conn'.m_iv = m
       /\ conn'.m_iv_count = one /\ conn'.bytes_to_send = w
  BY <1>6, <1>9, <1>12 DEF ConnRec
<1>14. conn'.m_iv_count = 1 /\ conn'.bytes_to_send = Total(conn')
       /\ conn'.m_iv[1] = [base |-> 0, len |-> conn'.m_write_idx]
  BY <1>7, <1>9, <1>11, <1>13 DEF Total, FileLen
<1>15. pc' = "write"
       /\ UNCHANGED <<serverVars, decide_proxy, code, stream, outVars,
                      leftVars>>
  BY DEF ProcessWrite, ErrorPage, netVars
<1>16. /\ conn'.m_write_idx > 0 /\ conn'.m_write_idx <= WriteBufferSize - 2
       /\ conn'.m_iv_count \in {1, 2} /\ conn'.m_iv_count # 2
  BY <1>3, <1>13, <1>14
<1> QED BY <1>1, <1>13, <1>14, <1>15, <1>16, RespondStep, Zenon

(* process_write with a mapped file preserves the invariant.               *)
LEMMA FilePageStep ==
    ASSUME Inv, ProcessWrite, FilePage
    PROVE  Inv'
<1>1. conn \in ConnRec /\ conn.m_write_idx <= WriteBufferSize - 2
      /\ pc = "respond" /\ conn.st_size \in Nat
  BY DEF Inv, TypeInv, BufInv, ProcessWrite, ConnRec
<1>2. PICK w \in Nat : /\ Headed(conn) = [conn EXCEPT !.m_write_idx = w]
                       /\ Headed(conn) \in ConnRec
                       /\ w > 0 /\ w <= WriteBufferSize - 2
  BY <1>1, HeadedIs
<1>4. PICK c : c = Headed(conn)
  OBVIOUS
<1>5. c = [conn EXCEPT !.m_write_idx = w] /\ c \in ConnRec
  BY <1>2, <1>4
<1>6. /\ c.m_write_idx = w
      /\ c.m_read_buf = conn.m_read_buf
      /\ c.m_checked_idx = conn.m_checked_idx
      /\ c.m_start_line = conn.m_start_line
      /\ c.m_file_address = conn.m_file_address
      /\ c.bytes_have_send = conn.bytes_have_send
      /\ c.st_size = conn.st_size
  BY <1>1, <1>5 DEF ConnRec
<1>7. PICK m \in Iovs : m = <<[base |-> 0, len |-> w],
                              [base |-> 0, len |-> conn.st_size]>>
  <2>1. <<[base |-> 0, len |-> w], [base |-> 0, len |-> conn.st_size]>> \in Iovs
    BY <1>1 DEF Iov, Iovs
  <2> QED BY <2>1
<1>8. PICK two \in IovCounts : two = 2
  BY DEF IovCounts
<1>9. PICK b \in Nat : b = w + conn.st_size
  BY <1>1
<1>10. conn' = [c EXCEPT !.m_iv = m, !.m_iv_count = two, !.bytes_to_send = b]
  BY <1>4, <1>6, <1>7, <1>8, <1>9 DEF FilePage
<1>11. /\ conn' \in ConnRec
       /\ conn'.m_read_buf = conn.m_read_buf
       /\ conn'.m_checked_idx = conn.m_checked_idx
       /\ conn'.m_start_line = conn.m_start_line
       /\ conn'.m_file_address = conn.m_file_address
       /\ conn'.bytes_have_send = conn.bytes_have_send
       /\ conn'.st_size = conn.st_size
       /\ conn'.m_write_idx = w /\ conn'.m_iv = m
       /\ conn'.m_iv_count = two /\ conn'.bytes_to_send = b
  BY <1>5, <1>6, <1>10 DEF ConnRec
<1>12. conn'.m_iv_count = 2 /\ conn'.bytes_to_send = Total(conn')
  BY <1>8, <1>9, <1>11 DEF Total, FileLen
<1>13. conn'.m_iv[1] = [base |-> 0, len |-> conn'.m_write_idx]
       /\ conn'.m_iv[2] = [base |-> 0, len |-> conn'.st_size]
  BY <1>7, <1>11
<1>14. pc' = "write"
       /\ UNCHANGED <<serverVars, decide_proxy, code, stream, outVars,
                      leftVars>>
  BY DEF ProcessWrite, FilePage, netVars
<1> QED BY <1>1, <1>2, <1>11, <1>12, <1>13, <1>14, RespondStep

(* process_write without anything to send preserves the invariant: only an *)
(* empty file is left, and that was not mapped.                            *)
LEMMA NoPageStep ==
    ASSUME Inv, ProcessWrite, NoPage
    PROVE  Inv'
<1>1. conn \in ConnRec /\ conn.m_write_idx <= WriteBufferSize - 2
      /\ pc = "respond"
  BY DEF Inv, TypeInv, BufInv, ProcessWrite
<1>2. pc' = "end"
      /\ UNCHANGED <<serverVars, decide_proxy, code, stream, outVars,
                     leftVars>>
  BY DEF ProcessWrite, NoPage, netVars
<1>3. ~FileMapped
  BY <1>1 DEF Inv, MapInv, NoPage, FileMapped
<1>4. PICK v \in Nat : /\ Headed(conn) = [conn EXCEPT !.m_write_idx = v]
                       /\ Headed(conn) \in ConnRec
                       /\ v <= WriteBufferSize - 2
  BY <1>1, HeadedIs
<1>5. PICK h \in ConnRec : h = Headed(conn)
  BY <1>4
<1>6. /\ h.m_read_buf = conn.m_read_buf
      /\ h.m_checked_idx = conn.m_checked_idx
      /\ h.m_start_line = conn.m_start_line
      /\ h.m_file_address = conn.m_file_address
      /\ h.m_write_idx = v
  BY <1>1, <1>4, <1>5 DEF ConnRec
<1>7. /\ conn' \in ConnRec
      /\ conn'.m_read_buf = conn.m_read_buf
      /\ conn'.m_checked_idx = conn.m_checked_idx
      /\ conn'.m_start_line = conn.m_start_line
      /\ conn'.m_file_address = conn.m_file_address
      /\ conn'.m_write_idx <= WriteBufferSize - 2
  <2>1. CASE UNCHANGED conn
    BY <1>1, <2>1
  <2>2. CASE conn' = Headed(conn)
    BY <1>4, <1>5, <1>6, <2>2
  <2>3. CASE conn' = AddResponse(Headed(conn), PageLen)
    <3>1. /\ conn' = [h EXCEPT !.m_write_idx = conn'.m_write_idx]
          /\ conn' \in ConnRec
          /\ conn'.m_write_idx <= WriteBufferSize - 2
      BY <1>4, <1>5, <1>6, <2>3, SizesNat, AddResponseType
    <3>2. PICK w : w = conn'.m_write_idx
      OBVIOUS
    <3>3. conn' = [h EXCEPT !.m_write_idx = w]
      BY <3>1, <3>2
    <3> QED BY <1>6, <3>1, <3>3 DEF ConnRec
  <2> QED BY <2>1, <2>2, <2>3 DEF NoPage
<1>8. TypeInv'
  BY <1>2, <1>7 DEF Inv, TypeInv, serverVars, outVars, leftVars
<1>9. BufInv'
  BY <1>7 DEF Inv, BufInv
<1>10. MapInv'
  BY <1>2, <1>3, <1>7, MapKept DEF leftVars
<1> QED BY <1>2, <1>8, <1>9, <1>10, EndStep

-----------------------------------------------------------------------------
(* write(): the members after a turn of its loop that sent n units.        *)
Kept(d, c) ==
    /\ d.m_write_idx = c.m_write_idx /\ d.st_size = c.st_size
    /\ d.m_iv_count = c.m_iv_count
    /\ d.m_read_buf = c.m_read_buf
    /\ d.m_checked_idx = c.m_checked_idx
    /\ d.m_start_line = c.m_start_line
    /\ d.m_file_address = c.m_file_address

(* What write() does to its counters and iovecs after n units: the iovec   *)
(* that is partly sent starts where the last writev stopped.               *)
LEMMA AdvanceIs ==
    ASSUME NEW c \in ConnRec, NEW n \in Nat, n <= c.bytes_to_send
    PROVE  /\ Advance(c, n) \in ConnRec /\ Kept(Advance(c, n), c)
           /\ Advance(c, n).bytes_have_send = c.bytes_have_send + n
           /\ Advance(c, n).bytes_to_send = c.bytes_to_send - n
           /\ c.bytes_have_send + n >= c.m_iv[1].len =>
                /\ Advance(c, n).m_iv[1].len = 0
                /\ Advance(c, n).m_iv[2] =
                     [base |-> c.bytes_have_send + n - c.m_write_idx,
                      len |-> c.bytes_to_send - n]
           /\ c.bytes_have_send + n < c.m_iv[1].len =>
                /\ Advance(c, n).m_iv[1] =
                     [base |-> c.bytes_have_send + n,
                      len |-> c.m_iv[1].len - (c.bytes_have_send + n)]
                /\ Advance(c, n).m_iv[2] = c.m_iv[2]
<1>1. /\ c.bytes_have_send \in Nat /\ c.bytes_to_send \in Nat
      /\ c.m_write_idx \in Nat /\ c.m_iv \in Iovs
  BY DEF ConnRec
<1>2. PICK have \in Nat : have = c.bytes_have_send + n
  BY <1>1
<1>3. PICK left \in Nat : left = c.bytes_to_send - n
  BY <1>1
<1>4. PICK x \in Iov : x = c.m_iv[1]
  BY IovsOf
<1>5. x.len \in Nat /\ x.base \in Int
  BY DEF Iov
<1>6. PICK d : d = [c EXCEPT !.bytes_have_send = have, !.bytes_to_send = left]
  OBVIOUS
<1>7. /\ d \in ConnRec /\ Kept(d, c) /\ d.m_iv = c.m_iv
      /\ d.bytes_have_send = have /\ d.bytes_to_send = left
  BY <1>6 DEF ConnRec, Kept
<1>8. ASSUME NEW m \in Iovs, Advance(c, n) = [d EXCEPT !.m_iv = m]
      PROVE  /\ Advance(c, n) \in ConnRec /\ Kept(Advance(c, n), c)
             /\ Advance(c, n).bytes_have_send = have
             /\ Advance(c, n).bytes_to_send = left
             /\ Advance(c, n).m_iv = m
  <2>1. PICK e : e = Advance(c, n)
    OBVIOUS
  <2>2. e = [d EXCEPT !.m_iv = m]
    BY <1>8, <2>1
  <2>3. e \in ConnRec /\ e.m_iv = m
    BY <1>7, <2>2 DEF ConnRec
  <2>4. Kept(e, d) /\ e.bytes_have_send = have /\ e.bytes_to_send = left
    BY <1>7, <2>2 DEF ConnRec, Kept
  <2>5. Kept(e, c)
    BY <1>7, <2>4 DEF Kept
  <2> QED BY <2>1, <2>3, <2>4, <2>5
<1>9. CASE have >= x.len
  <2>1. <<[base |-> x.base, len |-> 0],
          [base |-> have - c.m_write_idx, len |-> left]>> \in Iovs
    BY <1>1, <1>5 DEF Iov, Iovs
  <2>2. PICK m \in Iovs :
          m = <<[base |-> x.base, len |-> 0],
                [base |-> have - c.m_write_idx, len |-> left]>>
    BY <2>1
  <2>3. Advance(c, n) = [d EXCEPT !.m_iv = m]
    BY <1>2, <1>3, <1>4, <1>6, <1>9, <2>2 DEF Advance
  <2>4. m[1].len = 0 /\ m[2] = [base |-> have - c.m_write_idx, len |-> left]
    BY <2>2
  <2>5. ~(have < x.len)
    BY <1>5, <1>9
  <2>6. /\ Advance(c, n) \in ConnRec /\ Kept(Advance(c, n), c)
        /\ Advance(c, n).bytes_have_send = have
        /\ Advance(c, n).bytes_to_send = left
        /\ Advance(c, n).m_iv = m
    BY <1>8, <2>3
  <2>7. /\ Advance(c, n).m_iv[1].len = 0
        /\ Advance(c, n).m_iv[2] =
             [base |-> have - c.m_write_idx, len |-> left]
    BY <2>4, <2>6
  <2>8. Advance(c, n).m_iv[2] =
          [base |-> c.bytes_have_send + n - c.m_write_idx,
           len |-> c.bytes_to_send - n]
    <3>1. PICK z \in Int : z = have - c.m_write_idx
      BY <1>1
    <3>2. Advance(c, n).m_iv[2] = [base |-> z, len |-> left]
      BY <2>7, <3>1
    <3>3. z = c.bytes_have_send + n - c.m_write_idx
      BY <1>1, <1>2, <3>1
    <3> QED BY <1>3, <3>2, <3>3, Zenon
  <2>9. ~(c.bytes_have_send + n < c.m_iv[1].len)
    BY <1>2, <1>4, <2>5
  <2> QED BY <1>2, <1>3, <2>6, <2>7, <2>8, <2>9
<1>10. CASE ~(have >= x.len)
  <2>1. have < x.len /\ x.len - have \in Nat
    BY <1>5, <1>10
  <2>2. [base |-> have, len |-> x.len - have] \in Iov
    BY <2>1 DEF Iov
  <2>3. PICK v \in Iov : v = [base |-> have, len |-> x.len - have]
    BY <2>2
  <2>4. PICK m : m = [c.m_iv EXCEPT ![1] = v]
    OBVIOUS
  <2>5. m \in Iovs /\ m[1] = v /\ m[2] = c.m_iv[2]
    BY <1>1, <2>4, IovUpdate
  <2>6. Advance(c, n) = [d EXCEPT !.m_iv[1] = v]
    BY <1>2, <1>3, <1>4, <1>6, <1>10, <2>3 DEF Advance
  <2>7. Advance(c, n) = [d EXCEPT !.m_iv = m]
    BY <1>7, <2>4, <2>6
  <2> QED BY <1>2, <1>3, <1>4, <1>8, <1>10, <2>3, <2>5, <2>7
<1> QED BY <1>9, <1>10

(* writev sends no more than bytes_to_send.                                *)
LEMMA SendableBounded ==
    ASSUME Inv, pc = "write", NEW n \in 1..Sendable(conn)
    PROVE  /\ n \in Nat /\ n > 0 /\ n <= Described(conn)
           /\ Described(conn) \in Nat
           /\ Described(conn) <= conn.bytes_to_send
<1>1. conn \in ConnRec
  BY DEF Inv, TypeInv
<1>2. PICK x \in Iov, y \in Iov : x = conn.m_iv[1] /\ y = conn.m_iv[2]
  BY <1>1, IovsOf
<1>3. x.len \in Nat /\ y.len \in Nat
  BY DEF Iov
<1>4. Described(conn) = x.len + (IF conn.m_iv_count = 2 THEN y.len ELSE 0)
  BY <1>2 DEF Described, PartsLen
<1>5. Described(conn) \in Nat /\ Len(Gathered(conn)) = Described(conn)
  BY <1>1, GatheredAre
<1>6. Sendable(conn) \in Nat /\ Sendable(conn) <= Described(conn)
  BY <1>2, <1>3, <1>4, <1>5 DEF Sendable
<1>7. Described(conn) <= conn.bytes_to_send
  BY <1>2, <1>4 DEF Inv, SumInv
<1> QED BY <1>5, <1>6, <1>7

(* What the iovecs describe continues what has been sent.                  *)
LEMMA GatheredUnit ==
    ASSUME conn \in ConnRec, Exact, NEW i \in 1..Described(conn)
    PROVE  Gathered(conn)[i] = Unit(conn, conn.bytes_have_send + i)
<1>1. PICK have \in Nat, w \in Nat, x \in Iov, y \in Iov :
        /\ have = conn.bytes_have_send /\ w = conn.m_write_idx
        /\ x = conn.m_iv[1] /\ y = conn.m_iv[2]
  BY IovsOf DEF ConnRec
<1>2. Gathered(conn)[i] =
        IF i <= x.len THEN <<"header", x.base + i - 1>>
                      ELSE <<"file", y.base + (i - x.len) - 1>>
  BY <1>1, GatheredAre
<1>3. Unit(conn, have + i) =
        IF have + i <= w THEN <<"header", have + i - 1>>
                         ELSE <<"file", have + i - w - 1>>
  BY <1>1 DEF Unit
<1>4. Described(conn) \in Nat
  BY GatheredAre
<1>5. CASE have < w
  <2>1. /\ x.base = have /\ x.len = w - have
        /\ conn.m_iv_count = 2 => y.base = 0
    BY <1>1, <1>5 DEF Exact
  <2>2. CASE i <= x.len
    BY <1>1, <1>2, <1>3, <1>4, <1>5, <2>1, <2>2
  <2>3. CASE ~(i <= x.len)
    <3>1. conn.m_iv_count = 2
      <4>1. Described(conn) =
               x.len + (IF conn.m_iv_count = 2 THEN y.len ELSE 0)
        BY <1>1 DEF Described, PartsLen
      <4>2. x.len \in Nat
        BY DEF Iov
      <4> QED BY <1>4, <2>3, <4>1, <4>2
    <3>2. y.base = 0
      BY <2>1, <3>1
    <3>3. ~(have + i <= w)
          /\ y.base + (i - x.len) - 1 = have + i - w - 1
      BY <1>4, <1>5, <2>1, <2>3, <3>2
    <3> QED BY <1>2, <1>3, <2>3, <3>3, <1>1
  <2> QED BY <1>1, <2>2, <2>3
<1>6. CASE ~(have < w)
  <2>1. x.len = 0 /\ y.base = have - w
    BY <1>1, <1>6 DEF Exact
  <2>2. ~(have + i <= w) /\ ~(i <= x.len)
        /\ y.base + (i - x.len) - 1 = have + i - w - 1
    BY <1>4, <1>6, <2>1
  <2> QED BY <1>1, <1>2, <1>3, <2>2
<1> QED BY <1>5, <1>6

(* The wire after writev sent n units, while at most one write has left a  *)
(* part of the header: the beginning of the response, n units longer.      *)
LEMMA Progress ==
    ASSUME Inv, NEW n \in 1..Sendable(conn), Sends(n)
    PROVE  /\ wire' \in Seq(WireUnits) /\ short' \in Nat
           /\ ~again /\ short' <= 1 =>
                /\ short <= 1 /\ Exact
                /\ conn.bytes_have_send + n <= Total(conn)
                /\ Len(wire') = conn.bytes_have_send + n
                /\ \A i \in 1..(conn.bytes_have_send + n) :
                      wire'[i] = Unit(conn, i)
<1>1. conn \in ConnRec /\ wire \in Seq(WireUnits) /\ short \in Nat
      /\ pc = "write"
  BY DEF Inv, TypeInv, Sends
<1>2. /\ n \in Nat /\ n > 0 /\ n <= Described(conn)
      /\ Described(conn) \in Nat /\ Described(conn) <= conn.bytes_to_send
  BY <1>1, SendableBounded
<1>3. /\ Gathered(conn) \in Seq(WireUnits)
      /\ Len(Gathered(conn)) = Described(conn)
  BY <1>1, GatheredAre
<1>4. PICK g : g = SubSeq(Gathered(conn), 1, n)
  OBVIOUS
<1>5. /\ g \in Seq(WireUnits) /\ Len(g) = n
      /\ \A i \in 1..n : g[i] = Gathered(conn)[i]
  <2>1. \A i \in 1..n : Gathered(conn)[i] \in WireUnits
    BY <1>2, <1>3, ElementOfSeq
  <2>2. /\ g \in Seq(WireUnits)
        /\ Len(g) = IF 1 <= n THEN n - 1 + 1 ELSE 0
        /\ \A i \in 1..(n - 1 + 1) : g[i] = Gathered(conn)[1 + i - 1]
    BY <1>2, <1>3, <1>4, <2>1, SubSeqProperties
  <2> QED BY <1>2, <2>2
<1>6. /\ wire' \in Seq(WireUnits) /\ Len(wire') = Len(wire) + n
      /\ \A i \in 1..(Len(wire) + n) :
           wire'[i] = IF i <= Len(wire) THEN wire[i] ELSE g[i - Len(wire)]
  <2>1. PICK a \in Seq(WireUnits) : a = wire
    BY <1>1
  <2>2. wire' = a \o g
    BY <1>4, <2>1 DEF Sends
  <2>3. /\ a \o g \in Seq(WireUnits) /\ Len(a \o g) = Len(a) + Len(g)
        /\ \A i \in 1..(Len(a) + Len(g)) :
             (a \o g)[i] = IF i <= Len(a) THEN a[i] ELSE g[i - Len(a)]
    BY <1>5, ConcatProperties
  <2>4. Len(g) = n
    BY <1>5
  <2>5. PICK b : b = a \o g
    OBVIOUS
  <2>6. /\ b \in Seq(WireUnits) /\ Len(b) = Len(a) + n
        /\ \A i \in 1..(Len(a) + n) :
             b[i] = IF i <= Len(a) THEN a[i] ELSE g[i - Len(a)]
    BY <2>3, <2>4, <2>5
  <2> QED BY <2>1, <2>2, <2>5, <2>6
<1>7. short' \in Nat /\ short <= short'
  BY <1>1 DEF Sends
<1>8. ASSUME ~again, short' <= 1
      PROVE  /\ short <= 1 /\ Exact
             /\ conn.bytes_have_send + n <= Total(conn)
             /\ Len(wire') = conn.bytes_have_send + n
             /\ \A i \in 1..(conn.bytes_have_send + n) :
                   wire'[i] = Unit(conn, i)
  <2>1. short <= 1
    BY <1>1, <1>7, <1>8
  <2>2. Exact
    BY <1>1, <1>8, <2>1 DEF Inv, ExactInv
  <2>3. PICK have \in Nat, w \in Nat, t \in Nat :
           /\ have = conn.bytes_have_send /\ w = conn.m_write_idx
           /\ t = Total(conn)
    BY <1>1, ResponseIs DEF ConnRec
  <2>4. /\ have <= t /\ conn.bytes_to_send = t - have /\ Len(wire) = have
        /\ \A i \in 1..have : wire[i] = Unit(conn, i)
    BY <2>2, <2>3 DEF Exact
  <2>5. have + n <= t
    BY <1>2, <2>3, <2>4
  <2>6. \A i \in 1..n : Gathered(conn)[i] = Unit(conn, have + i)
    <3>1. \A i \in 1..n : i \in 1..Described(conn)
      BY <1>2
    <3> QED BY <1>1, <2>2, <2>3, <3>1, GatheredUnit
  <2>7. ASSUME NEW i \in 1..(have + n)
        PROVE  wire'[i] = Unit(conn, i)
    <3>1. CASE i <= have
      BY <1>2, <1>6, <2>4, <3>1
    <3>2. CASE ~(i <= have)
      <4>1. i - have \in 1..n /\ have + (i - have) = i
        BY <1>2, <3>2
      <4>2. wire'[i] = g[i - have]
        BY <1>2, <1>6, <2>4, <3>2
      <4>3. g[i - have] = Gathered(conn)[i - have]
        BY <1>5, <4>1
      <4> QED BY <2>6, <4>1, <4>2, <4>3
    <3> QED BY <3>1, <3>2
  <2> QED BY <1>6, <2>1, <2>2, <2>3, <2>4, <2>5, <2>7
<1> QED BY <1>6, <1>7, <1>8

(* A writev that leaves something to send preserves the invariant.         *)
LEMMA WriteSomeStep ==
    ASSUME Inv, NEW n \in 1..Sendable(conn), WriteSome(n)
    PROVE  Inv'
<1>1. conn \in ConnRec /\ pc = "write" /\ pc' = "write" /\ short \in Nat
      /\ Sends(n) /\ conn' = Advance(conn, n)
  BY DEF Inv, TypeInv, WriteSome, Sends
<1>2. /\ n \in Nat /\ n > 0 /\ n <= Described(conn)
      /\ Described(conn) \in Nat /\ Described(conn) <= conn.bytes_to_send
  BY <1>1, SendableBounded
<1>3. PICK have \in Nat, left \in Nat, w \in Nat, x \in Iov, y \in Iov :
        /\ have = conn.bytes_have_send /\ left = conn.bytes_to_send
        /\ w = conn.m_write_idx /\ x = conn.m_iv[1] /\ y = conn.m_iv[2]
  BY <1>1, IovsOf DEF ConnRec
<1>4. x.len \in Nat /\ y.len \in Nat /\ n <= left
  BY <1>2, <1>3 DEF Iov
<1>5. /\ conn' \in ConnRec /\ Kept(conn', conn)
      /\ conn'.bytes_have_send = have + n
      /\ conn'.bytes_to_send = left - n
      /\ have + n >= x.len =>
           /\ conn'.m_iv[1].len = 0
           /\ conn'.m_iv[2] = [base |-> have + n - w, len |-> left - n]
      /\ have + n < x.len =>
           /\ conn'.m_iv[1] = [base |-> have + n, len |-> x.len - (have + n)]
           /\ conn'.m_iv[2] = y
  <2>1. PICK c \in ConnRec : c = conn
    BY <1>1
  <2>2. n <= c.bytes_to_send
    BY <1>3, <1>4, <2>1
  <2> QED BY <1>1, <1>2, <1>3, <2>1, <2>2, AdvanceIs
<1>6. /\ wire' \in Seq(WireUnits) /\ short' \in Nat
      /\ ~again /\ short' <= 1 =>
           /\ short <= 1 /\ Exact /\ have + n <= Total(conn)
           /\ Len(wire') = have + n
           /\ \A i \in 1..(have + n) : wire'[i] = Unit(conn, i)
  BY <1>1, <1>3, Progress
<1>7. TypeInv'
  BY <1>1, <1>5, <1>6 DEF Inv, TypeInv, WriteSome, serverVars, netVars, leftVars
<1>8. BufInv'
  BY <1>5 DEF Inv, BufInv, Kept
<1>9. Quiet' /\ FreshInv' /\ ParseInv' /\ MapInv'
  <2>1. MapInv'
    BY <1>1, <1>5, MapKept DEF WriteSome, FileMapped, Kept, leftVars
  <2> QED BY <1>1, <2>1 DEF Quiet, FreshInv, ParseInv
<1>10. ProxyAdmission'
  <2>1. HasLine(conn', "X-Forwarded-By") <=> HasLine(conn, "X-Forwarded-By")
    BY <1>5 DEF HasLine, Kept
  <2>2. code' = code /\ ProxyType' = ProxyType /\ again' = again
    BY DEF WriteSome, serverVars, leftVars
  <2> QED BY <1>1, <2>1, <2>2 DEF Inv, ProxyAdmission
<1>11. SumInv'
  <2>1. conn'.m_iv_count = conn.m_iv_count /\ conn.m_iv_count \in {1, 2}
    BY <1>1, <1>5 DEF Kept, Inv, SumInv
  <2>2. x.len + (IF conn.m_iv_count = 2 THEN y.len ELSE 0) <= left
    BY <1>1, <1>3 DEF Inv, SumInv
  <2>3. CASE have + n >= x.len
    <3>1. conn'.m_iv[1].len = 0 /\ conn'.m_iv[2].len = left - n
      BY <1>5, <2>3
    <3> QED BY <1>4, <1>5, <2>1, <3>1 DEF SumInv
  <2>4. CASE ~(have + n >= x.len)
    <3>1. conn'.m_iv[1].len = x.len - (have + n)
          /\ conn'.m_iv[2].len = y.len
      BY <1>2, <1>4, <1>5, <2>4
    <3> QED BY <1>2, <1>4, <1>5, <2>1, <2>2, <3>1 DEF SumInv
  <2> QED BY <2>3, <2>4
<1>12. ExactInv'
  <2> SUFFICES ASSUME ~again, short' <= 1 PROVE Exact'
    BY DEF ExactInv, WriteSome, leftVars
  <2>1. /\ short <= 1 /\ Exact /\ have + n <= Total(conn)
        /\ Len(wire') = have + n
        /\ \A i \in 1..(have + n) : wire'[i] = Unit(conn, i)
    BY <1>6
  <2>2. PICK t \in Nat : t = Total(conn)
    BY <1>1, ResponseIs
  <2>3. Total(conn') = t /\ \A i : Unit(conn', i) = Unit(conn, i)
    BY <1>5, <2>2 DEF Total, FileLen, Unit, Kept
  <2>4. left = t - have /\ have <= t
    BY <1>3, <2>1, <2>2 DEF Exact
  <2>5. conn'.bytes_to_send = t - (have + n) /\ left - n = t - (have + n)
    BY <1>2, <1>5, <2>4
  <2>6. conn'.m_write_idx = w /\ conn'.st_size = conn.st_size
        /\ conn'.m_iv_count = conn.m_iv_count
    BY <1>3, <1>5 DEF Kept
  <2>7. \/ /\ have < w /\ x = [base |-> have, len |-> w - have]
           /\ conn.m_iv_count = 2 =>
                 y = [base |-> 0, len |-> conn.st_size]
        \/ have >= w /\ x.len = 0
    BY <1>3, <2>1 DEF Exact
  <2>8. n < x.len => short' = short + 1
    BY <1>1, <1>3 DEF Sends
  <2>9. CASE n < x.len
    <3>1. have = 0 /\ x.len = w /\ have < w
      <4>1. short = 0
        BY <1>1, <1>6, <2>8, <2>9
      <4>2. have < w /\ x.len = w - have
        BY <1>2, <2>7, <2>9
      <4>3. have = 0
        BY <1>3, <2>1, <4>1, <4>2 DEF Exact
      <4> QED BY <4>2, <4>3
    <3>2. have + n < w /\ have + n < x.len
      BY <1>2, <2>9, <3>1
    <3>3. conn'.m_iv[1] = [base |-> have + n, len |-> w - (have + n)]
          /\ conn'.m_iv[2] = y
      BY <1>5, <3>1, <3>2
    <3>4. conn'.m_iv_count = 2 =>
             conn'.m_iv[2] = [base |-> 0, len |-> conn'.st_size]
      BY <2>6, <2>7, <3>1, <3>3
    <3>5. ~(short' = 0)
      BY <1>1, <2>8, <2>9
    <3> QED BY <1>5, <2>1, <2>2, <2>3, <2>5, <2>6, <3>2, <3>3, <3>4, <3>5
         DEF Exact
  <2>10. CASE ~(n < x.len)
    <3>1. have + n >= w /\ have + n >= x.len
      BY <1>2, <1>4, <2>7, <2>10
    <3>2. conn'.m_iv[1].len = 0
          /\ conn'.m_iv[2] = [base |-> have + n - w, len |-> left - n]
      BY <1>5, <3>1
    <3>3. conn'.m_iv[2] = [base |-> have + n - w, len |-> t - (have + n)]
      BY <2>5, <3>2
    <3>4. PICK m \in Nat : m = have + n
      BY <1>2, <1>4
    <3>5. conn'.bytes_have_send = m /\ m >= conn'.m_write_idx
      BY <1>5, <2>6, <3>1, <3>4
    <3>6. /\ m <= Total(conn') /\ conn'.bytes_to_send = Total(conn') - m
          /\ Len(wire') = m
      BY <2>1, <2>2, <2>3, <2>5, <3>4
    <3>7. \A i \in 1..m : wire'[i] = Unit(conn', i)
      BY <2>1, <2>3, <3>4
    <3>8. conn'.m_iv[2] = [base |-> m - conn'.m_write_idx,
                           len |-> Total(conn') - m]
      BY <2>3, <2>6, <3>3, <3>4
    <3> QED BY <3>2, <3>5, <3>6, <3>7, <3>8 DEF Exact
  <2> QED BY <2>9, <2>10
<1> QED BY <1>7, <1>8, <1>9, <1>10, <1>11, <1>12 DEF Inv

(* The writev that ends a response preserves the invariant: the file is    *)
(* unmapped and the connection is reset.                                   *)
LEMMA WriteLastStep ==
    ASSUME Inv, NEW n \in 1..Sendable(conn), WriteLast(n)
    PROVE  Inv'
<1>1. conn \in ConnRec /\ pc = "write" /\ Sends(n)
  BY DEF Inv, TypeInv, WriteLast, Sends
<1>2. n \in Nat /\ n <= conn.bytes_to_send
  <2>1. conn.bytes_to_send \in Nat
    BY <1>1 DEF ConnRec
  <2> QED BY <1>1, <2>1, SendableBounded
<1>3. PICK d : d = Advance(conn, n)
  OBVIOUS
<1>4. d \in ConnRec /\ Kept(d, conn)
  BY <1>1, <1>2, <1>3, AdvanceIs
<1>5. PICK u \in ConnRec : u = Unmap(d)
  BY <1>4, ForgetUnmapType
<1>6. PICK c \in ConnRec : c = Forget(u)
  BY ForgetUnmapType
<1>7. /\ c.m_file_address = "null"
      /\ c.m_read_buf = conn.m_read_buf
      /\ c.m_checked_idx = conn.m_checked_idx
      /\ c.m_start_line = conn.m_start_line
      /\ c.m_write_idx = conn.m_write_idx
  BY <1>4, <1>5, <1>6, ForgetUnmapType DEF Kept
<1>8. /\ conn' = IF conn.m_linger THEN Reset(c) ELSE c
      /\ pc' = IF conn.m_linger THEN "read" ELSE "end"
  BY <1>3, <1>5, <1>6 DEF WriteLast
<1>9. /\ answered' = answered + 1 /\ agains' = agains
      /\ again' \in BOOLEAN /\ maps' = MapsUnmapped
      /\ UNCHANGED <<serverVars, decide_proxy, code, stream>>
  BY DEF WriteLast
<1>10. wire' \in Seq(WireUnits) /\ short' \in Nat
  BY <1>1, Progress
<1>m. MapInv' /\ maps' \in Nat
  <2>1. conn'.m_file_address = "null"
    BY <1>7, <1>8, ResetClears
  <2> QED BY <1>9, <2>1, UnmapStep
<1>11. CASE conn.m_linger
  <2>1. conn' = Reset(c) /\ pc' = "read"
    BY <1>8, <1>11
  <2>2. conn' \in ConnRec
    BY <2>1, ResetClears
  <2>3. TypeInv'
    BY <1>9, <1>10, <1>m, <2>1, <2>2 DEF Inv, TypeInv, serverVars
  <2> QED BY <1>m, <2>1, <2>3, ReadStep
<1>12. CASE ~conn.m_linger
  <2>1. conn' = c /\ pc' = "end"
    BY <1>8, <1>12
  <2>2. TypeInv'
    BY <1>9, <1>10, <1>m, <2>1 DEF Inv, TypeInv, serverVars
  <2>3. BufInv'
    BY <1>7, <2>1 DEF Inv, BufInv
  <2> QED BY <1>m, <2>1, <2>2, <2>3, EndStep
<1> QED BY <1>11, <1>12

(* A writev that fails preserves the invariant: the file is unmapped.      *)
LEMMA WriteFailsStep ==
    ASSUME Inv, WriteFails
    PROVE  Inv'
<1>1. conn \in ConnRec /\ conn' = Unmap(conn) /\ pc' = "end"
  BY DEF Inv, TypeInv, WriteFails
<1>2. /\ conn' \in ConnRec /\ conn'.m_file_address = "null"
      /\ conn'.m_read_buf = conn.m_read_buf
      /\ conn'.m_checked_idx = conn.m_checked_idx
      /\ conn'.m_start_line = conn.m_start_line
      /\ conn'.m_write_idx = conn.m_write_idx
  BY <1>1, ForgetUnmapType
<1>m. MapInv' /\ maps' \in Nat
  BY <1>2, UnmapStep DEF WriteFails
<1>3. TypeInv'
  BY <1>1, <1>2, <1>m
     DEF Inv, TypeInv, WriteFails, serverVars, netVars, outVars
<1>4. BufInv'
  BY <1>2 DEF Inv, BufInv
<1> QED BY <1>1, <1>m, <1>3, <1>4, EndStep

(* A writev that fails with EAGAIN preserves the invariant: the mapping it *)
(* may lose is counted, and nothing is claimed of the parser after it.     *)
LEMMA WriteAgainStep ==
    ASSUME Inv, WriteAgain
    PROVE  Inv'
<1>1. /\ pc = "write" /\ pc' = "read" /\ again' = TRUE
      /\ agains' = agains + 1 /\ maps' = maps
      /\ UNCHANGED <<serverVars, conn, decide_proxy, code, stream, outVars>>
  BY DEF WriteAgain, netVars
<1>2. /\ agains \in Nat /\ maps \in Nat /\ maps <= agains + 1
      /\ conn.m_file_address = "mapped" => maps >= 1
  BY DEF Inv, TypeInv, MapInv, MappingsReleased
<1>3. TypeInv'
  <2>1. again' \in BOOLEAN /\ agains' \in Nat
    BY <1>1, <1>2
  <2> QED BY <1>1, <2>1 DEF Inv, TypeInv, serverVars, outVars
<1>4. BufInv'
  BY <1>1 DEF Inv, BufInv
<1>5. MapInv'
  <2>1. maps' <= agains'
    BY <1>1, <1>2
  <2>2. MappingsReleased'
    BY <1>1, <2>1 DEF MappingsReleased
  <2> QED BY <1>1, <1>2, <2>2 DEF MapInv, FileMapped
<1>6. Quiet' /\ FreshInv' /\ ParseInv' /\ SumInv' /\ ExactInv'
      /\ ProxyAdmission'
  BY <1>1 DEF Quiet, FreshInv, ParseInv, SumInv, ExactInv, ProxyAdmission
<1> QED BY <1>3, <1>4, <1>5, <1>6 DEF Inv

(* Closing the client preserves the invariant.                             *)
LEMMA CloseClientStep ==
    ASSUME Inv, CloseClient
    PROVE  Inv'
<1>1. conn \in ConnRec /\ conn' = Forget(conn) /\ pc = "end" /\ pc' = "free"
  BY DEF Inv, TypeInv, CloseClient
<1>2. /\ conn' \in ConnRec /\ conn'.m_file_address = conn.m_file_address
      /\ conn'.m_read_buf = conn.m_read_buf
      /\ conn'.m_checked_idx = conn.m_checked_idx
      /\ conn'.m_start_line = conn.m_start_line
      /\ conn'.m_write_idx = conn.m_write_idx
  BY <1>1, ForgetUnmapType
<1>3. /\ wire' = <<>> /\ short' = 0 /\ answered' = 0 /\ stream' = <<>>
      /\ code' = "NO_REQUEST" /\ UNCHANGED <<serverVars, leftVars>>
  BY DEF CloseClient
<1>4. decide_proxy' = TRUE
  BY DEF CloseClient
<1>5. TypeInv'
  <2>1. stream' \in Seq(STRING) /\ wire' \in Seq(WireUnits)
    BY <1>3
  <2>2. decide_proxy' \in BOOLEAN
    BY <1>4
  <2> QED BY <1>1, <1>2, <1>3, <2>1, <2>2
          DEF Inv, TypeInv, serverVars, leftVars
<1>6. BufInv'
  BY <1>2 DEF Inv, BufInv
<1>7. MapInv'
  BY <1>1, <1>2, <1>3, MapKept DEF FileMapped, leftVars
<1> QED BY <1>1, <1>5, <1>6, <1>7, EndStep

(* A read that fails or meets the end of the stream preserves the          *)
(* invariant.                                                              *)
LEMMA ReadFailsStep ==
    ASSUME Inv, ReadFails
    PROVE  Inv'
<1>1. pc = "read" /\ pc' = "end" /\ conn' = conn
      /\ UNCHANGED <<serverVars, decide_proxy, code, stream, outVars, leftVars>>
  BY DEF ReadFails, netVars
<1>2. TypeInv'
  BY <1>1 DEF Inv, TypeInv, serverVars, outVars, leftVars
<1>3. BufInv'
  BY <1>1 DEF Inv, BufInv
<1>4. MapInv'
  BY <1>1, MapKept DEF FileMapped, leftVars
<1> QED BY <1>1, <1>2, <1>3, <1>4, EndStep

-----------------------------------------------------------------------------
(* Every step of handleClient and of its clients preserves the invariant.  *)
LEMMA InvNext == Inv /\ [Next]_vars => Inv'
<1> SUFFICES ASSUME Inv, [Next]_vars PROVE Inv'
  OBVIOUS
<1>1. ASSUME UNCHANGED vars PROVE Inv'
  <2>1. stream' \in Seq(STRING)
        /\ UNCHANGED <<serverVars, conn, pc, decide_proxy, code, outVars,
                       leftVars>>
    BY <1>1 DEF Inv, TypeInv, vars, netVars
  <2> QED BY <2>1, FrameStep
<1>2. CASE HandleClient
  BY <1>2, HandleClientStep
<1>3. CASE Client
  BY <1>3, ClientSendStep, ClientStopsStep DEF Client
<1>4. CASE Handler
  <2>1. ASSUME NEW n \in 1..ReadBufferSize, ReadOnce(n) PROVE Inv'
    BY <2>1, ReadOnceStep
  <2>3. CASE TakeConnection
    BY <2>3, TakeConnectionStep
  <2>4. CASE ParseNext
    BY <2>4, ParseNextStep
  <2>5. CASE ParseContent
    BY <2>5, ParseContentStep
  <2>6. CASE ParseEnds
    BY <2>6, ParseEndsStep
  <2>7. CASE DoRequest
    BY <2>7, DoRequestStep
  <2>8. CASE ProcessWrite
    <3>1. ErrorPage \/ FilePage \/ NoPage
      BY <2>8 DEF ProcessWrite
    <3> QED BY <2>8, <3>1, ErrorPageStep, FilePageStep, NoPageStep
  <2>9. ASSUME NEW n \in 1..Sendable(conn), WriteSome(n) PROVE Inv'
    BY <2>9, WriteSomeStep
  <2>10. ASSUME NEW n \in 1..Sendable(conn), WriteLast(n) PROVE Inv'
    BY <2>10, WriteLastStep
  <2>11. CASE WriteFails
    BY <2>11, WriteFailsStep
  <2>12. CASE WriteNothing
    BY <1>1, <2>12 DEF WriteNothing
  <2>13. CASE CloseClient
    BY <2>13, CloseClientStep
  <2> QED BY <1>4, <2>1, <2>3, <2>4, <2>5, <2>6, <2>7, <2>8, <2>9,
             <2>10, <2>11, <2>12, <2>13 DEF Handler
<1>5. CASE Network
  BY <1>5, ReadFailsStep, WriteFailsStep, WriteAgainStep DEF Network
<1>6. CASE Unused
  BY <1>1, <1>6 DEF Unused
<1> QED BY <1>1, <1>2, <1>3, <1>4, <1>5, <1>6 DEF Next

(* The invariant holds in every reachable state.                           *)
LEMMA InvAlways == Spec => []Inv
<1> QED BY InvInit, InvNext, PTL DEF Spec

(* The types, and the indices into the two buffers: neither recv nor       *)
(* add_response goes beyond its buffer, for any sizes.                     *)
THEOREM TypeCorrect == Spec => []TypeOK
<1>1. Inv => TypeOK
  <2> SUFFICES ASSUME Inv PROVE TypeOK
    OBVIOUS
  <2>1. conn \in ConnRec /\ Len(conn.m_read_buf) \in Nat
    BY DEF Inv, TypeInv, ConnRec
  <2>2. /\ conn.m_checked_idx \in Nat /\ conn.m_start_line \in Nat
        /\ conn.m_write_idx \in Nat
        /\ conn.bytes_to_send \in Nat /\ conn.bytes_have_send \in Nat
    BY <2>1 DEF ConnRec
  <2>3. /\ conn.m_check_state \in {"REQUESTLINE", "HEADER", "CONTENT"}
        /\ conn.m_file_address \in {"null", "mapped", "failed"}
    BY <2>1 DEF ConnRec
  <2>4. /\ Len(conn.m_read_buf) \in 0..ReadBufferSize
        /\ conn.m_checked_idx \in 0..Len(conn.m_read_buf)
        /\ conn.m_start_line \in 0..Len(conn.m_read_buf)
        /\ conn.m_write_idx \in 0..(WriteBufferSize - 2)
    BY <2>1, <2>2, SizesNat DEF Inv, BufInv
  <2> QED BY <2>2, <2>3, <2>4 DEF Inv, TypeInv, TypeOK
<1> QED BY <1>1, InvAlways, PTL

(* Every way out of write() but EAGAIN releases the mapping of its         *)
(* response, and an EAGAIN loses at most one: for any requests, whatever   *)
(* an EAGAIN leaves in the buffers, and any number of clients of the entry.*)
THEOREM MappingsFreed == Spec => []MappingsReleased
<1>1. Inv => MappingsReleased
  BY DEF Inv, MapInv
<1> QED BY <1>1, InvAlways, PTL

(* do_request serves a file only to the requests that came the configured  *)
(* way, as long as no EAGAIN has left the parser behind a refused header.  *)
THEOREM OnlyTheConfiguredWay == Spec => []ProxyAdmission
<1>1. Inv => ProxyAdmission
  BY DEF Inv
<1> QED BY <1>1, InvAlways, PTL

(* What is on the wire and what the iovecs describe is the response.       *)
RestDescribed ==
    pc = "write" /\ ~again /\ short <= 1 => wire \o Gathered(conn) = Response(conn)

(* In every state of the invariant the iovecs describe what has not been   *)
(* sent, as long as at most one short write ended inside the header.       *)
LEMMA RestIsDescribed == Inv => RestDescribed
<1> SUFFICES ASSUME Inv, pc = "write", ~again, short <= 1
             PROVE  wire \o Gathered(conn) = Response(conn)
  BY DEF RestDescribed
<1>1. conn \in ConnRec /\ wire \in Seq(WireUnits) /\ Exact
  BY DEF Inv, TypeInv, ExactInv
<1>2. PICK have \in Nat, w \in Nat, t \in Nat, x \in Iov, y \in Iov :
        /\ have = conn.bytes_have_send /\ w = conn.m_write_idx
        /\ t = Total(conn) /\ x = conn.m_iv[1] /\ y = conn.m_iv[2]
  BY <1>1, IovsOf, ResponseIs DEF ConnRec
<1>3. /\ have <= t /\ Len(wire) = have
      /\ \A i \in 1..have : wire[i] = Unit(conn, i)
  BY <1>1, <1>2 DEF Exact
<1>4. Described(conn) = t - have
  <2>1. Described(conn) = x.len + (IF conn.m_iv_count = 2 THEN y.len ELSE 0)
    BY <1>2 DEF Described, PartsLen
  <2>2. t = w + (IF conn.m_iv_count = 2 THEN conn.st_size ELSE 0)
    BY <1>2 DEF Total, FileLen
  <2>3. conn.st_size \in Nat
    BY <1>1 DEF ConnRec
  <2>4. CASE have < w
    <3>1. x.len = w - have /\ (conn.m_iv_count = 2 => y.len = conn.st_size)
      BY <1>1, <1>2, <2>4 DEF Exact
    <3> QED BY <2>1, <2>2, <2>3, <3>1
  <2>5. CASE ~(have < w)
    <3>1. x.len = 0 /\ y.len = t - have
      BY <1>1, <1>2, <2>5 DEF Exact
    <3> QED BY <1>3, <2>1, <2>2, <2>3, <2>5, <3>1
  <2> QED BY <2>4, <2>5
<1>5. PICK g \in Seq(WireUnits), r \in Seq(WireUnits), a \in Seq(WireUnits) :
        g = Gathered(conn) /\ r = Response(conn) /\ a = wire
  BY <1>1, GatheredAre, ResponseIs
<1>6. /\ Len(g) = t - have /\ Len(r) = t
      /\ \A i \in 1..t : r[i] = Unit(conn, i)
  BY <1>1, <1>2, <1>4, <1>5, GatheredAre, ResponseIs
<1>7. /\ a \o g \in Seq(WireUnits) /\ Len(a \o g) = Len(a) + Len(g)
      /\ \A i \in 1..(Len(a) + Len(g)) :
           (a \o g)[i] = IF i <= Len(a) THEN a[i] ELSE g[i - Len(a)]
  BY ConcatProperties
<1>8. Len(a) = have /\ Len(a) + Len(g) = t
  BY <1>3, <1>5, <1>6
<1>9. ASSUME NEW i \in 1..t
      PROVE  (a \o g)[i] = r[i]
  <2>1. CASE i <= have
    BY <1>3, <1>5, <1>6, <1>7, <1>8, <2>1
  <2>2. CASE ~(i <= have)
    <3>1. i - have \in 1..Described(conn) /\ have + (i - have) = i
      BY <1>4, <2>2
    <3>2. Gathered(conn)[i - have] = Unit(conn, have + (i - have))
      BY <1>1, <1>2, <3>1, GatheredUnit
    <3>3. (a \o g)[i] = g[i - have]
      BY <1>7, <1>8, <2>2
    <3> QED BY <1>5, <1>6, <3>1, <3>2, <3>3
  <2> QED BY <2>1, <2>2
<1>10. a \o g = r
  BY <1>6, <1>7, <1>8, <1>9, SeqEqual
<1> QED BY <1>5, <1>10

(* A response that write() takes to be complete is complete.               *)
LEMMA LastIsComplete ==
    ASSUME Inv, NEW n \in 1..Sendable(conn), WriteLast(n), ~again, short' <= 1
    PROVE  wire' = Response(conn)
<1>1. conn \in ConnRec /\ pc = "write" /\ Sends(n)
  BY DEF Inv, TypeInv, WriteLast, Sends
<1>2. PICK have \in Nat, left \in Nat, t \in Nat :
        /\ have = conn.bytes_have_send /\ left = conn.bytes_to_send
        /\ t = Total(conn)
  BY <1>1, ResponseIs DEF ConnRec
<1>3. n \in Nat /\ n <= left
  BY <1>1, <1>2, SendableBounded
<1>4. left - n <= 0
  BY <1>1, <1>2, <1>3, AdvanceIs DEF WriteLast
<1>5. /\ wire' \in Seq(WireUnits) /\ Exact /\ have + n <= t
      /\ Len(wire') = have + n
      /\ \A i \in 1..(have + n) : wire'[i] = Unit(conn, i)
  BY <1>1, <1>2, Progress
<1>e. left = t - have
  BY <1>2, <1>5 DEF Exact
<1>6. have + n = t
  BY <1>3, <1>4, <1>5, <1>e
<1>7. PICK b \in Seq(WireUnits), r \in Seq(WireUnits) :
        b = wire' /\ r = Response(conn)
  BY <1>1, <1>5, ResponseIs
<1>8. Len(b) = t /\ Len(r) = t /\ \A i \in 1..t : b[i] = r[i]
  BY <1>1, <1>2, <1>5, <1>6, <1>7, ResponseIs
<1>9. b = r
  BY <1>8, SeqEqual
<1> QED BY <1>7, <1>9

(* Over any sequence of short writes of which at most one leaves a part of *)
(* the header, for any sizes of the header and of the file: what has been  *)
(* sent and what the iovecs describe is the response, in order, and write()*)
(* ends when all of it is sent.                                            *)
THEOREM SentInOrder == Spec => ResponseInOrder
<1>1. ASSUME Inv, Next, ~again, short' <= 1, answered' > answered
      PROVE  wire' = Response(conn)
  <2>1. answered \in Nat
    BY <1>1 DEF Inv, TypeInv
  <2>2. ~(answered' = answered) /\ ~(answered' = 0)
    BY <1>1, <2>1
  <2>3. \E n \in 1..Sendable(conn) : WriteLast(n)
    <3>1. ~HandleClient /\ ~Client /\ ~Unused
      BY <2>2 DEF HandleClient, Client, ClientSend, ClientStops, Unused,
                  outVars, vars
    <3>2. /\ ~(\E n \in 1..ReadBufferSize : ReadOnce(n)) /\ ~ReadFails
          /\ ~TakeConnection /\ ~CloseClient
      BY <2>2 DEF ReadOnce, ReadFails, TakeConnection, CloseClient, outVars
    <3>3. ~ParseNext /\ ~ParseContent /\ ~ParseEnds /\ ~DoRequest
          /\ ~ProcessWrite
      BY <2>2 DEF ParseNext, ParseContent, ParseEnds, DoRequest,
                  ProcessWrite, outVars
    <3>4. /\ \A n \in 1..Sendable(conn) : ~WriteSome(n)
          /\ ~WriteFails /\ ~WriteAgain /\ ~WriteNothing
      BY <2>2 DEF WriteSome, WriteFails, WriteAgain, WriteNothing, outVars, vars
    <3> QED BY <1>1, <3>1, <3>2, <3>3, <3>4 DEF Next, Handler, Network
  <2> QED BY <1>1, <2>3, LastIsComplete
<1>2. ASSUME Inv, RestDescribed', Next, ~again, short' <= 1, pc' = "write"
      PROVE  wire' \o Gathered(conn') = Response(conn')
  <2>1. ~again'
    <3>1. again' = again \/ again' = FALSE \/ again' = (again /\ ~conn.m_linger)
          \/ pc' = "read"
      <4>1. CASE HandleClient \/ Client \/ Unused
        BY <4>1 DEF HandleClient, Client, ClientSend, ClientStops, Unused,
                    leftVars, vars
      <4>2. CASE Network
        BY <4>2 DEF Network, ReadFails, WriteFails, WriteAgain, leftVars
      <4>3. CASE Handler
        BY <4>3 DEF Handler, ReadOnce, TakeConnection, ParseNext,
                    ParseContent, ParseEnds, DoRequest, ProcessWrite,
                    WriteSome, WriteLast, WriteFails, WriteNothing,
                    CloseClient, leftVars, vars
      <4> QED BY <1>2, <4>1, <4>2, <4>3 DEF Next
    <3> QED BY <1>2, <3>1
  <2> QED BY <1>2, <2>1 DEF RestDescribed
<1>3. Inv /\ RestDescribed' /\ [Next]_vars =>
        [~again /\ short' <= 1 =>
           /\ pc' = "write" => wire' \o Gathered(conn') = Response(conn')
           /\ answered' > answered => wire' = Response(conn)]_vars
  BY <1>1, <1>2
<1> QED BY <1>3, InvAlways, RestIsDescribed, PTL DEF Spec, ResponseInOrder

=============================================================================
