---------------------------- MODULE TcpServerProofs ---------------------------
(***************************************************************************)
(* Proofs about the descriptors of the server, for any set of addresses,   *)
(* any set of descriptor numbers, any size of m_fdContexts, any number of  *)
(* clients and any number of threads.                                      *)
(***************************************************************************)
EXTENDS TcpServer, FiniteSetTheorems, WellFoundedInduction, TLAPS

Ctx == [exists : BOOLEAN, recvTimeout : BOOLEAN, userNonblock : BOOLEAN]
FdOrNone == Fds \cup {-1}
AccRec ==
    [pc : {"idle", "loop", "try", "got", "add", "grow", "wait", "done"},
     fd : FdOrNone, new : FdOrNone, hooked : BOOLEAN]
CliRec ==
    [pc : {"none", "start", "recv", "serve", "add", "grow", "wait", "close",
           "release", "done"},
     fd : FdOrNone, turns : Nat, ev : {"READ", "WRITE"},
     timer : {"none", "armed", "dropped", "early", "fired"},
     cleared : BOOLEAN]

Live(c) == cli[c].pc \notin {"none", "done"}

KernelType ==
    /\ ktype \in [Fds -> {"free", "listen", "conn"}]
    /\ nonblock \in [Fds -> BOOLEAN]
    /\ m_datas \in [Fds -> Ctx]
ServerType ==
    /\ server \in {"bind", "started", "stopping", "ended"}
    /\ m_socks \subseteq Addrs
    /\ m_sock \in [Addrs -> FdOrNone]
    /\ closing \in [Addrs -> {"no", "cancel", "close", "del", "release",
                              "closed"}]
FiberType == acc \in [Addrs -> AccRec] /\ cli \in [Clients -> CliRec]
TypeInv == KernelType /\ ServerType /\ FiberType

(* A Socket that has a descriptor is in m_socks, and the descriptor is its *)
(* own and listens; every descriptor that listens is some Socket's.        *)
SockOwn ==
    /\ \A s \in Addrs : m_sock[s] \in Fds =>
           s \in m_socks /\ ktype[m_sock[s]] = "listen"
    /\ \A s, r \in Addrs : m_sock[s] \in Fds /\ m_sock[s] = m_sock[r] => s = r
    /\ \A d \in Fds : ktype[d] = "listen" => \E s \in m_socks : m_sock[s] = d

(* What stop() has done with each Socket, and nothing before it.           *)
SockPhase ==
    /\ server \in {"bind", "started"} => \A s \in Addrs :
           closing[s] = "no" /\ (s \in m_socks => m_sock[s] \in Fds)
    /\ server = "started" => m_socks = Addrs
    /\ \A s \in Addrs :
           /\ closing[s] \in {"cancel", "close", "del", "release"} =>
                  m_sock[s] \in Fds
           /\ closing[s] = "closed" => m_sock[s] = -1

(* No accept fiber runs before start.                                      *)
BindIdle == server = "bind" => \A s \in Addrs : AccAt(s, "idle")

(* A fiber's descriptor is a connection.                                   *)
FiberConn ==
    /\ \A s \in Addrs : IF AccAt(s, "got")
                        THEN acc[s].new \in Fds /\ ktype[acc[s].new] = "conn"
                        ELSE acc[s].new = -1
    /\ \A c \in Clients : Live(c) =>
           cli[c].fd \in Fds /\ ktype[cli[c].fd] = "conn"

(* No connection has two fibers.                                           *)
FiberOwn ==
    /\ \A s, r \in Addrs :
           acc[s].new \in Fds /\ acc[s].new = acc[r].new => s = r
    /\ \A b, c \in Clients :
           Live(b) /\ Live(c) /\ cli[b].fd = cli[c].fd => b = c
    /\ \A s \in Addrs, c \in Clients : Live(c) => acc[s].new # cli[c].fd

(* Every connection has one.                                               *)
HasOwner(d) ==
    \/ \E s \in Addrs : acc[s].new = d
    \/ \E c \in Clients : Live(c) /\ cli[c].fd = d
ConnOwned == \A d \in Fds : ktype[d] = "conn" => HasOwner(d)

(* A number keeps nothing in FdManager once it is free, nor from the moment*)
(* its last user has called del: the next accept finds no FdCtx.           *)
CtxGone ==
    /\ \A d \in Fds : ktype[d] = "free" => m_datas[d] = NoCtx
    /\ \A s \in Addrs : AccAt(s, "got") => m_datas[acc[s].new] = NoCtx
    /\ \A c \in Clients : CliAt(c, "release") => m_datas[cli[c].fd] = NoCtx
    /\ \A s \in Addrs : closing[s] = "release" => m_datas[m_sock[s]] = NoCtx

(* The kernel's flag stays set for a handler, unless ioctl cleared it.     *)
LiveNonblock ==
    \A c \in Clients : Live(c) /\ ~cli[c].cleared => nonblock[cli[c].fd]

(* A handler that has not started has cleared nothing.                     *)
StartClear ==
    \A c \in Clients : cli[c].pc \in {"none", "start"} => ~cli[c].cleared

Inv ==
    /\ TypeInv /\ SockOwn /\ SockPhase /\ BindIdle
    /\ FiberConn /\ FiberOwn /\ ConnOwned
    /\ CtxGone /\ LiveNonblock /\ StartClear /\ FreshContext

-----------------------------------------------------------------------------
(* A set of natural numbers that is not empty has a least element: the     *)
(* kernel gives out a number that is free, and a new handler is one.       *)
LEMMA MinIsMember ==
    ASSUME NEW S, S \subseteq Nat, S # {}
    PROVE  Min(S) \in S
<1>1. PICK x \in S : \A y \in S : ~ (<<y, x>> \in OpToRel(<, Nat))
  BY NatLessThanWellFounded, WFMin, Zenon
<1>2. \A y \in S : ~ (y < x)
  BY <1>1 DEF OpToRel
<1>3. \A y \in S : x =< y
  BY <1>2
<1> QED BY <1>3 DEF Min

(* The number the kernel gives out next is a free one.                     *)
LEMMA FreeNumber ==
    ASSUME Free # {}
    PROVE  Min(Free) \in Fds /\ ktype[Min(Free)] = "free"
<1>1. Free \subseteq Nat BY FdsAssumption DEF Free
<1> QED BY <1>1, MinIsMember DEF Free

(* The next connection is one that has not been used.                      *)
LEMMA UnusedClient ==
    ASSUME Unused # {}
    PROVE  NextClient \in Clients /\ cli[NextClient].pc = "none"
<1>1. Unused \subseteq Nat BY BoundsAssumption DEF Unused, Clients
<1> QED BY <1>1, MinIsMember DEF Unused, NextClient

(* The value of an invalid Socket is not a descriptor.                     *)
LEMMA NoDescriptor == -1 \notin Fds
  BY FdsAssumption

(* The invariant holds initially.                                          *)
LEMMA InvInit == Init => Inv
<1> SUFFICES ASSUME Init PROVE Inv OBVIOUS
<1>1. TypeInv
  BY BoundsAssumption DEF Init, TypeInv, KernelType, ServerType, FiberType,
     Ctx, FdOrNone, AccRec, CliRec, NoCtx, IdleAcc, NoClient
<1>2. SockOwn /\ SockPhase /\ BindIdle
  BY NoDescriptor DEF Init, SockOwn, SockPhase, BindIdle, AccAt, IdleAcc
<1>3. FiberConn /\ FiberOwn /\ ConnOwned
  BY NoDescriptor DEF Init, FiberConn, FiberOwn, ConnOwned, Live, AccAt,
     IdleAcc, NoClient
<1>4. CtxGone
  BY DEF Init, CtxGone, AccAt, CliAt, IdleAcc, NoClient
<1>5. LiveNonblock /\ StartClear /\ FreshContext
  BY DEF Init, LiveNonblock, StartClear, FreshContext, Live, NoClient
<1> QED BY <1>1, <1>2, <1>3, <1>4, <1>5 DEF Inv

-----------------------------------------------------------------------------
(* The variables that Inv is about.                                        *)
core == <<ktype, nonblock, m_datas, server, m_socks, m_sock, closing>>

(* A step that changes no descriptor and no table, keeps what each accept  *)
(* fiber has accepted, and keeps each handler's connection and whether it  *)
(* waits to start or to call close_f.                                      *)
AccSame ==
    /\ acc' \in [Addrs -> AccRec]
    /\ \A s \in Addrs :
           /\ acc'[s].new = acc[s].new
           /\ acc'[s].pc = "got" <=> acc[s].pc = "got"
           /\ acc[s].pc = "idle" => acc'[s].pc = "idle"
CliSame ==
    /\ cli' \in [Clients -> CliRec]
    /\ \A c \in Clients :
           /\ cli'[c].fd = cli[c].fd /\ cli'[c].cleared = cli[c].cleared
           /\ cli'[c].pc \in {"none", "done"} <=>
                  cli[c].pc \in {"none", "done"}
           /\ cli'[c].pc \in {"none", "start"} =>
                  cli'[c].pc = cli[c].pc
           /\ cli'[c].pc = "release" => cli[c].pc = "release"

(* A step that changes nothing but the place of a fiber in a way the       *)
(* invariant does not distinguish preserves the invariant.                 *)
LEMMA FrameStep ==
    ASSUME Inv, UNCHANGED core, AccSame, CliSame
    PROVE  Inv'
<1> USE DEF AccAt, CliAt, Live
<1>1. TypeInv'
  BY DEF Inv, core, AccSame, CliSame, TypeInv, KernelType, ServerType,
     FiberType
<1>2. SockOwn' /\ SockPhase' /\ BindIdle'
  BY DEF Inv, core, AccSame, SockOwn, SockPhase, BindIdle
<1>3. FiberConn'
  BY DEF Inv, core, AccSame, CliSame, FiberConn
<1>4. FiberOwn'
  BY DEF Inv, AccSame, CliSame, FiberOwn
<1>5. ConnOwned'
  <2>1. \A d \in Fds : HasOwner(d) => HasOwner(d)'
    BY DEF AccSame, CliSame, HasOwner
  <2> QED BY <2>1 DEF Inv, core, ConnOwned
<1>6. CtxGone'
  BY DEF Inv, core, AccSame, CliSame, CtxGone
<1>7. LiveNonblock' /\ StartClear' /\ FreshContext'
  BY DEF Inv, core, CliSame, LiveNonblock, StartClear, FreshContext,
     SetTimeout, NewCtx, NoCtx
<1> QED BY <1>1, <1>2, <1>3, <1>4, <1>5, <1>6, <1>7 DEF Inv

(* Accept fibers that do not move are the same to the invariant.           *)
LEMMA AccUnchanged == ASSUME Inv, UNCHANGED acc PROVE AccSame
  BY DEF Inv, AccSame, TypeInv, FiberType

(* Handlers that do not move are the same to the invariant.                *)
LEMMA CliUnchanged == ASSUME Inv, UNCHANGED cli PROVE CliSame
  BY DEF Inv, CliSame, TypeInv, FiberType

(* The steps of an accept fiber other than accept_f and the schedule.      *)
LEMMA AccMoves ==
    ASSUME Inv, NEW s \in Addrs,
           AccLoop(s) \/ AccNothing(s) \/ AccAdd(s) \/ AccGrow(s) \/ AccResume(s)
    PROVE  Inv'
<1>1. UNCHANGED core /\ UNCHANGED cli
  BY DEF AccLoop, AccNothing, AccAdd, AccGrow, AccResume, core, kernelVars,
     tableVars, serverVars
<1>2. acc \in [Addrs -> AccRec] /\ m_sock \in [Addrs -> FdOrNone]
  BY DEF Inv, TypeInv, FiberType, ServerType
<1>3. AccSame
  <2>1. CASE AccLoop(s)
    <3>1. acc[s].new = -1
      BY <2>1 DEF AccLoop, AccAt, Inv, FiberConn
    <3> DEFINE h == m_sock[s] \in Fds /\ m_datas[m_sock[s]].exists
               new == IF m_isStop THEN [IdleAcc EXCEPT !.pc = "done"]
                      ELSE [acc[s] EXCEPT !.pc = "try", !.fd = m_sock[s],
                                          !.hooked = h]
    <3>2. h \in BOOLEAN
      OBVIOUS
    <3>3. acc' = [acc EXCEPT ![s] = new] /\ acc[s].pc = "loop"
      BY <2>1 DEF AccLoop, AccAt
    <3> HIDE DEF h
    <3>4. new \in AccRec /\ new.new = -1 /\ new.pc \in {"done", "try"}
      BY <1>2, <3>1, <3>2 DEF AccRec, IdleAcc, FdOrNone
    <3> HIDE DEF new
    <3> QED BY <1>2, <3>1, <3>3, <3>4 DEF AccSame
  <2>2. CASE AccNothing(s)
    BY <1>2, <2>2 DEF AccNothing, AccAt, AccTo, AccSame, AccRec
  <2>3. CASE AccAdd(s) \/ AccGrow(s)
    BY <1>2, <2>3 DEF AccAdd, AccGrow, AccAt, AccTo, AccSame, AccRec
  <2>4. CASE AccResume(s)
    BY <1>2, <2>4 DEF AccResume, AccAt, AccTo, AccSame, AccRec
  <2> QED BY <2>1, <2>2, <2>3, <2>4
<1> QED BY <1>1, <1>3, CliUnchanged, FrameStep

(* Where a handler can be between the start and the end of its connection. *)
Within == {"recv", "serve", "add", "grow", "wait", "close"}

(* A handler that goes from one of these places to another, whatever it    *)
(* waits for, is the same to the invariant.                                *)
LEMMA CliGoes ==
    ASSUME Inv, NEW c \in Clients, cli[c].pc \in Within \cup {"start"},
           NEW l \in Within, NEW e \in {"READ", "WRITE"},
           NEW t \in {"none", "armed", "dropped", "early", "fired"},
           cli' = [cli EXCEPT ![c] = [@ EXCEPT !.pc = l, !.ev = e, !.timer = t]]
    PROVE  CliSame
<1>1. cli \in [Clients -> CliRec]
  BY DEF Inv, TypeInv, FiberType
<1> DEFINE rec == [cli[c] EXCEPT !.pc = l, !.ev = e, !.timer = t]
<1>2. cli' = [cli EXCEPT ![c] = rec]
  OBVIOUS
<1>3. /\ rec \in CliRec /\ rec.fd = cli[c].fd
      /\ rec.cleared = cli[c].cleared /\ rec.pc = l
  BY <1>1 DEF CliRec, Within
<1> HIDE DEF rec
<1> QED BY <1>1, <1>2, <1>3 DEF CliSame, Within

(* The same for a handler that goes on with the wait it has, if any.       *)
LEMMA CliGoesTo ==
    ASSUME Inv, NEW c \in Clients, cli[c].pc \in Within \cup {"start"},
           NEW l \in Within, CliTo(c, l)
    PROVE  CliSame
<1>1. cli[c] \in CliRec
  BY DEF Inv, TypeInv, FiberType
<1>2. [cli[c] EXCEPT !.pc = l] =
          [cli[c] EXCEPT !.pc = l, !.ev = cli[c].ev, !.timer = cli[c].timer]
  BY <1>1 DEF CliRec
<1>3. /\ cli[c].ev \in {"READ", "WRITE"}
      /\ cli[c].timer \in {"none", "armed", "dropped", "early", "fired"}
  BY <1>1 DEF CliRec
<1>4. cli' = [cli EXCEPT ![c] = [cli[c] EXCEPT !.pc = l]]
  BY DEF CliTo
<1>5. cli' = [cli EXCEPT ![c] =
                  [cli[c] EXCEPT !.pc = l, !.ev = cli[c].ev,
                                 !.timer = cli[c].timer]]
  BY <1>2, <1>4
<1> QED BY <1>3, <1>5, CliGoes

(* The steps of a handler other than the calls that change a flag or close *)
(* the connection.                                                         *)
LEMMA CliMoves ==
    ASSUME Inv, NEW c \in Clients,
           \/ CliStart(c) \/ CliRecv(c) \/ CliServe(c) \/ CliStall(c)
           \/ CliAdd(c) \/ CliGrow(c) \/ CliResume(c) \/ CliTimeout(c)
           \/ Send(c)
    PROVE  Inv'
<1>1. UNCHANGED core /\ UNCHANGED acc
  BY DEF CliStart, CliRecv, CliServe, CliStall, CliAdd, CliGrow, CliResume,
     CliTimeout, Send, core, kernelVars, tableVars, serverVars
<1>2. cli \in [Clients -> CliRec]
  BY DEF Inv, TypeInv, FiberType
<1>3. CliSame
  <2>1. CASE CliStart(c) \/ CliServe(c)
    <3>1. /\ cli[c].pc \in Within \cup {"start"}
          /\ CliTo(c, "recv") \/ CliTo(c, "close")
      BY <2>1 DEF CliStart, CliServe, CliAt, Within
    <3> QED BY <3>1, CliGoesTo DEF Within
  <2>2. CASE CliRecv(c)
    <3>1. /\ cli[c].pc \in Within
          /\ \/ CliTo(c, "serve") \/ CliTo(c, "close")
             \/ \E t \in {"none", "armed", "dropped"} : CliWaits(c, "READ", t)
      BY <2>2 DEF CliRecv, CliAt, Within
    <3>2. CASE CliTo(c, "serve") \/ CliTo(c, "close")
      BY <3>1, <3>2, CliGoesTo DEF Within
    <3>3. ASSUME NEW t \in {"none", "armed", "dropped"}, CliWaits(c, "READ", t)
          PROVE  CliSame
      BY <3>1, <3>3, CliGoes DEF CliWaits, Within
    <3> QED BY <3>1, <3>2, <3>3
  <2>3. CASE CliStall(c)
    BY <2>3, CliGoes DEF CliStall, CliWaits, CliAt, Within
  <2>4. CASE CliAdd(c) \/ CliGrow(c)
    <3>1. /\ cli[c].pc \in Within
          /\ CliTo(c, "grow") \/ CliTo(c, "wait") \/ CliTo(c, "close")
      BY <2>4 DEF CliAdd, CliGrow, CliAt, Within
    <3> QED BY <3>1, CliGoesTo DEF Within
  <2>5. CASE CliResume(c)
    <3>1. /\ cli[c].pc \in Within
          /\ \E l \in {"recv", "close"} :
                 cli' = [cli EXCEPT ![c] = [@ EXCEPT !.pc = l, !.ev = "READ",
                                                     !.timer = "none"]]
      BY <2>5 DEF CliResume, CliAt, Within
    <3> QED BY <3>1, CliGoes DEF Within
  <2>6. CASE CliTimeout(c)
    BY <1>2, <2>6 DEF CliTimeout, CliAt, CliSame, CliRec
  <2>7. CASE Send(c)
    BY <1>2, <2>7 DEF Send, CliSame, CliRec
  <2> QED BY <2>1, <2>2, <2>3, <2>4, <2>5, <2>6, <2>7
<1> QED BY <1>1, <1>3, AccUnchanged, FrameStep

-----------------------------------------------------------------------------
(* bind, start and stop.                                                   *)

(* socket(), bind() and listen() for an address preserve the invariant:    *)
(* the new descriptor belongs to the new Socket.                           *)
LEMMA BindAddrStep ==
    ASSUME Inv, NEW s \in Addrs, BindAddr(s)
    PROVE  Inv'
<1> DEFINE d == Min(Free)
<1>1. d \in Fds /\ ktype[d] = "free"
  BY FreeNumber DEF BindAddr, BindListen, NewSock
<1>2. /\ ktype' = [ktype EXCEPT ![d] = "listen"]
      /\ nonblock' = [nonblock EXCEPT ![d] = TRUE]
      /\ m_datas' = [m_datas EXCEPT ![d] = NewCtx]
      /\ m_sock' = [m_sock EXCEPT ![s] = d]
      /\ m_socks' = m_socks \cup {s}
      /\ UNCHANGED <<server, closing, acc, cli>>
      /\ server = "bind" /\ s \notin m_socks
  BY DEF BindAddr, BindListen, NewSock, SocketCall
<1> HIDE DEF d
<1>3. TypeInv /\ TypeInv'
  BY <1>1, <1>2 DEF Inv, TypeInv, KernelType, ServerType, FiberType, Ctx,
     FdOrNone, NewCtx, NoCtx
<1>4. /\ \A e \in Fds : e # d => /\ ktype'[e] = ktype[e]
                                /\ nonblock'[e] = nonblock[e]
                                /\ m_datas'[e] = m_datas[e]
      /\ ktype'[d] = "listen" /\ m_sock'[s] = d
      /\ \A r \in Addrs : r # s => m_sock'[r] = m_sock[r]
  BY <1>1, <1>2, <1>3 DEF TypeInv, KernelType, ServerType
<1>5. SockOwn'
  BY <1>1, <1>2, <1>3, <1>4 DEF Inv, SockOwn, TypeInv, ServerType
<1>6. SockPhase' /\ BindIdle'
  BY <1>1, <1>2, <1>3, <1>4 DEF Inv, SockPhase, BindIdle, AccAt
<1>7. FiberConn' /\ FiberOwn'
  BY <1>1, <1>2, <1>4 DEF Inv, FiberConn, FiberOwn, AccAt, Live
<1>8. ConnOwned'
  BY <1>1, <1>2, <1>4 DEF Inv, ConnOwned, HasOwner, Live
<1>9. CtxGone'
  BY <1>1, <1>2, <1>4, <1>7 DEF Inv, CtxGone, FiberConn, SockPhase, AccAt,
     CliAt, Live
<1>10. LiveNonblock' /\ StartClear' /\ FreshContext'
  BY <1>1, <1>2, <1>4 DEF Inv, FiberConn, LiveNonblock, StartClear,
     FreshContext, Live, SetTimeout, NewCtx, NoCtx
<1> QED BY <1>3, <1>5, <1>6, <1>7, <1>8, <1>9, <1>10 DEF Inv

(* bind that fails, and the destructor of a server that was not started:   *)
(* no listening descriptor is left.                                        *)
LEMMA CloseAllStep ==
    ASSUME Inv, server = "bind", server' \in {"bind", "ended"},
           CloseAll(m_socks), m_socks' = {}, UNCHANGED <<closing, acc, cli>>
    PROVE  Inv'
<1> DEFINE ds == {m_sock[s] : s \in m_socks}
<1>1. /\ ktype' = [d \in Fds |-> IF d \in ds THEN "free" ELSE ktype[d]]
      /\ nonblock' = [d \in Fds |-> d \notin ds /\ nonblock[d]]
      /\ m_datas' = [d \in Fds |-> IF d \in ds THEN NoCtx ELSE m_datas[d]]
      /\ m_sock' = [s \in Addrs |-> IF s \in m_socks THEN -1 ELSE m_sock[s]]
  BY DEF CloseAll
<1>2. TypeInv
  BY DEF Inv
<1>3. \A d \in Fds : d \in ds <=> ktype[d] = "listen"
  BY <1>2 DEF Inv, SockOwn, TypeInv, ServerType
<1> HIDE DEF ds
<1>4. TypeInv'
  <2>1. KernelType'
    <3>1. nonblock' \in [Fds -> BOOLEAN]
      BY <1>1
    <3> QED BY <1>1, <1>2, <3>1 DEF TypeInv, KernelType, Ctx, NoCtx
  <2>2. ServerType' /\ FiberType'
    BY <1>1, <1>2 DEF TypeInv, ServerType, FiberType, FdOrNone
  <2> QED BY <2>1, <2>2 DEF TypeInv
<1>5. /\ \A d \in Fds : ktype[d] # "listen" => /\ ktype'[d] = ktype[d]
                                              /\ nonblock'[d] = nonblock[d]
                                              /\ m_datas'[d] = m_datas[d]
      /\ \A d \in Fds : ktype[d] = "listen" => /\ ktype'[d] = "free"
                                              /\ m_datas'[d] = NoCtx
  <2>1. \A d \in Fds : ktype[d] # "listen" => nonblock'[d] = nonblock[d]
    BY <1>1, <1>2, <1>3 DEF TypeInv, KernelType
  <2> QED BY <1>1, <1>3, <2>1
<1>6. \A s \in Addrs : m_sock'[s] = -1
  BY <1>1, <1>2 DEF Inv, SockOwn, TypeInv, ServerType, FdOrNone
<1>7. SockOwn' /\ SockPhase' /\ BindIdle'
  BY <1>2, <1>5, <1>6, NoDescriptor DEF Inv, SockOwn, SockPhase, BindIdle,
     AccAt, TypeInv, KernelType
<1>8. FiberConn' /\ FiberOwn'
  BY <1>5 DEF Inv, FiberConn, FiberOwn, AccAt, Live
<1>9. ConnOwned'
  BY <1>2, <1>5 DEF Inv, ConnOwned, HasOwner, Live, TypeInv, KernelType
<1>10. CtxGone'
  BY <1>2, <1>5, <1>7 DEF Inv, CtxGone, FiberConn, SockPhase, AccAt, CliAt,
     Live, TypeInv, KernelType
<1>11. LiveNonblock' /\ StartClear' /\ FreshContext'
  BY <1>5 DEF Inv, FiberConn, LiveNonblock, StartClear, FreshContext, Live,
     SetTimeout, NewCtx, NoCtx
<1> QED BY <1>4, <1>7, <1>8, <1>9, <1>10, <1>11 DEF Inv

(* start and stop change no descriptor.                                    *)
LEMMA StartStopStep ==
    ASSUME Inv, Start \/ Stop
    PROVE  Inv'
<1> USE DEF AccAt, CliAt, Live
<1>1. UNCHANGED <<ktype, nonblock, m_datas, m_socks, m_sock, cli>>
  BY DEF Start, Stop, kernelVars, tableVars
<1>2. TypeInv
  BY DEF Inv
<1>3. /\ server' \in {"started", "stopping"}
      /\ acc' \in [Addrs -> AccRec]
      /\ \A s \in Addrs : acc'[s].new = acc[s].new
                          /\ (AccAt(s, "got")' <=> AccAt(s, "got"))
  <2>1. CASE Start
    <3>1. \A s \in Addrs : acc[s].pc = "idle" /\ acc[s] \in AccRec
      BY <1>2, <2>1 DEF Start, Inv, BindIdle, TypeInv, FiberType
    <3> QED BY <2>1, <3>1 DEF Start, AccRec
  <2>2. CASE Stop
    BY <1>2, <2>2 DEF Stop, TypeInv, FiberType
  <2> QED BY <2>1, <2>2
<1>4. /\ closing' \in [Addrs -> {"no", "cancel"}]
      /\ server' = "started" => \A s \in Addrs : closing'[s] = "no"
      /\ \A s \in Addrs : m_sock[s] \in Fds
      /\ m_socks = Addrs
  <2>1. CASE Start
    BY <1>2, <2>1 DEF Start, Inv, SockPhase, TypeInv, ServerType
  <2>2. CASE Stop
    BY <2>2 DEF Stop, Inv, SockPhase
  <2> QED BY <2>1, <2>2
<1>5. TypeInv'
  BY <1>1, <1>2, <1>3, <1>4 DEF TypeInv, KernelType, ServerType, FiberType
<1>6. SockOwn' /\ SockPhase' /\ BindIdle'
  BY <1>1, <1>3, <1>4 DEF Inv, SockOwn, SockPhase, BindIdle
<1>7. FiberConn' /\ FiberOwn' /\ ConnOwned'
  BY <1>1, <1>3 DEF Inv, FiberConn, FiberOwn, ConnOwned, HasOwner
<1>8. CtxGone'
  BY <1>1, <1>3, <1>4 DEF Inv, CtxGone
<1>9. LiveNonblock' /\ StartClear' /\ FreshContext'
  BY <1>1 DEF Inv, LiveNonblock, StartClear, FreshContext, SetTimeout, NewCtx,
     NoCtx
<1> QED BY <1>5, <1>6, <1>7, <1>8, <1>9 DEF Inv

-----------------------------------------------------------------------------
(* accept_f gives the accept fiber a number that nobody has and FdManager  *)
(* knows nothing of.                                                       *)
LEMMA AccAcceptStep ==
    ASSUME Inv, NEW s \in Addrs, AccAccept(s)
    PROVE  Inv'
<1> USE DEF AccAt, CliAt, Live
<1>1. PICK d \in Fds : d = Min(Free) /\ ktype[d] = "free"
  BY FreeNumber DEF AccAccept
<1>2. /\ ktype' = [ktype EXCEPT ![d] = "conn"]
      /\ nonblock' = [nonblock EXCEPT ![d] = FALSE]
      /\ acc' = [acc EXCEPT ![s].pc = "got", ![s].new = d]
  BY <1>1 DEF AccAccept
<1>u. /\ UNCHANGED <<m_datas, server, m_socks, m_sock, closing, cli>>
      /\ acc[s].pc = "try"
  BY DEF AccAccept, tableVars, serverVars
<1>3. TypeInv
  BY DEF Inv
<1>4. TypeInv'
  <2>1. KernelType' /\ ServerType'
    BY <1>1, <1>2, <1>u, <1>3 DEF TypeInv, KernelType, ServerType
  <2>2. acc' \in [Addrs -> AccRec]
    <3>1. [acc[s] EXCEPT !.pc = "got", !.new = d] \in AccRec
      BY <1>1, <1>3 DEF TypeInv, FiberType, AccRec, FdOrNone
    <3> QED BY <1>2, <1>3, <3>1 DEF TypeInv, FiberType
  <2> QED BY <1>u, <1>3, <2>1, <2>2 DEF TypeInv, FiberType
<1>5. /\ \A e \in Fds : e # d => /\ ktype'[e] = ktype[e]
                                /\ nonblock'[e] = nonblock[e]
      /\ ktype'[d] = "conn"
      /\ acc'[s].pc = "got" /\ acc'[s].new = d
      /\ \A r \in Addrs : r # s =>
             acc'[r].pc = acc[r].pc /\ acc'[r].new = acc[r].new
  BY <1>1, <1>2, <1>3 DEF TypeInv, KernelType, FiberType, AccRec
<1>6. SockOwn' /\ SockPhase' /\ BindIdle'
  <2>1. SockOwn'
    BY <1>1, <1>u, <1>3, <1>5 DEF Inv, SockOwn, TypeInv, ServerType
  <2>2. SockPhase' /\ BindIdle'
    BY <1>u DEF Inv, SockPhase, BindIdle
  <2> QED BY <2>1, <2>2
<1>7. \A r \in Addrs : acc[r].new # d
  BY <1>1, NoDescriptor DEF Inv, FiberConn
<1>8. \A c \in Clients : Live(c) => cli[c].fd # d
  BY <1>1 DEF Inv, FiberConn
<1>9. FiberConn'
  BY <1>1, <1>u, <1>5, <1>8 DEF Inv, FiberConn
<1>10. FiberOwn'
  BY <1>u, <1>5, <1>7, <1>8 DEF Inv, FiberOwn
<1>11. ConnOwned'
  <2>1. acc[s].new = -1
    BY <1>u DEF Inv, FiberConn
  <2>2. \A e \in Fds : HasOwner(e) => HasOwner(e)'
    BY <1>u, <1>5, <2>1, NoDescriptor DEF HasOwner
  <2>3. HasOwner(d)'
    BY <1>5 DEF HasOwner
  <2> QED BY <1>5, <2>2, <2>3 DEF Inv, ConnOwned
<1>12. CtxGone'
  BY <1>1, <1>u, <1>3, <1>5 DEF Inv, CtxGone, TypeInv, KernelType
<1>13. LiveNonblock' /\ StartClear' /\ FreshContext'
  BY <1>u, <1>5, <1>8 DEF Inv, FiberConn, LiveNonblock, StartClear,
     FreshContext, SetTimeout, NewCtx, NoCtx
<1> QED BY <1>4, <1>6, <1>9, <1>10, <1>11, <1>12, <1>13 DEF Inv

(* The accept fiber hands its connection to a new handler.                 *)
LEMMA AccScheduleStep ==
    ASSUME Inv, NEW s \in Addrs, AccSchedule(s)
    PROVE  Inv'
<1> USE DEF AccAt, CliAt, Live
<1>1. TypeInv
  BY DEF Inv
<1>2. PICK n \in Clients :
          n = NextClient /\ cli[n].pc = "none" /\ ~cli[n].cleared
  BY UnusedClient DEF AccSchedule, Schedule, Inv, StartClear
<1>3. PICK d \in Fds :
          d = acc[s].new /\ ktype[d] = "conn" /\ m_datas[d] = NoCtx
  BY DEF AccSchedule, Schedule, Inv, FiberConn, CtxGone
<1>4. ContextOf(d) = NewCtx /\ NonblockOf(d) = TRUE
  BY <1>3 DEF ContextOf, NonblockOf, NoCtx
<1>5. /\ nonblock' = [nonblock EXCEPT ![d] = TRUE]
      /\ m_datas' = [m_datas EXCEPT ![d] = SetTimeout(NewCtx)]
      /\ cli' = [cli EXCEPT ![n].pc = "start", ![n].fd = d]
      /\ acc' = [acc EXCEPT ![s].pc = "loop", ![s].new = -1]
  BY <1>2, <1>3, <1>4 DEF AccSchedule, Schedule
<1>u. /\ UNCHANGED <<ktype, server, m_socks, m_sock, closing>>
      /\ acc[s].pc = "got"
  BY DEF AccSchedule, Schedule, serverVars
<1>6. /\ acc'[s].pc = "loop" /\ acc'[s].new = -1
      /\ \A r \in Addrs : r # s =>
             acc'[r].pc = acc[r].pc /\ acc'[r].new = acc[r].new
      /\ acc' \in [Addrs -> AccRec]
  <2> DEFINE new == [acc[s] EXCEPT !.pc = "loop", !.new = -1]
  <2>1. acc \in [Addrs -> AccRec]
    BY <1>1 DEF TypeInv, FiberType
  <2>2. acc' = [acc EXCEPT ![s] = new]
    BY <1>5
  <2>3. new \in AccRec /\ new.pc = "loop" /\ new.new = -1
    BY <2>1 DEF AccRec, FdOrNone
  <2> HIDE DEF new
  <2> QED BY <2>1, <2>2, <2>3
<1>7. /\ cli'[n].pc = "start" /\ cli'[n].fd = d
      /\ cli'[n].cleared = cli[n].cleared
      /\ \A c \in Clients : c # n =>
             /\ cli'[c].pc = cli[c].pc /\ cli'[c].fd = cli[c].fd
             /\ cli'[c].cleared = cli[c].cleared
      /\ cli' \in [Clients -> CliRec]
  <2> DEFINE new == [cli[n] EXCEPT !.pc = "start", !.fd = d]
  <2>1. cli \in [Clients -> CliRec]
    BY <1>1 DEF TypeInv, FiberType
  <2>2. cli' = [cli EXCEPT ![n] = new]
    BY <1>5
  <2>3. new.pc = "start" /\ new.fd = d /\ new.cleared = cli[n].cleared
    BY <2>1 DEF CliRec
  <2>4. cli[n] \in CliRec /\ d \in FdOrNone
    BY <2>1 DEF FdOrNone
  <2>5. new \in CliRec
    BY <2>4 DEF CliRec
  <2> HIDE DEF new
  <2> QED BY <2>1, <2>2, <2>3, <2>5
<1>8. /\ nonblock'[d] /\ m_datas'[d] = SetTimeout(NewCtx)
      /\ \A e \in Fds : e # d => /\ nonblock'[e] = nonblock[e]
                                /\ m_datas'[e] = m_datas[e]
      /\ KernelType'
  BY <1>1, <1>3, <1>5, <1>u DEF TypeInv, KernelType, SetTimeout, NewCtx, NoCtx, Ctx
<1>9. /\ \A r \in Addrs : r # s => acc[r].new # d
      /\ \A c \in Clients : Live(c) => cli[c].fd # d
  BY <1>3 DEF Inv, FiberOwn
<1>10. \A r \in Addrs : m_sock[r] # d
  BY <1>3 DEF Inv, SockOwn
<1>11. TypeInv'
  BY <1>1, <1>u, <1>6, <1>7, <1>8 DEF TypeInv, ServerType, FiberType
<1>12. SockOwn' /\ SockPhase' /\ BindIdle'
  BY <1>u DEF Inv, SockOwn, SockPhase, BindIdle
<1>13. FiberConn'
  BY <1>3, <1>u, <1>6, <1>7 DEF Inv, FiberConn
<1>14. FiberOwn'
  <2>1. \A r, q \in Addrs :
            acc'[r].new \in Fds /\ acc'[r].new = acc'[q].new => r = q
    BY <1>6, NoDescriptor DEF Inv, FiberOwn
  <2>2. \A b, c \in Clients :
            Live(b)' /\ Live(c)' /\ cli'[b].fd = cli'[c].fd => b = c
    BY <1>7, <1>9 DEF Inv, FiberOwn
  <2>3. \A r \in Addrs, c \in Clients : Live(c)' => acc'[r].new # cli'[c].fd
    <3> TAKE r \in Addrs, c \in Clients
    <3>1. CASE c = n
      BY <3>1, <1>6, <1>7, <1>9, NoDescriptor
    <3>2. CASE c # n
      <4>1. Live(c)' => Live(c) /\ cli'[c].fd = cli[c].fd
        BY <3>2, <1>7
      <4>2. Live(c) => cli[c].fd \in Fds
        BY DEF Inv, FiberConn
      <4> QED BY <4>1, <4>2, <1>6, NoDescriptor DEF Inv, FiberOwn
    <3> QED BY <3>1, <3>2
  <2> QED BY <2>1, <2>2, <2>3 DEF FiberOwn
<1>15. ConnOwned'
  <2>1. HasOwner(d)'
    BY <1>2, <1>7 DEF HasOwner
  <2>2. \A e \in Fds : e # d /\ HasOwner(e) => HasOwner(e)'
    BY <1>2, <1>3, <1>6, <1>7 DEF HasOwner
  <2> QED BY <1>u, <2>1, <2>2 DEF Inv, ConnOwned
<1>16. CtxGone'
  BY <1>3, <1>u, <1>6, <1>7, <1>8, <1>9, <1>10 DEF Inv, CtxGone, FiberConn,
     SockPhase
<1>17. LiveNonblock' /\ StartClear'
  BY <1>2, <1>7, <1>8, <1>9 DEF Inv, FiberConn, LiveNonblock, StartClear
<1>18. FreshContext'
  BY <1>2, <1>7, <1>8, <1>9 DEF Inv, FiberConn, FreshContext, SetTimeout,
     NewCtx, NoCtx
<1> QED BY <1>11, <1>12, <1>13, <1>14, <1>15, <1>16, <1>17, <1>18 DEF Inv

-----------------------------------------------------------------------------
(* fcntl and ioctl change the flags of the handler's own connection.       *)
LEMMA FlagStep ==
    ASSUME Inv, NEW c \in Clients, NEW v \in BOOLEAN,
           CliFcntl(c, v) \/ CliIoctl(c, v)
    PROVE  Inv'
<1> USE DEF AccAt, CliAt, Live
<1>1. TypeInv
  BY DEF Inv
<1>2. PICK d \in Fds : d = cli[c].fd /\ ktype[d] = "conn"
  BY DEF CliFcntl, CliIoctl, Inv, FiberConn
<1>3. cli[c].pc = "serve" /\ ~cli[c].cleared
  BY DEF CliFcntl, CliIoctl
<1>4. UNCHANGED <<ktype, server, m_socks, m_sock, closing, acc>>
  BY DEF CliFcntl, CliIoctl, serverVars
<1>5. /\ \A b \in Clients : /\ cli'[b].pc = cli[b].pc
                            /\ cli'[b].fd = cli[b].fd
                            /\ b # c => cli'[b].cleared = cli[b].cleared
      /\ cli' \in [Clients -> CliRec]
  <2>1. cli \in [Clients -> CliRec]
    BY <1>1 DEF TypeInv, FiberType
  <2>2. CASE CliFcntl(c, v)
    BY <2>1, <2>2 DEF CliFcntl
  <2>3. CASE CliIoctl(c, v)
    <3> DEFINE new == [cli[c] EXCEPT !.cleared = ~v]
    <3>1. cli' = [cli EXCEPT ![c] = new]
      BY <2>3 DEF CliIoctl
    <3>2. new \in CliRec /\ new.pc = cli[c].pc /\ new.fd = cli[c].fd
      BY <2>1 DEF CliRec
    <3> HIDE DEF new
    <3> QED BY <2>1, <3>1, <3>2
  <2> QED BY <2>2, <2>3
<1>6. /\ \A e \in Fds : e # d => /\ nonblock'[e] = nonblock[e]
                                /\ m_datas'[e] = m_datas[e]
      /\ KernelType'
  <2>1. m_datas' = [m_datas EXCEPT ![d].userNonblock = v]
    BY <1>2 DEF CliFcntl, CliIoctl
  <2>2. nonblock' = [nonblock EXCEPT ![d] = TRUE]
        \/ nonblock' = [nonblock EXCEPT ![d] = v]
    BY <1>2 DEF CliFcntl, CliIoctl
  <2> QED BY <1>1, <1>4, <2>1, <2>2 DEF TypeInv, KernelType, Ctx
<1>7. ~cli'[c].cleared => nonblock'[d]
  <2>1. CASE CliFcntl(c, v)
    BY <1>1, <1>2, <2>1 DEF CliFcntl, TypeInv, KernelType
  <2>2. CASE CliIoctl(c, v)
    <3>1. nonblock'[d] = v
      BY <1>1, <1>2, <2>2 DEF CliIoctl, TypeInv, KernelType
    <3>2. cli'[c].cleared = ~v
      BY <1>1, <2>2 DEF CliIoctl, TypeInv, FiberType, CliRec
    <3> QED BY <3>1, <3>2
  <2> QED BY <2>1, <2>2
<1>8. /\ \A s \in Addrs : acc[s].new # d /\ m_sock[s] # d
      /\ \A b \in Clients : b # c /\ Live(b) => cli[b].fd # d
  BY <1>2, <1>3 DEF Inv, FiberOwn, SockOwn
<1>9. TypeInv'
  BY <1>1, <1>4, <1>5, <1>6 DEF TypeInv, ServerType, FiberType
<1>10. SockOwn' /\ SockPhase' /\ BindIdle'
  BY <1>4 DEF Inv, SockOwn, SockPhase, BindIdle
<1>11. FiberConn' /\ FiberOwn' /\ ConnOwned'
  BY <1>4, <1>5 DEF Inv, FiberConn, FiberOwn, ConnOwned, HasOwner
<1>12. CtxGone'
  BY <1>2, <1>3, <1>4, <1>5, <1>6, <1>8 DEF Inv, CtxGone, FiberConn, SockPhase
<1>13. LiveNonblock' /\ StartClear'
  BY <1>2, <1>3, <1>5, <1>6, <1>7, <1>8 DEF Inv, FiberConn, LiveNonblock,
     StartClear
<1>14. FreshContext'
  BY <1>3, <1>5, <1>6, <1>8 DEF Inv, FiberConn, FreshContext, SetTimeout,
     NewCtx, NoCtx
<1> QED BY <1>9, <1>10, <1>11, <1>12, <1>13, <1>14 DEF Inv

(* close() of a connection: FdManager::del, and then close_f.              *)
LEMMA CliDelStep ==
    ASSUME Inv, NEW c \in Clients, CliDel(c)
    PROVE  Inv'
<1> USE DEF AccAt, CliAt, Live
<1>1. TypeInv
  BY DEF Inv
<1>2. PICK d \in Fds : d = cli[c].fd /\ ktype[d] = "conn"
  BY DEF CliDel, Inv, FiberConn
<1>3. cli[c].pc = "close"
      /\ UNCHANGED <<ktype, nonblock, server, m_socks, m_sock, closing, acc>>
  BY DEF CliDel, kernelVars, serverVars
<1>4. /\ \A b \in Clients : /\ cli'[b].fd = cli[b].fd
                            /\ cli'[b].cleared = cli[b].cleared
                            /\ b # c => cli'[b].pc = cli[b].pc
      /\ cli'[c].pc = "release"
      /\ cli' \in [Clients -> CliRec]
  BY <1>1 DEF CliDel, CliTo, TypeInv, FiberType, CliRec
<1>5. /\ \A e \in Fds : e # d => m_datas'[e] = m_datas[e]
      /\ m_datas'[d] = NoCtx
      /\ KernelType'
  BY <1>1, <1>2, <1>3 DEF CliDel, TypeInv, KernelType, Ctx, NoCtx
<1>6. /\ \A s \in Addrs : acc[s].new # d /\ m_sock[s] # d
      /\ \A b \in Clients : b # c /\ Live(b) => cli[b].fd # d
  BY <1>2, <1>3 DEF Inv, FiberOwn, SockOwn
<1>7. TypeInv'
  BY <1>1, <1>3, <1>4, <1>5 DEF TypeInv, ServerType, FiberType
<1>8. SockOwn' /\ SockPhase' /\ BindIdle'
  BY <1>3 DEF Inv, SockOwn, SockPhase, BindIdle
<1>9. \A b \in Clients : Live(b)' <=> Live(b)
  BY <1>3, <1>4
<1>10. FiberConn' /\ FiberOwn' /\ ConnOwned'
  BY <1>3, <1>4, <1>9 DEF Inv, FiberConn, FiberOwn, ConnOwned, HasOwner
<1>11. CtxGone'
  BY <1>2, <1>3, <1>4, <1>5, <1>6 DEF Inv, CtxGone, FiberConn, SockPhase
<1>12. LiveNonblock' /\ StartClear'
  BY <1>3, <1>4, <1>9 DEF Inv, LiveNonblock, StartClear
<1>13. FreshContext'
  BY <1>3, <1>4, <1>5, <1>6 DEF Inv, FiberConn, FreshContext, SetTimeout,
     NewCtx, NoCtx
<1> QED BY <1>7, <1>8, <1>10, <1>11, <1>12, <1>13 DEF Inv

(* close_f of a client gives back the number of that client only.          *)
LEMMA CliReleaseStep ==
    ASSUME Inv, NEW c \in Clients, CliRelease(c)
    PROVE  Inv'
<1> USE DEF AccAt, CliAt, Live
<1>1. TypeInv
  BY DEF Inv
<1>2. PICK d \in Fds : d = cli[c].fd /\ ktype[d] = "conn"
                       /\ m_datas[d] = NoCtx
  BY DEF CliRelease, Inv, FiberConn, CtxGone
<1>3. cli[c].pc = "release"
      /\ UNCHANGED <<m_datas, server, m_socks, m_sock, closing, acc>>
  BY DEF CliRelease, serverVars
<1>4. /\ \A b \in Clients \ {c} : /\ cli'[b].fd = cli[b].fd
                                  /\ cli'[b].cleared = cli[b].cleared
                                  /\ cli'[b].pc = cli[b].pc
      /\ cli'[c].pc = "done"
      /\ cli' \in [Clients -> CliRec]
  BY <1>1, BoundsAssumption DEF CliRelease, TypeInv, FiberType, CliRec,
     NoClient, FdOrNone
<1>5. /\ \A e \in Fds : e # d => /\ ktype'[e] = ktype[e]
                                /\ nonblock'[e] = nonblock[e]
      /\ ktype'[d] = "free"
      /\ KernelType'
  BY <1>1, <1>2, <1>3 DEF CliRelease, TypeInv, KernelType
<1>6. /\ \A s \in Addrs : acc[s].new # d /\ m_sock[s] # d
      /\ \A b \in Clients : b # c /\ Live(b) => cli[b].fd # d
  BY <1>2, <1>3 DEF Inv, FiberOwn, SockOwn
<1>7. TypeInv'
  BY <1>1, <1>3, <1>4, <1>5 DEF TypeInv, ServerType, FiberType
<1>8. SockOwn' /\ SockPhase' /\ BindIdle'
  BY <1>2, <1>3, <1>5, <1>6 DEF Inv, SockOwn, SockPhase, BindIdle
<1>9. /\ \A b \in Clients \ {c} : Live(b)' <=> Live(b)
      /\ ~Live(c)'
  BY <1>3, <1>4
<1>10. FiberConn'
  BY <1>3, <1>4, <1>5, <1>6, <1>9 DEF Inv, FiberConn
<1>11. FiberOwn'
  BY <1>3, <1>4, <1>9 DEF Inv, FiberOwn
<1>12. ConnOwned'
  <2>1. \A e \in Fds : e # d /\ HasOwner(e) => HasOwner(e)'
    BY <1>2, <1>3, <1>4, <1>9 DEF HasOwner
  <2> QED BY <1>5, <2>1 DEF Inv, ConnOwned
<1>13. CtxGone'
  BY <1>2, <1>3, <1>4, <1>5 DEF Inv, CtxGone
<1>14. LiveNonblock' /\ StartClear'
  BY <1>4, <1>5, <1>6, <1>9 DEF Inv, FiberConn, LiveNonblock, StartClear
<1>15. FreshContext'
  BY <1>3, <1>4, <1>5, <1>6, <1>9 DEF Inv, FiberConn, FreshContext,
     SetTimeout, NewCtx, NoCtx
<1> QED BY <1>7, <1>8, <1>10, <1>11, <1>12, <1>13, <1>14, <1>15 DEF Inv

-----------------------------------------------------------------------------
(* stop's callback: the cancelAlls, FdManager::del and close_f of each     *)
(* listening Socket.                                                       *)
LEMMA StopCancelStep ==
    ASSUME Inv, NEW s \in Addrs, StopCancel(s)
    PROVE  Inv'
<1> USE DEF AccAt, CliAt, Live
<1>1. TypeInv
  BY DEF Inv
<1>2. UNCHANGED <<ktype, nonblock, m_datas, server, m_socks, m_sock, acc, cli>>
  BY DEF StopCancel, kernelVars
<1>3. /\ closing[s] \in {"cancel", "close"}
      /\ closing'[s] \in {"close", "del"}
      /\ \A r \in Addrs : r # s => closing'[r] = closing[r]
      /\ closing' \in [Addrs -> {"no", "cancel", "close", "del", "release",
                                 "closed"}]
  BY <1>1 DEF StopCancel, ClosingAt, ClosingTo, TypeInv, ServerType
<1>4. TypeInv'
  BY <1>1, <1>2, <1>3 DEF TypeInv, KernelType, ServerType, FiberType
<1>5. SockOwn' /\ SockPhase' /\ BindIdle'
  BY <1>2, <1>3 DEF Inv, SockOwn, SockPhase, BindIdle
<1>6. FiberConn' /\ FiberOwn' /\ ConnOwned'
  BY <1>2 DEF Inv, FiberConn, FiberOwn, ConnOwned, HasOwner
<1>7. CtxGone'
  BY <1>2, <1>3 DEF Inv, CtxGone
<1>8. LiveNonblock' /\ StartClear' /\ FreshContext'
  BY <1>2 DEF Inv, LiveNonblock, StartClear, FreshContext, SetTimeout, NewCtx,
     NoCtx
<1> QED BY <1>4, <1>5, <1>6, <1>7, <1>8 DEF Inv

(* FdManager::del of a listening descriptor in stop() preserves the        *)
(* invariant.                                                              *)
LEMMA StopDelStep ==
    ASSUME Inv, NEW s \in Addrs, StopDel(s)
    PROVE  Inv'
<1> USE DEF AccAt, CliAt, Live
<1>1. TypeInv
  BY DEF Inv
<1>2. PICK d \in Fds : d = m_sock[s] /\ ktype[d] = "listen"
  BY DEF StopDel, ClosingAt, Inv, SockPhase, SockOwn
<1>3. UNCHANGED <<ktype, nonblock, server, m_socks, m_sock, acc, cli>>
  BY DEF StopDel, kernelVars
<1>4. /\ closing[s] = "del" /\ closing'[s] = "release"
      /\ \A r \in Addrs : r # s => closing'[r] = closing[r]
      /\ closing' \in [Addrs -> {"no", "cancel", "close", "del", "release",
                                 "closed"}]
  BY <1>1 DEF StopDel, ClosingAt, ClosingTo, TypeInv, ServerType
<1>5. /\ m_datas'[d] = NoCtx
      /\ \A e \in Fds : e # d => m_datas'[e] = m_datas[e]
      /\ KernelType'
  BY <1>1, <1>2, <1>3 DEF StopDel, TypeInv, KernelType, Ctx, NoCtx
<1>6. /\ \A r \in Addrs : AccAt(r, "got") => acc[r].new # d
      /\ \A c \in Clients : Live(c) => cli[c].fd # d
  BY <1>2 DEF Inv, FiberConn
<1>7. TypeInv'
  BY <1>1, <1>3, <1>4, <1>5 DEF TypeInv, ServerType, FiberType
<1>8. SockOwn' /\ SockPhase' /\ BindIdle'
  BY <1>3, <1>4 DEF Inv, SockOwn, SockPhase, BindIdle
<1>9. FiberConn' /\ FiberOwn' /\ ConnOwned'
  BY <1>3 DEF Inv, FiberConn, FiberOwn, ConnOwned, HasOwner
<1>10. CtxGone'
  BY <1>2, <1>3, <1>4, <1>5, <1>6 DEF Inv, CtxGone, FiberConn, SockPhase
<1>11. LiveNonblock' /\ StartClear'
  BY <1>3 DEF Inv, LiveNonblock, StartClear
<1>12. FreshContext'
  BY <1>3, <1>5, <1>6 DEF Inv, FiberConn, FreshContext, SetTimeout, NewCtx,
     NoCtx
<1> QED BY <1>7, <1>8, <1>9, <1>10, <1>11, <1>12 DEF Inv

(* close_f of a listening descriptor preserves the invariant: no handler   *)
(* has its number.                                                         *)
LEMMA StopReleaseStep ==
    ASSUME Inv, NEW s \in Addrs, StopRelease(s)
    PROVE  Inv'
<1> USE DEF AccAt, CliAt, Live
<1>1. TypeInv
  BY DEF Inv
<1>2. PICK d \in Fds : /\ d = m_sock[s] /\ ktype[d] = "listen"
                       /\ m_datas[d] = NoCtx
  BY DEF StopRelease, ClosingAt, Inv, SockPhase, SockOwn, CtxGone
<1>3. UNCHANGED <<m_datas, server, acc, cli>>
  BY DEF StopRelease
<1>4. /\ closing[s] = "release" /\ closing'[s] = "closed"
      /\ \A r \in Addrs : r # s => closing'[r] = closing[r]
      /\ closing' \in [Addrs -> {"no", "cancel", "close", "del", "release",
                                 "closed"}]
  BY <1>1 DEF StopRelease, ClosingAt, ClosingTo, TypeInv, ServerType
<1>5. /\ ktype'[d] = "free"
      /\ \A e \in Fds : e # d => /\ ktype'[e] = ktype[e]
                                /\ nonblock'[e] = nonblock[e]
      /\ KernelType'
  BY <1>1, <1>2, <1>3 DEF StopRelease, TypeInv, KernelType
<1>6. /\ m_sock'[s] = -1
      /\ \A r \in Addrs : r # s => m_sock'[r] = m_sock[r]
      /\ m_sock' \in [Addrs -> FdOrNone]
  BY <1>1 DEF StopRelease, TypeInv, ServerType, FdOrNone
<1>7. \/ m_socks' = m_socks
      \/ m_socks' = {} /\ \A r \in Addrs : r # s => closing[r] = "closed"
  BY DEF StopRelease
<1>8. /\ \A r \in Addrs : acc[r].new # d
      /\ \A c \in Clients : Live(c) => cli[c].fd # d
      /\ \A r \in Addrs : r # s => m_sock[r] # d
  BY <1>2, NoDescriptor DEF Inv, FiberConn, SockOwn
<1>9. TypeInv'
  BY <1>1, <1>3, <1>4, <1>5, <1>6, <1>7 DEF TypeInv, ServerType, FiberType
<1>10. SockOwn'
  <2>1. \A r \in Addrs : m_sock'[r] \in Fds =>
            r \in m_socks' /\ ktype'[m_sock'[r]] = "listen"
    BY <1>5, <1>6, <1>7, <1>8, NoDescriptor DEF Inv, SockOwn, SockPhase
  <2>2. \A q, r \in Addrs :
            m_sock'[q] \in Fds /\ m_sock'[q] = m_sock'[r] => q = r
    BY <1>6, NoDescriptor DEF Inv, SockOwn
  <2>3. ASSUME NEW e \in Fds, ktype'[e] = "listen"
        PROVE  \E r \in m_socks' : m_sock'[r] = e
    <3>1. e # d /\ ktype[e] = "listen"
      BY <1>5, <2>3
    <3>2. PICK r \in m_socks : m_sock[r] = e
      BY <3>1 DEF Inv, SockOwn
    <3>3. r \in Addrs /\ r # s
      BY <1>1, <1>2, <3>1, <3>2 DEF TypeInv, ServerType
    <3>4. closing[r] # "closed"
      BY <3>2, <3>3, NoDescriptor DEF Inv, SockPhase
    <3> QED BY <1>6, <1>7, <3>2, <3>3, <3>4
  <2> QED BY <2>1, <2>2, <2>3 DEF SockOwn
<1>11. SockPhase' /\ BindIdle'
  BY <1>3, <1>4, <1>6 DEF Inv, SockPhase, BindIdle
<1>12. FiberConn'
  BY <1>3, <1>5, <1>8 DEF Inv, FiberConn
<1>13. FiberOwn'
  BY <1>3 DEF Inv, FiberOwn
<1>14. ConnOwned'
  BY <1>3, <1>5 DEF Inv, ConnOwned, HasOwner
<1>15. CtxGone'
  BY <1>2, <1>3, <1>4, <1>5, <1>6 DEF Inv, CtxGone
<1>16. LiveNonblock' /\ StartClear' /\ FreshContext'
  BY <1>3, <1>5, <1>8 DEF Inv, FiberConn, LiveNonblock, StartClear,
     FreshContext, SetTimeout, NewCtx, NoCtx
<1> QED BY <1>9, <1>10, <1>11, <1>12, <1>13, <1>14, <1>15, <1>16 DEF Inv

-----------------------------------------------------------------------------
(* Every step of the server, its fibers and its clients preserves the      *)
(* invariant.                                                              *)
LEMMA InvNext == Inv /\ [Next]_vars => Inv'
<1> SUFFICES ASSUME Inv, [Next]_vars PROVE Inv' OBVIOUS
<1>1. CASE Main
  <2>1. CASE BindFails \/ Destroy
    BY <2>1, CloseAllStep DEF BindFails, Destroy
  <2> QED BY <1>1, <2>1, BindAddrStep, StartStopStep DEF Main
<1>2. ASSUME NEW s \in Addrs, Accepting(s) PROVE Inv'
  BY <1>2, AccMoves, AccAcceptStep, AccScheduleStep DEF Accepting
<1>3. ASSUME NEW s \in Addrs, Closing(s) PROVE Inv'
  BY <1>3, StopCancelStep, StopDelStep, StopReleaseStep DEF Closing
<1>4. ASSUME NEW c \in Clients, Handling(c) \/ Flags(c) \/ Send(c) PROVE Inv'
  <2>1. CASE Handling(c) \/ Send(c)
    BY <2>1, CliMoves, CliDelStep, CliReleaseStep DEF Handling
  <2>2. CASE Flags(c)
    BY <2>2, FlagStep DEF Flags
  <2> QED BY <1>4, <2>1, <2>2
<1>5. ASSUME UNCHANGED core, UNCHANGED acc, UNCHANGED cli PROVE Inv'
  BY <1>5, AccUnchanged, CliUnchanged, FrameStep
<1>6. CASE \/ \E s \in Addrs : Connect(s)
           \/ \E d \in Fds : EpollWakes(d) \/ Drains(d)
           \/ UNCHANGED vars
  BY <1>5, <1>6 DEF Connect, EpollWakes, Drains, core, vars, kernelVars, tableVars,
     serverVars
<1> QED BY <1>1, <1>2, <1>3, <1>4, <1>6 DEF Next, Quiet

(* The invariant holds in every reachable state.                           *)
LEMMA InvAlways == Spec => []Inv
  BY InvInit, InvNext, PTL DEF Spec

(* One fiber has each connection, from accept to close_f: a connection has *)
(* an owner, two fibers never have one number, and a number that is free or*)
(* listens has no handler; a descriptor that listens is in m_socks.        *)
THEOREM DescriptorOwned == Spec => []OneOwner
<1>1. Inv => OneOwner
  <2> SUFFICES ASSUME Inv, NEW d \in Fds
               PROVE  /\ Cardinality(Owners(d)) =
                           IF ktype[d] = "conn" THEN 1 ELSE 0
                      /\ ktype[d] = "listen" =>
                           \E s \in m_socks : m_sock[s] = d
    BY DEF OneOwner
  <2>1. ktype[d] = "listen" => \E s \in m_socks : m_sock[s] = d
    BY DEF Inv, SockOwn
  <2>2. CASE ktype[d] # "conn"
    <3>1. Owners(d) = {}
      BY <2>2, NoDescriptor DEF Owners, Inv, FiberConn, Live
    <3> QED BY <2>1, <2>2, <3>1, FS_EmptySet
  <2>3. CASE ktype[d] = "conn"
    <3>1. \E x : Owners(d) = {x}
      <4>1. CASE \E s \in Addrs : acc[s].new = d
        <5>1. PICK s \in Addrs : acc[s].new = d
          BY <4>1
        <5>2. Owners(d) = {s}
          BY <5>1 DEF Owners, Inv, FiberOwn, Live
        <5> QED BY <5>2
      <4>2. CASE ~\E s \in Addrs : acc[s].new = d
        <5>1. PICK c \in Clients : Live(c) /\ cli[c].fd = d
          BY <2>3, <4>2 DEF Inv, ConnOwned, HasOwner
        <5>2. Owners(d) = {c}
          BY <4>2, <5>1 DEF Owners, Inv, FiberOwn, Live
        <5> QED BY <5>2
      <4> QED BY <4>1, <4>2
    <3> QED BY <2>1, <2>3, <3>1, FS_Singleton
  <2> QED BY <2>2, <2>3
<1> QED BY <1>1, InvAlways, PTL

(* What FdManager has for a number when a handler starts is what accept has*)
(* just put there: the FdCtx of an earlier connection never survives.      *)
THEOREM ContextFresh == Spec => []FreshContext
<1>1. Inv => FreshContext BY DEF Inv
<1> QED BY <1>1, InvAlways, PTL

(* A handler that reads or answers finds the kernel's O_NONBLOCK set,      *)
(* whatever fcntl has asked for, unless an application has cleared it with *)
(* ioctl: recv and writev never block the thread.                          *)
THEOREM CallsNeverBlock == Spec => []NeverBlocksThread
<1>1. Inv => NeverBlocksThread
  BY DEF Inv, LiveNonblock, Live, NeverBlocksThread
<1> QED BY <1>1, InvAlways, PTL

=============================================================================
