------------------------------ MODULE TcpServer ------------------------------
(***************************************************************************)
(* TcpServer with its Sockets, over the hooked system calls: descriptors   *)
(* whose numbers the kernel gives out again, the FdCtx that FdManager keeps*)
(* for a number, the table m_fdContexts of IOManager, the fibers that      *)
(* accept and the fibers that handle clients, on any number of threads.    *)
(*                                                                         *)
(* A step is what a fiber does between two places where another one can    *)
(* interfere.  Edges, events and the callbacks of timers are in module     *)
(* IOManager: here a descriptor with something to read wakes the fiber that*)
(* is registered for it.  What a turn with a client does is in HttpConn.   *)
(***************************************************************************)
EXTENDS Integers, FiniteSets, FiniteSetsExt

CONSTANTS
    Addrs,        \* the addresses to bind, one Socket for each
    NoFiber,
    Fds,          \* the descriptor numbers of the process
    InitSize,     \* m_fdContexts.size() at the start
    MaxClients,   \* bound: clients that connect
    MaxTurns      \* bound: times a client sends

ASSUME FdsAssumption == Fds \subseteq Nat \ {0, 1} /\ Fds # {}
ASSUME BoundsAssumption ==
    {InitSize, MaxClients, MaxTurns} \subseteq Nat

VARIABLES
    ktype,      \* the kernel's descriptors: free, listen, conn
    nonblock,   \* their O_NONBLOCK
    readable,   \* connections with something to receive
    backlog,    \* connections that wait to be accepted, per address
    connected,  \* clients so far
    m_datas,    \* FdManager: the FdCtx of a number
    size,       \* m_fdContexts.size()
    waiter,     \* FdContext: the fiber registered, for READ or for WRITE
    dropped,    \* the same in contexts no longer in m_fdContexts
    woken,      \* fibers that were triggered
    server,     \* what the main fiber and stop() have done
    m_isStop,
    m_socks,    \* the addresses with a Socket in m_socks
    m_sock,     \* the descriptor of each listening Socket, -1 if none
    closing,    \* where stop's callback is with each Socket
    acc,        \* the accept fibers
    cli,        \* the fibers that handle clients
    raced,      \* two fibers have grown m_fdContexts at once
    missed      \* an accept fiber registered behind close()'s cancelAll

kernelVars == <<ktype, nonblock, readable, backlog, connected>>
tableVars  == <<m_datas, size, waiter, dropped, woken, raced>>
serverVars == <<server, m_isStop, m_socks, m_sock, closing>>
vars == <<kernelVars, tableVars, serverVars, acc, cli, missed>>

Clients == 1..MaxClients
NoCtx == [exists |-> FALSE, recvTimeout |-> FALSE, userNonblock |-> FALSE]
NewCtx == [NoCtx EXCEPT !.exists = TRUE]

NoClient == [pc |-> "none", fd |-> -1, turns |-> 0, ev |-> "READ",
             timer |-> "none", cleared |-> FALSE]
IdleAcc == [pc |-> "idle", fd |-> -1, new |-> -1, hooked |-> FALSE]

Free == {d \in Fds : ktype[d] = "free"}

Init ==
    /\ ktype = [d \in Fds |-> "free"] /\ nonblock = [d \in Fds |-> FALSE]
    /\ readable = {} /\ backlog = [s \in Addrs |-> 0] /\ connected = 0
    /\ m_datas = [d \in Fds |-> NoCtx] /\ size = InitSize
    /\ waiter = [d \in Fds |-> NoFiber] /\ dropped = waiter
    /\ woken = {} /\ raced = FALSE
    /\ server = "bind" /\ m_isStop = TRUE /\ m_socks = {}
    /\ m_sock = [s \in Addrs |-> -1] /\ closing = [s \in Addrs |-> "no"]
    /\ acc = [s \in Addrs |-> IdleAcc]
    /\ cli = [c \in Clients |-> NoClient]
    /\ missed = FALSE

-----------------------------------------------------------------------------
(* bind and start, by the main fiber: no other fiber runs yet.             *)

(* socket(): FdManager::get creates the FdCtx, which makes the descriptor  *)
(* non-blocking.                                                           *)
SocketCall(d) ==
    /\ nonblock' = [nonblock EXCEPT ![d] = TRUE]
    /\ m_datas' = [m_datas EXCEPT ![d] = NewCtx]

(* newSock: the lowest free number.                                        *)
NewSock(s) ==
    /\ Free # {}
    /\ SocketCall(Min(Free))
    /\ m_sock' = [m_sock EXCEPT ![s] = Min(Free)]

(* Socket::bind and listen for one address.                                *)
BindListen(s) ==
    /\ NewSock(s)
    /\ ktype' = [ktype EXCEPT ![Min(Free)] = "listen"]

BindAddr(s) ==
    /\ server = "bind" /\ s \notin m_socks
    /\ BindListen(s)
    /\ m_socks' = m_socks \cup {s}
    /\ UNCHANGED <<readable, backlog, connected, size, waiter, dropped, woken,
                   raced, server, m_isStop, closing, acc, cli, missed>>

(* The Sockets of S are closed: ~Socket.                                   *)
CloseAll(S) ==
    LET ds == {m_sock[s] : s \in S} IN
    /\ ktype' = [d \in Fds |-> IF d \in ds THEN "free" ELSE ktype[d]]
    /\ nonblock' = [d \in Fds |-> d \notin ds /\ nonblock[d]]
    /\ m_datas' = [d \in Fds |-> IF d \in ds THEN NoCtx ELSE m_datas[d]]
    /\ m_sock' = [s \in Addrs |-> IF s \in S THEN -1 ELSE m_sock[s]]
    /\ backlog' = [s \in Addrs |-> IF s \in S THEN 0 ELSE backlog[s]]

(* bind or listen fails for an address: bind tries the rest, gives up the  *)
(* Sockets it has and returns false; run() tries again.                    *)
BindFails ==
    /\ server = "bind"
    /\ CloseAll(m_socks)
    /\ m_socks' = {}
    /\ UNCHANGED <<readable, connected, size, waiter, dropped, woken, raced,
                   server, m_isStop, closing, acc, cli, missed>>

Start ==
    /\ server = "bind" /\ m_socks = Addrs
    /\ server' = "started" /\ m_isStop' = FALSE
    /\ acc' = [s \in Addrs |-> [acc[s] EXCEPT !.pc = "loop"]]
    /\ UNCHANGED <<kernelVars, tableVars, m_socks, m_sock, closing, cli,
                   missed>>

(* ~TcpServer of a server that was not started.                            *)
Destroy ==
    /\ server = "bind" /\ m_socks = Addrs
    /\ server' = "ended"
    /\ CloseAll(m_socks)
    /\ m_socks' = {}
    /\ UNCHANGED <<readable, connected, size, waiter, dropped, woken, raced,
                   m_isStop, closing, acc, cli, missed>>

-----------------------------------------------------------------------------
(* Waiting for a descriptor.                                               *)

(* cancelAll(d), and close()'s call of it: whoever waits is woken, if      *)
(* m_fdContexts has a context for d.                                       *)
CancelAll(d) ==
    /\ waiter' = IF d < size THEN [waiter EXCEPT ![d] = NoFiber] ELSE waiter
    /\ woken' = IF d < size THEN (woken \cup {waiter[d]}) \ {NoFiber}
                            ELSE woken

(* The end of addEvent: it fails if the event is registered or the         *)
(* descriptor is closed.                                                   *)
CanRegister(d) == waiter[d] = NoFiber /\ ktype[d] # "free"
Registered(w, d, f) == IF CanRegister(d) THEN [w EXCEPT ![d] = f] ELSE w

(* contextResize(fd * 1.5).                                                *)
NewSize(d) == (3 * d) \div 2

(* addEvent, the shared lock: is there a context for d?                    *)
Found(d) == d < size

(* addEvent, the exclusive lock: m_fdContexts gets its new size whatever   *)
(* size it has by now; contexts beyond it are dropped, registered or not.  *)
Grow(d, f) ==
    /\ size' = NewSize(d)
    /\ raced' = (raced \/ Found(d))
    /\ waiter' = [e \in Fds |-> IF e >= NewSize(d) /\ e # d THEN NoFiber
                                ELSE Registered(waiter, d, f)[e]]
    /\ dropped' = [e \in Fds |-> IF e >= NewSize(d) /\ waiter[e] # NoFiber
                                 THEN waiter[e] ELSE dropped[e]]

Readable(d) ==
    \/ d \in readable
    \/ \E s \in Addrs : m_sock[s] = d /\ backlog[s] > 0

(* The fibers that wait for d; epoll knows a context by its address, also  *)
(* one that is no longer in the table.                                     *)
WaitsFor(d) == {waiter[d], dropped[d]} \ {NoFiber}
Trigger(d) ==
    /\ WaitsFor(d) # {}
    /\ woken' = woken \cup WaitsFor(d)
    /\ waiter' = [waiter EXCEPT ![d] = NoFiber]
    /\ dropped' = [dropped EXCEPT ![d] = NoFiber]

(* idle() finds the descriptor readable and triggers the fiber that waits  *)
(* for that.                                                               *)
EpollWakes(d) ==
    /\ ktype[d] # "free" /\ Readable(d)
    /\ \A c \in WaitsFor(d) \cap Clients : cli[c].ev = "READ"
    /\ Trigger(d)
    /\ UNCHANGED <<kernelVars, m_datas, size, raced, serverVars, acc, cli,
                   missed>>

(* The client takes the rest of what it is sent, or is gone: idle() finds  *)
(* the descriptor writable.  A client may never do so.                     *)
Drains(d) ==
    /\ \E c \in WaitsFor(d) \cap Clients : cli[c].ev = "WRITE"
    /\ Trigger(d)
    /\ UNCHANGED <<kernelVars, m_datas, size, raced, serverVars, acc, cli,
                   missed>>

-----------------------------------------------------------------------------
(* startAccept.                                                            *)

AccAt(s, l) == acc[s].pc = l
AccTo(s, l) == acc' = [acc EXCEPT ![s].pc = l]

(* The loop; accept reads m_sock and looks up its FdCtx.                   *)
AccLoop(s) ==
    /\ AccAt(s, "loop")
    /\ acc' = [acc EXCEPT ![s] =
         IF m_isStop THEN [IdleAcc EXCEPT !.pc = "done"]
         ELSE [@ EXCEPT !.pc = "try", !.fd = m_sock[s],
                        !.hooked = /\ m_sock[s] \in Fds
                                   /\ m_datas[m_sock[s]].exists]]
    /\ UNCHANGED <<kernelVars, tableVars, serverVars, cli, missed>>

Listens(d) == d \in Fds /\ ktype[d] = "listen"
Waiting(d) == {s \in Addrs : m_sock[s] = d /\ backlog[s] > 0}

(* accept_f: a connection gets the lowest free number.                     *)
AccAccept(s) ==
    LET d == acc[s].fd IN
    /\ AccAt(s, "try") /\ Listens(d) /\ Waiting(d) # {} /\ Free # {}
    /\ \E w \in Waiting(d) : backlog' = [backlog EXCEPT ![w] = @ - 1]
    /\ ktype' = [ktype EXCEPT ![Min(Free)] = "conn"]
    /\ nonblock' = [nonblock EXCEPT ![Min(Free)] = FALSE]
    /\ acc' = [acc EXCEPT ![s].pc = "got", ![s].new = Min(Free)]
    /\ UNCHANGED <<readable, connected, tableVars, serverVars, cli, missed>>

(* It would block (wait for a connection), or it fails: the descriptor is  *)
(* closed or something else, or there is no number left.                   *)
AccNothing(s) ==
    LET d == acc[s].fd IN
    /\ AccAt(s, "try") /\ ~(Listens(d) /\ Waiting(d) # {} /\ Free # {})
    /\ AccTo(s, IF Listens(d) /\ Waiting(d) = {} /\ acc[s].hooked
                THEN "add" ELSE "loop")
    /\ UNCHANGED <<kernelVars, tableVars, serverVars, cli, missed>>

(* The fiber object a new handler gets.                                    *)
Unused == {c \in Clients : cli[c].pc = "none"}
NextClient == Min(Unused)

(* FdManager::get(fd, true): a new FdCtx, which makes the descriptor       *)
(* non-blocking, if the number has none.                                   *)
ContextOf(d) == IF m_datas[d].exists THEN m_datas[d] ELSE NewCtx
NonblockOf(d) == IF m_datas[d].exists THEN nonblock[d] ELSE TRUE

(* handleClient is scheduled for the new connection.  Bound: MaxClients    *)
(* handlers.                                                               *)
Schedule(s) ==
    /\ AccAt(s, "got") /\ Unused # {}
    /\ nonblock' = [nonblock EXCEPT ![acc[s].new] = NonblockOf(acc[s].new)]
    /\ cli' = [cli EXCEPT ![NextClient].pc = "start",
                          ![NextClient].fd = acc[s].new]
    /\ acc' = [acc EXCEPT ![s].pc = "loop", ![s].new = -1]
    /\ UNCHANGED <<ktype, readable, backlog, connected, size, waiter, dropped,
                   woken, raced, serverVars, missed>>

(* Mutant of AccSchedule: no timeout is set for the connection.            *)
AccScheduleUntimed(s) ==
    LET d == acc[s].new IN
    Schedule(s) /\ m_datas' = [m_datas EXCEPT ![d] = ContextOf(d)]

(* setTimeout and getTimeout: of the timeouts only whether there is one.   *)
SetTimeout(ctx) == [ctx EXCEPT !.recvTimeout = TRUE]
HasTimeout(d) == m_datas[d].recvTimeout

(* The rest of accept, with the FdCtx of the new number, setRecvTimeout and*)
(* the schedule: no other fiber knows the connection yet.                  *)
AccSchedule(s) ==
    LET d == acc[s].new IN
    /\ Schedule(s)
    /\ m_datas' = [m_datas EXCEPT ![d] = SetTimeout(ContextOf(d))]

(* close() of the listening Socket has called cancelAll already.           *)
Behind(s) == acc[s].fd = m_sock[s] /\ closing[s] \in {"del", "release"}

(* addEvent.                                                               *)
AccAdd(s) ==
    LET d == acc[s].fd IN
    /\ AccAt(s, "add")
    /\ IF Found(d)
       THEN /\ waiter' = Registered(waiter, d, s)
            /\ missed' = (missed \/ (CanRegister(d) /\ Behind(s)))
            /\ AccTo(s, IF CanRegister(d) THEN "wait" ELSE "loop")
       ELSE AccTo(s, "grow") /\ UNCHANGED <<waiter, missed>>
    /\ UNCHANGED <<kernelVars, m_datas, size, dropped, woken, raced,
                   serverVars, cli>>

AccGrow(s) ==
    LET d == acc[s].fd IN
    /\ AccAt(s, "grow")
    /\ Grow(d, s)
    /\ missed' = (missed \/ (CanRegister(d) /\ Behind(s)))
    /\ AccTo(s, IF CanRegister(d) THEN "wait" ELSE "loop")
    /\ UNCHANGED <<kernelVars, m_datas, woken, serverVars, cli>>

AccResume(s) ==
    /\ AccAt(s, "wait") /\ s \in woken
    /\ woken' = woken \ {s}
    /\ AccTo(s, "try")
    /\ UNCHANGED <<kernelVars, m_datas, size, waiter, dropped, raced,
                   serverVars, cli, missed>>

-----------------------------------------------------------------------------
(* handleClient.                                                           *)

CliAt(c, l) == cli[c].pc = l
CliTo(c, l) == cli' = [cli EXCEPT ![c].pc = l]

(* users[fd] is initialised for this client.                               *)
CliStart(c) ==
    /\ CliAt(c, "start")
    /\ CliTo(c, "recv")
    /\ UNCHANGED <<kernelVars, tableVars, serverVars, acc, missed>>

(* do_io after EAGAIN: the timer of the wait, which the set of timers drops*)
(* if it has one with the same deadline, and then addEvent.                *)
CliWaits(c, e, t) ==
    cli' = [cli EXCEPT ![c] = [@ EXCEPT !.pc = "add", !.ev = e, !.timer = t]]

(* recv: data, or EAGAIN.  A descriptor without O_NONBLOCK blocks the      *)
(* thread until there is data.                                             *)
CliRecv(c) ==
    LET d == cli[c].fd IN
    /\ CliAt(c, "recv")
    /\ \/ /\ d \in readable
          /\ readable' = readable \ {d} /\ CliTo(c, "serve")
       \/ /\ d \notin readable /\ nonblock[d] /\ UNCHANGED readable
          /\ IF m_datas[d].userNonblock THEN CliTo(c, "close")
             ELSE \E t \in IF HasTimeout(d) THEN {"armed", "dropped"}
                                            ELSE {"none"} :
                      CliWaits(c, "READ", t)
    /\ UNCHANGED <<ktype, nonblock, backlog, connected, tableVars, serverVars,
                   acc, missed>>

(* The rest of the turn; a long connection goes on, any other ends.        *)
CliServe(c) ==
    /\ CliAt(c, "serve")
    /\ \E l \in {"recv", "close"} : CliTo(c, l)
    /\ UNCHANGED <<kernelVars, tableVars, serverVars, acc, missed>>

(* The client does not take the answer: writev gets EAGAIN and waits.  The *)
(* server sets a receive timeout only, so this wait has no timer.          *)
CliStall(c) ==
    LET d == cli[c].fd IN
    /\ CliAt(c, "serve") /\ nonblock[d] /\ ~m_datas[d].userNonblock
    /\ CliWaits(c, "WRITE", "none")
    /\ UNCHANGED <<kernelVars, tableVars, serverVars, acc, missed>>

(* Mutant of CliFcntl: the user's flag reaches the kernel.                 *)
CliFcntlThrough(c, v) ==
    LET d == cli[c].fd IN
    /\ CliAt(c, "serve") /\ ~cli[c].cleared
    /\ m_datas' = [m_datas EXCEPT ![d].userNonblock = v]
    /\ nonblock' = [nonblock EXCEPT ![d] = v]
    /\ UNCHANGED <<ktype, readable, backlog, connected, size, waiter, dropped,
                   woken, raced, serverVars, acc, cli, missed>>

(* fcntl(F_SETFL) by an application in its turn: the O_NONBLOCK it asks for*)
(* is noted, the kernel's stays set.                                       *)
CliFcntl(c, v) ==
    LET d == cli[c].fd IN
    /\ CliAt(c, "serve") /\ ~cli[c].cleared
    /\ m_datas' = [m_datas EXCEPT ![d].userNonblock = v]
    /\ nonblock' = [nonblock EXCEPT ![d] = TRUE]
    /\ UNCHANGED <<ktype, readable, backlog, connected, size, waiter, dropped,
                   woken, raced, serverVars, acc, cli, missed>>

(* ioctl(FIONBIO): noted as well, and given to the kernel as it is.  Bound:*)
(* no further call on a connection whose flag was cleared so.              *)
CliIoctl(c, v) ==
    LET d == cli[c].fd IN
    /\ CliAt(c, "serve") /\ ~cli[c].cleared
    /\ cli' = [cli EXCEPT ![c].cleared = ~v]
    /\ m_datas' = [m_datas EXCEPT ![d].userNonblock = v]
    /\ nonblock' = [nonblock EXCEPT ![d] = v]
    /\ UNCHANGED <<ktype, readable, backlog, connected, size, waiter, dropped,
                   woken, raced, serverVars, acc, missed>>

CliAdd(c) ==
    LET d == cli[c].fd IN
    /\ CliAt(c, "add")
    /\ IF Found(d)
       THEN /\ waiter' = Registered(waiter, d, c)
            /\ CliTo(c, IF CanRegister(d) THEN "wait" ELSE "close")
       ELSE CliTo(c, "grow") /\ UNCHANGED waiter
    /\ UNCHANGED <<kernelVars, m_datas, size, dropped, woken, raced,
                   serverVars, acc, missed>>

CliGrow(c) ==
    LET d == cli[c].fd IN
    /\ CliAt(c, "grow")
    /\ Grow(d, c)
    /\ CliTo(c, IF CanRegister(d) THEN "wait" ELSE "close")
    /\ UNCHANGED <<kernelVars, m_datas, woken, serverVars, acc, missed>>

(* Back in do_io: an error if the callback of the timer has run, or the    *)
(* call again, with which a writev comes to the end of its turn.           *)
CliResume(c) ==
    /\ CliAt(c, "wait") /\ c \in woken
    /\ woken' = woken \ {c}
    /\ \E l \in CASE cli[c].timer \in {"early", "fired"} -> {"close"}
               [] cli[c].ev = "WRITE" -> {"recv", "close"}
               [] OTHER -> {"recv"} :
           cli' = [cli EXCEPT ![c] = [@ EXCEPT !.pc = l, !.ev = "READ",
                                               !.timer = "none"]]
    /\ UNCHANGED <<kernelVars, m_datas, size, waiter, dropped, raced,
                   serverVars, acc, missed>>

(* Mutant of CliTimeout: cancelEvent is forgotten.                         *)
CliTimeoutSilent(c) ==
    /\ cli[c].pc \in {"add", "grow", "wait"} /\ cli[c].timer = "armed"
    /\ cli' = [cli EXCEPT ![c].timer = IF CliAt(c, "wait") THEN "fired"
                                       ELSE "early"]
    /\ UNCHANGED <<kernelVars, tableVars, serverVars, acc, missed>>

(* The timer of the wait: cancelEvent, which looks in m_fdContexts and     *)
(* finds nothing before addEvent.                                          *)
CliTimeout(c) ==
    LET d == cli[c].fd IN
    /\ cli[c].pc \in {"add", "grow", "wait"} /\ cli[c].timer = "armed"
    /\ cli' = [cli EXCEPT ![c].timer = IF CliAt(c, "wait") THEN "fired"
                                       ELSE "early"]
    /\ IF Found(d) /\ waiter[d] = c
       THEN CancelAll(d) ELSE UNCHANGED <<waiter, woken>>
    /\ UNCHANGED <<kernelVars, m_datas, size, dropped, raced, serverVars, acc,
                   missed>>

-----------------------------------------------------------------------------
(* Mutant of CliDel: the number is free before the handler is done with it.*)
CliDelReleases(c) ==
    /\ CliAt(c, "close")
    /\ CancelAll(cli[c].fd)
    /\ ktype' = [ktype EXCEPT ![cli[c].fd] = "free"]
    /\ m_datas' = [m_datas EXCEPT ![cli[c].fd] = NoCtx]
    /\ CliTo(c, "release")
    /\ UNCHANGED <<nonblock, readable, backlog, connected, size, dropped,
                   raced, serverVars, acc, missed>>

(* close() of a connection by its handler, the only one to use it:         *)
(* cancelAll and FdManager::del, and only then the number is free.         *)
CliDel(c) ==
    /\ CliAt(c, "close")
    /\ CancelAll(cli[c].fd)
    /\ m_datas' = [m_datas EXCEPT ![cli[c].fd] = NoCtx]
    /\ CliTo(c, "release")
    /\ UNCHANGED <<kernelVars, size, dropped, raced, serverVars, acc, missed>>

CliRelease(c) ==
    LET d == cli[c].fd IN
    /\ CliAt(c, "release")
    /\ ktype' = [ktype EXCEPT ![d] = "free"]
    /\ nonblock' = [nonblock EXCEPT ![d] = FALSE]
    /\ readable' = readable \ {d}
    /\ dropped' = [dropped EXCEPT ![d] = NoFiber]
    /\ cli' = [cli EXCEPT ![c] = [NoClient EXCEPT !.pc = "done"]]
    /\ UNCHANGED <<backlog, connected, m_datas, size, waiter, woken, raced,
                   serverVars, acc, missed>>

-----------------------------------------------------------------------------
(* stop(): the flag, and a callback that closes the listening Sockets one  *)
(* after the other.                                                        *)
Stop ==
    /\ server = "started"
    /\ server' = "stopping" /\ m_isStop' = TRUE
    /\ closing' = [s \in Addrs |-> "cancel"]
    /\ UNCHANGED <<kernelVars, tableVars, m_socks, m_sock, acc, cli, missed>>

ClosingAt(s, l) ==
    /\ closing[s] = l
    /\ \A r \in Addrs \ {s} : closing[r] \in {"cancel", "closed"}
ClosingTo(s, l) == closing' = [closing EXCEPT ![s] = l]

(* Mutant of StopCancel: the fibers that wait are not woken.               *)
StopCancelNobody(s) ==
    /\ \/ ClosingAt(s, "cancel") /\ ClosingTo(s, "close")
       \/ ClosingAt(s, "close") /\ ClosingTo(s, "del")
    /\ UNCHANGED <<kernelVars, tableVars, server, m_isStop, m_socks, m_sock,
                   acc, cli, missed>>

(* sock->cancelAll(), and then close()'s own cancelAll.                    *)
StopCancel(s) ==
    /\ \/ ClosingAt(s, "cancel") /\ ClosingTo(s, "close")
       \/ ClosingAt(s, "close") /\ ClosingTo(s, "del")
    /\ CancelAll(m_sock[s])
    /\ UNCHANGED <<kernelVars, m_datas, size, dropped, raced, server, m_isStop,
                   m_socks, m_sock, acc, cli, missed>>

StopDel(s) ==
    /\ ClosingAt(s, "del") /\ ClosingTo(s, "release")
    /\ m_datas' = [m_datas EXCEPT ![m_sock[s]] = NoCtx]
    /\ UNCHANGED <<kernelVars, size, waiter, dropped, woken, raced, server,
                   m_isStop, m_socks, m_sock, acc, cli, missed>>

(* close_f; after the last one m_socks is cleared.                         *)
StopRelease(s) ==
    /\ ClosingAt(s, "release") /\ ClosingTo(s, "closed")
    /\ ktype' = [ktype EXCEPT ![m_sock[s]] = "free"]
    /\ nonblock' = [nonblock EXCEPT ![m_sock[s]] = FALSE]
    /\ dropped' = [dropped EXCEPT ![m_sock[s]] = NoFiber]
    /\ m_sock' = [m_sock EXCEPT ![s] = -1]
    /\ backlog' = [backlog EXCEPT ![s] = 0]
    /\ m_socks' = IF \A r \in Addrs \ {s} : closing[r] = "closed"
                  THEN {} ELSE m_socks
    /\ UNCHANGED <<readable, connected, m_datas, size, waiter, woken, raced,
                   server, m_isStop, acc, cli, missed>>

-----------------------------------------------------------------------------
(* The clients.                                                            *)
Connect(s) ==
    /\ server # "bind" /\ Listens(m_sock[s]) /\ connected < MaxClients
    /\ connected' = connected + 1
    /\ backlog' = [backlog EXCEPT ![s] = @ + 1]
    /\ UNCHANGED <<ktype, nonblock, readable, tableVars, serverVars, acc, cli,
                   missed>>

(* Bounds: one client at a time has sent something, and that MaxTurns times*)
(* at most.                                                                *)
Send(c) ==
    /\ cli[c].pc \notin {"none", "done"} /\ cli[c].turns < MaxTurns
    /\ \A b \in Clients \ {c} : cli[b].turns = 0
    /\ cli[c].fd \notin readable
    /\ readable' = readable \cup {cli[c].fd}
    /\ cli' = [cli EXCEPT ![c].turns = @ + 1]
    /\ UNCHANGED <<ktype, nonblock, backlog, connected, tableVars, serverVars,
                   acc, missed>>

-----------------------------------------------------------------------------
Main == (\E s \in Addrs : BindAddr(s)) \/ BindFails \/ Start \/ Destroy \/ Stop

Accepting(s) ==
    \/ AccLoop(s) \/ AccAccept(s) \/ AccNothing(s)
    \/ AccSchedule(s) \/ AccAdd(s) \/ AccGrow(s) \/ AccResume(s)

Handling(c) ==
    \/ CliStart(c) \/ CliRecv(c) \/ CliServe(c) \/ CliStall(c)
    \/ CliAdd(c) \/ CliGrow(c) \/ CliResume(c) \/ CliTimeout(c)
    \/ CliDel(c) \/ CliRelease(c)

Flags(c) == \E v \in BOOLEAN : CliFcntl(c, v) \/ CliIoctl(c, v)

Closing(s) == StopCancel(s) \/ StopDel(s) \/ StopRelease(s)

(* Nothing left to do: every fiber has ended, or waits for ever.           *)
Quiet == server \in {"ended", "stopping"} /\ UNCHANGED vars

Next ==
    \/ Main \/ \E s \in Addrs : Accepting(s) \/ Closing(s) \/ Connect(s)
    \/ \E c \in Clients : Handling(c) \/ Flags(c) \/ Send(c)
    \/ \E d \in Fds : EpollWakes(d) \/ Drains(d)
    \/ Quiet

Spec == Init /\ [][Next]_vars

(* A fiber that can go on is run; a descriptor that is readable is         *)
(* reported; the callback of stop() runs to its end.  Nothing makes a      *)
(* client take what it is sent.                                            *)
FairSpec ==
    /\ Spec
    /\ \A s \in Addrs : WF_vars(Accepting(s)) /\ WF_vars(Closing(s))
    /\ \A c \in Clients : WF_vars(Handling(c))
    /\ WF_vars(\E d \in Fds : EpollWakes(d))

-----------------------------------------------------------------------------
(* The accept fiber that has just got d, or the handler that has not closed*)
(* it yet.                                                                 *)
Owners(d) ==
    {s \in Addrs : acc[s].new = d} \cup
    {c \in Clients : cli[c].fd = d /\ cli[c].pc \notin {"none", "done"}}

(* A connection has one fiber from accept to close_f, and a number that is *)
(* free has none: users[fd] is never used by two handlers, no connection is*)
(* forgotten and none is used after its number was given away.  A listening*)
(* descriptor belongs to a Socket of the server: a bind that fails for one *)
(* address leaves none behind.                                             *)
OneOwner ==
    \A d \in Fds :
        /\ Cardinality(Owners(d)) = IF ktype[d] = "conn" THEN 1 ELSE 0
        /\ ktype[d] = "listen" => \E s \in m_socks : m_sock[s] = d

(* A handler starts with the FdCtx of its own connection, with the server's*)
(* timeout and non-blocking, and with nothing a previous user of the number*)
(* has set.                                                                *)
FreshContext ==
    \A c \in Clients : cli[c].pc = "start" =>
        /\ m_datas[cli[c].fd] = SetTimeout(NewCtx)
        /\ nonblock[cli[c].fd]

(* A hooked recv or writev never blocks its thread, whatever fcntl sets    *)
(* (ioctl does clear the kernel's flag).                                   *)
NeverBlocksThread ==
    \A c \in Clients : cli[c].pc \in {"recv", "serve"} /\ ~cli[c].cleared =>
        nonblock[cli[c].fd]

(* The waits that nothing ends but the client: a writev has no timer, and  *)
(* a recv none if the timer set dropped it or if its callback came before  *)
(* addEvent.                                                               *)
UpToClient(c) ==
    /\ cli[c].pc = "wait"
    /\ \/ cli[c].ev = "WRITE"
       \/ cli[c].timer \in {"dropped", "early"} /\ cli[c].fd \notin readable

(* Every client is done with one day, also one that sends nothing, unless  *)
(* its handler is in a wait that nothing but the client ends.              *)
ClientEnds ==
    \A c \in Clients :
        cli[c].pc # "none" ~>
            (cli[c].pc = "done" \/ cli[c].cleared \/ raced \/ UpToClient(c))

(* After stop() the accept fibers end, unless one registered in the window *)
(* of close() between cancelAll and close_f.                               *)
StopsAccepting ==
    server = "stopping" ~>
        (missed \/ raced \/ \A s \in Addrs : acc[s].pc = "done")

=============================================================================
