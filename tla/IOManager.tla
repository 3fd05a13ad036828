------------------------------ MODULE IOManager ------------------------------
(***************************************************************************)
(* One file descriptor of IOManager: its FdContext, its registration in    *)
(* epoll, the threads in idle() that epoll_wait reports it to, and the     *)
(* fibers that use it through the hooked calls (do_io): read and write with*)
(* a timeout, racing with each other and with a close().                   *)
(*                                                                         *)
(* Every critical section of the FdContext's mutex is one step.  The queue *)
(* and the threads that run the fibers are in module Scheduler: here a     *)
(* triggered fiber is simply woken.  Deadlines are not measured: an armed  *)
(* timer may expire at any time.                                           *)
(***************************************************************************)
EXTENDS Integers, FiniteSets

CONSTANTS
    Fibers,       \* the fibers that use the descriptor
    Readers,      \* those that read; the others write
    Timed,        \* those for which FdCtx::getTimeout returns a timeout
    Idlers,       \* the threads in idle()
    MaxCalls,     \* bound: calls of do_io by each fiber
    MaxArrivals   \* bound: times the descriptor becomes readable, writable

ASSUME FibersAssumption == Readers \subseteq Fibers /\ Timed \subseteq Fibers
ASSUME BoundsAssumption == MaxCalls \in Nat \ {0} /\ MaxArrivals \in Nat

VARIABLES
    avail,        \* events the descriptor is ready for
    hup,          \* the peer has gone
    arrivals,     \* how often the descriptor became ready
    mask,         \* the events epoll watches
    edge,         \* the descriptor is on epoll's ready list
    waiter,       \* FdContext: the fiber of each registered event
    pending,      \* m_pendingEventCount
    aborted,      \* an assert of triggerEvent has failed
    got,          \* what epoll_wait reported to each idler
    pc,           \* where each fiber is in do_io
    call,         \* number of its current call of do_io
    armed,        \* its timer is in the heap
    woken,        \* times it was scheduled and not resumed yet
    timedOut,     \* the calls whose timer_info has cancelled = ETIMEDOUT
    cbs,          \* callbacks of expired timers, and how far they are
    closer        \* where close() is

kernelVars == <<avail, hup, arrivals>>
epollVars  == <<mask, edge>>
ctxVars    == <<waiter, pending, aborted>>
fiberVars  == <<pc, call>>
timerVars  == <<armed, timedOut, cbs>>
vars == <<kernelVars, epollVars, ctxVars, got, fiberVars, woken, timerVars,
          closer>>

Events == {"READ", "WRITE"}
NoReport == [events |-> {}, hup |-> FALSE]

EventOf(f) == IF f \in Readers THEN "READ" ELSE "WRITE"

(* fd_ctx->events: the events that have a waiter.                          *)
Registered == DOMAIN waiter

Ready == IF hup THEN Events ELSE avail

Init ==
    /\ avail = {} /\ hup = FALSE /\ arrivals = 0
    /\ mask = {} /\ edge = FALSE
    /\ waiter = [e \in {} |-> 0] /\ pending = 0 /\ aborted = FALSE
    /\ got = [i \in Idlers |-> NoReport]
    /\ pc = [f \in Fibers |-> "start"]
    /\ call = [f \in Fibers |-> 1]
    /\ armed = [f \in Fibers |-> FALSE]
    /\ woken = [f \in Fibers |-> 0]
    /\ timedOut = {} /\ cbs = {}
    /\ closer = "open"

-----------------------------------------------------------------------------
(* epoll_ctl with EPOLL_CTL_ADD or MOD, or with DEL when nothing is left to*)
(* watch: the descriptor is looked at again.  It fails once it is closed.  *)
EpollCtl(m) ==
    /\ mask' = m
    /\ edge' = (m # {} /\ (edge \/ m \cap Ready # {} \/ hup))

(* triggerEvent for every event of E, with --m_pendingEventCount.          *)
Trigger(E) ==
    /\ waiter' = [e \in Registered \ E |-> waiter[e]]
    /\ woken' = [f \in Fibers |->
                    woken[f] + Cardinality({e \in E : waiter[e] = f})]
    /\ pending' = pending - Cardinality(E)

-----------------------------------------------------------------------------
(* do_io.                                                                  *)

(* A failed assert ends the process: no step follows it.                   *)
At(f, l) == ~aborted /\ pc[f] = l
Goto(f, l) == pc' = [pc EXCEPT ![f] = l]

(* The call returns; the fiber may make another one.                       *)
Return(f) ==
    \/ /\ call[f] < MaxCalls
       /\ call' = [call EXCEPT ![f] = @ + 1]
       /\ Goto(f, "start")
    \/ call[f] = MaxCalls /\ Goto(f, "done") /\ UNCHANGED call

(* FdMgr::get: no FdCtx once close() has deleted it, the original function *)
(* is called and its result returned.                                      *)
Start(f) ==
    /\ At(f, "start")
    /\ IF closer \in {"deleted", "closed"}
       THEN Return(f)
       ELSE Goto(f, "try") /\ UNCHANGED call
    /\ UNCHANGED <<kernelVars, epollVars, ctxVars, got, woken, timerVars,
                   closer>>

(* The original function: done, or failed, unless it would block.          *)
Try(f) ==
    /\ At(f, "try")
    /\ IF EventOf(f) \in Ready \/ closer = "closed"
       THEN /\ Return(f)
            /\ avail' \in {avail, avail \ {EventOf(f)}}
       ELSE /\ Goto(f, IF f \in Timed THEN "timer" ELSE "add")
            /\ UNCHANGED <<call, avail>>
    /\ UNCHANGED <<hup, arrivals, epollVars, ctxVars, got, woken, timerVars,
                   closer>>

(* addConditionTimer.                                                      *)
AddTimer(f) ==
    /\ At(f, "timer")
    /\ armed' = [armed EXCEPT ![f] = TRUE]
    /\ Goto(f, "add")
    /\ UNCHANGED <<kernelVars, epollVars, ctxVars, got, call, woken,
                   timedOut, cbs, closer>>

(* addEvent fails: the event is registered already or epoll_ctl fails.     *)
AddEventFails(f) ==
    /\ At(f, "add")
    /\ EventOf(f) \in Registered \/ closer = "closed"
    /\ armed' = [armed EXCEPT ![f] = FALSE]
    /\ Return(f)
    /\ UNCHANGED <<kernelVars, epollVars, ctxVars, got, woken, timedOut, cbs,
                   closer>>

(* Mutant of AddEvent: EPOLL_CTL_ADD although the descriptor is registered *)
(* for its other event, and the failure is not looked at.                  *)
AddEventNoMod(f) ==
    /\ At(f, "add")
    /\ EventOf(f) \notin Registered /\ closer # "closed"
    /\ IF Registered = {} THEN EpollCtl({EventOf(f)}) ELSE UNCHANGED epollVars
    /\ waiter' = [e \in Registered \cup {EventOf(f)} |->
                    IF e = EventOf(f) THEN f ELSE waiter[e]]
    /\ pending' = pending + 1
    /\ Goto(f, "wait")
    /\ UNCHANGED <<kernelVars, aborted, got, call, woken, timerVars,
                   closer>>

(* addEvent registers the fiber, which then yields.                        *)
AddEvent(f) ==
    /\ At(f, "add")
    /\ EventOf(f) \notin Registered /\ closer # "closed"
    /\ EpollCtl(Registered \cup {EventOf(f)})
    /\ waiter' = [e \in Registered \cup {EventOf(f)} |->
                    IF e = EventOf(f) THEN f ELSE waiter[e]]
    /\ pending' = pending + 1
    /\ Goto(f, "wait")
    /\ UNCHANGED <<kernelVars, aborted, got, call, woken, timerVars,
                   closer>>

(* The fiber is resumed.                                                   *)
Resume(f) ==
    /\ At(f, "wait") /\ woken[f] > 0
    /\ woken' = [woken EXCEPT ![f] = @ - 1]
    /\ Goto(f, "cancelTimer")
    /\ UNCHANGED <<kernelVars, epollVars, ctxVars, got, call, timerVars,
                   closer>>

(* timer->cancel(): of no effect when the timer has expired.               *)
CancelTimer(f) ==
    /\ At(f, "cancelTimer")
    /\ armed' = [armed EXCEPT ![f] = FALSE]
    /\ Goto(f, "check")
    /\ UNCHANGED <<kernelVars, epollVars, ctxVars, got, call, woken,
                   timedOut, cbs, closer>>

(* ETIMEDOUT if the timer's callback has said so, else retry.              *)
Check(f) ==
    /\ At(f, "check")
    /\ IF <<f, call[f]>> \in timedOut
       THEN Return(f)
       ELSE Goto(f, "try") /\ UNCHANGED call
    /\ UNCHANGED <<kernelVars, epollVars, ctxVars, got, woken, timerVars,
                   closer>>

-----------------------------------------------------------------------------
(* The timer of do_io.                                                     *)

(* Tells the callbacks of several expired timers apart.                    *)
FreshId == CHOOSE n \in 0..Cardinality(cbs) : \A c \in cbs : c.id # n

(* listExpiredCb takes the callback out of the heap, idle() schedules it.  *)
TimerExpires(f) ==
    /\ ~aborted /\ armed[f]
    /\ armed' = [armed EXCEPT ![f] = FALSE]
    /\ cbs' = cbs \cup {[fiber |-> f, call |-> call[f], id |-> FreshId,
                         at |-> "queued"]}
    /\ UNCHANGED <<kernelVars, epollVars, ctxVars, got, fiberVars, woken,
                   timedOut, closer>>

CbAt(c, l) == ~aborted /\ c \in cbs /\ c.at = l

(* The timer_info of a callback is alive while its call of do_io has not   *)
(* returned, or another callback of this call has it locked.               *)
Alive(c) ==
    \/ call[c.fiber] = c.call /\ pc[c.fiber] \notin {"start", "done"}
    \/ \E d \in cbs : /\ d.fiber = c.fiber /\ d.call = c.call
                      /\ d.at # "queued"

(* winfo.lock(), and the look at cancelled.                                *)
CbCheck(c) ==
    /\ CbAt(c, "queued")
    /\ cbs' = (cbs \ {c}) \cup
         (IF Alive(c) /\ <<c.fiber, c.call>> \notin timedOut
          THEN {[c EXCEPT !.at = "checked"]} ELSE {})
    /\ UNCHANGED <<kernelVars, epollVars, ctxVars, got, fiberVars, woken,
                   armed, timedOut, closer>>

CbSetCancelled(c) ==
    /\ CbAt(c, "checked")
    /\ timedOut' = timedOut \cup {<<c.fiber, c.call>>}
    /\ cbs' = (cbs \ {c}) \cup {[c EXCEPT !.at = "cancel"]}
    /\ UNCHANGED <<kernelVars, epollVars, ctxVars, got, fiberVars, woken,
                   armed, closer>>

(* Mutant of CbCancelEvent: the event is deleted and nobody is woken.      *)
CbDelEvent(c) ==
    LET e == EventOf(c.fiber) IN
    /\ CbAt(c, "cancel")
    /\ cbs' = cbs \ {c}
    /\ IF e \in Registered /\ closer # "closed"
       THEN /\ EpollCtl(Registered \ {e})
            /\ waiter' = [x \in Registered \ {e} |-> waiter[x]]
            /\ pending' = pending - 1
       ELSE UNCHANGED <<epollVars, waiter, pending>>
    /\ UNCHANGED <<kernelVars, aborted, got, fiberVars, woken, armed,
                   timedOut, closer>>

(* cancelEvent: delete the event and wake whoever waits for it.            *)
CbCancelEvent(c) ==
    LET e == EventOf(c.fiber) IN
    /\ CbAt(c, "cancel")
    /\ cbs' = cbs \ {c}
    /\ IF e \in Registered /\ closer # "closed"
       THEN EpollCtl(Registered \ {e}) /\ Trigger({e})
       ELSE UNCHANGED <<epollVars, waiter, pending, woken>>
    /\ UNCHANGED <<kernelVars, aborted, got, fiberVars, armed, timedOut,
                   closer>>

-----------------------------------------------------------------------------
(* idle().                                                                 *)

(* epoll_wait takes the descriptor off the ready list and reports the      *)
(* watched events it is ready for, if there are any.                       *)
EpollWait(i) ==
    /\ ~aborted /\ got[i] = NoReport
    /\ edge
    /\ edge' = FALSE
    /\ got' = [got EXCEPT ![i] = [events |-> mask \cap Ready, hup |-> hup]]
    /\ UNCHANGED <<kernelVars, mask, ctxVars, fiberVars, woken, timerVars,
                   closer>>

(* real_events: EPOLLERR and EPOLLHUP stand for all registered events.     *)
RealEvents(r) == r.events \cup (IF r.hup THEN Registered ELSE {})

(* Mutant of HandleEvent: events that were not reported are dropped too.   *)
HandleEventAll(i) ==
    LET real == RealEvents(got[i]) IN
    /\ ~aborted /\ got[i] # NoReport
    /\ got' = [got EXCEPT ![i] = NoReport]
    /\ IF Registered \cap real = {} \/ closer = "closed"
       THEN UNCHANGED <<epollVars, waiter, pending, woken, aborted>>
       ELSE /\ EpollCtl({})
            /\ IF real \subseteq Registered
               THEN Trigger(real) /\ UNCHANGED aborted
               ELSE aborted' = TRUE /\ UNCHANGED <<waiter, pending, woken>>
    /\ UNCHANGED <<kernelVars, fiberVars, timerVars, closer>>

(* The critical section of idle().  It skips a report none of whose events *)
(* is registered any more; otherwise it triggers every reported event, and *)
(* triggerEvent asserts that it is registered.                             *)
HandleEvent(i) ==
    LET real == RealEvents(got[i]) IN
    /\ ~aborted /\ got[i] # NoReport
    /\ got' = [got EXCEPT ![i] = NoReport]
    /\ IF Registered \cap real = {} \/ closer = "closed"
       THEN UNCHANGED <<epollVars, waiter, pending, woken, aborted>>
       ELSE /\ EpollCtl(Registered \ real)
            /\ IF real \subseteq Registered
               THEN Trigger(real) /\ UNCHANGED aborted
               ELSE aborted' = TRUE /\ UNCHANGED <<waiter, pending, woken>>
    /\ UNCHANGED <<kernelVars, fiberVars, timerVars, closer>>

-----------------------------------------------------------------------------
(* close().                                                                *)

(* Mutants of CancelAll: m_pendingEventCount goes down for READ and WRITE  *)
(* without a look at what was registered; it goes down once.               *)
CancelAllBothDown ==
    /\ ~aborted /\ closer = "open"
    /\ closer' = "cancelled"
    /\ IF Registered = {}
       THEN UNCHANGED <<epollVars, waiter, pending, woken>>
       ELSE /\ EpollCtl({})
            /\ waiter' = [e \in {} |-> 0]
            /\ woken' = [f \in Fibers |-> woken[f] + Cardinality(
                                  {e \in Registered : waiter[e] = f})]
            /\ pending' = pending - 2
    /\ UNCHANGED <<kernelVars, aborted, got, fiberVars, timerVars>>

CancelAllOneDown ==
    /\ ~aborted /\ closer = "open"
    /\ closer' = "cancelled"
    /\ IF Registered = {}
       THEN UNCHANGED <<epollVars, waiter, pending, woken>>
       ELSE /\ EpollCtl({})
            /\ waiter' = [e \in {} |-> 0]
            /\ woken' = [f \in Fibers |-> woken[f] + Cardinality(
                                  {e \in Registered : waiter[e] = f})]
            /\ pending' = pending - 1
    /\ UNCHANGED <<kernelVars, aborted, got, fiberVars, timerVars>>

(* cancelAll: delete and trigger every registered event.                   *)
CancelAll ==
    /\ ~aborted /\ closer = "open"
    /\ closer' = "cancelled"
    /\ IF Registered = {}
       THEN UNCHANGED <<epollVars, waiter, pending, woken>>
       ELSE EpollCtl({}) /\ Trigger(Registered)
    /\ UNCHANGED <<kernelVars, aborted, got, fiberVars, timerVars>>

(* FdMgr::del ...                                                          *)
DelFdCtx ==
    /\ ~aborted /\ closer = "cancelled"
    /\ closer' = "deleted"
    /\ UNCHANGED <<kernelVars, epollVars, ctxVars, got, fiberVars, woken,
                   timerVars>>

(* ... and close_f: the kernel drops the registration in epoll.            *)
CloseFd ==
    /\ ~aborted /\ closer = "deleted"
    /\ closer' = "closed"
    /\ EpollCtl({})
    /\ UNCHANGED <<kernelVars, ctxVars, got, fiberVars, woken, timerVars>>

-----------------------------------------------------------------------------
(* The peer: data or room arrives, also when some is there already; the    *)
(* connection ends.                                                        *)

Arrive(e) ==
    /\ ~aborted /\ closer # "closed"
    /\ arrivals < MaxArrivals
    /\ arrivals' = arrivals + 1
    /\ avail' = avail \cup {e}
    /\ edge' = (edge \/ e \in mask)
    /\ UNCHANGED <<hup, mask, ctxVars, got, fiberVars, woken, timerVars,
                   closer>>

Hangup ==
    /\ ~aborted /\ ~hup /\ closer # "closed"
    /\ hup' = TRUE
    /\ edge' = (edge \/ mask # {})
    /\ UNCHANGED <<avail, arrivals, mask, ctxVars, got, fiberVars, woken,
                   timerVars, closer>>

-----------------------------------------------------------------------------
DoIo(f) ==
    \/ Start(f) \/ Try(f) \/ AddTimer(f) \/ AddEventFails(f) \/ AddEvent(f)
    \/ Resume(f) \/ CancelTimer(f) \/ Check(f)

TimerCb(f) ==
    \E c \in cbs : /\ c.fiber = f
                   /\ CbCheck(c) \/ CbSetCancelled(c) \/ CbCancelEvent(c)

Idle(i) == EpollWait(i) \/ HandleEvent(i)

Close == CancelAll \/ DelFdCtx \/ CloseFd

Peer == (\E e \in Events : Arrive(e)) \/ Hangup

Next ==
    \/ \E f \in Fibers : DoIo(f) \/ TimerExpires(f) \/ TimerCb(f)
    \/ \E i \in Idlers : Idle(i)
    \/ Close
    \/ Peer

Spec == Init /\ [][Next]_vars

(* Threads are scheduled and deadlines come; the peer owes us nothing, and *)
(* nobody has to call close().                                             *)
Fairness ==
    /\ \A f \in Fibers : /\ WF_vars(DoIo(f))
                         /\ WF_vars(TimerExpires(f))
                         /\ WF_vars(TimerCb(f))
    /\ \A i \in Idlers : WF_vars(Idle(i))

FairSpec == Spec /\ Fairness

-----------------------------------------------------------------------------
(* Every variable has its type; the count of events is never negative.     *)
TypeOK ==
    /\ avail \in SUBSET Events /\ mask \in SUBSET Events
    /\ hup \in BOOLEAN /\ edge \in BOOLEAN /\ aborted \in BOOLEAN
    /\ arrivals \in 0..MaxArrivals
    /\ Registered \in SUBSET Events
    /\ \A e \in Registered : waiter[e] \in Fibers /\ EventOf(waiter[e]) = e
    /\ pending \in Nat
    /\ got \in [Idlers -> [events : SUBSET Events, hup : BOOLEAN]]
    /\ pc \in [Fibers -> {"start", "try", "timer", "add", "wait",
                          "cancelTimer", "check", "done"}]
    /\ call \in [Fibers -> 1..MaxCalls]
    /\ armed \in [Fibers -> BOOLEAN] /\ woken \in [Fibers -> Nat]
    /\ timedOut \in SUBSET (Fibers \X (1..MaxCalls))
    /\ \A c \in cbs : /\ c.fiber \in Fibers /\ c.call \in 1..MaxCalls
                      /\ c.at \in {"queued", "checked", "cancel"}
    /\ closer \in {"open", "cancelled", "deleted", "closed"}

(* A fiber that waits is registered for its event or has been woken, never *)
(* both and never twice; a fiber that does not wait is neither.  idle(),   *)
(* a late timeout of an earlier call, and close() may all want to wake it. *)
WaiterHasWakeup ==
    \A f \in Fibers :
        woken[f] + Cardinality({e \in Registered : waiter[e] = f})
            = IF pc[f] = "wait" THEN 1 ELSE 0

(* m_pendingEventCount, which keeps the scheduler from stopping, counts the*)
(* registered events.                                                      *)
PendingCounts == pending = Cardinality(Registered)

(* No edge is lost: while the descriptor is ready for an event a fiber is  *)
(* registered for, epoll watches this event and either has the descriptor  *)
(* on its ready list or has reported this event to a thread that has not   *)
(* looked at the FdContext yet; although readiness may change between the  *)
(* failed call and addEvent, and other threads modify the mask.            *)
NoLostEdge ==
    ~aborted /\ closer # "closed" =>
      \A e \in Registered :
        /\ e \in mask
        /\ e \in Ready => \/ edge
                          \/ \E i \in Idlers : e \in RealEvents(got[i])

(* A fiber that waits for an event the descriptor is ready for is woken,   *)
(* unless the descriptor is closed, or the process has ended.              *)
ReadyWakes ==
    \A f \in Fibers :
        (pc[f] = "wait" /\ EventOf(f) \in Ready)
            ~> (pc[f] # "wait" \/ EventOf(f) \notin Ready \/ closer = "closed"
                \/ aborted)

(* triggerEvent: assert(events & event).                                   *)
TriggerAssert == ~aborted

=============================================================================
