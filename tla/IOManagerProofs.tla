--------------------------- MODULE IOManagerProofs ---------------------------
(***************************************************************************)
(* Proofs about the descriptor of IOManager, for any number of fibers,     *)
(* idling threads, calls and arrivals.                                     *)
(***************************************************************************)
EXTENDS IOManager, FiniteSetTheorems, TLAPS

(* The events fiber f is registered for.                                   *)
WaitsFor(f) == {e \in Registered : waiter[e] = f}

(* A callback is a record of these four fields.                            *)
CbShape ==
    \A c \in cbs : c = [fiber |-> c.fiber, call |-> c.call, id |-> c.id,
                        at |-> c.at]

(* The count of m_pendingEventCount is a natural number because it counts  *)
(* the registered events; neither holds without the other.                 *)
TypeInv == TypeOK /\ CbShape /\ PendingCounts

(* There are finitely many events.                                         *)
LEMMA EventsFinite ==
  \A E : E \subseteq Events => IsFiniteSet(E) /\ Cardinality(E) \in Nat
<1>1. IsFiniteSet({"READ"} \cup {"WRITE"})
  BY FS_Singleton, FS_AddElement
<1>2. Events = {"READ"} \cup {"WRITE"}
  BY DEF Events
<1> QED BY <1>1, <1>2, FS_Subset, FS_CardinalityType

(* The event a fiber uses the descriptor for.                              *)
LEMMA EventOfType == \A f : EventOf(f) \in Events
BY DEF EventOf, Events

(* triggerEvent moves a fiber from registered to woken, and leaves the sum *)
(* of the two as it was; the count of events follows.                      *)
LEMMA TriggerMoves ==
  ASSUME TypeOK, PendingCounts, NEW E, E \subseteq Registered, Trigger(E)
  PROVE  /\ Registered' = Registered \ E
         /\ \A e \in Registered' : waiter'[e] = waiter[e]
         /\ PendingCounts'
         /\ woken' \in [Fibers -> Nat]
         /\ \A f \in Fibers :
              woken'[f] + Cardinality(WaitsFor(f)')
                  = woken[f] + Cardinality(WaitsFor(f))
<1>1. Registered' = Registered \ E
  BY DEF Trigger, Registered
<1>2. \A e \in Registered' : waiter'[e] = waiter[e]
  BY <1>1 DEF Trigger, Registered
<1>3. Registered \subseteq Events /\ E \subseteq Events
  BY DEF TypeOK
<1>4. PendingCounts'
  <2>1. IsFiniteSet(Registered) /\ Registered \cap E = E
    BY <1>3, EventsFinite
  <2>2. Cardinality(Registered \ E) = Cardinality(Registered) - Cardinality(E)
    BY <2>1, FS_Difference
  <2> QED BY <1>1, <2>2 DEF Trigger, PendingCounts
<1>5. ASSUME NEW f \in Fibers
      PROVE  /\ woken'[f] \in Nat
             /\ woken'[f] + Cardinality(WaitsFor(f)')
                   = woken[f] + Cardinality(WaitsFor(f))
  <2> DEFINE G == {e \in E : waiter[e] = f}
  <2>1. G \subseteq Events /\ WaitsFor(f) \subseteq Events
    BY <1>3 DEF WaitsFor
  <2>2. WaitsFor(f)' = WaitsFor(f) \ G
    BY <1>1, <1>2 DEF WaitsFor
  <2>3. WaitsFor(f) \cap G = G
    BY DEF WaitsFor
  <2>4. Cardinality(WaitsFor(f)')
          = Cardinality(WaitsFor(f)) - Cardinality(G)
    BY <2>1, <2>2, <2>3, EventsFinite, FS_Difference
  <2>5. woken'[f] = woken[f] + Cardinality(G)
    BY DEF Trigger
  <2>6. /\ woken[f] \in Nat /\ Cardinality(G) \in Nat
        /\ Cardinality(WaitsFor(f)) \in Nat
    BY <2>1, EventsFinite DEF TypeOK
  <2> HIDE DEF G
  <2> QED BY <2>4, <2>5, <2>6
<1>6. woken' \in [Fibers -> Nat]
  <2>1. DOMAIN woken' = Fibers /\ woken' = [f \in Fibers |-> woken'[f]]
    BY DEF Trigger
  <2> QED BY <1>5, <2>1
<1> QED BY <1>1, <1>2, <1>4, <1>5, <1>6

(* addEvent registers one more event, for fiber f.                         *)
LEMMA AddEventAdds ==
  ASSUME TypeOK, NEW f \in Fibers, AddEvent(f)
  PROVE  /\ EventOf(f) \notin Registered
         /\ Registered' = Registered \cup {EventOf(f)}
         /\ \A e \in Registered : waiter'[e] = waiter[e]
         /\ waiter'[EventOf(f)] = f
BY DEF AddEvent, Registered

-----------------------------------------------------------------------------
(* The types hold initially.                                               *)
LEMMA TypeInit == Init => TypeInv
<1> SUFFICES ASSUME Init PROVE TypeInv
  OBVIOUS
<1>1. Registered = {}
  BY DEF Init, Registered
<1>2. PendingCounts
  BY <1>1, FS_EmptySet DEF Init, PendingCounts
<1>3. CbShape
  BY DEF Init, CbShape
<1>4. TypeOK
  <2>1. got \in [Idlers -> [events : SUBSET Events, hup : BOOLEAN]]
    BY DEF Init, NoReport
  <2>2. /\ arrivals \in 0..MaxArrivals /\ call \in [Fibers -> 1..MaxCalls]
        /\ pending \in Nat /\ woken \in [Fibers -> Nat]
    BY BoundsAssumption DEF Init
  <2>3. /\ hup \in BOOLEAN /\ edge \in BOOLEAN /\ aborted \in BOOLEAN
        /\ armed \in [Fibers -> BOOLEAN]
    BY DEF Init
  <2> QED BY <1>1, <2>1, <2>2, <2>3 DEF Init, TypeOK
<1> QED BY <1>2, <1>3, <1>4 DEF TypeInv

(* A fiber's return from do_io keeps the types of its variables.           *)
LEMMA ReturnType ==
  ASSUME TypeOK, NEW f \in Fibers, Return(f)
  PROVE  /\ call' \in [Fibers -> 1..MaxCalls]
         /\ pc' \in [Fibers -> {"start", "try", "timer", "add", "wait",
                                "cancelTimer", "check", "done"}]
         /\ pc'[f] \in {"start", "done"}
         /\ \A g \in Fibers \ {f} : pc'[g] = pc[g]
BY BoundsAssumption DEF Return, Goto, TypeOK

(* Every step keeps the types.                                             *)
LEMMA TypeNext == TypeInv /\ [Next]_vars => TypeInv'
<1> SUFFICES ASSUME TypeInv, [Next]_vars PROVE TypeInv'
  OBVIOUS
<1> USE DEF kernelVars, epollVars, ctxVars, fiberVars, timerVars
<1>a. TypeOK /\ CbShape /\ PendingCounts
  BY DEF TypeInv
<1>b. ASSUME UNCHANGED <<waiter, pending>>
      PROVE  PendingCounts' /\ Registered' = Registered
  BY <1>a, <1>b DEF PendingCounts, Registered
<1>1. ASSUME NEW f \in Fibers, Start(f) \/ Check(f) \/ Try(f) PROVE TypeInv'
  <2>1. UNCHANGED <<hup, arrivals, epollVars, ctxVars, got, woken, timerVars,
                    closer>>
    BY <1>1 DEF Start, Check, Try
  <2>2. avail' \in SUBSET Events
    BY <1>a, <1>1 DEF Start, Check, Try, TypeOK
  <2>3. /\ call' \in [Fibers -> 1..MaxCalls]
        /\ pc' \in [Fibers -> {"start", "try", "timer", "add", "wait",
                               "cancelTimer", "check", "done"}]
    BY <1>a, <1>1, ReturnType DEF Start, Check, Try, Goto, TypeOK
  <2>4. PendingCounts' /\ Registered' = Registered
    BY <1>b, <2>1
  <2>5. TypeOK' /\ CbShape'
    BY <1>a, <2>1, <2>2, <2>3, <2>4 DEF TypeOK, CbShape
  <2> QED BY <2>4, <2>5 DEF TypeInv
<1>2. ASSUME NEW f \in Fibers, AddTimer(f) \/ CancelTimer(f) \/ Resume(f)
      PROVE  TypeInv'
  <2>1. UNCHANGED <<kernelVars, epollVars, ctxVars, got, call, timedOut, cbs,
                    closer>>
    BY <1>2 DEF AddTimer, CancelTimer, Resume
  <2>2. armed' \in [Fibers -> BOOLEAN] /\ woken' \in [Fibers -> Nat]
    <3>1. armed' \in [Fibers -> BOOLEAN]
      BY <1>a, <1>2 DEF AddTimer, CancelTimer, Resume, TypeOK
    <3>2. woken' \in [Fibers -> Nat]
      BY <1>a, <1>2 DEF AddTimer, CancelTimer, Resume, TypeOK
    <3> QED BY <3>1, <3>2
  <2>3. pc' \in [Fibers -> {"start", "try", "timer", "add", "wait",
                            "cancelTimer", "check", "done"}]
    BY <1>a, <1>2 DEF AddTimer, CancelTimer, Resume, Goto, TypeOK
  <2>4. PendingCounts' /\ Registered' = Registered
    BY <1>b, <2>1
  <2>5. TypeOK' /\ CbShape'
    BY <1>a, <2>1, <2>2, <2>3, <2>4 DEF TypeOK, CbShape
  <2> QED BY <2>4, <2>5 DEF TypeInv
<1>3. ASSUME NEW f \in Fibers, AddEventFails(f) PROVE TypeInv'
  <2>1. UNCHANGED <<kernelVars, epollVars, ctxVars, got, woken, timedOut, cbs,
                    closer>>
    BY <1>3 DEF AddEventFails
  <2>2. armed' \in [Fibers -> BOOLEAN]
    BY <1>a, <1>3 DEF AddEventFails, TypeOK
  <2>3. /\ call' \in [Fibers -> 1..MaxCalls]
        /\ pc' \in [Fibers -> {"start", "try", "timer", "add", "wait",
                               "cancelTimer", "check", "done"}]
    BY <1>a, <1>3, ReturnType DEF AddEventFails
  <2>4. PendingCounts' /\ Registered' = Registered
    BY <1>b, <2>1
  <2>5. TypeOK' /\ CbShape'
    BY <1>a, <2>1, <2>2, <2>3, <2>4 DEF TypeOK, CbShape
  <2> QED BY <2>4, <2>5 DEF TypeInv
<1>4. ASSUME NEW f \in Fibers, AddEvent(f) PROVE TypeInv'
  <2>1. /\ EventOf(f) \notin Registered
        /\ Registered' = Registered \cup {EventOf(f)}
        /\ \A e \in Registered : waiter'[e] = waiter[e]
        /\ waiter'[EventOf(f)] = f
    BY <1>a, <1>4, AddEventAdds
  <2>2. Registered \subseteq Events /\ EventOf(f) \in Events
    BY <1>a, EventOfType DEF TypeOK
  <2>3. PendingCounts'
    <3>1. Cardinality(Registered') = Cardinality(Registered) + 1
      BY <2>1, <2>2, EventsFinite, FS_AddElement
    <3> QED BY <1>a, <1>4, <3>1 DEF AddEvent, PendingCounts
  <2>4. pending' \in Nat
    BY <2>1, <2>2, <2>3, EventsFinite DEF PendingCounts
  <2>5. \A e \in Registered' : /\ waiter'[e] \in Fibers
                               /\ EventOf(waiter'[e]) = e
    BY <1>a, <2>1 DEF TypeOK
  <2>6. mask' \in SUBSET Events /\ edge' \in BOOLEAN
    BY <1>4, <2>1, <2>2 DEF AddEvent, EpollCtl
  <2>7. pc' \in [Fibers -> {"start", "try", "timer", "add", "wait",
                            "cancelTimer", "check", "done"}]
    BY <1>a, <1>4 DEF AddEvent, Goto, TypeOK
  <2>8. UNCHANGED <<kernelVars, aborted, got, call, woken, timerVars, closer>>
    BY <1>4 DEF AddEvent
  <2>9. TypeOK' /\ CbShape'
    BY <1>a, <2>1, <2>2, <2>4, <2>5, <2>6, <2>7, <2>8 DEF TypeOK, CbShape
  <2> QED BY <2>3, <2>9 DEF TypeInv
<1>5. ASSUME NEW f \in Fibers, TimerExpires(f) PROVE TypeInv'
  <2>1. UNCHANGED <<kernelVars, epollVars, ctxVars, got, fiberVars, woken,
                    timedOut, closer>>
    BY <1>5 DEF TimerExpires
  <2>2. armed' \in [Fibers -> BOOLEAN]
    BY <1>a, <1>5 DEF TimerExpires, TypeOK
  <2>3. PICK n : cbs' = cbs \cup {[fiber |-> f, call |-> call[f], id |-> n,
                                   at |-> "queued"]}
    BY <1>5 DEF TimerExpires
  <2>4. CbShape'
    BY <1>a, <2>3 DEF CbShape
  <2>5. \A c \in cbs' : /\ c.fiber \in Fibers /\ c.call \in 1..MaxCalls
                        /\ c.at \in {"queued", "checked", "cancel"}
    BY <1>a, <2>3 DEF TypeOK
  <2>6. PendingCounts' /\ Registered' = Registered
    BY <1>b, <2>1
  <2>7. TypeOK'
    BY <1>a, <2>1, <2>2, <2>5, <2>6 DEF TypeOK
  <2> QED BY <2>4, <2>6, <2>7 DEF TypeInv
<1>6. ASSUME NEW c \in cbs, CbCheck(c) \/ CbSetCancelled(c) PROVE TypeInv'
  <2>1. UNCHANGED <<kernelVars, epollVars, ctxVars, got, fiberVars, woken,
                    armed, closer>>
    BY <1>6 DEF CbCheck, CbSetCancelled
  <2>2. PICK l \in {"checked", "cancel"} :
             cbs' \subseteq cbs \cup {[c EXCEPT !.at = l]}
    BY <1>6 DEF CbCheck, CbSetCancelled
  <2>3. [c EXCEPT !.at = l] = [fiber |-> c.fiber, call |-> c.call,
                               id |-> c.id, at |-> l]
    BY <1>a DEF CbShape
  <2>4. CbShape'
    BY <1>a, <2>2, <2>3 DEF CbShape
  <2>5. \A d \in cbs' : /\ d.fiber \in Fibers /\ d.call \in 1..MaxCalls
                        /\ d.at \in {"queued", "checked", "cancel"}
    BY <1>a, <2>2, <2>3 DEF TypeOK
  <2>6. timedOut' \in SUBSET (Fibers \X (1..MaxCalls))
    BY <1>a, <1>6 DEF CbCheck, CbSetCancelled, TypeOK
  <2>7. PendingCounts' /\ Registered' = Registered
    BY <1>b, <2>1
  <2>8. TypeOK'
    BY <1>a, <2>1, <2>5, <2>6, <2>7 DEF TypeOK
  <2> QED BY <2>4, <2>7, <2>8 DEF TypeInv
<1>c. ASSUME NEW E, E \subseteq Registered, Trigger(E),
             EpollCtl(Registered \ E),
             got' \in [Idlers -> [events : SUBSET Events, hup : BOOLEAN]],
             cbs' \subseteq cbs,
             closer' \in {"open", "cancelled", "deleted", "closed"},
             UNCHANGED <<kernelVars, aborted, fiberVars, armed, timedOut>>
      PROVE  TypeInv'
  <2>1. /\ Registered' = Registered \ E
        /\ \A e \in Registered' : waiter'[e] = waiter[e]
        /\ PendingCounts'
        /\ woken' \in [Fibers -> Nat]
    BY <1>a, <1>c, TriggerMoves
  <2>2. Registered \subseteq Events
    BY <1>a DEF TypeOK
  <2>3. pending' \in Nat
    BY <2>1, <2>2, EventsFinite DEF PendingCounts
  <2>4. mask' \in SUBSET Events /\ edge' \in BOOLEAN
    BY <1>c, <2>2 DEF EpollCtl
  <2>5. TypeOK' /\ CbShape'
    BY <1>a, <1>c, <2>1, <2>2, <2>3, <2>4 DEF TypeOK, CbShape
  <2> QED BY <2>1, <2>5 DEF TypeInv
<1>7. ASSUME NEW c \in cbs, CbCancelEvent(c) PROVE TypeInv'
  <2> DEFINE e == EventOf(c.fiber)
  <2>1. CASE e \in Registered /\ closer # "closed"
    BY <1>a, <1>c, <1>7, <2>1 DEF CbCancelEvent, TypeOK
  <2>2. CASE ~(e \in Registered /\ closer # "closed")
    <3>1. UNCHANGED <<kernelVars, epollVars, ctxVars, got, fiberVars, woken,
                      armed, timedOut, closer>> /\ cbs' = cbs \ {c}
      BY <1>7, <2>2 DEF CbCancelEvent
    <3>2. PendingCounts' /\ Registered' = Registered
      BY <1>b, <3>1
    <3> QED BY <1>a, <3>1, <3>2 DEF TypeInv, TypeOK, CbShape
  <2> QED BY <2>1, <2>2
<1>8. ASSUME NEW i \in Idlers, EpollWait(i) PROVE TypeInv'
  <2>1. UNCHANGED <<kernelVars, mask, ctxVars, fiberVars, woken, timerVars,
                    closer>> /\ edge' = FALSE
    BY <1>8 DEF EpollWait
  <2>2. got' \in [Idlers -> [events : SUBSET Events, hup : BOOLEAN]]
    BY <1>a, <1>8 DEF EpollWait, TypeOK
  <2>3. PendingCounts' /\ Registered' = Registered
    BY <1>b, <2>1
  <2>4. TypeOK' /\ CbShape'
    BY <1>a, <2>1, <2>2, <2>3 DEF TypeOK, CbShape
  <2> QED BY <2>3, <2>4 DEF TypeInv
<1>9. ASSUME NEW i \in Idlers, HandleEvent(i) PROVE TypeInv'
  <2> DEFINE real == RealEvents(got[i])
  <2>1. got' \in [Idlers -> [events : SUBSET Events, hup : BOOLEAN]]
    BY <1>a, <1>9 DEF HandleEvent, NoReport, TypeOK
  <2>2. UNCHANGED <<kernelVars, fiberVars, timerVars, closer>>
    BY <1>9 DEF HandleEvent
  <2>3. CASE Registered \cap real = {} \/ closer = "closed"
    <3>1. UNCHANGED <<epollVars, ctxVars, woken>>
      BY <1>9, <2>3 DEF HandleEvent
    <3>2. PendingCounts' /\ Registered' = Registered
      BY <1>b, <3>1
    <3> QED BY <1>a, <2>1, <2>2, <3>1, <3>2 DEF TypeInv, TypeOK, CbShape
  <2>4. CASE ~(Registered \cap real = {} \/ closer = "closed")
             /\ real \subseteq Registered
    BY <1>a, <1>c, <1>9, <2>1, <2>2, <2>4 DEF HandleEvent, TypeOK
  <2>5. CASE ~(Registered \cap real = {} \/ closer = "closed")
             /\ ~(real \subseteq Registered)
    <3>1. /\ aborted' = TRUE /\ UNCHANGED <<waiter, pending, woken>>
          /\ EpollCtl(Registered \ real)
      BY <1>9, <2>5 DEF HandleEvent
    <3>2. PendingCounts' /\ Registered' = Registered
      BY <1>b, <3>1
    <3>3. mask' \in SUBSET Events /\ edge' \in BOOLEAN
      BY <1>a, <3>1 DEF EpollCtl, TypeOK
    <3> QED BY <1>a, <2>1, <2>2, <3>1, <3>2, <3>3 DEF TypeInv, TypeOK, CbShape
  <2> QED BY <2>3, <2>4, <2>5
<1>10. ASSUME CancelAll PROVE TypeInv'
  <2>1. CASE Registered = {}
    <3>1. UNCHANGED <<kernelVars, epollVars, ctxVars, got, fiberVars, woken,
                      timerVars>> /\ closer' = "cancelled"
      BY <1>10, <2>1 DEF CancelAll
    <3>2. PendingCounts' /\ Registered' = Registered
      BY <1>b, <3>1
    <3> QED BY <1>a, <3>1, <3>2 DEF TypeInv, TypeOK, CbShape
  <2>2. CASE Registered # {}
    <3>1. Registered \ Registered = {} /\ Registered \subseteq Registered
      OBVIOUS
    <3> QED BY <1>a, <1>c, <1>10, <2>2, <3>1 DEF CancelAll, TypeOK
  <2> QED BY <2>1, <2>2
<1>11. ASSUME DelFdCtx \/ CloseFd \/ (\E e \in Events : Arrive(e)) \/ Hangup
       PROVE  TypeInv'
  <2>1. UNCHANGED <<ctxVars, got, fiberVars, woken, timerVars>>
    BY <1>11 DEF DelFdCtx, CloseFd, Arrive, Hangup
  <2>2. /\ closer' \in {"open", "cancelled", "deleted", "closed"}
        /\ mask' \in SUBSET Events
    BY <1>a, <1>11 DEF DelFdCtx, CloseFd, Arrive, Hangup, EpollCtl, TypeOK
  <2>3. avail' \in SUBSET Events /\ arrivals' \in 0..MaxArrivals
    BY <1>a, <1>11, BoundsAssumption
       DEF DelFdCtx, CloseFd, Arrive, Hangup, TypeOK
  <2>4. hup' \in BOOLEAN /\ edge' \in BOOLEAN
    BY <1>a, <1>11 DEF DelFdCtx, CloseFd, Arrive, Hangup, EpollCtl, TypeOK
  <2>5. PendingCounts' /\ Registered' = Registered
    BY <1>b, <2>1
  <2>6. TypeOK' /\ CbShape'
    BY <1>a, <2>1, <2>2, <2>3, <2>4, <2>5 DEF TypeOK, CbShape
  <2> QED BY <2>5, <2>6 DEF TypeInv
<1>12. ASSUME UNCHANGED vars PROVE TypeInv'
  <2>1. PendingCounts' /\ Registered' = Registered
    BY <1>b, <1>12 DEF vars
  <2> QED BY <1>a, <1>12, <2>1 DEF vars, TypeInv, TypeOK, CbShape
<1> QED
  BY <1>1, <1>2, <1>3, <1>4, <1>5, <1>6, <1>7, <1>8, <1>9, <1>10, <1>11, <1>12
     DEF Next, DoIo, TimerCb, Idle, Close, Peer

-----------------------------------------------------------------------------
(* A fiber that is registered or woken stays so, or moves from one to the  *)
(* other, until it is resumed.                                             *)
LEMMA WakeupNext ==
  TypeInv /\ WaiterHasWakeup /\ [Next]_vars => WaiterHasWakeup'
<1> SUFFICES ASSUME TypeInv, WaiterHasWakeup, [Next]_vars
             PROVE  WaiterHasWakeup'
  OBVIOUS
<1> USE DEF kernelVars, epollVars, ctxVars, fiberVars, timerVars
<1> DEFINE Owed(g) == IF pc[g] = "wait" THEN 1 ELSE 0
           Wakeups(g) == woken[g] + Cardinality(WaitsFor(g))
<1>a. TypeOK /\ PendingCounts
  BY DEF TypeInv
<1>b. \A g \in Fibers : Wakeups(g) = Owed(g)
  BY DEF WaiterHasWakeup, WaitsFor
<1>c. SUFFICES \A g \in Fibers : Wakeups(g)' = Owed(g)'
  BY DEF WaiterHasWakeup, WaitsFor
<1>d. \A g \in Fibers : /\ WaitsFor(g) \subseteq Events
                        /\ woken[g] \in Nat /\ Cardinality(WaitsFor(g)) \in Nat
  BY <1>a, EventsFinite DEF TypeOK, WaitsFor
<1>e. ASSUME UNCHANGED waiter PROVE \A g : WaitsFor(g)' = WaitsFor(g)
  BY <1>e DEF WaitsFor, Registered
<1>1. ASSUME NEW f \in Fibers,
             \/ Start(f) \/ Try(f) \/ AddTimer(f) \/ AddEventFails(f)
             \/ CancelTimer(f) \/ Check(f)
      PROVE  \A g \in Fibers : Wakeups(g)' = Owed(g)'
  <2>1. UNCHANGED <<waiter, woken>>
    BY <1>1 DEF Start, Try, AddTimer, AddEventFails, CancelTimer, Check
  <2>2. pc[f] # "wait"
    BY <1>1 DEF Start, Try, AddTimer, AddEventFails, CancelTimer, Check, At
  <2>3. pc'[f] # "wait" /\ \A g \in Fibers \ {f} : pc'[g] = pc[g]
    BY <1>a, <1>1, ReturnType
       DEF Start, Try, AddTimer, AddEventFails, CancelTimer, Check, Goto, TypeOK
  <2> QED BY <1>b, <1>e, <2>1, <2>2, <2>3
<1>2. ASSUME NEW f \in Fibers, AddEvent(f)
      PROVE  \A g \in Fibers : Wakeups(g)' = Owed(g)'
  <2>1. /\ EventOf(f) \notin Registered
        /\ Registered' = Registered \cup {EventOf(f)}
        /\ \A e \in Registered : waiter'[e] = waiter[e]
        /\ waiter'[EventOf(f)] = f
    BY <1>a, <1>2, AddEventAdds
  <2>2. WaitsFor(f)' = WaitsFor(f) \cup {EventOf(f)}
        /\ EventOf(f) \notin WaitsFor(f)
    BY <2>1 DEF WaitsFor
  <2>3. Cardinality(WaitsFor(f)') = Cardinality(WaitsFor(f)) + 1
    BY <1>d, <2>2, EventsFinite, FS_AddElement
  <2>4. \A g \in Fibers \ {f} : WaitsFor(g)' = WaitsFor(g)
    BY <2>1 DEF WaitsFor
  <2>5. /\ woken' = woken /\ pc[f] = "add" /\ pc'[f] = "wait"
        /\ \A g \in Fibers \ {f} : pc'[g] = pc[g]
    BY <1>a, <1>2 DEF AddEvent, At, Goto, TypeOK
  <2> QED BY <1>b, <1>d, <2>3, <2>4, <2>5
<1>3. ASSUME NEW f \in Fibers, Resume(f)
      PROVE  \A g \in Fibers : Wakeups(g)' = Owed(g)'
  <2>1. /\ waiter' = waiter /\ pc[f] = "wait" /\ pc'[f] = "cancelTimer"
        /\ \A g \in Fibers \ {f} : pc'[g] = pc[g] /\ woken'[g] = woken[g]
        /\ woken'[f] = woken[f] - 1
    BY <1>a, <1>3 DEF Resume, At, Goto, TypeOK
  <2> QED BY <1>b, <1>d, <1>e, <2>1
<1>4. ASSUME NEW E, E \subseteq Registered, Trigger(E), UNCHANGED pc
      PROVE  \A g \in Fibers : Wakeups(g)' = Owed(g)'
  BY <1>a, <1>b, <1>4, TriggerMoves
<1>5. ASSUME UNCHANGED <<waiter, woken, pc>>
      PROVE  \A g \in Fibers : Wakeups(g)' = Owed(g)'
  BY <1>b, <1>e, <1>5
<1>6. ASSUME NEW f \in Fibers, TimerExpires(f) \/ TimerCb(f)
      PROVE  \A g \in Fibers : Wakeups(g)' = Owed(g)'
  <2>1. ASSUME NEW c \in cbs, CbCancelEvent(c)
        PROVE  \A g \in Fibers : Wakeups(g)' = Owed(g)'
    BY <1>4, <1>5, <2>1 DEF CbCancelEvent
  <2>2. CASE TimerExpires(f) \/ \E c \in cbs : CbCheck(c) \/ CbSetCancelled(c)
    BY <1>5, <2>2 DEF TimerExpires, CbCheck, CbSetCancelled
  <2> QED BY <1>6, <2>1, <2>2 DEF TimerCb
<1>7. ASSUME NEW i \in Idlers, Idle(i)
      PROVE  \A g \in Fibers : Wakeups(g)' = Owed(g)'
  BY <1>4, <1>5, <1>7 DEF Idle, EpollWait, HandleEvent
<1>8. ASSUME Close \/ Peer \/ UNCHANGED vars
      PROVE  \A g \in Fibers : Wakeups(g)' = Owed(g)'
  BY <1>4, <1>5, <1>8
     DEF Close, CancelAll, DelFdCtx, CloseFd, Peer, Arrive, Hangup, vars
<1> QED BY <1>1, <1>2, <1>3, <1>6, <1>7, <1>8 DEF Next, DoIo

(* Whenever the mask changes the descriptor is looked at again, and a      *)
(* report is thrown away only when nobody waits for what it reports.       *)
LEMMA EdgeNext == TypeInv /\ NoLostEdge /\ [Next]_vars => NoLostEdge'
<1> SUFFICES ASSUME TypeInv, NoLostEdge, [Next]_vars,
                    ~aborted', closer' # "closed", NEW e \in Registered'
             PROVE  /\ e \in mask'
                    /\ e \in Ready' => \/ edge'
                                       \/ \E i \in Idlers :
                                             e \in RealEvents(got[i])'
  BY DEF NoLostEdge
<1> DEFINE Seen == \/ edge
                   \/ \E i \in Idlers : e \in RealEvents(got[i])
           Goal == e \in mask' /\ (e \in Ready' => Seen')
<1> SUFFICES Goal
  OBVIOUS
<1> USE DEF kernelVars, epollVars, ctxVars, fiberVars, timerVars
<1>a. TypeOK
  BY DEF TypeInv
<1>b. ASSUME ~aborted, closer # "closed", e \in Registered
      PROVE  e \in mask /\ (e \in Ready => Seen)
  BY <1>b DEF NoLostEdge
<1>c. ASSUME UNCHANGED <<waiter, got, epollVars, hup, aborted>>,
             closer # "closed", avail' \subseteq avail
      PROVE  Goal
  <2>1. Registered' = Registered /\ (e \in Ready' => e \in Ready)
    BY <1>c DEF Registered, Ready
  <2>2. \A i \in Idlers : RealEvents(got[i])' = RealEvents(got[i])
    BY <1>c, <2>1 DEF RealEvents
  <2> QED BY <1>b, <1>c, <2>1, <2>2
<1>d. ASSUME EpollCtl(Registered'), UNCHANGED <<avail, hup>> PROVE Goal
  BY <1>d DEF EpollCtl, Ready
<1>1. ASSUME NEW f \in Fibers, DoIo(f) PROVE Goal
  <2>1. CASE AddEvent(f)
    BY <1>a, <1>d, <2>1, AddEventAdds DEF AddEvent
  <2>2. CASE \/ Start(f) \/ Try(f) \/ AddTimer(f) \/ AddEventFails(f)
             \/ CancelTimer(f) \/ Check(f) \/ Resume(f)
    BY <1>c, <2>2 DEF Start, Try, AddTimer, AddEventFails, CancelTimer,
                      Check, Resume
  <2> QED BY <1>1, <2>1, <2>2 DEF DoIo
<1>2. ASSUME NEW f \in Fibers, TimerExpires(f) \/ TimerCb(f) PROVE Goal
  <2>1. ASSUME NEW c \in cbs, CbCancelEvent(c) PROVE Goal
    <3> DEFINE x == EventOf(c.fiber)
    <3>1. CASE x \in Registered /\ closer # "closed"
      <4>1. Registered' = Registered \ {x}
        BY <2>1, <3>1 DEF CbCancelEvent, Trigger, Registered
      <4> QED BY <1>d, <2>1, <3>1, <4>1 DEF CbCancelEvent
    <3>2. CASE ~(x \in Registered /\ closer # "closed")
      BY <1>c, <2>1, <3>2 DEF CbCancelEvent
    <3> QED BY <3>1, <3>2
  <2>2. CASE TimerExpires(f) \/ \E c \in cbs : CbCheck(c) \/ CbSetCancelled(c)
    BY <1>c, <2>2 DEF TimerExpires, CbCheck, CbSetCancelled
  <2> QED BY <1>2, <2>1, <2>2 DEF TimerCb
<1>3. ASSUME NEW i \in Idlers, EpollWait(i) PROVE Goal
  <2>1. /\ UNCHANGED <<kernelVars, mask, waiter, aborted, closer>> /\ ~aborted
        /\ got'[i] = [events |-> mask \cap Ready, hup |-> hup]
    BY <1>a, <1>3 DEF EpollWait, TypeOK
  <2>2. Registered' = Registered /\ Ready' = Ready
    BY <2>1 DEF Registered, Ready
  <2>3. e \in mask /\ e \in mask'
    BY <1>b, <2>1, <2>2
  <2>4. e \in Ready' => e \in RealEvents(got[i])'
    BY <2>1, <2>2, <2>3 DEF RealEvents
  <2> QED BY <2>3, <2>4
<1>4. ASSUME NEW i \in Idlers, HandleEvent(i) PROVE Goal
  <2> DEFINE real == RealEvents(got[i])
  <2>1. /\ UNCHANGED <<kernelVars, closer>> /\ ~aborted
        /\ \A j \in Idlers \ {i} : got'[j] = got[j]
    BY <1>a, <1>4 DEF HandleEvent, TypeOK
  <2>2. CASE Registered \cap real = {}
    <3>1. UNCHANGED <<epollVars, waiter>>
      BY <1>4, <2>2 DEF HandleEvent
    <3>2. Registered' = Registered /\ Ready' = Ready
      BY <2>1, <3>1 DEF Registered, Ready
    <3>3. e \notin real
      BY <2>2, <3>2
    <3>4. \A j \in Idlers \ {i} : RealEvents(got[j])' = RealEvents(got[j])
      BY <2>1, <3>2 DEF RealEvents
    <3> QED BY <1>b, <2>1, <3>1, <3>2, <3>3, <3>4
  <2>3. CASE Registered \cap real # {}
    <3>1. EpollCtl(Registered \ real) /\ Trigger(real)
      BY <1>4, <2>1, <2>3 DEF HandleEvent
    <3>2. Registered' = Registered \ real
      BY <3>1 DEF Trigger, Registered
    <3> QED BY <1>d, <2>1, <3>1, <3>2
  <2> QED BY <2>2, <2>3
<1>5. ASSUME CancelAll PROVE Goal
  <2>1. CASE Registered = {}
    BY <1>c, <1>5, <2>1 DEF CancelAll
  <2>2. CASE Registered # {}
    BY <1>5, <2>2 DEF CancelAll, Trigger, Registered
  <2> QED BY <2>1, <2>2
<1>6. ASSUME DelFdCtx \/ CloseFd PROVE Goal
  BY <1>c, <1>6 DEF DelFdCtx, CloseFd
<1>7. ASSUME NEW x \in Events, Arrive(x) PROVE Goal
  <2>1. /\ UNCHANGED <<hup, mask, waiter, got, aborted, closer>> /\ ~aborted
        /\ avail' = avail \cup {x} /\ edge' = (edge \/ x \in mask)
    BY <1>7 DEF Arrive
  <2>2. Registered' = Registered
        /\ \A i \in Idlers : RealEvents(got[i])' = RealEvents(got[i])
    BY <2>1 DEF Registered, RealEvents
  <2>3. e \in Ready' => e \in Ready \/ e = x
    BY <2>1 DEF Ready
  <2> QED BY <1>b, <2>1, <2>2, <2>3
<1>8. ASSUME Hangup PROVE Goal
  <2>1. /\ UNCHANGED <<mask, waiter, got, aborted, closer>> /\ ~aborted
        /\ edge' = (edge \/ mask # {})
    BY <1>8 DEF Hangup
  <2>2. Registered' = Registered
    BY <2>1 DEF Registered
  <2> QED BY <1>b, <2>1, <2>2
<1>9. ASSUME UNCHANGED vars PROVE Goal
  BY <1>c, <1>9 DEF vars
<1> QED
  BY <1>1, <1>2, <1>3, <1>4, <1>5, <1>6, <1>7, <1>8, <1>9
     DEF Next, Idle, Close, Peer

-----------------------------------------------------------------------------
(* The types and the count hold in every reachable state.                 *)
LEMMA TypeAlways == Spec => []TypeInv
BY TypeInit, TypeNext, PTL DEF Spec

(* Every variable keeps its type; m_pendingEventCount is never negative.   *)
THEOREM TypeCorrect == Spec => []TypeOK
<1>1. TypeInv => TypeOK
  BY DEF TypeInv
<1> QED BY <1>1, TypeAlways, PTL

(* m_pendingEventCount counts the registered events, whatever idle(), the  *)
(* timeouts and close() do to them.                                        *)
THEOREM PendingExact == Spec => []PendingCounts
<1>1. TypeInv => PendingCounts
  BY DEF TypeInv
<1> QED BY <1>1, TypeAlways, PTL

(* A fiber that yielded in do_io has exactly one wakeup to come or on its  *)
(* way, and a fiber that runs has none.                                    *)
THEOREM OneWakeupPerWait == Spec => []WaiterHasWakeup
<1>1. Init => WaiterHasWakeup
  <2> SUFFICES ASSUME Init, NEW f \in Fibers
               PROVE  woken[f] + Cardinality({e \in Registered : waiter[e] = f})
                        = IF pc[f] = "wait" THEN 1 ELSE 0
    BY DEF WaiterHasWakeup
  <2>1. {e \in Registered : waiter[e] = f} = {}
    BY DEF Init, Registered
  <2>2. Cardinality({e \in Registered : waiter[e] = f}) = 0
    BY <2>1, FS_EmptySet
  <2> QED BY <2>2 DEF Init
<1> QED BY <1>1, TypeAlways, WakeupNext, PTL DEF Spec

(* No edge of the edge-triggered epoll is lost.                            *)
THEOREM EdgeKept == Spec => []NoLostEdge
<1>1. Init => NoLostEdge
  BY DEF Init, NoLostEdge, Registered
<1> QED BY <1>1, TypeAlways, EdgeNext, PTL DEF Spec

=============================================================================
