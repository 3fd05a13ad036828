-------------------------- MODULE TimerManagerProofs --------------------------
(***************************************************************************)
(* Proofs about the timers, for any set of timers, any periods and any     *)
(* run of the clock.                                                       *)
(***************************************************************************)
EXTENDS TimerManager, TLAPS

(* The period that a reset in progress will set is one the timer may have. *)
ArgInv == \A t \in Timers : owner[t] = "reset" => arg[t].ms \in NewPeriodsOf(t)

(* Some thread was started.                                                *)
PoolInv == Pool # {}

(* A timer whose deadline is about to be written is not in the set.        *)
OutInv ==
    \A t \in Timers : owner[t] \in {"new", "add", "reset", "readd"}
                        => t \notin heap

(* A one-shot timer that may still fire has not fired.                     *)
OneShotInv ==
    \A t \in Timers \ Recurring :
        fired[t] <= 1 /\ (cb[t] \/ owner[t] = "new" => fired[t] = 0)

(* A cancelled timer has lost its callback, and never gets another.        *)
CancelInv ==
    \A t \in Timers : cancelled[t] => ~cb[t] /\ owner[t] # "new"

Tickling == edge \/ \E u \in Timers : owner[u] \in {"addTickle", "readdTickle"}

AllAsleep == \A p \in Pool : poll[p] = "sleep"

(* A tickle since the last of the threads went to sleep has reached one or *)
(* is on its way.                                                          *)
TickleInv == AllAsleep /\ tickled => Tickling

(* While the clock has not been set back no deadline is further away than  *)
(* its timer's period, so that refresh moves it to a later time only.      *)
DeadlineInv ==
    setbacks = 0 =>
      /\ \A p \in Pollers : poll[p] \in {"lock", "expiring"} => listNow[p] <= now
      /\ \A t \in Timers : owner[t] # "new" => next[t] <= now + ms[t]

Inv ==
    /\ TypeOK /\ ArgInv /\ PoolInv /\ OrderedSet /\ OutInv /\ OneShotInv
    /\ CancelInv /\ TickleInv /\ DeadlineInv /\ NotAllOversleep

-----------------------------------------------------------------------------
(* A period is a natural number.                                           *)
LEMMA PeriodsNat ==
  \A t : PeriodsOf(t) \subseteq Nat /\ NewPeriodsOf(t) \subseteq Nat
BY PeriodsAssumption DEF PeriodsOf, NewPeriodsOf

(* What Insert returns, for a set without timer t: nothing is lost, and t  *)
(* is added only if no timer in the set has its deadline.                  *)
LEMMA InsertSet ==
  ASSUME NEW h, NEW t, NEW d, t \notin h
  PROVE  /\ h \subseteq Insert(h, t, d) /\ Insert(h, t, d) \subseteq h \cup {t}
         /\ t \in Insert(h, t, d) => \A u \in h : next[u] # d
         /\ t \notin Insert(h, t, d) => \E u \in h : next[u] = d
BY DEF Insert

(* The invariant holds initially.                                          *)
LEMMA InvInit == Init => Inv
<1> SUFFICES ASSUME Init PROVE Inv
  OBVIOUS
<1>1. TypeOK
  <2>1. NoArg \in [ms : Nat, fromNow : BOOLEAN]
    BY DEF NoArg
  <2>2. arg \in [Timers -> [ms : Nat, fromNow : BOOLEAN]]
    BY <2>1 DEF Init
  <2>3. /\ cb \in [Timers -> BOOLEAN] /\ cancelled \in [Timers -> BOOLEAN]
        /\ tickled \in BOOLEAN /\ edge \in BOOLEAN /\ rolled \in BOOLEAN
    BY DEF Init
  <2>4. setbacks \in 0..MaxSetbacks
    BY ClockAssumption DEF Init
  <2>5. poll \in [Pollers -> {"none", "awake", "sleep", "lock", "expiring"}]
    BY DEF Init
  <2> QED BY <2>2, <2>3, <2>4, <2>5 DEF Init, TypeOK
<1>2. ArgInv /\ OrderedSet /\ OutInv
  BY DEF Init, ArgInv, OrderedSet, OutInv
<1>3. OneShotInv
  BY DEF Init, OneShotInv
<1>4. CancelInv
  BY DEF Init, CancelInv
<1>5. PoolInv
  <2>1. PICK S \in Pools :
           poll = [p \in Pollers |-> IF p \in S THEN "awake" ELSE "none"]
    BY DEF Init
  <2>2. PICK p \in S : p \in Pollers
    BY PoolsAssumption DEF Pollers
  <2> QED BY <2>1, <2>2 DEF PoolInv, Pool
<1>6. TickleInv /\ DeadlineInv /\ NotAllOversleep
  BY DEF Init, TickleInv, DeadlineInv, NotAllOversleep
<1> QED BY <1>1, <1>2, <1>3, <1>4, <1>5, <1>6 DEF Inv

(* Every step keeps the types.                                             *)
LEMMA TypeNext == Inv /\ [Next]_vars => TypeOK' /\ ArgInv'
<1> SUFFICES ASSUME Inv, [Next]_vars PROVE TypeOK' /\ ArgInv'
  OBVIOUS
<1> USE PeriodsNat, ClockAssumption DEF timerVars, pollVars, ghostVars
<1>a. TypeOK /\ ArgInv
  BY DEF Inv
<1>1. ASSUME NEW t \in Timers, NEW p \in PeriodsOf(t), AddTimer(t, p)
      PROVE  TypeOK' /\ ArgInv'
  BY <1>a, <1>1 DEF AddTimer, TypeOK, ArgInv
<1>2. ASSUME NEW t \in Timers, AddTimerLocked(t) PROVE TypeOK' /\ ArgInv'
  <2>1. heap' \in SUBSET Timers
    BY <1>a, <1>2 DEF AddTimerLocked, Insert, TypeOK
  <2>2. tickled' \in BOOLEAN
    BY <1>a, <1>2 DEF AddTimerLocked, TypeOK
  <2>3. PICK l \in {"idle", "addTickle", "readdTickle"} :
             owner' = [owner EXCEPT ![t] = l]
    BY <1>2 DEF AddTimerLocked
  <2>4. owner[t] # "new"
    BY <1>2 DEF AddTimerLocked
  <2>5. /\ owner' \in [Timers -> {"new", "add", "addTickle", "idle", "reset",
                                  "readd", "readdTickle"}]
        /\ \A u \in Timers : owner'[u] # "new" => owner[u] # "new"
        /\ \A u \in Timers : owner'[u] = "reset" => owner[u] = "reset"
    BY <1>a, <2>3, <2>4 DEF TypeOK
  <2>6. UNCHANGED <<now, setbacks, next, ms, cb, arg, pollVars, edge, ghostVars>>
    BY <1>2 DEF AddTimerLocked
  <2>7. ArgInv'
    BY <1>a, <2>5, <2>6 DEF ArgInv
  <2>8. TypeOK'
    BY <1>a, <2>1, <2>2, <2>5, <2>6 DEF TypeOK
  <2> QED BY <2>7, <2>8
<1>3. ASSUME NEW t \in Timers, OnTimerInsertedAtFront(t)
      PROVE  TypeOK' /\ ArgInv'
  BY <1>a, <1>3 DEF OnTimerInsertedAtFront, TypeOK, ArgInv
<1>4. ASSUME NEW t \in Timers, Refresh(t) PROVE TypeOK' /\ ArgInv'
  <2>1. heap' \in SUBSET Timers
    BY <1>a, <1>4 DEF Refresh, Insert, TypeOK
  <2>2. next' \in [Timers -> Int]
    BY <1>a, <1>4 DEF Refresh, TypeOK
  <2>3. UNCHANGED <<now, setbacks, ms, cb, tickled, owner, arg, pollVars, edge,
                    ghostVars>>
    BY <1>4 DEF Refresh
  <2>4. ArgInv'
    BY <1>a, <2>3 DEF ArgInv
  <2> QED BY <1>a, <2>1, <2>2, <2>3, <2>4 DEF TypeOK
<1>5. ASSUME NEW t \in Timers, NEW p \in NewPeriodsOf(t), NEW fromNow \in BOOLEAN,
             ResetErase(t, p, fromNow)
      PROVE  TypeOK' /\ ArgInv'
  <2> DEFINE a == [ms |-> p, fromNow |-> fromNow]
  <2>1. a \in [ms : Nat, fromNow : BOOLEAN] /\ a.ms = p
    OBVIOUS
  <2>2. arg' = [arg EXCEPT ![t] = a]
    BY <1>5 DEF ResetErase
  <2> HIDE DEF a
  <2>3. arg' \in [Timers -> [ms : Nat, fromNow : BOOLEAN]] /\ arg'[t].ms = p
        /\ \A u \in Timers \ {t} : arg'[u] = arg[u]
    BY <1>a, <2>1, <2>2 DEF TypeOK
  <2> QED BY <1>a, <1>5, <2>3 DEF ResetErase, TypeOK, ArgInv
<1>6. ASSUME NEW t \in Timers, ResetDeadline(t) PROVE TypeOK' /\ ArgInv'
  <2>1. arg[t].ms \in NewPeriodsOf(t) /\ arg[t].ms \in Nat
    BY <1>a, <1>6 DEF ResetDeadline, ArgInv, TypeOK
  <2>2. NoArg \in [ms : Nat, fromNow : BOOLEAN]
    BY DEF NoArg
  <2>3. next' \in [Timers -> Int]
    BY <1>a, <1>6, <2>1 DEF ResetDeadline, TypeOK
  <2> QED BY <1>a, <1>6, <2>1, <2>2, <2>3 DEF ResetDeadline, TypeOK, ArgInv
<1>7. ASSUME NEW t \in Timers, Cancel(t) PROVE TypeOK' /\ ArgInv'
  BY <1>a, <1>7 DEF Cancel, TypeOK, ArgInv
<1>8. ASSUME NEW p \in Pollers, GetNextTimer(p) PROVE TypeOK' /\ ArgInv'
  <2>1. wakeAt' \in [Pollers -> Int]
    BY <1>a, <1>8 DEF GetNextTimer, TypeOK
  <2>2. poll' \in [Pollers -> {"none", "awake", "sleep", "lock", "expiring"}]
    BY <1>a, <1>8 DEF GetNextTimer, Goto, TypeOK
  <2> QED BY <1>a, <1>8, <2>1, <2>2 DEF GetNextTimer, TypeOK, ArgInv
<1>9. ASSUME NEW p \in Pollers, Wake(p) \/ ListDone(p)
      PROVE  TypeOK' /\ ArgInv'
  <2>1. edge' \in BOOLEAN /\ rolled' \in BOOLEAN
    <3>1. Wake(p) => edge' \in BOOLEAN /\ rolled' \in BOOLEAN
      BY <1>a DEF Wake, TypeOK
    <3>2. edge \in BOOLEAN
      BY <1>a DEF TypeOK
    <3>3. ListDone(p) => edge' \in BOOLEAN /\ rolled' \in BOOLEAN
      BY <3>2 DEF ListDone
    <3> QED BY <1>9, <3>1, <3>3
  <2>3. poll' \in [Pollers -> {"none", "awake", "sleep", "lock", "expiring"}]
    BY <1>a, <1>9 DEF Wake, ListDone, Goto, TypeOK
  <2>2. CASE Wake(p)
    <3>1. wakeAt' \in [Pollers -> Int] /\ listNow' \in [Pollers -> Int]
      BY <1>a, <2>2 DEF Wake, TypeOK
    <3> QED BY <1>a, <2>1, <2>2, <2>3, <3>1 DEF Wake, TypeOK, ArgInv
  <2>4. CASE ListDone(p)
    <3>1. wakeAt' \in [Pollers -> Int] /\ listNow' \in [Pollers -> Int]
      BY <1>a, <2>4 DEF ListDone, TypeOK
    <3> QED BY <1>a, <2>1, <2>4, <2>3, <3>1 DEF ListDone, TypeOK, ArgInv
  <2> QED BY <1>9, <2>2, <2>4
<1>10. ASSUME NEW p \in Pollers, ListExpiredCb(p) \/ Stopping(p)
       PROVE  TypeOK' /\ ArgInv'
  <2>1. rolled' \in BOOLEAN
    <3>1. ListExpiredCb(p) => rolled' \in BOOLEAN
      BY DEF ListExpiredCb
    <3>2. Stopping(p) => rolled' \in BOOLEAN
      BY <1>a DEF Stopping, TypeOK
    <3> QED BY <1>10, <3>1, <3>2
  <2>2. poll' \in [Pollers -> {"none", "awake", "sleep", "lock", "expiring"}]
    BY <1>a, <1>10 DEF ListExpiredCb, Stopping, Goto, TypeOK
  <2> QED BY <1>a, <1>10, <2>1, <2>2
             DEF ListExpiredCb, Stopping, TypeOK, ArgInv
<1>11. ASSUME NEW p \in Pollers, NEW t \in Timers, ExpireFirst(p, t)
       PROVE  TypeOK' /\ ArgInv'
  <2>1. heap' \in SUBSET Timers
    BY <1>a, <1>11 DEF ExpireFirst, Insert, TypeOK
  <2>2. fired' \in [Timers -> 0..2]
    <3>1. CountUp(t) \in 0..2
      BY DEF CountUp
    <3> QED BY <1>a, <1>11, <3>1 DEF ExpireFirst, TypeOK
  <2>3. next' \in [Timers -> Int]
    BY <1>a, <1>11 DEF ExpireFirst, TypeOK
  <2>4. cb' \in [Timers -> BOOLEAN]
    BY <1>a, <1>11 DEF ExpireFirst, TypeOK
  <2> QED BY <1>a, <1>11, <2>1, <2>2, <2>3, <2>4
             DEF ExpireFirst, TypeOK, ArgInv
<1>12. ASSUME Tick \/ \E d \in Setbacks : SetBack(d) PROVE TypeOK' /\ ArgInv'
  <2>1. now' \in Int /\ wakeAt' \in [Pollers -> Int]
    BY <1>a, <1>12 DEF Tick, SetBack, TypeOK
  <2>2. setbacks' \in 0..MaxSetbacks
    BY <1>a, <1>12 DEF Tick, SetBack, TypeOK
  <2> QED BY <1>a, <1>12, <2>1, <2>2 DEF Tick, SetBack, TypeOK, ArgInv
<1>13. ASSUME UNCHANGED vars PROVE TypeOK' /\ ArgInv'
  BY <1>a, <1>13 DEF vars, TypeOK, ArgInv
<1> QED
  BY <1>1, <1>2, <1>3, <1>4, <1>5, <1>6, <1>7, <1>8, <1>9, <1>10, <1>11,
     <1>12, <1>13
     DEF Next, Owner, Poller, EpollReturns, OtherReport

(* The pool is what it was.                                                *)
LEMMA PoolNext == Inv /\ [Next]_vars => Pool' = Pool
<1> SUFFICES ASSUME Inv, [Next]_vars PROVE Pool' = Pool
  OBVIOUS
<1>a. TypeOK
  BY DEF Inv
<1>1. ASSUME NEW p \in Pollers, Poller(p) \/ Stopping(p) \/ OtherReport(p)
      PROVE  Pool' = Pool
  <2>1. \/ poll' = poll
        \/ poll[p] # "none" /\ \E l \in {"awake", "sleep", "lock", "expiring"} :
                                  poll' = [poll EXCEPT ![p] = l]
    BY <1>1 DEF Poller, Stopping, OtherReport, GetNextTimer, EpollReturns, Wake,
                ListExpiredCb, ExpireFirst, ListDone, Goto, pollVars
  <2> QED BY <1>a, <2>1 DEF Pool, TypeOK
<1>2. ASSUME NEW t \in Timers, Owner(t) \/ Cancel(t) PROVE Pool' = Pool
  BY <1>2 DEF Owner, AddTimer, AddTimerLocked, OnTimerInsertedAtFront, Refresh,
              ResetErase, ResetDeadline, Cancel, pollVars, Pool
<1>3. ASSUME Tick \/ (\E d \in Setbacks : SetBack(d)) \/ UNCHANGED vars
      PROVE  Pool' = Pool
  BY <1>3 DEF Tick, SetBack, vars, pollVars, Pool
<1> QED BY <1>1, <1>2, <1>3 DEF Next

(* Every step keeps the set ordered, and timers whose deadline is about to *)
(* be written out of it.                                                   *)
LEMMA OrderNext == Inv /\ [Next]_vars => OrderedSet' /\ OutInv'
<1> SUFFICES ASSUME Inv, [Next]_vars PROVE OrderedSet' /\ OutInv'
  OBVIOUS
<1> USE DEF timerVars, pollVars, ghostVars
<1>a. TypeOK /\ OrderedSet /\ OutInv
  BY DEF Inv
<1>b. ASSUME heap' \subseteq heap, \A u \in heap' : next'[u] = next[u],
             \A u \in Timers : owner'[u] \in {"new", "add", "reset", "readd"}
                => owner[u] \in {"new", "add", "reset", "readd"} \/ u \notin heap'
      PROVE  OrderedSet' /\ OutInv'
  BY <1>a, <1>b DEF OrderedSet, OutInv, TypeOK
(* Timer t enters the set h with deadline d.                               *)
<1>c. ASSUME NEW t \in Timers, NEW h, h \subseteq heap, t \notin h, NEW d,
             heap' = Insert(h, t, d), next'[t] = d,
             \A u \in Timers \ {t} : /\ next'[u] = next[u]
                                     /\ owner'[u] = owner[u],
             owner'[t] \notin {"new", "add", "reset", "readd"}
      PROVE  OrderedSet' /\ OutInv'
  <2>1. /\ heap' \subseteq h \cup {t} /\ heap' \subseteq Timers
        /\ t \in heap' => \A u \in h : next[u] # d
    BY <1>a, <1>c, InsertSet DEF TypeOK
  <2>2. \A u, v \in heap' : next'[u] = next'[v] => u = v
    BY <1>a, <1>c, <2>1 DEF OrderedSet, TypeOK
  <2>3. OutInv'
    BY <1>a, <1>c, <2>1 DEF OutInv
  <2> QED BY <2>2, <2>3 DEF OrderedSet, OutInv
<1>1. ASSUME NEW t \in Timers, NEW p \in PeriodsOf(t), AddTimer(t, p)
      PROVE  OrderedSet' /\ OutInv'
  <2>1. t \notin heap
    BY <1>a, <1>1 DEF AddTimer, OutInv
  <2> QED BY <1>a, <1>b, <1>1, <2>1 DEF AddTimer, TypeOK
<1>2. ASSUME NEW t \in Timers, AddTimerLocked(t) PROVE OrderedSet' /\ OutInv'
  <2>1. t \notin heap
    BY <1>a, <1>2 DEF AddTimerLocked, OutInv
  <2>2. PICK l \in {"idle", "addTickle", "readdTickle"} :
             owner' = [owner EXCEPT ![t] = l]
    BY <1>2 DEF AddTimerLocked
  <2>3. owner'[t] = l /\ \A u \in Timers \ {t} : owner'[u] = owner[u]
    BY <1>a, <2>2 DEF TypeOK
  <2> QED BY <1>c, <1>2, <2>1, <2>3 DEF AddTimerLocked
<1>3. ASSUME NEW t \in Timers, OnTimerInsertedAtFront(t)
      PROVE  OrderedSet' /\ OutInv'
  BY <1>a, <1>b, <1>3 DEF OnTimerInsertedAtFront, TypeOK
<1>4. ASSUME NEW t \in Timers, Refresh(t) PROVE OrderedSet' /\ OutInv'
  <2> DEFINE h == heap \ Find(t)
             d == now + ms[t]
  <2>1. h \subseteq heap /\ t \notin h
    BY DEF Find
  <2>2. /\ heap' = Insert(h, t, d) /\ owner' = owner /\ owner[t] = "idle"
        /\ next'[t] = d /\ \A u \in Timers \ {t} : next'[u] = next[u]
    BY <1>a, <1>4 DEF Refresh, TypeOK
  <2> HIDE DEF h, d
  <2> QED BY <1>c, <2>1, <2>2
<1>5. ASSUME NEW t \in Timers, NEW p \in NewPeriodsOf(t), NEW fromNow \in BOOLEAN,
             ResetErase(t, p, fromNow)
      PROVE  OrderedSet' /\ OutInv'
  <2>1. t \notin heap' /\ heap' \subseteq heap /\ next' = next
    BY <1>5 DEF ResetErase, Find
  <2> QED BY <1>a, <1>b, <1>5, <2>1 DEF ResetErase, TypeOK
<1>6. ASSUME NEW t \in Timers, ResetDeadline(t) PROVE OrderedSet' /\ OutInv'
  <2>1. t \notin heap
    BY <1>a, <1>6 DEF ResetDeadline, OutInv
  <2> QED BY <1>a, <1>b, <1>6, <2>1 DEF ResetDeadline, TypeOK
<1>7. ASSUME NEW t \in Timers, Cancel(t) PROVE OrderedSet' /\ OutInv'
  BY <1>b, <1>7 DEF Cancel
<1>8. ASSUME NEW p \in Pollers, NEW t \in Timers, ExpireFirst(p, t)
      PROVE  OrderedSet' /\ OutInv'
  <2>1. t \in heap /\ owner' = owner
    BY <1>8 DEF ExpireFirst, First
  <2>2. owner[t] \notin {"new", "add", "reset", "readd"}
    BY <1>a, <2>1 DEF OutInv
  <2>3. CASE t \in Recurring
    <3>1. /\ heap' = Insert(heap \ {t}, t, listNow[p] + ms[t])
          /\ next'[t] = listNow[p] + ms[t]
          /\ \A u \in Timers \ {t} : next'[u] = next[u]
      BY <1>a, <1>8, <2>3 DEF ExpireFirst, TypeOK
    <3> QED BY <1>c, <2>1, <2>2, <3>1
  <2>4. CASE t \notin Recurring
    BY <1>b, <1>8, <2>4 DEF ExpireFirst
  <2> QED BY <2>3, <2>4
<1>9. ASSUME \/ \E p \in Pollers : \/ GetNextTimer(p) \/ Wake(p) \/ Stopping(p)
                                \/ ListExpiredCb(p) \/ ListDone(p)
             \/ Tick \/ (\E d \in Setbacks : SetBack(d)) \/ UNCHANGED vars
      PROVE  OrderedSet' /\ OutInv'
  <2>1. UNCHANGED <<heap, next, owner>>
    BY <1>9 DEF GetNextTimer, Wake, Stopping, ListExpiredCb, ListDone, Tick,
                SetBack, vars
  <2> QED BY <1>b, <2>1
<1> QED
  BY <1>1, <1>2, <1>3, <1>4, <1>5, <1>6, <1>7, <1>8, <1>9
     DEF Next, Owner, Poller, EpollReturns, OtherReport

(* Who has fired, and who has been cancelled.                              *)
LEMMA FiredNext ==
  Inv /\ [Next]_vars =>
    /\ OneShotInv' /\ CancelInv'
    /\ \A t \in Timers : fired'[t] # fired[t] => ~cancelled[t]
<1> SUFFICES ASSUME Inv, [Next]_vars
             PROVE  /\ OneShotInv' /\ CancelInv'
                    /\ \A t \in Timers : fired'[t] # fired[t] => ~cancelled[t]
  OBVIOUS
<1> USE DEF timerVars, pollVars, ghostVars
<1>a. TypeOK /\ OutInv /\ OneShotInv /\ CancelInv
  BY DEF Inv
<1>b. ASSUME UNCHANGED <<cb, fired, cancelled>>,
             \A u \in Timers : owner'[u] = "new" => owner[u] = "new",
             \A u \in Timers : owner[u] # "new" => owner'[u] # "new"
      PROVE  /\ OneShotInv' /\ CancelInv'
             /\ \A t \in Timers : fired'[t] # fired[t] => ~cancelled[t]
  BY <1>a, <1>b DEF OneShotInv, CancelInv
<1>1. ASSUME NEW t \in Timers, NEW p \in PeriodsOf(t), AddTimer(t, p)
      PROVE  /\ OneShotInv' /\ CancelInv' /\ fired' = fired
  <2>1. /\ owner[t] = "new" /\ owner'[t] = "add" /\ cb'[t] = TRUE
        /\ \A u \in Timers \ {t} : owner'[u] = owner[u] /\ cb'[u] = cb[u]
        /\ UNCHANGED <<fired, cancelled>>
    BY <1>a, <1>1 DEF AddTimer, TypeOK
  <2>2. OneShotInv'
    BY <1>a, <2>1 DEF OneShotInv
  <2>3. CancelInv'
    BY <1>a, <2>1 DEF CancelInv
  <2> QED BY <2>1, <2>2, <2>3
<1>2. ASSUME NEW t \in Timers,
             \/ AddTimerLocked(t) \/ OnTimerInsertedAtFront(t) \/ Refresh(t)
             \/ ResetDeadline(t)
             \/ \E p \in NewPeriodsOf(t), now0 \in BOOLEAN : ResetErase(t, p, now0)
      PROVE  /\ OneShotInv' /\ CancelInv' /\ fired' = fired
  <2>1. UNCHANGED <<cb, fired, cancelled>>
    BY <1>2 DEF AddTimerLocked, OnTimerInsertedAtFront, Refresh,
                ResetDeadline, ResetErase
  <2>2. \E l \in {"idle", "addTickle", "readdTickle", "readd", "reset"} :
           owner[t] # "new" /\ owner' = [owner EXCEPT ![t] = l]
    BY <1>a, <1>2 DEF AddTimerLocked, OnTimerInsertedAtFront, Refresh,
                      ResetDeadline, ResetErase, TypeOK
  <2>3. \A u \in Timers : owner'[u] = "new" <=> owner[u] = "new"
    BY <1>a, <2>2 DEF TypeOK
  <2> QED BY <1>b, <2>1, <2>3
<1>3. ASSUME NEW t \in Timers, Cancel(t)
      PROVE  /\ OneShotInv' /\ CancelInv' /\ fired' = fired
  <2>1. /\ owner[t] # "new" /\ cb'[t] = FALSE /\ UNCHANGED <<fired, owner>>
        /\ \A u \in Timers \ {t} : cb'[u] = cb[u] /\ cancelled'[u] = cancelled[u]
    BY <1>a, <1>3 DEF Cancel, Known, TypeOK
  <2>2. OneShotInv'
    BY <1>a, <2>1 DEF OneShotInv
  <2>3. CancelInv'
    BY <1>a, <2>1 DEF CancelInv
  <2> QED BY <2>1, <2>2, <2>3
<1>4. ASSUME NEW p \in Pollers, NEW t \in Timers, ExpireFirst(p, t)
      PROVE  /\ OneShotInv' /\ CancelInv'
             /\ \A u \in Timers : fired'[u] # fired[u] => ~cancelled[u]
  <2>1. /\ t \in heap /\ UNCHANGED <<owner, cancelled>>
        /\ \A u \in Timers \ {t} : cb'[u] = cb[u] /\ fired'[u] = fired[u]
        /\ cb'[t] => cb[t] /\ t \in Recurring
        /\ fired'[t] = IF cb[t] THEN CountUp(t) ELSE fired[t]
    BY <1>a, <1>4 DEF ExpireFirst, First, TypeOK
  <2>2. owner[t] # "new"
    BY <1>a, <2>1 DEF OutInv
  <2>3. OneShotInv'
    BY <1>a, <2>1, <2>2 DEF OneShotInv, CountUp
  <2>4. CancelInv' /\ \A u \in Timers : fired'[u] # fired[u] => ~cancelled[u]
    BY <1>a, <2>1 DEF CancelInv
  <2> QED BY <2>3, <2>4
<1>5. ASSUME \/ \E p \in Pollers : \/ GetNextTimer(p) \/ Wake(p) \/ Stopping(p)
                                \/ ListExpiredCb(p) \/ ListDone(p)
             \/ Tick \/ (\E d \in Setbacks : SetBack(d)) \/ UNCHANGED vars
      PROVE  /\ OneShotInv' /\ CancelInv' /\ fired' = fired
  <2>1. UNCHANGED <<cb, fired, cancelled, owner>>
    BY <1>5 DEF GetNextTimer, Wake, Stopping, ListExpiredCb, ListDone, Tick,
                SetBack, vars
  <2> QED BY <1>b, <2>1
<1> QED
  BY <1>1, <1>2, <1>3, <1>4, <1>5
     DEF Next, Owner, Poller, EpollReturns, OtherReport

(* While the clock has not been set back, deadlines are within a period of *)
(* it, and if all threads sleep past a deadline then one has a tickle      *)
(* coming.                                                                 *)
LEMMA SleepNext ==
  Inv /\ [Next]_vars => TickleInv' /\ DeadlineInv' /\ NotAllOversleep'
<1> SUFFICES ASSUME Inv, [Next]_vars
             PROVE  TickleInv' /\ DeadlineInv' /\ NotAllOversleep'
  OBVIOUS
<1> USE DEF timerVars, pollVars, ghostVars
<1>a. /\ TypeOK /\ OutInv /\ TickleInv /\ DeadlineInv /\ PoolInv
      /\ Pool \subseteq Pollers /\ Pool' = Pool
  BY PoolNext DEF Inv, Pool
<1>b. \A t \in Timers : ms[t] \in Nat /\ next[t] \in Int
  BY <1>a DEF TypeOK
(* Some thread wakes in time for timer u.                                  *)
<1> DEFINE Covered(u) == \E p \in Pool : wakeAt[p] <= next[u] \/ wakeAt[p] <= now
           Good == \A u \in heap : Covered(u)
           Goal == /\ TickleInv' /\ DeadlineInv'
                   /\ setbacks' = 0 /\ AllAsleep' => Tickling' \/ Good'
<1>c. setbacks = 0 /\ AllAsleep => Tickling \/ Good
  BY <1>a DEF Inv, NotAllOversleep, AllAsleep, Tickling
<1>d. SUFFICES Goal
  BY <1>a DEF NotAllOversleep, AllAsleep, Tickling
<1> HIDE DEF Good
<1>f. ASSUME TickleInv', DeadlineInv', AllAsleep' => AllAsleep,
             setbacks' = setbacks, Tickling' <=> Tickling,
             setbacks = 0 /\ Good => Good'
      PROVE  Goal
  BY <1>c, <1>f
<1>g. poll' = poll => (AllAsleep' <=> AllAsleep)
  BY <1>a DEF AllAsleep
<1> USE DEF Good
<1>e. ASSUME poll' = poll, tickled' => tickled \/ Tickling', Tickling => Tickling'
      PROVE  TickleInv'
  BY <1>a, <1>e DEF TickleInv, AllAsleep
<1>1. ASSUME NEW t \in Timers, NEW p \in PeriodsOf(t), AddTimer(t, p) PROVE Goal
  <2>1. /\ owner[t] = "new" /\ owner'[t] = "add" /\ t \notin heap
        /\ next'[t] = now + p /\ ms'[t] = p
        /\ \A u \in Timers \ {t} : /\ owner'[u] = owner[u]
                                   /\ next'[u] = next[u] /\ ms'[u] = ms[u]
        /\ UNCHANGED <<now, setbacks, heap, tickled, pollVars, edge>>
    BY <1>a, <1>1 DEF AddTimer, TypeOK, OutInv
  <2>2. Tickling' <=> Tickling
    BY <2>1 DEF Tickling
  <2>3. TickleInv'
    BY <1>e, <2>1, <2>2
  <2>4. DeadlineInv'
    BY <1>a, <2>1, PeriodsNat DEF DeadlineInv, TypeOK
  <2>5. Good => Good'
    BY <1>a, <2>1 DEF TypeOK
  <2> QED BY <1>f, <1>g, <2>1, <2>2, <2>3, <2>4, <2>5
<1>2. ASSUME NEW t \in Timers, AddTimerLocked(t) PROVE Goal
  <2>1. /\ owner[t] \in {"add", "readd"} /\ t \notin heap
        /\ UNCHANGED <<now, setbacks, next, ms, pollVars, edge>>
        /\ heap' = Insert(heap, t, next[t])
    BY <1>a, <1>2 DEF AddTimerLocked, OutInv
  <2>2. CASE InsertedFirst(heap, next[t]) /\ ~tickled
    <3>1. owner'[t] \in {"addTickle", "readdTickle"}
          /\ \A u \in Timers \ {t} : owner'[u] = owner[u]
      BY <1>a, <1>2, <2>2 DEF AddTimerLocked, TypeOK
    <3>2. Tickling'
      BY <3>1 DEF Tickling
    <3>3. DeadlineInv'
      BY <1>a, <2>1, <3>1 DEF DeadlineInv
    <3> QED BY <3>2, <3>3 DEF TickleInv
  <2>3. CASE ~(InsertedFirst(heap, next[t]) /\ ~tickled)
    <3>1. /\ owner'[t] = "idle" /\ tickled' = tickled
          /\ \A u \in Timers \ {t} : owner'[u] = owner[u]
      BY <1>a, <1>2, <2>3 DEF AddTimerLocked, TypeOK
    <3>2. Tickling' <=> Tickling
      BY <2>1, <3>1 DEF Tickling
    <3>3. TickleInv'
      BY <1>e, <2>1, <3>1, <3>2
    <3>4. DeadlineInv'
      BY <1>a, <2>1, <3>1 DEF DeadlineInv
    <3>5. ASSUME setbacks' = 0, AllAsleep', ~Tickling' PROVE Good'
      <4>1. ~tickled /\ Good
        BY <1>a, <1>c, <2>1, <3>2, <3>5 DEF TickleInv, AllAsleep
      <4>2. PICK v \in heap : next[v] < next[t]
        BY <1>b, <2>3, <4>1, <1>a DEF InsertedFirst, TypeOK
      <4>3. PICK p \in Pool : wakeAt[p] <= next[v] \/ wakeAt[p] <= now
        BY <4>1
      <4>4. p \in Pollers /\ wakeAt[p] \in Int /\ next[v] \in Int
        BY <1>a, <1>b DEF TypeOK
      <4>5. Covered(t)
        BY <1>b, <4>2, <4>3, <4>4
      <4>6. \A u \in heap' : u \in heap \/ u = t
        BY <2>1, InsertSet
      <4> QED BY <1>a, <2>1, <4>1, <4>5, <4>6
    <3> QED BY <3>3, <3>4, <3>5
  <2> QED BY <2>2, <2>3
<1>3. ASSUME NEW t \in Timers, OnTimerInsertedAtFront(t) PROVE Goal
  <2>1. UNCHANGED <<now, setbacks, timerVars, tickled, pollVars>>
        /\ \A u \in Timers : owner'[u] # owner[u] => owner'[u] = "idle"
    BY <1>a, <1>3 DEF OnTimerInsertedAtFront, TypeOK
  <2>2. DeadlineInv'
    BY <1>a, <1>3, <2>1 DEF OnTimerInsertedAtFront, DeadlineInv, TypeOK
  <2>3. AllAsleep => edge'
    BY <1>a, <1>3 DEF OnTimerInsertedAtFront, AllAsleep, PoolInv
  <2>4. AllAsleep' => Tickling'
    BY <1>a, <2>1, <2>3 DEF AllAsleep, Tickling
  <2> QED BY <2>2, <2>4 DEF TickleInv
<1>4. ASSUME NEW t \in Timers, Refresh(t) PROVE Goal
  <2>1. /\ UNCHANGED <<now, setbacks, ms, tickled, owner, pollVars, edge>>
        /\ owner[t] = "idle" /\ Find(t) # {}
        /\ next'[t] = now + ms[t]
        /\ \A u \in Timers \ {t} : next'[u] = next[u]
        /\ heap' \subseteq heap \cup {t} /\ heap \subseteq Timers
    BY <1>a, <1>4 DEF Refresh, Insert, TypeOK
  <2>2. Tickling' <=> Tickling
    BY <2>1 DEF Tickling
  <2>3. TickleInv'
    BY <1>e, <2>1, <2>2
  <2>4. DeadlineInv'
    BY <1>a, <2>1 DEF DeadlineInv, TypeOK
  <2>5. ASSUME setbacks = 0, Good PROVE Good'
    <3>1. PICK u \in heap : next[u] = next[t]
      BY <2>1 DEF Find
    <3>2. PICK p \in Pool : wakeAt[p] <= next[u] \/ wakeAt[p] <= now
      BY <2>5
    <3>3. next[t] <= now + ms[t]
      BY <1>a, <2>1, <2>5 DEF DeadlineInv
    <3>4. wakeAt[p] \in Int /\ now \in Int
      BY <1>a DEF TypeOK
    <3>5. wakeAt[p] <= next'[t] \/ wakeAt[p] <= now
      BY <1>b, <2>1, <3>1, <3>2, <3>3, <3>4
    <3> QED BY <1>a, <2>1, <2>5, <3>5
  <2> QED BY <1>f, <1>g, <2>1, <2>2, <2>3, <2>4, <2>5
<1>5. ASSUME NEW t \in Timers, NEW p \in NewPeriodsOf(t), NEW fromNow \in BOOLEAN,
             ResetErase(t, p, fromNow)
      PROVE  Goal
  <2>1. /\ UNCHANGED <<now, setbacks, next, ms, tickled, pollVars, edge>>
        /\ owner[t] = "idle" /\ owner'[t] = "reset" /\ heap' \subseteq heap
        /\ \A u \in Timers \ {t} : owner'[u] = owner[u]
    BY <1>a, <1>5 DEF ResetErase, TypeOK
  <2>2. Tickling' <=> Tickling
    BY <2>1 DEF Tickling
  <2>3. TickleInv'
    BY <1>e, <2>1, <2>2
  <2>4. DeadlineInv'
    BY <1>a, <2>1 DEF DeadlineInv
  <2>5. Good => Good'
    BY <1>a, <2>1
  <2> QED BY <1>f, <1>g, <2>1, <2>2, <2>3, <2>4, <2>5
<1>6. ASSUME NEW t \in Timers, ResetDeadline(t) PROVE Goal
  <2> DEFINE start == IF arg[t].fromNow THEN now ELSE next[t] - ms[t]
  <2>1. /\ UNCHANGED <<now, setbacks, heap, tickled, pollVars, edge>>
        /\ owner[t] = "reset" /\ owner'[t] = "readd" /\ t \notin heap
        /\ next'[t] = start + arg[t].ms /\ ms'[t] = arg[t].ms
        /\ \A u \in Timers \ {t} : /\ owner'[u] = owner[u]
                                   /\ next'[u] = next[u] /\ ms'[u] = ms[u]
    BY <1>a, <1>6 DEF ResetDeadline, TypeOK, OutInv
  <2>2. Tickling' <=> Tickling
    BY <2>1 DEF Tickling
  <2>3. TickleInv'
    BY <1>e, <2>1, <2>2
  <2>4. arg[t].ms \in Nat /\ now \in Int /\ next[t] \in Int /\ ms[t] \in Nat
    BY <1>a DEF TypeOK
  <2>5. setbacks = 0 => start <= now /\ start \in Int
    BY <1>a, <2>1, <2>4 DEF DeadlineInv
  <2> HIDE DEF start
  <2>6. DeadlineInv'
    BY <1>a, <2>1, <2>4, <2>5 DEF DeadlineInv
  <2>7. Good => Good'
    BY <1>a, <2>1 DEF TypeOK
  <2> QED BY <1>f, <1>g, <2>1, <2>2, <2>3, <2>6, <2>7
<1>7. ASSUME NEW t \in Timers, Cancel(t) PROVE Goal
  <2>1. /\ UNCHANGED <<now, setbacks, next, ms, tickled, owner, pollVars, edge>>
        /\ heap' \subseteq heap
    BY <1>7 DEF Cancel
  <2>2. Tickling' <=> Tickling
    BY <2>1 DEF Tickling
  <2>3. TickleInv' /\ DeadlineInv'
    BY <1>a, <1>e, <2>1, <2>2 DEF DeadlineInv
  <2>4. Good => Good'
    BY <1>a, <2>1
  <2> QED BY <1>f, <1>g, <2>1, <2>2, <2>3, <2>4
<1>8. ASSUME NEW p \in Pollers, GetNextTimer(p) PROVE Goal
  <2>1. UNCHANGED <<now, setbacks, timerVars, owner, listNow, edge>>
        /\ ~tickled' /\ poll[p] = "awake" /\ poll' = [poll EXCEPT ![p] = "sleep"]
    BY <1>8 DEF GetNextTimer, Goto
  <2>2. wakeAt'[p] \in Int /\ SleepUntil(wakeAt'[p])
    BY <1>a, <1>8, ClockAssumption DEF GetNextTimer, TypeOK
  <2>3. wakeAt'[p] <= now \/ \A t \in heap : wakeAt'[p] <= next[t]
    BY <1>a, <2>2, ClockAssumption DEF SleepUntil, First, TypeOK
  <2>4. p \in Pool
    BY <2>1 DEF Pool
  <2>5. Good'
    BY <1>a, <2>1, <2>3, <2>4
  <2>6. TickleInv' /\ DeadlineInv'
    BY <1>a, <2>1 DEF TickleInv, DeadlineInv, TypeOK
  <2> QED BY <2>5, <2>6
<1>9. ASSUME NEW p \in Pollers, Stopping(p) PROVE Goal
  <2>1. /\ UNCHANGED <<now, setbacks, timerVars, owner, pollVars, edge>>
        /\ ~tickled' /\ p \in Pool /\ poll[p] = "awake"
    BY <1>9 DEF Stopping, Pool
  <2>2. ~AllAsleep'
    BY <1>a, <2>1 DEF AllAsleep
  <2> QED BY <1>a, <2>1, <2>2 DEF TickleInv, DeadlineInv
<1>10. ASSUME NEW p \in Pollers, NEW t \in Timers, ExpireFirst(p, t) PROVE Goal
  <2>1. /\ UNCHANGED <<now, setbacks, ms, owner, pollVars>> /\ poll[p] = "expiring"
        /\ \A u \in Timers \ {t} : next'[u] = next[u]
        /\ next'[t] = next[t] \/ next'[t] = listNow[p] + ms[t]
    BY <1>a, <1>10 DEF ExpireFirst, TypeOK
  <2>2. listNow[p] \in Int /\ now \in Int
    BY <1>a DEF TypeOK
  <2>3. DeadlineInv'
    BY <1>a, <1>b, <2>1, <2>2 DEF DeadlineInv
  <2>4. ~AllAsleep'
    BY <1>a, <2>1 DEF AllAsleep, Pool
  <2> QED BY <2>3, <2>4 DEF TickleInv
<1>11. ASSUME NEW p \in Pollers, Wake(p) \/ ListExpiredCb(p) \/ ListDone(p)
       PROVE  Goal
  <2>1. /\ poll[p] # "none" /\ UNCHANGED <<now, setbacks, next, ms, owner>>
        /\ \E l \in {"lock", "expiring", "awake"} : poll' = [poll EXCEPT ![p] = l]
    BY <1>11 DEF Wake, ListExpiredCb, ListDone, Goto
  <2>2. ~AllAsleep'
    BY <1>a, <2>1 DEF AllAsleep, Pool, TypeOK
  <2>3. \A q \in Pollers : poll'[q] \in {"lock", "expiring"} =>
             \/ poll[q] \in {"lock", "expiring"} /\ listNow'[q] = listNow[q]
             \/ listNow'[q] = now
    BY <1>a, <1>11 DEF Wake, ListExpiredCb, ListDone, Goto, TypeOK
  <2>4. DeadlineInv'
    BY <1>a, <2>1, <2>3 DEF DeadlineInv, TypeOK
  <2> QED BY <2>2, <2>4 DEF TickleInv
<1>12. ASSUME Tick PROVE Goal
  <2>1. /\ now' = now + 1 /\ now \in Int /\ \A p \in Pollers : listNow[p] \in Int
        /\ UNCHANGED <<setbacks, timerVars, tickled, owner, pollVars, edge>>
    BY <1>a, <1>12 DEF Tick, TypeOK
  <2>2. Tickling' <=> Tickling
    BY <2>1 DEF Tickling
  <2>3. TickleInv'
    BY <1>e, <2>1, <2>2
  <2>4. DeadlineInv'
    BY <1>a, <1>b, <2>1 DEF DeadlineInv
  <2>5. \A p \in Pool : wakeAt[p] <= now => wakeAt[p] <= now'
    BY <1>a, <2>1 DEF TypeOK
  <2>6. Good => Good'
    BY <1>a, <2>1, <2>5
  <2> QED BY <1>f, <1>g, <2>1, <2>2, <2>3, <2>4, <2>6
<1>13. ASSUME NEW d \in Setbacks, SetBack(d) PROVE Goal
  <2>1. setbacks' # 0 /\ UNCHANGED <<tickled, owner, poll, edge>>
    BY <1>a, <1>13 DEF SetBack, TypeOK
  <2>2. Tickling' <=> Tickling
    BY <2>1 DEF Tickling
  <2> QED BY <1>e, <2>1, <2>2 DEF DeadlineInv
<1>14. ASSUME UNCHANGED vars PROVE Goal
  <2>1. UNCHANGED <<now, setbacks, timerVars, tickled, owner, pollVars, edge>>
    BY <1>14 DEF vars
  <2>2. Tickling' <=> Tickling
    BY <2>1 DEF Tickling
  <2>3. TickleInv' /\ DeadlineInv'
    BY <1>a, <1>e, <2>1, <2>2 DEF DeadlineInv
  <2>4. Good => Good'
    BY <1>a, <2>1
  <2> QED BY <1>f, <1>g, <2>1, <2>2, <2>3, <2>4
<1> QED
  BY <1>1, <1>2, <1>3, <1>4, <1>5, <1>6, <1>7, <1>8, <1>9, <1>10, <1>11,
     <1>12, <1>13, <1>14
     DEF Next, Owner, Poller, EpollReturns, OtherReport

-----------------------------------------------------------------------------
(* The invariant holds in every reachable state.                           *)
LEMMA InvAlways == Spec => []Inv
<1>1. Inv /\ [Next]_vars => Inv'
  BY TypeNext, PoolNext, OrderNext, FiredNext, SleepNext DEF Inv, PoolInv
<1> QED BY <1>1, InvInit, PTL DEF Spec

(* Every variable keeps its type.                                          *)
THEOREM TypeCorrect == Spec => []TypeOK
<1>1. Inv => TypeOK
  BY DEF Inv
<1> QED BY <1>1, InvAlways, PTL

(* m_timers stays a set ordered by deadline although m_next is written     *)
(* outside of the lock.                                                    *)
THEOREM SetStaysOrdered == Spec => []OrderedSet
<1>1. Inv => OrderedSet
  BY DEF Inv
<1> QED BY <1>1, InvAlways, PTL

(* A one-shot timer fires at most once.                                    *)
THEOREM AtMostOnce == Spec => []FiresAtMostOnce
<1>1. Inv => FiresAtMostOnce
  BY DEF Inv, OneShotInv, FiresAtMostOnce
<1> QED BY <1>1, InvAlways, PTL

(* A timer whose cancel() returned true does not fire afterwards.          *)
THEOREM CancelIsFinal == Spec => CancelledNeverFires
<1>1. Inv /\ [Next]_vars =>
        [\A t \in Timers : fired'[t] # fired[t] => ~cancelled[t]]_vars
  BY FiredNext
<1> QED BY <1>1, InvAlways, PTL DEF Spec, CancelledNeverFires

(* The polling threads never all sleep past a deadline without a tickle on *)
(* its way to one of them, as long as the clock is not set back, however   *)
(* many there are and whichever of them takes the tickles.                 *)
THEOREM WakesInTime == Spec => []NotAllOversleep
<1>1. Inv => NotAllOversleep
  BY DEF Inv
<1> QED BY <1>1, InvAlways, PTL

=============================================================================
