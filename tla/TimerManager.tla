---------------------------- MODULE TimerManager ----------------------------
(***************************************************************************)
(* Timer and TimerManager: a std::set of timers ordered by their absolute  *)
(* deadline m_next, and the threads that poll it from IOManager::idle().   *)
(*                                                                         *)
(* Every critical section of the manager's m_mutex is one step (the loop of*)
(* listExpiredCb one for each turn, with the lock held), and so is every   *)
(* read of the clock outside of one: the constructor and reset write m_next*)
(* before addTimer takes the lock, listExpiredCb reads the clock before it *)
(* does, and addTimer tickles after it has released it.                    *)
(* A polling thread that has left idle() to run a task, or is about to call*)
(* getNextTimer again, is "awake".                                         *)
(* refresh and reset of one timer are called by the thread that owns it;   *)
(* any thread may call cancel once addTimer has returned the timer.        *)
(***************************************************************************)
EXTENDS Integers, FiniteSets

CONSTANTS
    Pools,        \* the sets of threads an IOManager may be built with
    Timers,       \* the timer objects that may be created
    Recurring,    \* those created with recurring = true
    Periods,      \* the values of ms given to addTimer
    NewPeriods,   \* and those given to reset
    MaxTimeout,   \* MAX_TIMEOUT of IOManager::idle()
    Rollover,     \* how far back the clock must jump to count (one hour)
    MaxTime,      \* bound: the clock stops here
    Setbacks,     \* by how much the system clock may be set back
    MaxSetbacks,  \* bound: how often it is
    SetbackPools  \* bound: the pools in which it is

ASSUME PoolsAssumption == {} \notin Pools
ASSUME TimersAssumption == Recurring \subseteq Timers
ASSUME PeriodsAssumption == Periods \subseteq Nat /\ NewPeriods \subseteq Nat
ASSUME ClockAssumption ==
    /\ MaxTimeout \in Nat \ {0} /\ Rollover \in Nat /\ MaxTime \in Nat
    /\ Setbacks \subseteq Nat /\ MaxSetbacks \in Nat

VARIABLES
    now,          \* system_clock::now()
    setbacks,     \* how often the clock has been set back
    prev,         \* m_previouseTime
    next,         \* m_next of each timer
    ms,           \* m_ms of each timer
    cb,           \* m_cb of each timer is not null
    heap,         \* m_timers
    tickled,      \* m_tickled
    owner,        \* where the owner of each timer is
    arg,          \* the arguments of a reset in progress
    poll,         \* where each polling thread is
    wakeAt,       \* when its epoll_wait times out
    edge,         \* unreported edge of the tickle pipe
    listNow,      \* the local variable "now" of its listExpiredCb
    rolled,       \* "rollover" of the listExpiredCb that holds the lock
    fired,        \* callbacks handed out for each timer, 2 for two or more;
                  \* for a recurring one whether their number is odd
    cancelled     \* cancel() has returned true for the timer

timerVars == <<next, ms, cb, heap>>
pollVars  == <<poll, wakeAt, listNow, rolled, prev>>
ghostVars == <<fired, cancelled>>
vars == <<now, setbacks, timerVars, tickled, owner, arg, pollVars, edge,
          ghostVars>>

Pollers == UNION Pools

(* The threads that were started.                                          *)
Pool == {p \in Pollers : poll[p] # "none"}

(* The values of ms a timer is given: usleep of less than a millisecond    *)
(* makes a one-shot timer with ms = 0, nobody makes such a recurring one.  *)
PeriodsOf(t) == IF t \in Recurring THEN Periods \ {0} ELSE Periods
NewPeriodsOf(t) == IF t \in Recurring THEN NewPeriods \ {0} ELSE NewPeriods

NoArg == [ms |-> 0, fromNow |-> FALSE]

Init ==
    /\ now = 0 /\ setbacks = 0 /\ prev = 0
    /\ next = [t \in Timers |-> 0]
    /\ ms = [t \in Timers |-> 0]
    /\ cb = [t \in Timers |-> FALSE]
    /\ heap = {} /\ tickled = FALSE
    /\ owner = [t \in Timers |-> "new"]
    /\ arg = [t \in Timers |-> NoArg]
    /\ \E S \in Pools :
         poll = [p \in Pollers |-> IF p \in S THEN "awake" ELSE "none"]
    /\ wakeAt = [p \in Pollers |-> 0] /\ listNow = [p \in Pollers |-> 0]
    /\ edge = FALSE /\ rolled = FALSE
    /\ fired = [t \in Timers |-> 0]
    /\ cancelled = [t \in Timers |-> FALSE]

-----------------------------------------------------------------------------
(* The set: the Comparator looks at m_next only, so a timer is equivalent  *)
(* to any timer with the same deadline.                                    *)

(* m_timers.find(shared_from_this()): whatever is equivalent to timer t.   *)
Find(t) == {u \in heap : next[u] = next[t]}

(* Mutant of Insert: equivalent timers are kept side by side (a multiset). *)
InsertMulti(h, t, d) == h \cup {t}

(* m_timers.insert of a timer with deadline d into the set h: nothing      *)
(* happens when an equivalent timer is there.                              *)
Insert(h, t, d) ==
    IF \E u \in h \ {t} : next[u] = d THEN h ELSE h \cup {t}

(* The timer that insert returned is the first of the set.                 *)
InsertedFirst(h, d) == \A u \in h : d <= next[u]

First == {t \in heap : \A u \in heap : next[t] <= next[u]}

(* No lock is held by listExpiredCb.                                       *)
Unlocked == \A p \in Pollers : poll[p] # "expiring"

-----------------------------------------------------------------------------
(* The owner's operations.                                                 *)

(* Mutant of AddTimer: the constructor does not initialise m_ms.           *)
AddTimerNoPeriod(t, p) ==
    /\ owner[t] = "new"
    /\ next' = [next EXCEPT ![t] = now + p]
    /\ cb' = [cb EXCEPT ![t] = TRUE]
    /\ owner' = [owner EXCEPT ![t] = "add"]
    /\ UNCHANGED <<now, setbacks, ms, heap, tickled, arg, pollVars, edge,
                   ghostVars>>

(* addTimer(ms, cb, recurring): the constructor reads the clock.           *)
AddTimer(t, p) ==
    /\ owner[t] = "new"
    /\ next' = [next EXCEPT ![t] = now + p]
    /\ ms' = [ms EXCEPT ![t] = p]
    /\ cb' = [cb EXCEPT ![t] = TRUE]
    /\ owner' = [owner EXCEPT ![t] = "add"]
    /\ UNCHANGED <<now, setbacks, heap, tickled, arg, pollVars, edge,
                   ghostVars>>

(* addTimer(timer): insert, and tickle once the lock is released when the  *)
(* timer came out first and nobody was tickled since the last getNextTimer.*)
AddTimerLocked(t) ==
    /\ owner[t] \in {"add", "readd"} /\ Unlocked
    /\ heap' = Insert(heap, t, next[t])
    /\ IF InsertedFirst(heap, next[t]) /\ ~tickled
       THEN /\ tickled' = TRUE
            /\ owner' = [owner EXCEPT ![t] =
                            IF @ = "add" THEN "addTickle" ELSE "readdTickle"]
       ELSE UNCHANGED tickled /\ owner' = [owner EXCEPT ![t] = "idle"]
    /\ UNCHANGED <<now, setbacks, next, ms, cb, arg, pollVars, edge,
                   ghostVars>>

(* onTimerInsertedAtFront() = tickle(): one byte into the pipe, nothing    *)
(* when hasIdleThreads() finds every thread outside of idle().             *)
OnTimerInsertedAtFront(t) ==
    /\ owner[t] \in {"addTickle", "readdTickle"}
    /\ \/ edge' = TRUE
       \/ (\A p \in Pool : poll[p] = "awake") /\ UNCHANGED edge
    /\ owner' = [owner EXCEPT ![t] = "idle"]
    /\ UNCHANGED <<now, setbacks, timerVars, tickled, arg, pollVars,
                   ghostVars>>

Refresh(t) ==
    /\ owner[t] = "idle" /\ Unlocked
    /\ cb[t] /\ Find(t) # {}
    /\ next' = [next EXCEPT ![t] = now + ms[t]]
    /\ heap' = Insert(heap \ Find(t), t, now + ms[t])
    /\ UNCHANGED <<now, setbacks, ms, cb, tickled, owner, arg, pollVars, edge,
                   ghostVars>>

(* reset, first critical section: take the timer out.                      *)
ResetErase(t, p, fromNow) ==
    /\ owner[t] = "idle" /\ Unlocked
    /\ p # ms[t] \/ fromNow
    /\ cb[t] /\ Find(t) # {}
    /\ heap' = heap \ Find(t)
    /\ owner' = [owner EXCEPT ![t] = "reset"]
    /\ arg' = [arg EXCEPT ![t] = [ms |-> p, fromNow |-> fromNow]]
    /\ UNCHANGED <<now, setbacks, next, ms, cb, tickled, pollVars, edge,
                   ghostVars>>

(* reset, between its critical sections: the new deadline, whatever        *)
(* happened to the timer meanwhile; addTimer(timer) follows.               *)
ResetDeadline(t) ==
    LET start == IF arg[t].fromNow THEN now ELSE next[t] - ms[t] IN
    /\ owner[t] = "reset"
    /\ ms' = [ms EXCEPT ![t] = arg[t].ms]
    /\ next' = [next EXCEPT ![t] = start + arg[t].ms]
    /\ owner' = [owner EXCEPT ![t] = "readd"]
    /\ arg' = [arg EXCEPT ![t] = NoArg]
    /\ UNCHANGED <<now, setbacks, heap, cb, tickled, pollVars, edge,
                   ghostVars>>

(* Somebody other than addTimer has the timer.                             *)
Known(t) == owner[t] \notin {"new", "add", "addTickle"}

(* Mutant of Cancel: the callback is kept.                                 *)
CancelKeepsCb(t) ==
    /\ Known(t) /\ Unlocked
    /\ cb[t]
    /\ heap' = heap \ Find(t)
    /\ cancelled' = [cancelled EXCEPT ![t] = TRUE]
    /\ UNCHANGED <<now, setbacks, next, ms, cb, tickled, owner, arg, pollVars,
                   edge, fired>>

(* cancel returns true iff the callback was still there.                   *)
Cancel(t) ==
    /\ Known(t) /\ Unlocked
    /\ cb[t]
    /\ cb' = [cb EXCEPT ![t] = FALSE]
    /\ heap' = heap \ Find(t)
    /\ cancelled' = [cancelled EXCEPT ![t] = TRUE]
    /\ UNCHANGED <<now, setbacks, next, ms, tickled, owner, arg, pollVars,
                   edge, fired>>

-----------------------------------------------------------------------------
(* A polling thread: getNextTimer and epoll_wait, then listExpiredCb.      *)

Goto(p, l) == poll' = [poll EXCEPT ![p] = l]

(* The deadline epoll_wait is given: the earliest timer, at most           *)
(* MAX_TIMEOUT away, at once when a timer is overdue.                      *)
SleepUntil(d) ==
    \/ d = now + MaxTimeout /\ \A t \in heap : d <= next[t]
    \/ \E t \in First :
         /\ next[t] < now + MaxTimeout
         /\ d = IF next[t] <= now THEN now ELSE next[t]

(* stopping() calls getNextTimer too, to learn whether there is a timer.   *)
Stopping(p) ==
    /\ poll[p] = "awake" /\ Unlocked
    /\ tickled' = FALSE
    /\ UNCHANGED <<now, setbacks, timerVars, owner, arg, pollVars, edge,
                   ghostVars>>

(* Mutant of GetNextTimer: m_tickled is not reset.                         *)
GetNextTimerTickled(p) ==
    /\ poll[p] = "awake" /\ Unlocked
    /\ Goto(p, "sleep")
    /\ \E d \in now..(now + MaxTimeout) :
         SleepUntil(d) /\ wakeAt' = [wakeAt EXCEPT ![p] = d]
    /\ UNCHANGED <<now, setbacks, timerVars, tickled, owner, arg, listNow,
                   rolled, prev, edge, ghostVars>>

(* getNextTimer, and epoll_wait begins.                                    *)
GetNextTimer(p) ==
    /\ poll[p] = "awake" /\ Unlocked
    /\ tickled' = FALSE
    /\ Goto(p, "sleep")
    /\ \E d \in now..(now + MaxTimeout) :
         SleepUntil(d) /\ wakeAt' = [wakeAt EXCEPT ![p] = d]
    /\ UNCHANGED <<now, setbacks, timerVars, owner, arg, listNow, rolled, prev,
                   edge, ghostVars>>

(* epoll_wait returns with whatever is ready, the edge of the pipe is      *)
(* reported to one thread only (EPOLLET); listExpiredCb reads the clock.   *)
Wake(p) ==
    /\ poll[p] = "sleep"
    /\ edge' = FALSE
    /\ Goto(p, "lock")
    /\ wakeAt' = [wakeAt EXCEPT ![p] = 0]
    /\ listNow' = [listNow EXCEPT ![p] = now]
    /\ UNCHANGED <<now, setbacks, timerVars, tickled, owner, arg, rolled, prev,
                   ghostVars>>

(* Mutant of EpollReturns: only a tickle ends the wait.                    *)
EpollReturnsTickled(p) == edge /\ Wake(p)

(* It is tickled or has timed out, ...                                     *)
EpollReturns(p) == (edge \/ wakeAt[p] <= now) /\ Wake(p)

(* ... or another descriptor is ready, or scheduleLock has tickled.        *)
OtherReport(p) == Wake(p)

(* listExpiredCb takes the lock and reads the clock again, for             *)
(* detectClockRollover.                                                    *)
ListExpiredCb(p) ==
    /\ poll[p] = "lock" /\ Unlocked
    /\ Goto(p, "expiring")
    /\ rolled' = (now < prev - Rollover)
    /\ prev' = now
    /\ UNCHANGED <<now, setbacks, timerVars, tickled, owner, arg, wakeAt,
                   listNow, edge, ghostVars>>

CountUp(t) ==
    CASE fired[t] = 0 -> 1
      [] fired[t] # 0 /\ t \in Recurring -> 0
      [] OTHER -> 2

Expired(p, t) == rolled \/ next[t] <= listNow[p]

(* Mutant of ExpireFirst: a one-shot timer keeps its callback.             *)
ExpireKeepsCb(p, t) ==
    /\ poll[p] = "expiring"
    /\ t \in First /\ Expired(p, t)
    /\ fired' = [fired EXCEPT ![t] = IF cb[t] THEN CountUp(t) ELSE @]
    /\ IF t \in Recurring
       THEN /\ next' = [next EXCEPT ![t] = listNow[p] + ms[t]]
            /\ heap' = Insert(heap \ {t}, t, listNow[p] + ms[t])
       ELSE heap' = heap \ {t} /\ UNCHANGED next
    /\ UNCHANGED <<now, setbacks, ms, cb, tickled, owner, arg, pollVars, edge,
                   cancelled>>

(* One turn of its loop: a recurring timer is inserted again, any other    *)
(* loses its callback.  A null callback is not scheduled (scheduleLock).   *)
ExpireFirst(p, t) ==
    /\ poll[p] = "expiring"
    /\ t \in First /\ Expired(p, t)
    /\ fired' = [fired EXCEPT ![t] = IF cb[t] THEN CountUp(t) ELSE @]
    /\ IF t \in Recurring
       THEN /\ next' = [next EXCEPT ![t] = listNow[p] + ms[t]]
            /\ heap' = Insert(heap \ {t}, t, listNow[p] + ms[t])
            /\ UNCHANGED cb
       ELSE /\ heap' = heap \ {t}
            /\ cb' = [cb EXCEPT ![t] = FALSE]
            /\ UNCHANGED next
    /\ UNCHANGED <<now, setbacks, ms, tickled, owner, arg, pollVars, edge,
                   cancelled>>

(* The loop ends, idle() handles its reports and yields: it reads the pipe *)
(* empty when the pipe is among them, and with it a tickle that has come   *)
(* since and has not been reported yet.                                    *)
ListDone(p) ==
    /\ poll[p] = "expiring"
    /\ \A t \in First : ~Expired(p, t)
    /\ Goto(p, "awake")
    /\ listNow' = [listNow EXCEPT ![p] = 0] /\ rolled' = FALSE
    /\ edge' \in {edge, FALSE}
    /\ UNCHANGED <<now, setbacks, timerVars, tickled, owner, arg, wakeAt, prev,
                   ghostVars>>

(* Time passes.                                                            *)
Tick ==
    /\ now < MaxTime
    /\ now' = now + 1
    /\ UNCHANGED <<setbacks, timerVars, tickled, owner, arg, pollVars, edge,
                   ghostVars>>

(* The system clock is set back; the timeout of a running epoll_wait, which*)
(* does not depend on it, is as far away as before.                        *)
SetBack(d) ==
    /\ d <= now /\ setbacks < MaxSetbacks /\ Pool \in SetbackPools
    /\ setbacks' = setbacks + 1
    /\ now' = now - d
    /\ wakeAt' = [p \in Pollers |->
                     IF poll[p] = "sleep" THEN wakeAt[p] - d ELSE wakeAt[p]]
    /\ UNCHANGED <<timerVars, tickled, owner, arg, poll, listNow, rolled, prev,
                   edge, ghostVars>>

Poller(p) ==
    \/ GetNextTimer(p) \/ EpollReturns(p)
    \/ ListExpiredCb(p) \/ ListDone(p)
    \/ \E t \in Timers : ExpireFirst(p, t)

Owner(t) ==
    \/ \E p \in PeriodsOf(t) : AddTimer(t, p)
    \/ AddTimerLocked(t)
    \/ OnTimerInsertedAtFront(t)
    \/ Refresh(t)
    \/ \E p \in NewPeriodsOf(t), fromNow \in BOOLEAN : ResetErase(t, p, fromNow)
    \/ ResetDeadline(t)

Next ==
    \/ \E t \in Timers : Owner(t) \/ Cancel(t)
    \/ \E p \in Pollers : Poller(p) \/ Stopping(p) \/ OtherReport(p)
    \/ Tick
    \/ \E d \in Setbacks : SetBack(d)

Spec == Init /\ [][Next]_vars

(* Some thread of the pool is scheduled whenever one has something to do,  *)
(* the tasks it runs end, the clock runs up to its bound, and a thread that*)
(* has inserted the first timer goes on to tickle.  Nobody else is sure to *)
(* wake a thread.                                                          *)
FairSpec ==
    /\ Spec
    /\ WF_vars(\E p \in Pollers : Poller(p))
    /\ WF_vars(\E t \in Timers : OnTimerInsertedAtFront(t))
    /\ WF_vars(Tick)

-----------------------------------------------------------------------------
(* Every variable has its type.                                            *)
TypeOK ==
    /\ now \in Int /\ prev \in Int
    /\ wakeAt \in [Pollers -> Int] /\ listNow \in [Pollers -> Int]
    /\ next \in [Timers -> Int] /\ ms \in [Timers -> Nat]
    /\ \A t \in Timers :
         owner[t] # "new" => ms[t] \in PeriodsOf(t) \cup NewPeriodsOf(t)
    /\ cb \in [Timers -> BOOLEAN]
    /\ heap \in SUBSET Timers
    /\ setbacks \in 0..MaxSetbacks /\ tickled \in BOOLEAN
    /\ edge \in BOOLEAN /\ rolled \in BOOLEAN
    /\ owner \in [Timers -> {"new", "add", "addTickle", "idle", "reset",
                          "readd", "readdTickle"}]
    /\ arg \in [Timers -> [ms : Nat, fromNow : BOOLEAN]]
    /\ poll \in [Pollers -> {"none", "awake", "sleep", "lock", "expiring"}]
    /\ fired \in [Timers -> 0..2]
    /\ cancelled \in [Timers -> BOOLEAN]

(* std::set never holds two equivalent elements and no element's key is    *)
(* changed in place: reset writes m_next outside the lock, and then the    *)
(* timer must be out of the set.                                           *)
OrderedSet ==
    /\ \A t, u \in heap : next[t] = next[u] => t = u
    /\ \A t \in Timers : owner[t] \in {"reset", "readd"} => t \notin heap

(* A one-shot timer hands out its callback at most once, and no timer does *)
(* after cancel() returned true, although a stale reset may put a cancelled*)
(* timer back and find() may return another timer with the same deadline.  *)
FiresAtMostOnce == \A t \in Timers \ Recurring : fired[t] <= 1
CancelledNeverFires ==
    [][\A t \in Timers : fired'[t] # fired[t] => ~cancelled[t]]_vars

(* Never do all polling threads sleep past the deadline of a timer in the  *)
(* set: one of them wakes in time, or a tickle is on its way to one.  So   *)
(* m_tickled, which only the next getNextTimer() of any of them resets,    *)
(* suppresses only tickles that another one makes superfluous.  (While one *)
(* is awake the others may: it has drained the tickle, and runs a task now.*)
(* Nor does it hold once the clock was set back: refresh moves a deadline  *)
(* to an earlier time then, and does not tickle.)                          *)
NotAllOversleep ==
    setbacks = 0 /\ (\A p \in Pool : poll[p] = "sleep")
        => \/ edge
           \/ \E u \in Timers : owner[u] \in {"addTickle", "readdTickle"}
           \/ \A t \in heap : \E p \in Pool :
                 wakeAt[p] <= next[t] \/ wakeAt[p] <= now

(* A one-shot timer in the set whose deadline the clock reaches is expired,*)
(* unless it is cancelled or moved to a later deadline first, or the clock *)
(* is set back (listExpiredCb may then go on for ever with a recurring     *)
(* timer).                                                                 *)
EventuallyExpires ==
    \A t \in Timers \ Recurring :
        t \in heap /\ next[t] <= MaxTime
            ~> t \notin heap \/ next[t] > MaxTime \/ setbacks > 0

(* addTimer (timer.h: "add timer"; hook.cpp: "add a timer to reschedule    *)
(* this fiber"): a timer with a callback is in the set until it expires.   *)
ArmedInHeap ==
    \A t \in Timers :
        cb[t] /\ owner[t] \notin {"add", "reset", "readd"} => t \in heap

=============================================================================
