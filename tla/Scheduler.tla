------------------------------ MODULE Scheduler ------------------------------
(***************************************************************************)
(* The N:M coroutine scheduler of the framework: Scheduler (the task queue *)
(* and the run loop of every thread), Fiber (the state and the mutex of a  *)
(* coroutine), Thread (join) and the parts of IOManager the run loop       *)
(* depends on: tickle, stopping and idle.                                  *)
(*                                                                         *)
(* One step is one critical section, or one access to an atomic or shared  *)
(* variable, of one thread.  What a fiber computes is left out: a running  *)
(* fiber submits a callback, sleeps on a timer, waits for an event of its  *)
(* file descriptor, or returns.  A timer and an event are named by the     *)
(* fiber that waits for them; deadlines and readiness are decided by the   *)
(* environment (TimerDue, IoReady).                                        *)
(***************************************************************************)
EXTENDS Integers, Sequences, FiniteSets

CONSTANTS
    Threads,     \* the pool: the caller's thread and the worker threads
    Caller,      \* the thread that built the IOManager (use_caller = true)
    AnyThread,   \* thread == -1 in a ScheduleTask: any thread may run it
    Fibers,      \* the fibers that may come to exist
    NoFiber,     \* a null shared_ptr<Fiber>
    Roots,       \* the callbacks the caller submits before it calls stop()
    Pins,        \* the values of the "thread" argument the caller passes
    Tickle,      \* the tickle pipe among the descriptors epoll reports
    MaxOps       \* bound: operations a fiber performs before it returns

ASSUME PoolAssumption == Caller \in Threads /\ AnyThread \notin Threads
ASSUME FiniteAssumption == IsFiniteSet(Threads) /\ IsFiniteSet(Fibers)
ASSUME FiberAssumption == NoFiber \notin Fibers /\ Tickle \notin Fibers
ASSUME InputAssumption ==
    Roots \subseteq Fibers /\ Pins \subseteq Threads \cup {AnyThread}
ASSUME BoundAssumption == MaxOps \in Nat

VARIABLES
    tasks,       \* m_tasks, guarded by m_mutex
    active,      \* m_activeThreadCount
    idle,        \* m_idleThreadCount
    stopFlag,    \* m_stopping
    fstate,      \* m_state of each fiber, "NONE" before the object exists
    holder,      \* owner of each fiber's m_mutex, AnyThread when it is free
    fuel,        \* operations each fiber may still perform
    fresh,       \* fibers whose callback was never submitted
    timers,      \* fibers that a timer in the heap will wake
    lost,        \* sleeping fibers whose timer std::set did not take
    due,         \* those whose deadline has passed
    tickled,     \* m_tickled of the TimerManager
    events,      \* fibers registered in an FdContext
    ready,       \* those that epoll has an unreported edge for
    pending,     \* m_pendingEventCount
    edge,        \* unreported edge of the tickle pipe
    pc,          \* where each thread is
    ret,         \* where a thread goes on when its tickle() returns
    task,        \* the local variable "task" of each run()
    idleTerm,    \* the idle fiber of each thread has returned (TERM)
    cbs,         \* expired timers a thread took out and has not scheduled
    evs,         \* descriptors epoll_wait reported to a thread
    stopTickles  \* tickles stop() has still to make

queueVars == <<tasks, active, stopFlag>>
fiberVars == <<fstate, holder, fuel, fresh>>
timerVars == <<timers, lost, due, tickled>>
eventVars == <<events, ready, pending>>
idleVars  == <<idleTerm, cbs, evs>>
vars == <<queueVars, idle, fiberVars, timerVars, eventVars, edge,
          pc, ret, task, idleVars, stopTickles>>

(* ScheduleTask: a fiber to resume, a callback to run in a new fiber, or   *)
(* the callback of an expired timer, which reschedules a sleeping fiber.   *)
Task == [kind : {"fiber", "cb", "timer"}, fiber : Fibers,
         thread : Threads \cup {AnyThread}]
NoTask == [kind |-> "none", fiber |-> NoFiber, thread |-> AnyThread]

FiberTask(f) == [kind |-> "fiber", fiber |-> f, thread |-> AnyThread]
TimerTask(f) == [kind |-> "timer", fiber |-> f, thread |-> AnyThread]
CbTask(f, thr) == [kind |-> "cb", fiber |-> f, thread |-> thr]

Workers == Threads \ {Caller}

Init ==
    /\ tasks = <<>> /\ active = 0 /\ idle = 0 /\ stopFlag = FALSE
    /\ fstate = [f \in Fibers |-> "NONE"]
    /\ holder = [f \in Fibers |-> AnyThread]
    /\ fuel = [f \in Fibers |-> MaxOps]
    /\ fresh = Fibers
    /\ timers = {} /\ lost = {} /\ due = {} /\ tickled = FALSE
    /\ events = {} /\ ready = {} /\ pending = 0
    /\ edge = FALSE
    /\ pc = [t \in Threads |-> IF t = Caller THEN "main" ELSE "take"]
    /\ ret = [t \in Threads |-> "take"]
    /\ task = [t \in Threads |-> NoTask]
    /\ idleTerm = [t \in Threads |-> FALSE]
    /\ cbs = [t \in Threads |-> {}]
    /\ evs = [t \in Threads |-> {}]
    /\ stopTickles = 0

-----------------------------------------------------------------------------
(* Helpers: control flow, scheduleLock and tickle.                         *)

Goto(t, l) == pc' = [pc EXCEPT ![t] = l]

(* Call tickle() and go on at l.                                           *)
CallTickle(t, l) == Goto(t, "tickle") /\ ret' = [ret EXCEPT ![t] = l]

JumpTo(t, l) == Goto(t, l) /\ UNCHANGED ret

(* scheduleLock: push under m_mutex, tickle after unlocking if the queue   *)
(* was empty; the caller of scheduleLock goes on at l.                     *)
ScheduleLock(t, tsk, l) ==
    /\ tasks' = Append(tasks, tsk)
    /\ IF tasks = <<>> THEN CallTickle(t, l) ELSE JumpTo(t, l)

(* IOManager::tickle: nothing when no thread is idle, else one byte.       *)
TickleEffect == edge' = (edge \/ idle > 0)

TickleStep(t) ==
    /\ pc[t] = "tickle"
    /\ TickleEffect
    /\ Goto(t, ret[t])
    /\ ret' = [ret EXCEPT ![t] = "take"]
    /\ UNCHANGED <<queueVars, idle, fiberVars, timerVars, eventVars, task,
                   idleVars, stopTickles>>

-----------------------------------------------------------------------------
(* The caller: submits callbacks, then ~IOManager calls stop().            *)

Submit(f, thr) ==
    /\ pc[Caller] = "main"
    /\ f \in Roots \cap fresh
    /\ fresh' = fresh \ {f}
    /\ ScheduleLock(Caller, CbTask(f, thr), "main")
    /\ UNCHANGED <<active, stopFlag, idle, fstate, holder, fuel, timerVars,
                   eventVars, edge, task, idleVars, stopTickles>>

(* stop: stopping() is false, as m_stopping was never set.                 *)
Stop ==
    /\ pc[Caller] = "main"
    /\ Roots \cap fresh = {}
    /\ stopFlag' = TRUE
    /\ stopTickles' = Cardinality(Workers) + 1
    /\ JumpTo(Caller, "stopping")
    /\ UNCHANGED <<tasks, active, idle, fiberVars, timerVars, eventVars,
                   edge, task, idleVars>>

(* One tickle for every worker and one for the caller's scheduler fiber;   *)
(* then m_schedulerFiber->resume() enters run() on the caller's thread.    *)
StopTickle ==
    /\ pc[Caller] = "stopping"
    /\ stopTickles > 0
    /\ TickleEffect
    /\ stopTickles' = stopTickles - 1
    /\ JumpTo(Caller, IF stopTickles = 1 THEN "take" ELSE "stopping")
    /\ UNCHANGED <<queueVars, idle, fiberVars, timerVars, eventVars, task,
                   idleVars>>

(* Mutant of Join: the workers are not waited for.                         *)
JoinNobody ==
    /\ pc[Caller] = "exited"
    /\ JumpTo(Caller, "done")
    /\ UNCHANGED <<queueVars, idle, fiberVars, timerVars, eventVars, edge,
                   task, idleVars, stopTickles>>

(* The scheduler fiber returned: join the workers.                         *)
Join ==
    /\ pc[Caller] = "exited"
    /\ \A w \in Workers : pc[w] = "exited"
    /\ JumpTo(Caller, "done")
    /\ UNCHANGED <<queueVars, idle, fiberVars, timerVars, eventVars, edge,
                   task, idleVars, stopTickles>>

-----------------------------------------------------------------------------
(* run(): taking a task.                                                   *)

(* Mutant of Eligible: a task with a thread is always passed over.         *)
EligibleUnpinned(t) == {i \in DOMAIN tasks : tasks[i].thread = AnyThread}

Eligible(t) == {i \in DOMAIN tasks : tasks[i].thread \in {AnyThread, t}}

RemoveTask(i) ==
    [j \in 1..(Len(tasks) - 1) |-> IF j < i THEN tasks[j] ELSE tasks[j + 1]]

(* The first task this thread may run; it tickles when it passed over a    *)
(* task pinned to another thread or when tasks stay behind the one taken.  *)
Take(t) ==
    /\ pc[t] = "take"
    /\ IF Eligible(t) = {}
       THEN /\ task' = [task EXCEPT ![t] = NoTask]
            /\ UNCHANGED <<tasks, active>>
            /\ IF tasks # <<>> THEN CallTickle(t, "noTask")
                               ELSE JumpTo(t, "noTask")
       ELSE \E i \in Eligible(t) :
            /\ \A j \in Eligible(t) : i <= j
            /\ task' = [task EXCEPT ![t] = tasks[i]]
            /\ tasks' = RemoveTask(i)
            /\ active' = active + 1
            /\ IF Len(tasks) > 1 THEN CallTickle(t, "exec")
                                 ELSE JumpTo(t, "exec")
    /\ UNCHANGED <<stopFlag, idle, fiberVars, timerVars, eventVars, edge,
                   idleVars, stopTickles>>

-----------------------------------------------------------------------------
(* run(): executing a task.                                                *)

(* Mutant of LockFiber: the fiber is entered without taking its m_mutex.   *)
LockFiberUnguarded(t) ==
    LET f == task[t].fiber IN
    /\ pc[t] = "exec"
    /\ task[t].kind \in {"fiber", "cb"}
    /\ holder' = [holder EXCEPT ![f] = t]
    /\ fstate' = [fstate EXCEPT ![f] =
                    IF task[t].kind = "cb" THEN "READY" ELSE @]
    /\ JumpTo(t, "locked")
    /\ UNCHANGED <<queueVars, idle, fuel, fresh, timerVars, eventVars, edge,
                   task, idleVars, stopTickles>>

(* lock_guard on the fiber's m_mutex: blocks while another thread runs it. *)
(* A callback gets a fiber made for it.                                    *)
LockFiber(t) ==
    LET f == task[t].fiber IN
    /\ pc[t] = "exec"
    /\ task[t].kind \in {"fiber", "cb"}
    /\ holder[f] = AnyThread
    /\ holder' = [holder EXCEPT ![f] = t]
    /\ fstate' = [fstate EXCEPT ![f] =
                    IF task[t].kind = "cb" THEN "READY" ELSE @]
    /\ JumpTo(t, "locked")
    /\ UNCHANGED <<queueVars, idle, fuel, fresh, timerVars, eventVars, edge,
                   task, idleVars, stopTickles>>

(* resume(), skipped for a fiber that has returned.                        *)
Resume(t) ==
    LET f == task[t].fiber IN
    /\ pc[t] = "locked"
    /\ IF fstate[f] = "TERM"
       THEN UNCHANGED fstate /\ JumpTo(t, "unlock")
       ELSE fstate' = [fstate EXCEPT ![f] = "RUNNING"] /\ JumpTo(t, "body")
    /\ UNCHANGED <<queueVars, idle, holder, fuel, fresh, timerVars, eventVars,
                   edge, task, idleVars, stopTickles>>

(* A running fiber submits a callback.                                     *)
Spawn(t, g) ==
    LET f == task[t].fiber IN
    /\ pc[t] = "body" /\ fuel[f] > 0
    /\ g \in fresh \ Roots
    /\ fuel' = [fuel EXCEPT ![f] = @ - 1]
    /\ fresh' = fresh \ {g}
    /\ ScheduleLock(t, CbTask(g, AnyThread), "body")
    /\ UNCHANGED <<active, stopFlag, idle, fstate, holder, timerVars,
                   eventVars, edge, task, idleVars, stopTickles>>

(* A running fiber sleeps (hook.cpp): TimerManager::addTimer, and then     *)
(* yield().  addTimer does not look whether the std::set took the timer:   *)
(* it does not when a timer with the same deadline is there.  It tickles   *)
(* when the timer it finds in the set is the earliest and nobody was       *)
(* tickled since the last getNextTimer().                                  *)
Sleep(t) ==
    LET f == task[t].fiber IN
    /\ pc[t] = "body" /\ fuel[f] > 0
    /\ fuel' = [fuel EXCEPT ![f] = @ - 1]
    /\ \/ timers' = timers \cup {f} /\ UNCHANGED lost
       \/ timers # {} /\ lost' = lost \cup {f} /\ UNCHANGED timers
    /\ \E first \in IF timers = {} THEN {TRUE} ELSE BOOLEAN :
         IF first /\ ~tickled
         THEN tickled' = TRUE /\ CallTickle(t, "yield")
         ELSE UNCHANGED tickled /\ JumpTo(t, "yield")
    /\ UNCHANGED <<queueVars, idle, fstate, holder, fresh, due, eventVars,
                   edge, task, idleVars, stopTickles>>

(* A running fiber waits for its descriptor: addEvent, then yield().       *)
AddEvent(t) ==
    LET f == task[t].fiber IN
    /\ pc[t] = "body" /\ fuel[f] > 0
    /\ fuel' = [fuel EXCEPT ![f] = @ - 1]
    /\ events' = events \cup {f}
    /\ pending' = pending + 1
    /\ JumpTo(t, "yield")
    /\ UNCHANGED <<queueVars, idle, fstate, holder, fresh, timerVars, ready,
                   edge, task, idleVars, stopTickles>>

(* yield(): the fiber is READY again, control is back in run().            *)
Yield(t) ==
    /\ pc[t] = "yield"
    /\ fstate' = [fstate EXCEPT ![task[t].fiber] = "READY"]
    /\ JumpTo(t, "unlock")
    /\ UNCHANGED <<queueVars, idle, holder, fuel, fresh, timerVars, eventVars,
                   edge, task, idleVars, stopTickles>>

(* MainFunc: the callback returned, the fiber is TERM and yields.          *)
Finish(t) ==
    /\ pc[t] = "body"
    /\ fstate' = [fstate EXCEPT ![task[t].fiber] = "TERM"]
    /\ JumpTo(t, "unlock")
    /\ UNCHANGED <<queueVars, idle, holder, fuel, fresh, timerVars, eventVars,
                   edge, task, idleVars, stopTickles>>

UnlockFiber(t) ==
    /\ pc[t] = "unlock"
    /\ holder' = [holder EXCEPT ![task[t].fiber] = AnyThread]
    /\ JumpTo(t, "deactivate")
    /\ UNCHANGED <<queueVars, idle, fstate, fuel, fresh, timerVars, eventVars,
                   edge, task, idleVars, stopTickles>>

(* The callback of a timer set by a sleeping fiber, in a fiber of its own  *)
(* that nobody else knows: scheduleLock(fiber).                            *)
RunTimerCb(t) ==
    /\ pc[t] = "exec"
    /\ task[t].kind = "timer"
    /\ ScheduleLock(t, FiberTask(task[t].fiber), "deactivate")
    /\ UNCHANGED <<active, stopFlag, idle, fiberVars, timerVars, eventVars,
                   edge, task, idleVars, stopTickles>>

(* Mutant of Deactivate: run() goes on to the idle fiber after a task,     *)
(* instead of looking at the queue again.                                  *)
DeactivateThenIdle(t) ==
    /\ pc[t] = "deactivate"
    /\ active' = active - 1
    /\ task' = [task EXCEPT ![t] = NoTask]
    /\ JumpTo(t, "noTask")
    /\ UNCHANGED <<tasks, stopFlag, idle, fiberVars, timerVars, eventVars,
                   edge, idleVars, stopTickles>>

(* The task is done: back to the top of the loop.                          *)
Deactivate(t) ==
    /\ pc[t] = "deactivate"
    /\ active' = active - 1
    /\ task' = [task EXCEPT ![t] = NoTask]
    /\ JumpTo(t, "take")
    /\ UNCHANGED <<tasks, stopFlag, idle, fiberVars, timerVars, eventVars,
                   edge, idleVars, stopTickles>>

-----------------------------------------------------------------------------
(* run(): no task.  A thread whose idle fiber has returned leaves run().   *)

LeaveRun(t) ==
    /\ pc[t] = "noTask" /\ idleTerm[t]
    /\ JumpTo(t, "exited")
    /\ UNCHANGED <<queueVars, idle, fiberVars, timerVars, eventVars, edge,
                   task, idleVars, stopTickles>>

EnterIdle(t) ==
    /\ pc[t] = "noTask" /\ ~idleTerm[t]
    /\ idle' = idle + 1
    /\ JumpTo(t, "stopTimers")
    /\ UNCHANGED <<queueVars, fiberVars, timerVars, eventVars, edge, task,
                   idleVars, stopTickles>>

(* IOManager::stopping(): three reads, in this order, each under its own   *)
(* lock.  getNextTimer() resets m_tickled.                                 *)
StoppingTimers(t) ==
    /\ pc[t] = "stopTimers"
    /\ tickled' = FALSE
    /\ JumpTo(t, IF timers = {} THEN "stopPending" ELSE "nextTimer")
    /\ UNCHANGED <<queueVars, idle, fiberVars, timers, lost, due, eventVars, edge,
                   task, idleVars, stopTickles>>

StoppingPending(t) ==
    /\ pc[t] = "stopPending"
    /\ JumpTo(t, IF pending = 0 THEN "stopQueue" ELSE "nextTimer")
    /\ UNCHANGED <<queueVars, idle, fiberVars, timerVars, eventVars, edge,
                   task, idleVars, stopTickles>>

SchedulerStopping == stopFlag /\ tasks = <<>> /\ active = 0

(* Mutant of StoppingQueue: m_activeThreadCount is not looked at.          *)
StoppingQueueOnly(t) ==
    LET stop == stopFlag /\ tasks = <<>> IN
    /\ pc[t] = "stopQueue"
    /\ idleTerm' = [idleTerm EXCEPT ![t] = stop]
    /\ JumpTo(t, IF stop THEN "leaveIdle" ELSE "nextTimer")
    /\ UNCHANGED <<queueVars, idle, fiberVars, timerVars, eventVars, edge,
                   task, cbs, evs, stopTickles>>

StoppingQueue(t) ==
    /\ pc[t] = "stopQueue"
    /\ idleTerm' = [idleTerm EXCEPT ![t] = SchedulerStopping]
    /\ JumpTo(t, IF SchedulerStopping THEN "leaveIdle" ELSE "nextTimer")
    /\ UNCHANGED <<queueVars, idle, fiberVars, timerVars, eventVars, edge,
                   task, cbs, evs, stopTickles>>

(* The timeout of epoll_wait: getNextTimer(), at most MAX_TIMEOUT.         *)
NextTimer(t) ==
    /\ pc[t] = "nextTimer"
    /\ tickled' = FALSE
    /\ JumpTo(t, "epollWait")
    /\ UNCHANGED <<queueVars, idle, fiberVars, timers, lost, due, eventVars, edge,
                   task, idleVars, stopTickles>>

(* Mutant of EpollWait: without MAX_TIMEOUT, only a deadline ends the wait.*)
EpollWaitForever(t) ==
    /\ pc[t] = "epollWait"
    /\ ready # {} \/ edge \/ due # {}
    /\ evs' = [evs EXCEPT ![t] = ready \cup (IF edge THEN {Tickle} ELSE {})]
    /\ ready' = {}
    /\ edge' = FALSE
    /\ JumpTo(t, "expire")
    /\ UNCHANGED <<queueVars, idle, fiberVars, timerVars, events, pending,
                   task, idleTerm, cbs, stopTickles>>

(* epoll_wait reports every ready descriptor, once (edge triggered), or    *)
(* nothing when MAX_TIMEOUT or the next deadline has come.                 *)
EpollWait(t) ==
    /\ pc[t] = "epollWait"
    /\ evs' = [evs EXCEPT ![t] = ready \cup (IF edge THEN {Tickle} ELSE {})]
    /\ ready' = {}
    /\ edge' = FALSE
    /\ JumpTo(t, "expire")
    /\ UNCHANGED <<queueVars, idle, fiberVars, timerVars, events, pending,
                   task, idleTerm, cbs, stopTickles>>

(* listExpiredCb moves the overdue timers to a local vector ...            *)
ListExpiredCb(t) ==
    /\ pc[t] = "expire"
    /\ cbs' = [cbs EXCEPT ![t] = due]
    /\ timers' = timers \ due
    /\ due' = {}
    /\ JumpTo(t, "schedule")
    /\ UNCHANGED <<queueVars, idle, fiberVars, lost, tickled, eventVars, edge,
                   task, idleTerm, evs, stopTickles>>

(* ... and idle() schedules their callbacks one by one.                    *)
ScheduleExpired(t, f) ==
    /\ pc[t] = "schedule"
    /\ f \in cbs[t]
    /\ cbs' = [cbs EXCEPT ![t] = @ \ {f}]
    /\ ScheduleLock(t, TimerTask(f), "schedule")
    /\ UNCHANGED <<active, stopFlag, idle, fiberVars, timerVars, eventVars,
                   edge, task, idleTerm, evs, stopTickles>>

AllScheduled(t) ==
    /\ pc[t] = "schedule"
    /\ cbs[t] = {}
    /\ JumpTo(t, "handle")
    /\ UNCHANGED <<queueVars, idle, fiberVars, timerVars, eventVars, edge,
                   task, idleVars, stopTickles>>

(* The tickle pipe: read until it is empty.                                *)
DrainTickle(t) ==
    /\ pc[t] = "handle"
    /\ Tickle \in evs[t]
    /\ evs' = [evs EXCEPT ![t] = @ \ {Tickle}]
    /\ edge' = FALSE
    /\ UNCHANGED <<queueVars, idle, fiberVars, timerVars, eventVars, pc, ret,
                   task, idleTerm, cbs, stopTickles>>

(* A reported descriptor whose event another thread has handled meanwhile. *)
SkipEvent(t, f) ==
    /\ pc[t] = "handle"
    /\ f \in evs[t] \ events
    /\ evs' = [evs EXCEPT ![t] = @ \ {f}]
    /\ UNCHANGED <<queueVars, idle, fiberVars, timerVars, eventVars, edge, pc,
                   ret, task, idleTerm, cbs, stopTickles>>

(* Mutants of TriggerEvent: the FdContext's events are not looked at again *)
(* under its mutex; the descriptor is not taken out of epoll.              *)
TriggerUnchecked(t, f) ==
    /\ pc[t] = "handle"
    /\ f \in evs[t]
    /\ evs' = [evs EXCEPT ![t] = @ \ {f}]
    /\ events' = events \ {f}
    /\ ready' = ready \ {f}
    /\ ScheduleLock(t, FiberTask(f), "pendingDown")
    /\ UNCHANGED <<active, stopFlag, idle, fiberVars, timerVars, pending, edge,
                   task, idleTerm, cbs, stopTickles>>

TriggerNoEpollDel(t, f) ==
    /\ pc[t] = "handle"
    /\ f \in evs[t] \cap events
    /\ evs' = [evs EXCEPT ![t] = @ \ {f}]
    /\ events' = events \ {f}
    /\ ScheduleLock(t, FiberTask(f), "pendingDown")
    /\ UNCHANGED <<active, stopFlag, idle, fiberVars, timerVars, pending, edge,
                   ready, task, idleTerm, cbs, stopTickles>>

(* Under the FdContext's mutex: epoll_ctl DEL, triggerEvent, and then      *)
(* --m_pendingEventCount.                                                  *)
TriggerEvent(t, f) ==
    /\ pc[t] = "handle"
    /\ f \in evs[t] \cap events
    /\ evs' = [evs EXCEPT ![t] = @ \ {f}]
    /\ events' = events \ {f}
    /\ ready' = ready \ {f}
    /\ ScheduleLock(t, FiberTask(f), "pendingDown")
    /\ UNCHANGED <<active, stopFlag, idle, fiberVars, timerVars, pending, edge,
                   task, idleTerm, cbs, stopTickles>>

PendingDown(t) ==
    /\ pc[t] = "pendingDown"
    /\ pending' = pending - 1
    /\ JumpTo(t, "handle")
    /\ UNCHANGED <<queueVars, idle, fiberVars, timerVars, events, ready, edge,
                   task, idleVars, stopTickles>>

(* All reports handled: the idle fiber yields.                             *)
IdleYield(t) ==
    /\ pc[t] = "handle"
    /\ evs[t] = {}
    /\ JumpTo(t, "leaveIdle")
    /\ UNCHANGED <<queueVars, idle, fiberVars, timerVars, eventVars, edge,
                   task, idleVars, stopTickles>>

(* The idle fiber has given control back to run().                         *)
LeaveIdle(t) ==
    /\ pc[t] = "leaveIdle"
    /\ idle' = idle - 1
    /\ JumpTo(t, "take")
    /\ UNCHANGED <<queueVars, fiberVars, timerVars, eventVars, edge, task,
                   idleVars, stopTickles>>

-----------------------------------------------------------------------------
(* The environment: time passes, descriptors become ready.                 *)

TimerDue(f) ==
    /\ f \in timers \ due
    /\ due' = due \cup {f}
    /\ UNCHANGED <<queueVars, idle, fiberVars, timers, lost, tickled, eventVars,
                   edge, pc, ret, task, idleVars, stopTickles>>

IoReady(f) ==
    /\ f \in events \ ready
    /\ ready' = ready \cup {f}
    /\ UNCHANGED <<queueVars, idle, fiberVars, timerVars, events, pending, edge,
                   pc, ret, task, idleVars, stopTickles>>

Terminated ==
    /\ pc[Caller] = "done"
    /\ UNCHANGED vars

-----------------------------------------------------------------------------
RunTask(t) ==
    \/ Take(t) \/ TickleStep(t) \/ LockFiber(t) \/ Resume(t)
    \/ \E g \in Fibers : Spawn(t, g)
    \/ Sleep(t) \/ AddEvent(t) \/ Yield(t) \/ Finish(t)
    \/ UnlockFiber(t) \/ RunTimerCb(t) \/ Deactivate(t)

RunIdle(t) ==
    \/ LeaveRun(t) \/ EnterIdle(t)
    \/ StoppingTimers(t) \/ StoppingPending(t) \/ StoppingQueue(t)
    \/ NextTimer(t) \/ EpollWait(t) \/ ListExpiredCb(t)
    \/ \E f \in Fibers : ScheduleExpired(t, f)
    \/ AllScheduled(t) \/ DrainTickle(t)
    \/ \E f \in Fibers : SkipEvent(t, f) \/ TriggerEvent(t, f)
    \/ PendingDown(t) \/ IdleYield(t) \/ LeaveIdle(t)

ThreadStep(t) == RunTask(t) \/ RunIdle(t)

CallerStep ==
    \/ \E f \in Fibers, thr \in Pins : Submit(f, thr)
    \/ Stop \/ StopTickle \/ Join

Environment == \E f \in Fibers : TimerDue(f) \/ IoReady(f)

Next ==
    \/ \E t \in Threads : ThreadStep(t)
    \/ CallerStep
    \/ Environment
    \/ Terminated

Spec == Init /\ [][Next]_vars

(* Every thread is scheduled by the kernel, every deadline comes, and every*)
(* awaited descriptor becomes ready or fails.                              *)
Fairness ==
    /\ \A t \in Threads : WF_vars(ThreadStep(t))
    /\ WF_vars(CallerStep)
    /\ \A f \in Fibers : WF_vars(TimerDue(f)) /\ WF_vars(IoReady(f))

FairSpec == Spec /\ Fairness

-----------------------------------------------------------------------------
(* Properties.                                                             *)

Labels == {"main", "stopping", "done", "take", "tickle", "exec", "locked",
           "body", "yield", "unlock", "deactivate", "noTask", "exited",
           "stopTimers", "stopPending", "stopQueue", "nextTimer", "epollWait",
           "expire", "schedule", "handle", "pendingDown", "leaveIdle"}

(* Where a thread is, seen through a call of tickle().                     *)
At(t) == IF pc[t] = "tickle" THEN ret[t] ELSE pc[t]

(* Every variable has its type.                                            *)
TypeOK ==
    /\ tasks \in Seq(Task)
    /\ active \in Int /\ idle \in Int /\ stopFlag \in BOOLEAN
    /\ fstate \in [Fibers -> {"NONE", "READY", "RUNNING", "TERM"}]
    /\ holder \in [Fibers -> Threads \cup {AnyThread}]
    /\ fuel \in [Fibers -> 0..MaxOps]
    /\ fresh \in SUBSET Fibers
    /\ timers \in SUBSET Fibers /\ due \in SUBSET timers
    /\ lost \in SUBSET Fibers
    /\ tickled \in BOOLEAN
    /\ events \in SUBSET Fibers /\ ready \in SUBSET events
    /\ pending \in Int
    /\ edge \in BOOLEAN
    /\ pc \in [Threads -> Labels]
    /\ ret \in [Threads -> Labels]
    /\ task \in [Threads -> Task \cup {NoTask}]
    /\ idleTerm \in [Threads -> BOOLEAN]
    /\ cbs \in [Threads -> SUBSET Fibers]
    /\ evs \in [Threads -> SUBSET (Fibers \cup {Tickle})]
    /\ stopTickles \in Nat

Running(t, f) ==
    /\ task[t].kind \in {"fiber", "cb"} /\ task[t].fiber = f
    /\ At(t) \in {"locked", "body", "yield", "unlock"}

(* A fiber is on at most one thread at a time, and a thread that is about  *)
(* to resume a fiber never finds it RUNNING: a fiber is scheduled by its   *)
(* timer or event as soon as it is registered, while it still runs towards *)
(* its yield(), and only the fiber's m_mutex keeps the thread that takes   *)
(* this task from entering the same stack (assert in Fiber::resume).       *)
FiberExclusive ==
    /\ \A f \in Fibers, t, u \in Threads :
          Running(t, f) /\ Running(u, f) => t = u
    /\ \A t \in Threads :
          pc[t] = "locked" => fstate[task[t].fiber] # "RUNNING"

(* The places that hold a right to resume fiber f once.                    *)
Wakeups(f) ==
    {<<"queue", i>> : i \in {j \in DOMAIN tasks : tasks[j].fiber = f}}
    \cup {<<"taken", t>> : t \in {u \in Threads :
                                 At(u) = "exec" /\ task[u].fiber = f}}
    \cup {<<"expired", t>> : t \in {u \in Threads : f \in cbs[u]}}
    \cup (IF f \in timers THEN {<<"timer">>} ELSE {})
    \cup (IF f \in events THEN {<<"event">>} ELSE {})

(* A suspended fiber has exactly one wakeup outstanding, wherever it is:   *)
(* in the queue, in the timer heap, in an FdContext, or in a local         *)
(* variable of the thread that is moving it.  A running fiber has none     *)
(* until it registered one, a terminated fiber none: none is resumed twice *)
(* for one wait, although epoll may report one event to two threads, and   *)
(* none is lost but a sleeper whose deadline was taken when it slept: its  *)
(* timer was dropped, nobody will ever wake it, and nobody does by mistake.*)
OneWakeup ==
    \A f \in Fibers :
        Cardinality(Wakeups(f)) =
            IF \/ f \in fresh \cup lost \/ fstate[f] = "TERM"
               \/ \E t \in Threads :
                      Running(t, f) /\ At(t) \in {"locked", "body"}
            THEN 0 ELSE 1

(* Labels from which a thread may sleep or exit before it looks at the     *)
(* queue again, and the threads that are at none of them.                  *)
Away == {"noTask", "stopTimers", "stopPending", "stopQueue", "nextTimer",
         "epollWait", "exited", "done"}
WillTake(t) == At(t) \notin Away

(* While the queue holds a task any thread may run, some thread is on its  *)
(* way to the queue: never do all threads sleep in epoll_wait, or leave    *)
(* run(), with such a task left behind, although tickle() does nothing     *)
(* when it finds no idle thread and a byte in the pipe may be drained by   *)
(* the wrong thread.                                                       *)
WorkHasATaker ==
    (\E i \in DOMAIN tasks : tasks[i].thread = AnyThread)
        => \E t \in Threads : WillTake(t)

(* ~Scheduler: assert(stopping()) once stop() has returned.                *)
DestructorAssert == pc[Caller] = "done" => SchedulerStopping

(* A thread's idle fiber returns only in a moment when no thread of the    *)
(* pool executes a task and the queue is empty: m_activeThreadCount covers *)
(* a task from the critical section that takes it to its end.              *)
ExitOnlyWhenQuiescent ==
    [][\A t \in Threads :
         ~idleTerm[t] /\ idleTerm'[t]
            => tasks = <<>> /\ \A u \in Threads : task[u] = NoTask]_vars

(* stop() returns, under fairness.                                         *)
StopReturns == <>(pc[Caller] = "done")

(* A fiber the caller has submitted, pinned to a thread or not, is executed*)
(* whenever it is queued, then and after each of its waits.  (For the other*)
(* fibers StopReturns says it too: only Take removes from the queue, and it*)
(* is empty when stop() returns.)                                          *)
Queued(f) == \E i \in DOMAIN tasks : tasks[i].fiber = f
Executing(f) == \E t \in Threads : At(t) = "exec" /\ task[t].fiber = f
QueuedRuns == \A f \in Roots : Queued(f) ~> Executing(f)

=============================================================================
