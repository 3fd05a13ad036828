--------------------------- MODULE SchedulerProofs ---------------------------
(***************************************************************************)
(* Proofs about the scheduler, for every pool, every set of fibers and     *)
(* every number of operations.                                             *)
(***************************************************************************)
EXTENDS Scheduler, FiniteSetTheorems, TLAPS

(* The number of workers is a natural number, so is the number of tickles  *)
(* stop() makes.                                                           *)
LEMMA StopTicklesType == Cardinality(Workers) \in Nat
<1>1. IsFiniteSet(Workers)
  BY FiniteAssumption, FS_Subset DEF Workers
<1> QED BY <1>1, FS_CardinalityType

(* Taking a task out of the queue leaves a sequence of tasks, each of which*)
(* was in the queue.                                                       *)
LEMMA RemoveTaskType ==
  ASSUME tasks \in Seq(Task), NEW i \in DOMAIN tasks
  PROVE  /\ RemoveTask(i) \in Seq(Task)
         /\ \A j \in DOMAIN RemoveTask(i) :
               \E k \in DOMAIN tasks : RemoveTask(i)[j] = tasks[k]
<1>1. DOMAIN tasks = 1..Len(tasks) /\ Len(tasks) \in Nat /\ Len(tasks) - 1 \in Nat
  OBVIOUS
<1>2. \A j \in 1..(Len(tasks) - 1) :
        RemoveTask(i)[j] = (IF j < i THEN tasks[j] ELSE tasks[j + 1])
  BY <1>1 DEF RemoveTask
<1>3. \A j \in 1..(Len(tasks) - 1) : j \in 1..Len(tasks) /\ j + 1 \in 1..Len(tasks)
  BY <1>1
<1>4. \A j \in 1..Len(tasks) : tasks[j] \in Task
  OBVIOUS
<1>5. \A j \in 1..(Len(tasks) - 1) :
        (IF j < i THEN tasks[j] ELSE tasks[j + 1]) \in Task
  BY <1>3, <1>4
<1>6. RemoveTask(i) \in [1..(Len(tasks) - 1) -> Task]
  BY <1>5 DEF RemoveTask
<1>7. RemoveTask(i) \in Seq(Task) /\ DOMAIN RemoveTask(i) = 1..(Len(tasks) - 1)
  BY <1>1, <1>6
<1> QED BY <1>1, <1>2, <1>3, <1>7

(* The tasks the code builds are tasks, and the empty one is none.         *)
LEMMA TaskTypes ==
  /\ \A f \in Fibers : FiberTask(f) \in Task /\ TimerTask(f) \in Task
  /\ \A f \in Fibers, thr \in Threads \cup {AnyThread} : CbTask(f, thr) \in Task
  /\ NoTask \notin Task
  /\ \A tsk \in Task : tsk.fiber \in Fibers /\ tsk.kind # "none"
BY DEF FiberTask, TimerTask, CbTask, Task, NoTask

-----------------------------------------------------------------------------
(* Control flow.  At(t) looks through a call of tickle(), so a thread that *)
(* jumps to l, or calls tickle() on its way to l, is at l afterwards.      *)

Moved(t, l) ==
    /\ pc' \in [Threads -> Labels] /\ ret' \in [Threads -> Labels]
    /\ At(t)' = l
    /\ \A u \in Threads \ {t} : At(u)' = At(u)

(* A jump, with or without a call of tickle() first, moves one thread.     *)
LEMMA JumpMoves ==
  ASSUME TypeOK, NEW t \in Threads, NEW l \in Labels \ {"tickle"},
         JumpTo(t, l) \/ CallTickle(t, l)
  PROVE  Moved(t, l)
<1>1. "tickle" \in Labels
  BY DEF Labels
<1>2. CASE JumpTo(t, l)
  BY <1>2 DEF TypeOK, JumpTo, Goto, Moved, At
<1>3. CASE CallTickle(t, l)
  BY <1>1, <1>3 DEF TypeOK, CallTickle, Goto, Moved, At
<1> QED BY <1>2, <1>3

(* scheduleLock appends its task and moves the thread that calls it.       *)
LEMMA ScheduleMoves ==
  ASSUME TypeOK, NEW t \in Threads, NEW l \in Labels \ {"tickle"},
         NEW tsk \in Task, ScheduleLock(t, tsk, l)
  PROVE  /\ Moved(t, l)
         /\ tasks' = Append(tasks, tsk)
         /\ tasks' \in Seq(Task)
<1>1. JumpTo(t, l) \/ CallTickle(t, l)
  BY DEF ScheduleLock
<1>2. tasks' = Append(tasks, tsk) /\ tasks' \in Seq(Task)
  BY DEF ScheduleLock, TypeOK
<1> QED BY <1>1, <1>2, JumpMoves

-----------------------------------------------------------------------------
(* What the inductive invariant says of one thread: it has a task exactly  *)
(* while it is between taking and deactivating one, and it enters a fiber  *)
(* only for a task that names one.                                         *)

BusyLabels == {"exec", "locked", "body", "yield", "unlock", "deactivate"}

ThreadInv ==
    \A t \in Threads :
      /\ At(t) # "tickle"
      /\ At(t) \in BusyLabels <=> task[t] # NoTask
      /\ At(t) \in {"locked", "body", "yield", "unlock"}
            => task[t].kind \in {"fiber", "cb"}

Inv == TypeOK /\ ThreadInv

(* The type invariant and the thread invariant hold initially.             *)
LEMMA InvInit == Init => Inv
<1> SUFFICES ASSUME Init PROVE Inv
  OBVIOUS
<1> USE PoolAssumption, BoundAssumption DEF Init
<1>1. TypeOK
  <2>1. tasks \in Seq(Task)
    OBVIOUS
  <2>2. fuel \in [Fibers -> 0..MaxOps]
    OBVIOUS
  <2>3. pc \in [Threads -> Labels] /\ ret \in [Threads -> Labels]
    BY DEF Labels
  <2>4. /\ task \in [Threads -> Task \cup {NoTask}]
        /\ cbs \in [Threads -> SUBSET Fibers]
        /\ evs \in [Threads -> SUBSET (Fibers \cup {Tickle})]
        /\ idleTerm \in [Threads -> BOOLEAN]
    OBVIOUS
  <2>5. /\ fstate \in [Fibers -> {"NONE", "READY", "RUNNING", "TERM"}]
        /\ holder \in [Fibers -> Threads \cup {AnyThread}]
    OBVIOUS
  <2>6. /\ timers \in SUBSET Fibers /\ due \in SUBSET timers
        /\ events \in SUBSET Fibers /\ ready \in SUBSET events
        /\ fresh \in SUBSET Fibers
    OBVIOUS
  <2>7. stopFlag \in BOOLEAN /\ tickled \in BOOLEAN /\ edge \in BOOLEAN
    OBVIOUS
  <2> QED BY <2>1, <2>2, <2>3, <2>4, <2>5, <2>6, <2>7 DEF TypeOK
<1>2. ThreadInv
  BY DEF ThreadInv, At, BusyLabels
<1> QED BY <1>1, <1>2 DEF Inv

(* A thread that keeps its task, and moves neither into nor out of the part*)
(* of run() that executes it, keeps the thread invariant.                  *)
LEMMA ThreadKeep ==
  ASSUME TypeOK, ThreadInv, NEW t \in Threads, NEW l, Moved(t, l),
         task' = task, l # "tickle", l \in BusyLabels <=> At(t) \in BusyLabels,
         l \in {"locked", "body", "yield", "unlock"}
           => \/ At(t) \in {"locked", "body", "yield", "unlock"}
              \/ task[t].kind \in {"fiber", "cb"}
  PROVE  ThreadInv'
BY DEF ThreadInv, Moved

(* Every step of a thread, of the caller and of the environment preserves  *)
(* them: one case for each action.                                         *)
LEMMA InvNext == Inv /\ [Next]_vars => Inv'
<1> SUFFICES ASSUME Inv, [Next]_vars PROVE Inv'
  OBVIOUS
<1> USE PoolAssumption, FiberAssumption, InputAssumption, BoundAssumption, TaskTypes
<1> USE DEF queueVars, fiberVars, timerVars, eventVars, idleVars
<1>a. TypeOK /\ ThreadInv
  BY DEF Inv
<1>1. ASSUME NEW t \in Threads, Take(t)
      PROVE  Inv'
  <2>1. CASE Eligible(t) = {}
    <3>1. Moved(t, "noTask")
      BY <1>a, <1>1, <2>1, JumpMoves DEF Take, Labels
    <3>2. TypeOK'
      BY <1>a, <1>1, <2>1, <3>1 DEF Take, TypeOK, Moved
    <3>3. ThreadInv'
      <4>1. task'[t] = NoTask /\ \A u \in Threads \ {t} : task'[u] = task[u]
        BY <1>a, <1>1, <2>1 DEF Take, TypeOK
      <4> QED BY <1>a, <3>1, <4>1 DEF Moved, ThreadInv, BusyLabels
    <3> QED BY <3>2, <3>3 DEF Inv
  <2>2. CASE Eligible(t) # {}
    <3>1. Moved(t, "exec")
      BY <1>a, <1>1, <2>2, JumpMoves DEF Take, Labels
    <3>2. PICK i \in DOMAIN tasks : task' = [task EXCEPT ![t] = tasks[i]]
                                  /\ tasks' = RemoveTask(i)
      BY <1>1, <2>2 DEF Take, Eligible
    <3>3. tasks' \in Seq(Task) /\ tasks[i] \in Task
      BY <1>a, <3>2, RemoveTaskType DEF TypeOK
    <3>4. active' \in Int
      BY <1>a, <1>1, <2>2 DEF Take, TypeOK
    <3>5. TypeOK'
      BY <1>a, <1>1, <3>1, <3>2, <3>3, <3>4 DEF Take, TypeOK, Moved
    <3>6. ThreadInv'
      BY <1>a, <1>1, <3>1, <3>2, <3>3 DEF TypeOK, Moved, ThreadInv, BusyLabels
    <3> QED BY <3>5, <3>6 DEF Inv
  <2> QED BY <2>1, <2>2
<1>2. ASSUME NEW t \in Threads, TickleStep(t)
      PROVE  Inv'
  <2>1. TypeOK'
    BY <1>a, <1>2 DEF TickleStep, TickleEffect, Goto, TypeOK, Labels
  <2>2. ThreadInv'
    BY <1>a, <1>2 DEF TickleStep, Goto, TypeOK, ThreadInv, At, BusyLabels
  <2> QED BY <2>1, <2>2 DEF Inv
<1>3. ASSUME NEW t \in Threads, LockFiber(t)
      PROVE  Inv'
  <2>1. Moved(t, "locked")
    BY <1>a, <1>3, JumpMoves DEF LockFiber, Labels
  <2>2. TypeOK'
    BY <1>a, <1>3, <2>1 DEF LockFiber, TypeOK, Moved
  <2>3. ThreadInv'
    BY <1>a, <1>3, <2>1, ThreadKeep DEF LockFiber, At, BusyLabels
  <2> QED BY <2>2, <2>3 DEF Inv
<1>4. ASSUME NEW t \in Threads, Resume(t)
      PROVE  Inv'
  <2>1. PICK l \in {"unlock", "body"} : Moved(t, l)
    BY <1>a, <1>4, JumpMoves DEF Resume, Labels
  <2>2. At(t) = "locked"
    BY <1>4 DEF Resume, At
  <2>3. fstate' \in [Fibers -> {"NONE", "READY", "RUNNING", "TERM"}]
    BY <1>a, <1>4 DEF Resume, TypeOK
  <2>4. TypeOK'
    BY <1>a, <1>4, <2>1, <2>3 DEF Resume, TypeOK, Moved
  <2>5. ThreadInv'
    BY <1>a, <1>4, <2>1, <2>2, ThreadKeep DEF Resume, BusyLabels
  <2> QED BY <2>4, <2>5 DEF Inv
<1>5. ASSUME NEW t \in Threads, NEW g \in Fibers, Spawn(t, g)
      PROVE  Inv'
  <2>1. CbTask(g, AnyThread) \in Task
    OBVIOUS
  <2>2. Moved(t, "body") /\ tasks' \in Seq(Task)
    BY <1>a, <1>5, <2>1, ScheduleMoves DEF Spawn, Labels
  <2>a. task[t].fiber \in Fibers
    BY <1>a, <1>5 DEF Spawn, TypeOK, ThreadInv, At, BusyLabels
  <2>3. fuel' \in [Fibers -> 0..MaxOps] /\ fresh' \in SUBSET Fibers
    BY <1>a, <1>5, <2>a DEF Spawn, TypeOK
  <2>4. TypeOK'
    BY <1>a, <1>5, <2>2, <2>3 DEF Spawn, TypeOK, Moved
  <2>5. ThreadInv'
    BY <1>a, <1>5, <2>2, ThreadKeep DEF Spawn, At, BusyLabels
  <2> QED BY <2>4, <2>5 DEF Inv
<1>6. ASSUME NEW t \in Threads, Sleep(t)
      PROVE  Inv'
  <2>1. Moved(t, "yield")
    BY <1>a, <1>6, JumpMoves DEF Sleep, Labels
  <2>2. At(t) = "body"
    BY <1>6 DEF Sleep, At
  <2>3. task[t].fiber \in Fibers
    BY <1>a, <2>2 DEF TypeOK, ThreadInv, BusyLabels
  <2>4. timers' \in SUBSET Fibers /\ due' \in SUBSET timers' /\ tickled' \in BOOLEAN
    BY <1>a, <1>6, <2>3 DEF Sleep, TypeOK
  <2>5. fuel' \in [Fibers -> 0..MaxOps]
    BY <1>a, <1>6, <2>3 DEF Sleep, TypeOK
  <2>6. TypeOK'
    BY <1>a, <1>6, <2>1, <2>4, <2>5 DEF Sleep, TypeOK, Moved
  <2>7. ThreadInv'
    BY <1>a, <1>6, <2>1, <2>2, ThreadKeep DEF Sleep, BusyLabels
  <2> QED BY <2>6, <2>7 DEF Inv
<1>7. ASSUME NEW t \in Threads, AddEvent(t)
      PROVE  Inv'
  <2>1. Moved(t, "yield")
    BY <1>a, <1>7, JumpMoves DEF AddEvent, Labels
  <2>a. task[t].fiber \in Fibers
    BY <1>a, <1>7 DEF AddEvent, TypeOK, ThreadInv, At, BusyLabels
  <2>b. fuel' \in [Fibers -> 0..MaxOps]
    BY <1>a, <1>7, <2>a DEF AddEvent, TypeOK
  <2>c. /\ events' \in SUBSET Fibers /\ ready' \in SUBSET events'
        /\ pending' \in Int
    BY <1>a, <1>7, <2>a DEF AddEvent, TypeOK
  <2>2. TypeOK'
    BY <1>a, <1>7, <2>1, <2>b, <2>c DEF AddEvent, TypeOK, Moved
  <2>3. ThreadInv'
    BY <1>a, <1>7, <2>1, ThreadKeep DEF AddEvent, At, BusyLabels
  <2> QED BY <2>2, <2>3 DEF Inv
<1>8. ASSUME NEW t \in Threads, Yield(t)
      PROVE  Inv'
  <2>1. Moved(t, "unlock")
    BY <1>a, <1>8, JumpMoves DEF Yield, Labels
  <2>2. TypeOK'
    BY <1>a, <1>8, <2>1 DEF Yield, TypeOK, Moved
  <2>3. ThreadInv'
    BY <1>a, <1>8, <2>1, ThreadKeep DEF Yield, At, BusyLabels
  <2> QED BY <2>2, <2>3 DEF Inv
<1>9. ASSUME NEW t \in Threads, Finish(t)
      PROVE  Inv'
  <2>1. Moved(t, "unlock")
    BY <1>a, <1>9, JumpMoves DEF Finish, Labels
  <2>2. TypeOK'
    BY <1>a, <1>9, <2>1 DEF Finish, TypeOK, Moved
  <2>3. ThreadInv'
    BY <1>a, <1>9, <2>1, ThreadKeep DEF Finish, At, BusyLabels
  <2> QED BY <2>2, <2>3 DEF Inv
<1>10. ASSUME NEW t \in Threads, UnlockFiber(t)
      PROVE  Inv'
  <2>1. Moved(t, "deactivate")
    BY <1>a, <1>10, JumpMoves DEF UnlockFiber, Labels
  <2>2. TypeOK'
    BY <1>a, <1>10, <2>1 DEF UnlockFiber, TypeOK, Moved
  <2>3. ThreadInv'
    BY <1>a, <1>10, <2>1, ThreadKeep DEF UnlockFiber, At, BusyLabels
  <2> QED BY <2>2, <2>3 DEF Inv
<1>11. ASSUME NEW t \in Threads, RunTimerCb(t)
      PROVE  Inv'
  <2>1. FiberTask(task[t].fiber) \in Task
    BY <1>a, <1>11 DEF RunTimerCb, TypeOK, ThreadInv, At, BusyLabels
  <2>2. Moved(t, "deactivate") /\ tasks' \in Seq(Task)
    BY <1>a, <1>11, <2>1, ScheduleMoves DEF RunTimerCb, Labels
  <2>3. TypeOK'
    BY <1>a, <1>11, <2>2 DEF RunTimerCb, TypeOK, Moved
  <2>4. ThreadInv'
    BY <1>a, <1>11, <2>2, ThreadKeep DEF RunTimerCb, At, BusyLabels
  <2> QED BY <2>3, <2>4 DEF Inv
<1>12. ASSUME NEW t \in Threads, Deactivate(t)
      PROVE  Inv'
  <2>1. Moved(t, "take")
    BY <1>a, <1>12, JumpMoves DEF Deactivate, Labels
  <2>2. task' \in [Threads -> Task \cup {NoTask}] /\ active' \in Int
    BY <1>a, <1>12 DEF Deactivate, TypeOK
  <2>3. TypeOK'
    BY <1>a, <1>12, <2>1, <2>2 DEF Deactivate, TypeOK, Moved
  <2>4. ThreadInv'
    BY <1>a, <1>12, <2>1 DEF Deactivate, TypeOK, ThreadInv, BusyLabels, Moved
  <2> QED BY <2>3, <2>4 DEF Inv
<1>13. ASSUME NEW t \in Threads, LeaveRun(t)
      PROVE  Inv'
  <2>1. Moved(t, "exited")
    BY <1>a, <1>13, JumpMoves DEF LeaveRun, Labels
  <2>2. TypeOK'
    BY <1>a, <1>13, <2>1 DEF LeaveRun, TypeOK, Moved
  <2>3. ThreadInv'
    BY <1>a, <1>13, <2>1, ThreadKeep DEF LeaveRun, At, BusyLabels
  <2> QED BY <2>2, <2>3 DEF Inv
<1>14. ASSUME NEW t \in Threads, EnterIdle(t)
      PROVE  Inv'
  <2>1. Moved(t, "stopTimers")
    BY <1>a, <1>14, JumpMoves DEF EnterIdle, Labels
  <2>2. TypeOK'
    BY <1>a, <1>14, <2>1 DEF EnterIdle, TypeOK, Moved
  <2>3. ThreadInv'
    BY <1>a, <1>14, <2>1, ThreadKeep DEF EnterIdle, At, BusyLabels
  <2> QED BY <2>2, <2>3 DEF Inv
<1>15. ASSUME NEW t \in Threads, StoppingTimers(t)
      PROVE  Inv'
  <2>1. PICK l \in {"stopPending", "nextTimer"} : Moved(t, l)
    BY <1>a, <1>15, JumpMoves DEF StoppingTimers, Labels
  <2>2. At(t) = "stopTimers"
    BY <1>15 DEF StoppingTimers, At
  <2>3. TypeOK'
    BY <1>a, <1>15, <2>1 DEF StoppingTimers, TypeOK, Moved
  <2>4. ThreadInv'
    BY <1>a, <1>15, <2>1, <2>2, ThreadKeep DEF StoppingTimers, BusyLabels
  <2> QED BY <2>3, <2>4 DEF Inv
<1>16. ASSUME NEW t \in Threads, StoppingPending(t)
      PROVE  Inv'
  <2>1. PICK l \in {"stopQueue", "nextTimer"} : Moved(t, l)
    BY <1>a, <1>16, JumpMoves DEF StoppingPending, Labels
  <2>2. At(t) = "stopPending"
    BY <1>16 DEF StoppingPending, At
  <2>3. TypeOK'
    BY <1>a, <1>16, <2>1 DEF StoppingPending, TypeOK, Moved
  <2>4. ThreadInv'
    BY <1>a, <1>16, <2>1, <2>2, ThreadKeep DEF StoppingPending, BusyLabels
  <2> QED BY <2>3, <2>4 DEF Inv
<1>17. ASSUME NEW t \in Threads, StoppingQueue(t)
      PROVE  Inv'
  <2>1. PICK l \in {"leaveIdle", "nextTimer"} : Moved(t, l)
    BY <1>a, <1>17, JumpMoves DEF StoppingQueue, Labels
  <2>2. At(t) = "stopQueue"
    BY <1>17 DEF StoppingQueue, At
  <2>3. TypeOK'
    BY <1>a, <1>17, <2>1 DEF StoppingQueue, TypeOK, Moved, SchedulerStopping
  <2>4. ThreadInv'
    BY <1>a, <1>17, <2>1, <2>2, ThreadKeep DEF StoppingQueue, BusyLabels
  <2> QED BY <2>3, <2>4 DEF Inv
<1>18. ASSUME NEW t \in Threads, NextTimer(t)
      PROVE  Inv'
  <2>1. Moved(t, "epollWait")
    BY <1>a, <1>18, JumpMoves DEF NextTimer, Labels
  <2>2. TypeOK'
    BY <1>a, <1>18, <2>1 DEF NextTimer, TypeOK, Moved
  <2>3. ThreadInv'
    BY <1>a, <1>18, <2>1, ThreadKeep DEF NextTimer, At, BusyLabels
  <2> QED BY <2>2, <2>3 DEF Inv
<1>19. ASSUME NEW t \in Threads, EpollWait(t)
      PROVE  Inv'
  <2>1. Moved(t, "expire")
    BY <1>a, <1>19, JumpMoves DEF EpollWait, Labels
  <2>2. TypeOK'
    BY <1>a, <1>19, <2>1 DEF EpollWait, TypeOK, Moved
  <2>3. ThreadInv'
    BY <1>a, <1>19, <2>1, ThreadKeep DEF EpollWait, At, BusyLabels
  <2> QED BY <2>2, <2>3 DEF Inv
<1>20. ASSUME NEW t \in Threads, ListExpiredCb(t)
      PROVE  Inv'
  <2>1. Moved(t, "schedule")
    BY <1>a, <1>20, JumpMoves DEF ListExpiredCb, Labels
  <2>2. TypeOK'
    BY <1>a, <1>20, <2>1 DEF ListExpiredCb, TypeOK, Moved
  <2>3. ThreadInv'
    BY <1>a, <1>20, <2>1, ThreadKeep DEF ListExpiredCb, At, BusyLabels
  <2> QED BY <2>2, <2>3 DEF Inv
<1>21. ASSUME NEW t \in Threads, NEW f \in Fibers, ScheduleExpired(t, f)
      PROVE  Inv'
  <2>1. TimerTask(f) \in Task
    BY <1>a, <1>21 DEF ScheduleExpired, TypeOK, ThreadInv, At, BusyLabels
  <2>2. Moved(t, "schedule") /\ tasks' \in Seq(Task)
    BY <1>a, <1>21, <2>1, ScheduleMoves DEF ScheduleExpired, Labels
  <2>3. TypeOK'
    BY <1>a, <1>21, <2>2 DEF ScheduleExpired, TypeOK, Moved
  <2>4. ThreadInv'
    BY <1>a, <1>21, <2>2, ThreadKeep DEF ScheduleExpired, At, BusyLabels
  <2> QED BY <2>3, <2>4 DEF Inv
<1>22. ASSUME NEW t \in Threads, AllScheduled(t)
      PROVE  Inv'
  <2>1. Moved(t, "handle")
    BY <1>a, <1>22, JumpMoves DEF AllScheduled, Labels
  <2>2. TypeOK'
    BY <1>a, <1>22, <2>1 DEF AllScheduled, TypeOK, Moved
  <2>3. ThreadInv'
    BY <1>a, <1>22, <2>1, ThreadKeep DEF AllScheduled, At, BusyLabels
  <2> QED BY <2>2, <2>3 DEF Inv
<1>23. ASSUME NEW t \in Threads, DrainTickle(t)
      PROVE  Inv'
  BY <1>a, <1>23 DEF DrainTickle, Inv, TypeOK, ThreadInv, At
<1>24. ASSUME NEW t \in Threads, NEW f \in Fibers, SkipEvent(t, f)
      PROVE  Inv'
  BY <1>a, <1>24 DEF SkipEvent, Inv, TypeOK, ThreadInv, At
<1>25. ASSUME NEW t \in Threads, NEW f \in Fibers, TriggerEvent(t, f)
      PROVE  Inv'
  <2>1. FiberTask(f) \in Task
    BY <1>a, <1>25 DEF TriggerEvent, TypeOK, ThreadInv, At, BusyLabels
  <2>2. Moved(t, "pendingDown") /\ tasks' \in Seq(Task)
    BY <1>a, <1>25, <2>1, ScheduleMoves DEF TriggerEvent, Labels
  <2>3. TypeOK'
    BY <1>a, <1>25, <2>2 DEF TriggerEvent, TypeOK, Moved
  <2>4. ThreadInv'
    BY <1>a, <1>25, <2>2, ThreadKeep DEF TriggerEvent, At, BusyLabels
  <2> QED BY <2>3, <2>4 DEF Inv
<1>26. ASSUME NEW t \in Threads, PendingDown(t)
      PROVE  Inv'
  <2>1. Moved(t, "handle")
    BY <1>a, <1>26, JumpMoves DEF PendingDown, Labels
  <2>2. TypeOK'
    BY <1>a, <1>26, <2>1 DEF PendingDown, TypeOK, Moved
  <2>3. ThreadInv'
    BY <1>a, <1>26, <2>1, ThreadKeep DEF PendingDown, At, BusyLabels
  <2> QED BY <2>2, <2>3 DEF Inv
<1>27. ASSUME NEW t \in Threads, IdleYield(t)
      PROVE  Inv'
  <2>1. Moved(t, "leaveIdle")
    BY <1>a, <1>27, JumpMoves DEF IdleYield, Labels
  <2>2. TypeOK'
    BY <1>a, <1>27, <2>1 DEF IdleYield, TypeOK, Moved
  <2>3. ThreadInv'
    BY <1>a, <1>27, <2>1, ThreadKeep DEF IdleYield, At, BusyLabels
  <2> QED BY <2>2, <2>3 DEF Inv
<1>28. ASSUME NEW t \in Threads, LeaveIdle(t)
      PROVE  Inv'
  <2>1. Moved(t, "take")
    BY <1>a, <1>28, JumpMoves DEF LeaveIdle, Labels
  <2>2. TypeOK'
    BY <1>a, <1>28, <2>1 DEF LeaveIdle, TypeOK, Moved
  <2>3. ThreadInv'
    BY <1>a, <1>28, <2>1, ThreadKeep DEF LeaveIdle, At, BusyLabels
  <2> QED BY <2>2, <2>3 DEF Inv
<1>29. ASSUME NEW f \in Fibers, NEW thr \in Pins, Submit(f, thr)
      PROVE  Inv'
  <2>1. CbTask(f, thr) \in Task
    BY <1>a, <1>29 DEF Submit, TypeOK, ThreadInv, At, BusyLabels
  <2>2. Moved(Caller, "main") /\ tasks' \in Seq(Task)
    BY <1>a, <1>29, <2>1, ScheduleMoves DEF Submit, Labels
  <2>3. TypeOK'
    BY <1>a, <1>29, <2>2 DEF Submit, TypeOK, Moved
  <2>4. ThreadInv'
    BY <1>a, <1>29, <2>2, ThreadKeep DEF Submit, At, BusyLabels
  <2> QED BY <2>3, <2>4 DEF Inv
<1>30. ASSUME Stop
      PROVE  Inv'
  <2>1. Moved(Caller, "stopping")
    BY <1>a, <1>30, JumpMoves DEF Stop, Labels
  <2>2. TypeOK'
    BY <1>a, <1>30, <2>1, StopTicklesType DEF Stop, TypeOK, Moved
  <2>3. ThreadInv'
    BY <1>a, <1>30, <2>1, ThreadKeep DEF Stop, At, BusyLabels
  <2> QED BY <2>2, <2>3 DEF Inv
<1>31. ASSUME StopTickle
      PROVE  Inv'
  <2>1. PICK l \in {"take", "stopping"} : Moved(Caller, l)
    BY <1>a, <1>31, JumpMoves DEF StopTickle, Labels
  <2>2. At(Caller) = "stopping"
    BY <1>31 DEF StopTickle, At
  <2>3. TypeOK'
    BY <1>a, <1>31, <2>1 DEF StopTickle, TickleEffect, TypeOK, Moved
  <2>4. ThreadInv'
    BY <1>a, <1>31, <2>1, <2>2, ThreadKeep DEF StopTickle, BusyLabels
  <2> QED BY <2>3, <2>4 DEF Inv
<1>32. ASSUME Join
      PROVE  Inv'
  <2>1. Moved(Caller, "done")
    BY <1>a, <1>32, JumpMoves DEF Join, Labels
  <2>2. TypeOK'
    BY <1>a, <1>32, <2>1 DEF Join, TypeOK, Moved
  <2>3. ThreadInv'
    BY <1>a, <1>32, <2>1, ThreadKeep DEF Join, At, BusyLabels
  <2> QED BY <2>2, <2>3 DEF Inv
<1>33. ASSUME NEW f \in Fibers, TimerDue(f)
      PROVE  Inv'
  BY <1>a, <1>33 DEF TimerDue, Inv, TypeOK, ThreadInv, At
<1>34. ASSUME NEW f \in Fibers, IoReady(f)
      PROVE  Inv'
  BY <1>a, <1>34 DEF IoReady, Inv, TypeOK, ThreadInv, At
<1>99. ASSUME UNCHANGED vars PROVE Inv'
  BY <1>99 DEF Inv, TypeOK, ThreadInv, At, vars
<1> QED
  BY <1>1, <1>2, <1>3, <1>4, <1>5, <1>6, <1>7, <1>8, <1>9, <1>10, <1>11, <1>12,
     <1>13, <1>14, <1>15, <1>16, <1>17, <1>18, <1>19, <1>20, <1>21, <1>22,
     <1>23, <1>24, <1>25, <1>26, <1>27, <1>28, <1>29, <1>30, <1>31, <1>32,
     <1>33, <1>34, <1>99
     DEF Next, ThreadStep, RunTask, RunIdle, CallerStep, Environment, Terminated

-----------------------------------------------------------------------------
(* From which label to which one every action moves its thread.            *)
LEMMA ControlFlow ==
  ASSUME Inv, NEW t \in Threads
  PROVE  /\ LockFiber(t) => At(t) = "exec" /\ Moved(t, "locked")
         /\ AddEvent(t) => At(t) = "body" /\ Moved(t, "yield")
         /\ Sleep(t) => At(t) = "body" /\ Moved(t, "yield")
         /\ Yield(t) => At(t) = "yield" /\ Moved(t, "unlock")
         /\ Finish(t) => At(t) = "body" /\ Moved(t, "unlock")
         /\ UnlockFiber(t) => At(t) = "unlock" /\ Moved(t, "deactivate")
         /\ Deactivate(t) => At(t) = "deactivate" /\ Moved(t, "take")
         /\ LeaveRun(t) => At(t) = "noTask" /\ Moved(t, "exited")
         /\ EnterIdle(t) => At(t) = "noTask" /\ Moved(t, "stopTimers")
         /\ NextTimer(t) => At(t) = "nextTimer" /\ Moved(t, "epollWait")
         /\ EpollWait(t) => At(t) = "epollWait" /\ Moved(t, "expire")
         /\ ListExpiredCb(t) => At(t) = "expire" /\ Moved(t, "schedule")
         /\ AllScheduled(t) => At(t) = "schedule" /\ Moved(t, "handle")
         /\ PendingDown(t) => At(t) = "pendingDown" /\ Moved(t, "handle")
         /\ IdleYield(t) => At(t) = "handle" /\ Moved(t, "leaveIdle")
         /\ LeaveIdle(t) => At(t) = "leaveIdle" /\ Moved(t, "take")
         /\ RunTimerCb(t) => At(t) = "exec" /\ Moved(t, "deactivate")
         /\ Resume(t) =>
              /\ At(t) = "locked"
              /\ \E l \in {"unlock", "body"} : Moved(t, l)
         /\ StoppingTimers(t) =>
              /\ At(t) = "stopTimers"
              /\ \E l \in {"stopPending", "nextTimer"} : Moved(t, l)
         /\ StoppingPending(t) =>
              /\ At(t) = "stopPending"
              /\ \E l \in {"stopQueue", "nextTimer"} : Moved(t, l)
         /\ StoppingQueue(t) =>
              /\ At(t) = "stopQueue"
              /\ \E l \in {"leaveIdle", "nextTimer"} : Moved(t, l)
         /\ Take(t) =>
              /\ At(t) = "take"
              /\ \E l \in {"noTask", "exec"} : Moved(t, l)
         /\ \A f \in Fibers : Spawn(t, f) => At(t) = "body" /\ Moved(t, "body")
         /\ \A f \in Fibers : ScheduleExpired(t, f) => At(t) = "schedule" /\ Moved(t, "schedule")
         /\ \A f \in Fibers : TriggerEvent(t, f) => At(t) = "handle" /\ Moved(t, "pendingDown")
         /\ TickleStep(t) => \A u \in Threads : At(u)' = At(u)
<1>1. LockFiber(t) => At(t) = "exec" /\ Moved(t, "locked")
  BY JumpMoves DEF Inv, LockFiber, At, Labels
<1>2. AddEvent(t) => At(t) = "body" /\ Moved(t, "yield")
  BY JumpMoves DEF Inv, AddEvent, At, Labels
<1>3. Sleep(t) => At(t) = "body" /\ Moved(t, "yield")
  BY JumpMoves DEF Inv, Sleep, At, Labels
<1>4. Yield(t) => At(t) = "yield" /\ Moved(t, "unlock")
  BY JumpMoves DEF Inv, Yield, At, Labels
<1>5. Finish(t) => At(t) = "body" /\ Moved(t, "unlock")
  BY JumpMoves DEF Inv, Finish, At, Labels
<1>6. UnlockFiber(t) => At(t) = "unlock" /\ Moved(t, "deactivate")
  BY JumpMoves DEF Inv, UnlockFiber, At, Labels
<1>7. Deactivate(t) => At(t) = "deactivate" /\ Moved(t, "take")
  BY JumpMoves DEF Inv, Deactivate, At, Labels
<1>8. LeaveRun(t) => At(t) = "noTask" /\ Moved(t, "exited")
  BY JumpMoves DEF Inv, LeaveRun, At, Labels
<1>9. EnterIdle(t) => At(t) = "noTask" /\ Moved(t, "stopTimers")
  BY JumpMoves DEF Inv, EnterIdle, At, Labels
<1>10. NextTimer(t) => At(t) = "nextTimer" /\ Moved(t, "epollWait")
  BY JumpMoves DEF Inv, NextTimer, At, Labels
<1>11. EpollWait(t) => At(t) = "epollWait" /\ Moved(t, "expire")
  BY JumpMoves DEF Inv, EpollWait, At, Labels
<1>12. ListExpiredCb(t) => At(t) = "expire" /\ Moved(t, "schedule")
  BY JumpMoves DEF Inv, ListExpiredCb, At, Labels
<1>13. AllScheduled(t) => At(t) = "schedule" /\ Moved(t, "handle")
  BY JumpMoves DEF Inv, AllScheduled, At, Labels
<1>14. PendingDown(t) => At(t) = "pendingDown" /\ Moved(t, "handle")
  BY JumpMoves DEF Inv, PendingDown, At, Labels
<1>15. IdleYield(t) => At(t) = "handle" /\ Moved(t, "leaveIdle")
  BY JumpMoves DEF Inv, IdleYield, At, Labels
<1>16. LeaveIdle(t) => At(t) = "leaveIdle" /\ Moved(t, "take")
  BY JumpMoves DEF Inv, LeaveIdle, At, Labels
<1>17. RunTimerCb(t) => At(t) = "exec" /\ Moved(t, "deactivate")
  <2> SUFFICES ASSUME RunTimerCb(t) PROVE At(t) = "exec" /\ Moved(t, "deactivate")
    OBVIOUS
  <2>1. FiberTask(task[t].fiber) \in Task
    BY TaskTypes DEF Inv, RunTimerCb, TypeOK, ThreadInv, At, BusyLabels
  <2> QED BY <2>1, ScheduleMoves DEF Inv, RunTimerCb, At, Labels
<1>18. Resume(t) =>
          /\ At(t) = "locked"
          /\ \E l \in {"unlock", "body"} : Moved(t, l)
  BY JumpMoves DEF Inv, Resume, At, Labels
<1>19. StoppingTimers(t) =>
          /\ At(t) = "stopTimers"
          /\ \E l \in {"stopPending", "nextTimer"} : Moved(t, l)
  BY JumpMoves DEF Inv, StoppingTimers, At, Labels
<1>20. StoppingPending(t) =>
          /\ At(t) = "stopPending"
          /\ \E l \in {"stopQueue", "nextTimer"} : Moved(t, l)
  BY JumpMoves DEF Inv, StoppingPending, At, Labels
<1>21. StoppingQueue(t) =>
          /\ At(t) = "stopQueue"
          /\ \E l \in {"leaveIdle", "nextTimer"} : Moved(t, l)
  BY JumpMoves DEF Inv, StoppingQueue, At, Labels
<1>22. Take(t) => At(t) = "take" /\ \E l \in {"noTask", "exec"} : Moved(t, l)
  BY JumpMoves DEF Inv, Take, At, Labels
<1>23. \A f \in Fibers : Spawn(t, f) => At(t) = "body" /\ Moved(t, "body")
  BY TaskTypes, ScheduleMoves, PoolAssumption DEF Inv, Spawn, At, Labels
<1>24. \A f \in Fibers : ScheduleExpired(t, f) => At(t) = "schedule" /\ Moved(t, "schedule")
  BY TaskTypes, ScheduleMoves, PoolAssumption DEF Inv, ScheduleExpired, At, Labels
<1>25. \A f \in Fibers : TriggerEvent(t, f) => At(t) = "handle" /\ Moved(t, "pendingDown")
  BY TaskTypes, ScheduleMoves, PoolAssumption DEF Inv, TriggerEvent, At, Labels
<1>26. TickleStep(t) => \A u \in Threads : At(u)' = At(u)
  BY DEF Inv, TypeOK, ThreadInv, TickleStep, Goto, At
<1> QED
  BY <1>1, <1>2, <1>3, <1>4, <1>5, <1>6, <1>7, <1>8, <1>9, <1>10, <1>11, <1>12,
     <1>13, <1>14, <1>15, <1>16, <1>17, <1>18, <1>19, <1>20, <1>21, <1>22,
     <1>23, <1>24, <1>25, <1>26

(* The control flow of the caller's own steps.                             *)
LEMMA CallerFlow ==
  ASSUME Inv
  PROVE  /\ \A f \in Fibers, thr \in Pins :
              Submit(f, thr) => At(Caller) = "main" /\ Moved(Caller, "main")
         /\ Stop => At(Caller) = "main" /\ Moved(Caller, "stopping")
         /\ StopTickle => /\ At(Caller) = "stopping"
                          /\ \E l \in {"take", "stopping"} : Moved(Caller, l)
         /\ Join => At(Caller) = "exited" /\ Moved(Caller, "done")
<1> USE PoolAssumption
<1>1. ASSUME NEW f \in Fibers, NEW thr \in Pins, Submit(f, thr)
      PROVE  At(Caller) = "main" /\ Moved(Caller, "main")
  BY <1>1, TaskTypes, InputAssumption, ScheduleMoves DEF Inv, Submit, At, Labels
<1>2. Stop => At(Caller) = "main" /\ Moved(Caller, "stopping")
  BY JumpMoves DEF Inv, Stop, At, Labels
<1>3. StopTickle => /\ At(Caller) = "stopping"
                   /\ \E l \in {"take", "stopping"} : Moved(Caller, l)
  BY JumpMoves DEF Inv, StopTickle, At, Labels
<1>4. Join => At(Caller) = "exited" /\ Moved(Caller, "done")
  BY JumpMoves DEF Inv, Join, At, Labels
<1> QED BY <1>1, <1>2, <1>3, <1>4

-----------------------------------------------------------------------------
(* Exclusion.  A thread inside a fiber owns its m_mutex, and a fiber whose *)
(* m_mutex is free, or which its owner has not resumed yet or has got back,*)
(* is not RUNNING.                                                         *)

InFiber == {"locked", "body", "yield", "unlock"}

FiberInv ==
    /\ \A t \in Threads : At(t) \in InFiber => holder[task[t].fiber] = t
    /\ \A t \in Threads :
          At(t) \in {"locked", "unlock"} => fstate[task[t].fiber] # "RUNNING"
    /\ \A f \in Fibers : holder[f] = AnyThread => fstate[f] # "RUNNING"

(* No fiber runs and no mutex is held initially.                           *)
LEMMA FiberInvInit == Init => FiberInv
BY DEF Init, FiberInv, InFiber, At

(* A thread that executes a task has one, and it names a fiber.            *)
LEMMA TaskFiber ==
  ASSUME Inv, NEW t \in Threads, At(t) \in BusyLabels
  PROVE  task[t] \in Task /\ task[t].fiber \in Fibers
BY TaskTypes DEF Inv, TypeOK, ThreadInv

(* A step that touches no fiber's state and no mutex, and that takes its   *)
(* thread neither into nor out of a fiber, keeps the invariant.            *)
LEMMA FiberFrame ==
  ASSUME Inv, FiberInv, NEW t \in Threads, NEW l, Moved(t, l),
         UNCHANGED <<holder, fstate>>,
         \A u \in Threads \ {t} : task'[u] = task[u],
         l \in InFiber => /\ l \in {"body", "yield"}
                          /\ At(t) \in {"body", "yield"}
                          /\ task'[t] = task[t]
  PROVE  FiberInv'
BY DEF FiberInv, Moved, InFiber

(* Every step preserves the fiber invariant: only LockFiber, Resume, Yield,*)
(* Finish and UnlockFiber touch what it speaks of.                         *)
LEMMA FiberInvNext == Inv /\ FiberInv /\ [Next]_vars => FiberInv'
<1> SUFFICES ASSUME Inv, FiberInv, [Next]_vars PROVE FiberInv'
  OBVIOUS
<1> USE PoolAssumption
<1> USE DEF queueVars, fiberVars, timerVars, eventVars, idleVars
<1>1. ASSUME NEW t \in Threads, LockFiber(t) PROVE FiberInv'
  <2>1. At(t) = "exec" /\ Moved(t, "locked")
    BY <1>1, ControlFlow
  <2>2. task[t].fiber \in Fibers
    BY <2>1, TaskFiber DEF BusyLabels
  <2>3. \A u \in Threads : At(u) \in InFiber => task[u].fiber \in Fibers
    BY TaskFiber DEF BusyLabels, InFiber
  <2>4. \A u \in Threads \ {t} :
          At(u) \in InFiber => task[u].fiber # task[t].fiber
    BY <1>1 DEF LockFiber, FiberInv
  <2>5. /\ holder' = [holder EXCEPT ![task[t].fiber] = t]
        /\ \A f \in Fibers \ {task[t].fiber} : fstate'[f] = fstate[f]
        /\ fstate'[task[t].fiber] # "RUNNING"
        /\ task' = task
    <3>1. PICK g \in Fibers : g = task[t].fiber
      BY <2>2
    <3>2. /\ holder' = [holder EXCEPT ![g] = t] /\ task' = task
          /\ holder[g] = AnyThread
      BY <1>1, <3>1 DEF LockFiber
    <3>3. PICK st : fstate' = [fstate EXCEPT ![g] = st]
                    /\ st \in {"READY", fstate[g]}
      BY <1>1, <3>1 DEF LockFiber
    <3>4. fstate'[g] = st /\ \A f \in Fibers \ {g} : fstate'[f] = fstate[f]
      BY <3>3 DEF Inv, TypeOK
    <3>5. fstate[g] # "RUNNING"
      BY <3>2 DEF FiberInv
    <3> QED BY <3>1, <3>2, <3>3, <3>4, <3>5
  <2>6. /\ holder'[task[t].fiber] = t
        /\ \A f \in Fibers \ {task[t].fiber} : holder'[f] = holder[f]
    BY <2>2, <2>5 DEF Inv, TypeOK
  <2>7. At(t)' = "locked" /\ \A u \in Threads \ {t} : At(u)' = At(u)
    BY <2>1 DEF Moved
  <2>8. \A u \in Threads : At(u)' \in InFiber => holder'[task'[u].fiber] = u
    BY <2>3, <2>4, <2>5, <2>6, <2>7 DEF FiberInv
  <2>9. \A u \in Threads : At(u)' \in {"locked", "unlock"}
                             => fstate'[task'[u].fiber] # "RUNNING"
    BY <2>3, <2>5, <2>7 DEF FiberInv, InFiber
  <2>10. \A f \in Fibers : holder'[f] = AnyThread => fstate'[f] # "RUNNING"
    BY <2>5, <2>6 DEF FiberInv
  <2> QED BY <2>8, <2>9, <2>10 DEF FiberInv
<1>2. ASSUME NEW t \in Threads, Resume(t) PROVE FiberInv'
  <2>1. At(t) = "locked" /\ task' = task /\ holder' = holder
    BY <1>2, ControlFlow DEF Resume
  <2>2. task[t].fiber \in Fibers
    BY <2>1, TaskFiber DEF BusyLabels
  <2>3. \A u \in Threads \ {t} :
          At(u) \in InFiber => task[u].fiber # task[t].fiber
    BY <2>1 DEF FiberInv, InFiber
  <2>4. CASE fstate[task[t].fiber] = "TERM"
    <3>1. Moved(t, "unlock") /\ fstate' = fstate
      BY <1>2, <2>4, JumpMoves DEF Resume, Inv, Labels
    <3> QED BY <2>1, <2>4, <3>1 DEF FiberInv, Moved, InFiber
  <2>5. CASE fstate[task[t].fiber] # "TERM"
    <3>1. Moved(t, "body")
      BY <1>2, <2>5, JumpMoves DEF Resume, Inv, Labels
    <3>2. \A f \in Fibers \ {task[t].fiber} : fstate'[f] = fstate[f]
      BY <1>2, <2>5 DEF Resume, Inv, TypeOK
    <3>3. \A u \in Threads : At(u) \in InFiber => task[u].fiber \in Fibers
      BY TaskFiber DEF BusyLabels, InFiber
    <3>4. holder[task[t].fiber] = t
      BY <2>1 DEF FiberInv, InFiber
    <3> QED BY <2>1, <2>3, <3>1, <3>2, <3>3, <3>4 DEF FiberInv, Moved, InFiber
  <2> QED BY <2>4, <2>5
<1>3. ASSUME NEW t \in Threads, Yield(t) \/ Finish(t) PROVE FiberInv'
  <2>1. At(t) \in {"body", "yield"} /\ Moved(t, "unlock")
    BY <1>3, ControlFlow
  <2>2. task' = task /\ holder' = holder
    BY <1>3 DEF Yield, Finish
  <2>3. task[t].fiber \in Fibers
    BY <2>1, TaskFiber DEF BusyLabels
  <2>4. /\ \A f \in Fibers \ {task[t].fiber} : fstate'[f] = fstate[f]
        /\ fstate'[task[t].fiber] # "RUNNING"
    BY <1>3, <2>3 DEF Yield, Finish, Inv, TypeOK
  <2>5. \A u \in Threads : At(u) \in InFiber => task[u].fiber \in Fibers
    BY TaskFiber DEF BusyLabels, InFiber
  <2> QED BY <2>1, <2>2, <2>3, <2>4, <2>5 DEF FiberInv, Moved, InFiber
<1>4. ASSUME NEW t \in Threads, UnlockFiber(t) PROVE FiberInv'
  <2>1. At(t) = "unlock" /\ Moved(t, "deactivate")
    BY <1>4, ControlFlow
  <2>2. task[t].fiber \in Fibers
    BY <2>1, TaskFiber DEF BusyLabels
  <2>3. \A u \in Threads \ {t} :
          At(u) \in InFiber => /\ task[u].fiber # task[t].fiber
                               /\ task[u].fiber \in Fibers
    BY <2>1, TaskFiber DEF FiberInv, InFiber, BusyLabels
  <2>4. /\ task' = task /\ fstate' = fstate
        /\ holder' = [holder EXCEPT ![task[t].fiber] = AnyThread]
    BY <1>4 DEF UnlockFiber
  <2> QED BY <2>1, <2>2, <2>3, <2>4 DEF FiberInv, Inv, TypeOK, Moved, InFiber
<1>5. ASSUME NEW t \in Threads, Take(t) PROVE FiberInv'
  <2>1. \E l \in {"noTask", "exec"} : Moved(t, l)
    BY <1>5, ControlFlow
  <2>2. \A u \in Threads \ {t} : task'[u] = task[u]
    BY <1>5 DEF Take, Inv, TypeOK
  <2> QED BY <1>5, <2>1, <2>2, FiberFrame DEF Take, InFiber
<1>6. ASSUME NEW t \in Threads, TickleStep(t) PROVE FiberInv'
  BY <1>6, ControlFlow DEF TickleStep, FiberInv
<1>7. ASSUME NEW t \in Threads, NEW g \in Fibers, Spawn(t, g) PROVE FiberInv'
  BY <1>7, ControlFlow, FiberFrame DEF Spawn
<1>8. ASSUME NEW t \in Threads, Sleep(t) PROVE FiberInv'
  BY <1>8, ControlFlow, FiberFrame DEF Sleep
<1>9. ASSUME NEW t \in Threads, AddEvent(t) PROVE FiberInv'
  BY <1>9, ControlFlow, FiberFrame DEF AddEvent
<1>10. ASSUME NEW t \in Threads, RunTimerCb(t) PROVE FiberInv'
  BY <1>10, ControlFlow, FiberFrame DEF RunTimerCb, InFiber
<1>11. ASSUME NEW t \in Threads, Deactivate(t) PROVE FiberInv'
  <2>1. \A u \in Threads \ {t} : task'[u] = task[u]
    BY <1>11 DEF Deactivate, Inv, TypeOK
  <2> QED BY <1>11, <2>1, ControlFlow, FiberFrame DEF Deactivate, InFiber
<1>12. ASSUME NEW t \in Threads, RunIdle(t) PROVE FiberInv'
  <2>1. CASE \E f \in Fibers : SkipEvent(t, f)
    BY <2>1 DEF SkipEvent, FiberInv, At
  <2>2. CASE DrainTickle(t)
    BY <2>2 DEF DrainTickle, FiberInv, At
  <2>3. CASE \E f \in Fibers : ScheduleExpired(t, f) \/ TriggerEvent(t, f)
    <3>1. \E l \in {"schedule", "pendingDown"} : Moved(t, l)
      BY <2>3, ControlFlow
    <3>2. UNCHANGED <<holder, fstate, task>>
      BY <2>3 DEF ScheduleExpired, TriggerEvent
    <3> QED BY <3>1, <3>2, FiberFrame DEF InFiber
  <2>4. CASE StoppingTimers(t) \/ StoppingPending(t) \/ StoppingQueue(t)
    <3>1. \E l \in {"stopPending", "stopQueue", "leaveIdle", "nextTimer"} : Moved(t, l)
      BY <2>4, ControlFlow
    <3>2. UNCHANGED <<holder, fstate, task>>
      BY <2>4 DEF StoppingTimers, StoppingPending, StoppingQueue
    <3> QED BY <3>1, <3>2, FiberFrame DEF InFiber
  <2>5. CASE LeaveRun(t) \/ EnterIdle(t) \/ LeaveIdle(t) \/ IdleYield(t)
    <3>1. \E l \in {"exited", "stopTimers", "take", "leaveIdle"} : Moved(t, l)
      BY <2>5, ControlFlow
    <3>2. UNCHANGED <<holder, fstate, task>>
      BY <2>5 DEF LeaveRun, EnterIdle, LeaveIdle, IdleYield
    <3> QED BY <3>1, <3>2, FiberFrame DEF InFiber
  <2>6. CASE NextTimer(t) \/ EpollWait(t) \/ ListExpiredCb(t) \/ AllScheduled(t)
             \/ PendingDown(t)
    <3>1. \E l \in {"epollWait", "expire", "schedule", "handle"} : Moved(t, l)
      BY <2>6, ControlFlow
    <3>2. UNCHANGED <<holder, fstate, task>>
      BY <2>6 DEF NextTimer, EpollWait, ListExpiredCb, AllScheduled, PendingDown
    <3> QED BY <3>1, <3>2, FiberFrame DEF InFiber
  <2> QED BY <1>12, <2>1, <2>2, <2>3, <2>4, <2>5, <2>6 DEF RunIdle
<1>13. ASSUME CallerStep PROVE FiberInv'
  <2>1. \E l \in {"main", "stopping", "take", "done"} : Moved(Caller, l)
    BY <1>13, CallerFlow DEF CallerStep
  <2>2. UNCHANGED <<holder, fstate, task>>
    BY <1>13 DEF CallerStep, Submit, Stop, StopTickle, Join
  <2> QED BY <2>1, <2>2, FiberFrame DEF InFiber
<1>14. ASSUME Environment \/ UNCHANGED vars PROVE FiberInv'
  BY <1>14 DEF Environment, TimerDue, IoReady, vars, FiberInv, At
<1> QED
  BY <1>1, <1>2, <1>3, <1>4, <1>5, <1>6, <1>7, <1>8, <1>9, <1>10, <1>11, <1>12,
     <1>13, <1>14 DEF Next, ThreadStep, RunTask, Terminated

-----------------------------------------------------------------------------
(* Every variable keeps its type, whatever the pool and the fibers are.    *)
THEOREM TypeCorrect == Spec => []TypeOK
<1>1. Spec => []Inv
  BY InvInit, InvNext, PTL DEF Spec
<1>2. Inv => TypeOK
  BY DEF Inv
<1> QED BY <1>1, <1>2, PTL

(* No fiber is ever on two threads, and Fiber::resume never meets a RUNNING*)
(* fiber: the fiber's m_mutex protects a fiber that was rescheduled before *)
(* it has yielded, for every pool and every set of fibers.                 *)
THEOREM FiberExclusion == Spec => []FiberExclusive
<1>1. Inv /\ FiberInv => FiberExclusive
  BY DEF Inv, TypeOK, FiberInv, FiberExclusive, Running, InFiber, At
<1>2. Spec => [](Inv /\ FiberInv)
  BY InvInit, InvNext, FiberInvInit, FiberInvNext, PTL DEF Spec
<1> QED BY <1>1, <1>2, PTL

-----------------------------------------------------------------------------
(* Tasks and takers.  WorkHasATaker is inductive: a thread goes away from  *)
(* the queue only after it found no task it may run, and whoever adds a    *)
(* task is itself on the way to the queue.                                 *)

(* The queue is empty initially.                                           *)
LEMMA WorkInit == Init => WorkHasATaker
BY DEF Init, WorkHasATaker

(* A thread that arrives at a label on the way to the queue is a taker.    *)
LEMMA TakerStays ==
  ASSUME NEW t \in Threads, NEW l, Moved(t, l), l \notin Away
  PROVE  WorkHasATaker'
BY DEF WorkHasATaker, WillTake, Moved, Away

(* A step of a thread that was no taker anyway, and leaves the queue alone,*)
(* takes no taker away.                                                    *)
LEMMA AwayStays ==
  ASSUME WorkHasATaker, NEW t \in Threads, NEW l, Moved(t, l),
         At(t) \in Away, tasks' = tasks
  PROVE  WorkHasATaker'
BY DEF WorkHasATaker, WillTake, Moved, Away

(* Every step keeps a taker for the queued work.                           *)
LEMMA WorkNext == Inv /\ WorkHasATaker /\ [Next]_vars => WorkHasATaker'
<1> SUFFICES ASSUME Inv, WorkHasATaker, [Next]_vars PROVE WorkHasATaker'
  OBVIOUS
<1> USE PoolAssumption
<1> USE DEF queueVars, fiberVars, timerVars, eventVars, idleVars
<1>1. ASSUME NEW t \in Threads, Take(t) PROVE WorkHasATaker'
  <2>1. CASE Eligible(t) = {}
    BY <1>1, <2>1 DEF Take, Eligible, WorkHasATaker
  <2>2. CASE Eligible(t) # {}
    <3>1. Moved(t, "exec")
      BY <1>1, <2>2, JumpMoves DEF Take, Inv, Labels
    <3> QED BY <3>1, TakerStays DEF Away
  <2> QED BY <2>1, <2>2
<1>2. ASSUME NEW t \in Threads, TickleStep(t) PROVE WorkHasATaker'
  BY <1>2, ControlFlow DEF TickleStep, WorkHasATaker, WillTake
<1>3. ASSUME NEW t \in Threads,
             \/ LockFiber(t) \/ Resume(t) \/ Sleep(t) \/ AddEvent(t) \/ Yield(t)
             \/ Finish(t) \/ UnlockFiber(t) \/ RunTimerCb(t) \/ Deactivate(t)
             \/ \E g \in Fibers : Spawn(t, g)
      PROVE  WorkHasATaker'
  <2>1. \E l \in {"locked", "unlock", "body", "yield", "deactivate", "take"} :
          Moved(t, l)
    BY <1>3, ControlFlow
  <2> QED BY <2>1, TakerStays DEF Away
<1>4. ASSUME NEW t \in Threads,
             \/ LeaveRun(t) \/ EnterIdle(t) \/ StoppingTimers(t)
             \/ StoppingPending(t) \/ StoppingQueue(t) \/ NextTimer(t)
      PROVE  WorkHasATaker'
  <2>1. At(t) \in Away /\ \E l : Moved(t, l)
    BY <1>4, ControlFlow DEF Away
  <2>2. tasks' = tasks
    BY <1>4 DEF LeaveRun, EnterIdle, StoppingTimers, StoppingPending,
                StoppingQueue, NextTimer
  <2> QED BY <2>1, <2>2, AwayStays
<1>5. ASSUME NEW t \in Threads,
             \/ EpollWait(t) \/ ListExpiredCb(t) \/ AllScheduled(t)
             \/ PendingDown(t) \/ IdleYield(t) \/ LeaveIdle(t)
             \/ \E f \in Fibers : ScheduleExpired(t, f) \/ TriggerEvent(t, f)
      PROVE  WorkHasATaker'
  <2>1. \E l \in {"expire", "schedule", "handle", "leaveIdle", "take",
                  "pendingDown"} : Moved(t, l)
    BY <1>5, ControlFlow
  <2> QED BY <2>1, TakerStays DEF Away
<1>6. ASSUME NEW t \in Threads, NEW f \in Fibers, SkipEvent(t, f)
      PROVE  WorkHasATaker'
  BY <1>6 DEF SkipEvent, WorkHasATaker, WillTake, At
<1>7. ASSUME NEW f \in Fibers, NEW thr \in Pins, Submit(f, thr) PROVE WorkHasATaker'
  BY <1>7, CallerFlow, TakerStays DEF Away
<1>8. ASSUME Stop \/ StopTickle PROVE WorkHasATaker'
  <2>1. \E l \in {"stopping", "take"} : Moved(Caller, l)
    BY <1>8, CallerFlow
  <2> QED BY <2>1, TakerStays DEF Away
<1>9. ASSUME Join PROVE WorkHasATaker'
  BY <1>9, CallerFlow, AwayStays DEF Join, Away
<1>10. ASSUME Environment \/ UNCHANGED vars PROVE WorkHasATaker'
  BY <1>10 DEF Environment, TimerDue, IoReady, vars, WorkHasATaker, WillTake, At
<1>11. ASSUME NEW t \in Threads, DrainTickle(t) PROVE WorkHasATaker'
  BY <1>11 DEF DrainTickle, WorkHasATaker, WillTake, At
<1> QED
  BY <1>1, <1>2, <1>3, <1>4, <1>5, <1>6, <1>7, <1>8, <1>9, <1>10, <1>11
     DEF Next, ThreadStep, RunTask, RunIdle, CallerStep, Terminated

(* While a task any thread may run is queued, some thread is on its way to *)
(* the queue: the pool never falls asleep or exits over such a task.       *)
THEOREM NoStrandedTask == Spec => []WorkHasATaker
<1>1. Spec => [](Inv /\ WorkHasATaker)
  BY InvInit, InvNext, WorkInit, WorkNext, PTL DEF Spec
<1> QED BY <1>1, PTL

-----------------------------------------------------------------------------
(* Shutdown.  m_activeThreadCount is the number of threads that have a     *)
(* task, and the idle fiber of a thread returns only after stop() was      *)
(* called, when nobody can submit a pinned task any more.                  *)

Busy == {t \in Threads : task[t] # NoTask}

CountInv == active = Cardinality(Busy)

ExitInv ==
    /\ At(Caller) = "main" => ~stopFlag
    /\ \A t \in Threads : idleTerm[t] =>
          stopFlag /\ \A i \in DOMAIN tasks : tasks[i].thread = AnyThread
    /\ \A t \in Threads : At(t) \in {"exited", "done"} => idleTerm[t]
    /\ At(Caller) = "done" => \A w \in Threads : At(w) \in {"exited", "done"}

(* The threads that have a task are finitely many.                         *)
LEMMA BusyFinite == IsFiniteSet(Busy)
BY FiniteAssumption, FS_Subset DEF Busy

(* No thread has a task initially.                                         *)
LEMMA CountInit == Init => CountInv
<1> SUFFICES ASSUME Init PROVE CountInv
  OBVIOUS
<1>1. Busy = {}
  BY DEF Init, Busy
<1> QED BY <1>1, FS_EmptySet DEF Init, CountInv

(* m_activeThreadCount changes exactly when a thread gets or drops its task.*)
LEMMA CountNext == Inv /\ CountInv /\ [Next]_vars => CountInv'
<1> SUFFICES ASSUME Inv, CountInv, [Next]_vars PROVE CountInv'
  OBVIOUS
<1> USE DEF queueVars, fiberVars, timerVars, eventVars, idleVars
<1>1. ASSUME NEW t \in Threads, Take(t), Eligible(t) = {} PROVE CountInv'
  <2>1. task[t] = NoTask
    BY <1>1, ControlFlow DEF Inv, ThreadInv, BusyLabels
  <2>2. task' = task /\ active' = active
    BY <1>1, <2>1 DEF Take, Inv, TypeOK
  <2> QED BY <2>2 DEF CountInv, Busy
<1>2. ASSUME NEW t \in Threads, Take(t), Eligible(t) # {} PROVE CountInv'
  <2>1. task[t] = NoTask
    BY <1>2, ControlFlow DEF Inv, ThreadInv, BusyLabels
  <2>2. PICK i \in DOMAIN tasks : task' = [task EXCEPT ![t] = tasks[i]]
    BY <1>2 DEF Take, Eligible
  <2>3. tasks[i] # NoTask
    BY TaskTypes DEF Inv, TypeOK
  <2>4. Busy' = Busy \cup {t} /\ t \notin Busy
    BY <2>1, <2>2, <2>3 DEF Busy, Inv, TypeOK
  <2>5. active' = active + 1
    BY <1>2 DEF Take
  <2> QED BY <2>4, <2>5, BusyFinite, FS_AddElement DEF CountInv
<1>3. ASSUME NEW t \in Threads, Deactivate(t) PROVE CountInv'
  <2>1. t \in Busy
    BY <1>3, ControlFlow DEF Inv, ThreadInv, BusyLabels, Busy
  <2>2. Busy' = Busy \ {t}
    BY <1>3 DEF Deactivate, Busy, Inv, TypeOK
  <2>3. active' = active - 1
    BY <1>3 DEF Deactivate
  <2> QED BY <2>1, <2>2, <2>3, BusyFinite, FS_RemoveElement DEF CountInv
<1>4. ASSUME UNCHANGED <<task, active>> PROVE CountInv'
  BY <1>4 DEF CountInv, Busy
<1>5. ASSUME NEW t \in Threads, RunTask(t), ~Take(t), ~Deactivate(t)
      PROVE  UNCHANGED <<task, active>>
  BY <1>5 DEF RunTask, TickleStep, LockFiber, Resume, Spawn, Sleep, AddEvent,
              Yield, Finish, UnlockFiber, RunTimerCb
<1>6. ASSUME NEW t \in Threads, RunIdle(t) PROVE UNCHANGED <<task, active>>
  BY <1>6 DEF RunIdle, LeaveRun, EnterIdle, StoppingTimers, StoppingPending,
              StoppingQueue, NextTimer, EpollWait, ListExpiredCb,
              ScheduleExpired, AllScheduled, DrainTickle, SkipEvent,
              TriggerEvent, PendingDown, IdleYield, LeaveIdle
<1>7. ASSUME CallerStep \/ Environment PROVE UNCHANGED <<task, active>>
  BY <1>7 DEF CallerStep, Submit, Stop, StopTickle, Join, Environment, TimerDue,
              IoReady
<1> QED
  BY <1>1, <1>2, <1>3, <1>4, <1>5, <1>6, <1>7
     DEF Next, ThreadStep, Terminated, vars

(* The idle fiber of a thread returns only at a moment when the queue is   *)
(* empty and no thread of the pool has a task.                             *)
THEOREM QuiescentExit == Spec => ExitOnlyWhenQuiescent
<1> USE DEF queueVars, fiberVars, timerVars, eventVars, idleVars
<1> DEFINE Exit == \A t \in Threads :
              ~idleTerm[t] /\ idleTerm'[t]
                 => tasks = <<>> /\ \A u \in Threads : task[u] = NoTask
<1>1. ASSUME NEW t \in Threads, RunTask(t) PROVE idleTerm' = idleTerm
  BY <1>1 DEF RunTask, Take, TickleStep, LockFiber, Resume, Spawn, Sleep,
              AddEvent, Yield, Finish, UnlockFiber, RunTimerCb, Deactivate
<1>2. ASSUME NEW t \in Threads, RunIdle(t), ~StoppingQueue(t)
      PROVE  idleTerm' = idleTerm
  BY <1>2 DEF RunIdle, LeaveRun, EnterIdle, StoppingTimers, StoppingPending,
              NextTimer, EpollWait, ListExpiredCb, ScheduleExpired,
              AllScheduled, DrainTickle, SkipEvent, TriggerEvent, PendingDown,
              IdleYield, LeaveIdle
<1>3. ASSUME CallerStep \/ Environment PROVE idleTerm' = idleTerm
  BY <1>3 DEF CallerStep, Submit, Stop, StopTickle, Join, Environment, TimerDue,
              IoReady
<1>4. ASSUME Inv, CountInv, NEW t \in Threads, StoppingQueue(t) PROVE Exit
  <2>1. CASE SchedulerStopping
    <3>1. Busy = {}
      BY <1>4, <2>1, BusyFinite, FS_EmptySet DEF CountInv, SchedulerStopping
    <3> QED BY <2>1, <3>1 DEF Busy, SchedulerStopping
  <2>2. CASE ~SchedulerStopping
    BY <1>4, <2>2 DEF StoppingQueue, Inv, TypeOK
  <2> QED BY <2>1, <2>2
<1>5. Inv /\ CountInv /\ [Next]_vars => [Exit]_vars
  BY <1>1, <1>2, <1>3, <1>4 DEF Next, ThreadStep, Terminated, vars
<1>6. Spec => [](Inv /\ CountInv)
  BY InvInit, InvNext, CountInit, CountNext, PTL DEF Spec
<1>7. [](Inv /\ CountInv) /\ [][Next]_vars => [][Exit]_vars
  BY <1>5, PTL
<1> QED BY <1>6, <1>7, PTL DEF Spec, ExitOnlyWhenQuiescent

(* No idle fiber has returned initially.                                   *)
LEMMA ExitInit == Init => ExitInv
BY PoolAssumption DEF Init, ExitInv, At

(* A step that neither ends at "exited" or "done" nor starts there, and    *)
(* changes neither the flags nor the queue, keeps the invariant.           *)
LEMMA ExitFrame ==
  ASSUME ExitInv, NEW t \in Threads, NEW l, Moved(t, l),
         At(t) \notin {"exited", "done"}, l \notin {"main", "exited", "done"},
         UNCHANGED <<stopFlag, idleTerm>>,
         stopFlag => \A i \in DOMAIN tasks' :
                        \/ tasks'[i].thread = AnyThread
                        \/ \E k \in DOMAIN tasks : tasks'[i] = tasks[k]
  PROVE  ExitInv'
BY PoolAssumption DEF ExitInv, Moved

(* What a push leaves in the queue.                                        *)
LEMMA PushedTasks ==
  ASSUME tasks \in Seq(Task), NEW tsk, tsk.thread = AnyThread,
         tasks' = Append(tasks, tsk)
  PROVE  \A i \in DOMAIN tasks' :
            \/ tasks'[i].thread = AnyThread
            \/ \E k \in DOMAIN tasks : tasks'[i] = tasks[k]
OBVIOUS

(* Every step preserves the exit invariant.                                *)
LEMMA ExitNext == Inv /\ ExitInv /\ [Next]_vars => ExitInv'
<1> SUFFICES ASSUME Inv, ExitInv, [Next]_vars PROVE ExitInv'
  OBVIOUS
<1> USE PoolAssumption
<1> USE DEF queueVars, fiberVars, timerVars, eventVars, idleVars
<1>a. tasks \in Seq(Task)
  BY DEF Inv, TypeOK
<1>1. ASSUME NEW t \in Threads, Take(t) PROVE ExitInv'
  <2>1. \A i \in DOMAIN tasks' : \E k \in DOMAIN tasks : tasks'[i] = tasks[k]
    BY <1>a, <1>1, RemoveTaskType DEF Take, Eligible
  <2>2. At(t) = "take" /\ \E l \in {"noTask", "exec"} : Moved(t, l)
    BY <1>1, ControlFlow
  <2>3. UNCHANGED <<stopFlag, idleTerm>>
    BY <1>1 DEF Take
  <2> QED BY <2>1, <2>2, <2>3, ExitFrame
<1>2. ASSUME NEW t \in Threads, TickleStep(t) PROVE ExitInv'
  BY <1>2, ControlFlow DEF TickleStep, ExitInv
<1>3. ASSUME NEW t \in Threads,
             RunTimerCb(t) \/ \E g \in Fibers : Spawn(t, g)
      PROVE  ExitInv'
  <2>1. At(t) \in {"exec", "body"} /\ \E l \in {"deactivate", "body"} : Moved(t, l)
    BY <1>3, ControlFlow
  <2>2. PICK tsk : tsk.thread = AnyThread /\ tasks' = Append(tasks, tsk)
    BY <1>3 DEF RunTimerCb, Spawn, ScheduleLock, FiberTask, CbTask
  <2>3. UNCHANGED <<stopFlag, idleTerm>>
    BY <1>3 DEF RunTimerCb, Spawn
  <2> QED BY <1>a, <2>1, <2>2, <2>3, PushedTasks, ExitFrame
<1>4. ASSUME NEW t \in Threads, NEW f \in Fibers,
             ScheduleExpired(t, f) \/ TriggerEvent(t, f)
      PROVE  ExitInv'
  <2>1. /\ At(t) \in {"schedule", "handle"}
        /\ \E l \in {"schedule", "pendingDown"} : Moved(t, l)
    BY <1>4, ControlFlow
  <2>2. PICK tsk : tsk.thread = AnyThread /\ tasks' = Append(tasks, tsk)
    BY <1>4 DEF ScheduleExpired, TriggerEvent, ScheduleLock, FiberTask, TimerTask
  <2>3. UNCHANGED <<stopFlag, idleTerm>>
    BY <1>4 DEF ScheduleExpired, TriggerEvent
  <2> QED BY <1>a, <2>1, <2>2, <2>3, PushedTasks, ExitFrame
<1>5. ASSUME NEW t \in Threads,
             \/ LockFiber(t) \/ Resume(t) \/ Sleep(t) \/ AddEvent(t) \/ Yield(t)
             \/ Finish(t) \/ UnlockFiber(t) \/ Deactivate(t)
      PROVE  ExitInv'
  <2>1. At(t) \in BusyLabels
    BY <1>5, ControlFlow DEF BusyLabels
  <2>2. \E l \in BusyLabels \cup {"take"} : Moved(t, l)
    BY <1>5, ControlFlow DEF BusyLabels
  <2>3. UNCHANGED <<stopFlag, idleTerm, tasks>>
    BY <1>5 DEF LockFiber, Resume, Sleep, AddEvent, Yield, Finish, UnlockFiber,
                Deactivate
  <2> QED BY <2>1, <2>2, <2>3, ExitFrame DEF BusyLabels
<1>6. ASSUME NEW t \in Threads,
             \/ EnterIdle(t) \/ StoppingTimers(t) \/ StoppingPending(t)
             \/ NextTimer(t) \/ EpollWait(t) \/ ListExpiredCb(t)
             \/ AllScheduled(t) \/ PendingDown(t) \/ IdleYield(t) \/ LeaveIdle(t)
      PROVE  ExitInv'
  <2>1. At(t) \notin {"exited", "done"}
    BY <1>6, ControlFlow
  <2>2. \E l \in {"stopTimers", "stopPending", "stopQueue", "nextTimer",
                  "epollWait", "expire", "schedule", "handle", "leaveIdle",
                  "take"} : Moved(t, l)
    BY <1>6, ControlFlow
  <2>3. UNCHANGED <<stopFlag, idleTerm, tasks>>
    BY <1>6 DEF EnterIdle, StoppingTimers, StoppingPending, NextTimer,
                EpollWait, ListExpiredCb, AllScheduled, PendingDown, IdleYield,
                LeaveIdle
  <2> QED BY <2>1, <2>2, <2>3, ExitFrame
<1>7. ASSUME NEW t \in Threads, StoppingQueue(t) PROVE ExitInv'
  <2>1. At(t) = "stopQueue" /\ \E l \in {"leaveIdle", "nextTimer"} : Moved(t, l)
    BY <1>7, ControlFlow
  <2>2. UNCHANGED <<stopFlag, tasks>>
    BY <1>7 DEF StoppingQueue
  <2>3. \A u \in Threads \ {t} : idleTerm'[u] = idleTerm[u]
    BY <1>7 DEF StoppingQueue, Inv, TypeOK
  <2>4. idleTerm'[t] => stopFlag /\ tasks = <<>>
    BY <1>7 DEF StoppingQueue, SchedulerStopping, Inv, TypeOK
  <2> QED BY <2>1, <2>2, <2>3, <2>4 DEF ExitInv, Moved
<1>8. ASSUME NEW t \in Threads, LeaveRun(t) PROVE ExitInv'
  <2>1. At(t) = "noTask" /\ Moved(t, "exited") /\ idleTerm[t]
    BY <1>8, ControlFlow DEF LeaveRun
  <2>2. UNCHANGED <<stopFlag, tasks, idleTerm>>
    BY <1>8 DEF LeaveRun
  <2> QED BY <2>1, <2>2 DEF ExitInv, Moved
<1>9. ASSUME NEW t \in Threads, NEW f \in Fibers, SkipEvent(t, f)
      PROVE  ExitInv'
  BY <1>9 DEF SkipEvent, ExitInv, At
<1>10. ASSUME NEW t \in Threads, DrainTickle(t) PROVE ExitInv'
  BY <1>10 DEF DrainTickle, ExitInv, At
<1>11. ASSUME NEW f \in Fibers, NEW thr \in Pins, Submit(f, thr) PROVE ExitInv'
  <2>1. At(Caller) = "main" /\ Moved(Caller, "main")
    BY <1>11, CallerFlow
  <2>2. UNCHANGED <<stopFlag, idleTerm>>
    BY <1>11 DEF Submit
  <2> QED BY <2>1, <2>2 DEF ExitInv, Moved
<1>12. ASSUME Stop \/ StopTickle PROVE ExitInv'
  <2>1. /\ At(Caller) \in {"main", "stopping"}
        /\ \E l \in {"stopping", "take"} : Moved(Caller, l)
    BY <1>12, CallerFlow
  <2>2. UNCHANGED <<tasks, idleTerm>> /\ (stopFlag => stopFlag')
    BY <1>12 DEF Stop, StopTickle
  <2> QED BY <2>1, <2>2 DEF ExitInv, Moved
<1>13. ASSUME Join PROVE ExitInv'
  <2>1. At(Caller) = "exited" /\ Moved(Caller, "done")
    BY <1>13, CallerFlow
  <2>2. \A w \in Threads : At(w) \in {"exited", "done"}
    BY <1>13, <2>1 DEF Join, Workers, At
  <2>3. UNCHANGED <<stopFlag, tasks, idleTerm>>
    BY <1>13 DEF Join
  <2> QED BY <2>1, <2>2, <2>3 DEF ExitInv, Moved
<1>14. ASSUME Environment \/ UNCHANGED vars PROVE ExitInv'
  BY <1>14 DEF Environment, TimerDue, IoReady, vars, ExitInv, At
<1> QED
  BY <1>1, <1>2, <1>3, <1>4, <1>5, <1>6, <1>7, <1>8, <1>9, <1>10, <1>11, <1>12,
     <1>13, <1>14 DEF Next, ThreadStep, RunTask, RunIdle, CallerStep, Terminated

(* When stop() has returned, m_stopping is set, the queue is empty and no  *)
(* thread is active: the assert of ~Scheduler holds, also with tasks that  *)
(* were pinned to a thread before stop() was called.                       *)
THEOREM DestructorSafe == Spec => []DestructorAssert
<1>1. Inv /\ WorkHasATaker /\ CountInv /\ ExitInv => DestructorAssert
  <2> SUFFICES ASSUME Inv, WorkHasATaker, CountInv, ExitInv, pc[Caller] = "done"
               PROVE  SchedulerStopping
    BY DEF DestructorAssert
  <2>1. \A t \in Threads : At(t) \in {"exited", "done"}
    BY DEF ExitInv, At
  <2>2. stopFlag /\ \A i \in DOMAIN tasks : tasks[i].thread = AnyThread
    BY <2>1, PoolAssumption DEF ExitInv
  <2>3. DOMAIN tasks = {}
    BY <2>1, <2>2 DEF WorkHasATaker, WillTake, Away
  <2>4. tasks = <<>>
    BY <2>3 DEF Inv, TypeOK
  <2>5. Busy = {}
    BY <2>1 DEF Busy, Inv, ThreadInv, BusyLabels
  <2>6. active = 0
    BY <2>5, FS_EmptySet DEF CountInv
  <2> QED BY <2>2, <2>4, <2>6 DEF SchedulerStopping
<1>2. Spec => [](Inv /\ WorkHasATaker /\ CountInv /\ ExitInv)
  BY InvInit, InvNext, WorkInit, WorkNext, CountInit, CountNext, ExitInit,
     ExitNext, PTL DEF Spec
<1> QED BY <1>1, <1>2, PTL

-----------------------------------------------------------------------------
(* Wakeups.  The places that hold a right to resume fiber f, one set for   *)
(* each kind of place, and the threads that have entered f and not yet     *)
(* registered a wait of it.                                                *)

InQueue(f) == {i \in DOMAIN tasks : tasks[i].fiber = f}
Taken(f)   == {t \in Threads : At(t) = "exec" /\ task[t].fiber = f}
Expired(f) == {t \in Threads : f \in cbs[t]}
Inside(f)  == {t \in Threads : At(t) \in {"locked", "body"} /\ task[t].fiber = f}

(* f has not been submitted, lost its timer, has returned, or runs towards *)
(* a wait.                                                                 *)
NeedsNone(f) ==
    f \in fresh \cup lost \/ fstate[f] = "TERM" \/ Inside(f) # {}

(* A fiber whose timer was dropped had been submitted and never runs again.*)
StaysLost(f) == f \in lost => f \notin fresh /\ Inside(f) = {}

NoWakeup(f) ==
    /\ InQueue(f) = {} /\ Taken(f) = {} /\ Expired(f) = {}
    /\ f \notin timers /\ f \notin events

Singleton(S) == \E x \in S : S = {x}

(* Exactly one place holds the wakeup of f.                                *)
SingleWakeup(f) ==
    \/ /\ Singleton(InQueue(f)) /\ Taken(f) = {} /\ Expired(f) = {}
       /\ f \notin timers /\ f \notin events
    \/ /\ InQueue(f) = {} /\ Singleton(Taken(f)) /\ Expired(f) = {}
       /\ f \notin timers /\ f \notin events
    \/ /\ InQueue(f) = {} /\ Taken(f) = {} /\ Singleton(Expired(f))
       /\ f \notin timers /\ f \notin events
    \/ /\ InQueue(f) = {} /\ Taken(f) = {} /\ Expired(f) = {}
       /\ f \in timers /\ f \notin events
    \/ /\ InQueue(f) = {} /\ Taken(f) = {} /\ Expired(f) = {}
       /\ f \notin timers /\ f \in events

Balanced(f) ==
    /\ StaysLost(f)
    /\ IF NeedsNone(f) THEN NoWakeup(f) ELSE SingleWakeup(f)

(* A fiber that was never submitted is in no hands, only a thread inside   *)
(* idle()'s loop over the expired timers has some, and a fiber that runs   *)
(* towards its yield() is RUNNING.                                         *)
PlaceInv ==
    /\ \A f \in fresh : fstate[f] = "NONE" /\ \A t \in Threads : task[t].fiber # f
    /\ \A t \in Threads : At(t) # "schedule" => cbs[t] = {}
    /\ \A t \in Threads :
          At(t) \in {"body", "yield"} => fstate[task[t].fiber] = "RUNNING"

WakeInv == PlaceInv /\ \A f \in Fibers : Balanced(f)

(* Nobody is inside a fiber, nothing is queued and nothing waits initially.*)
LEMMA WakeInit == Init => WakeInv
<1> SUFFICES ASSUME Init PROVE WakeInv
  OBVIOUS
<1>1. \A t \in Threads : At(t) \in {"main", "take"} /\ task[t] = NoTask
  BY DEF Init, At
<1>2. PlaceInv
  BY <1>1, FiberAssumption DEF Init, PlaceInv, NoTask
<1>3. ASSUME NEW f \in Fibers PROVE Balanced(f)
  <2>1. InQueue(f) = {} /\ Taken(f) = {} /\ Expired(f) = {}
    BY <1>1 DEF Init, InQueue, Taken, Expired
  <2>2. f \notin timers /\ f \notin events /\ f \in fresh
        /\ f \notin lost
    BY DEF Init
  <2> QED BY <2>1, <2>2 DEF Balanced, NeedsNone, NoWakeup, StaysLost
<1> QED BY <1>2, <1>3 DEF WakeInv

(* A step that neither adds nor takes a wakeup of f keeps its balance, even*)
(* when the queue shifts.                                                  *)
LEMMA BalancedFrame ==
  ASSUME NEW f, Balanced(f),
         InQueue(f) = {} => InQueue(f)' = {},
         Singleton(InQueue(f)) => Singleton(InQueue(f)'),
         Taken(f)' = Taken(f), Expired(f)' = Expired(f),
         f \in timers' <=> f \in timers, f \in events' <=> f \in events,
         NeedsNone(f)' <=> NeedsNone(f), StaysLost(f)' <=> StaysLost(f)
  PROVE  Balanced(f)'
<1>1. CASE NeedsNone(f)
  <2>1. NoWakeup(f)'
    BY <1>1 DEF Balanced, NoWakeup
  <2> QED BY <1>1, <2>1 DEF Balanced
<1>2. CASE ~NeedsNone(f)
  <2>1. SingleWakeup(f)
    BY <1>2 DEF Balanced
  <2>2. SingleWakeup(f)'
    BY <2>1 DEF SingleWakeup, Singleton
  <2> QED BY <1>2, <2>2 DEF Balanced
<1> QED BY <1>1, <1>2

(* A fiber with a wakeup has that one only, and needs it.                  *)
LEMMA TheWakeup ==
  ASSUME NEW f, Balanced(f)
  PROVE  /\ \A i \in InQueue(f) :
              /\ ~NeedsNone(f) /\ InQueue(f) = {i} /\ Taken(f) = {}
              /\ Expired(f) = {} /\ f \notin timers /\ f \notin events
         /\ \A t \in Taken(f) :
              /\ ~NeedsNone(f) /\ InQueue(f) = {} /\ Taken(f) = {t}
              /\ Expired(f) = {} /\ f \notin timers /\ f \notin events
         /\ \A t \in Expired(f) :
              /\ ~NeedsNone(f) /\ InQueue(f) = {} /\ Taken(f) = {}
              /\ Expired(f) = {t} /\ f \notin timers /\ f \notin events
         /\ f \in timers =>
              /\ ~NeedsNone(f) /\ InQueue(f) = {} /\ Taken(f) = {}
              /\ Expired(f) = {} /\ f \notin events
         /\ f \in events =>
              /\ ~NeedsNone(f) /\ InQueue(f) = {} /\ Taken(f) = {}
              /\ Expired(f) = {} /\ f \notin timers
<1>1. NeedsNone(f) => NoWakeup(f)
  BY DEF Balanced
<1>2. ~NeedsNone(f) => SingleWakeup(f)
  BY DEF Balanced
<1> QED BY <1>1, <1>2 DEF NoWakeup, SingleWakeup, Singleton

(* A fiber that has just been queued, and is nowhere else, is balanced.    *)
LEMMA NowQueued ==
  ASSUME NEW f, ~NeedsNone(f)', Singleton(InQueue(f)'), Taken(f)' = {},
         Expired(f)' = {}, f \notin timers', f \notin events'
  PROVE  Balanced(f)'
BY DEF Balanced, SingleWakeup, NeedsNone, StaysLost

(* scheduleLock adds a wakeup of its task's fiber and of no other one.     *)
LEMMA PushQueue ==
  ASSUME Inv, NEW tsk \in Task, tasks' = Append(tasks, tsk)
  PROVE  /\ \A f : f # tsk.fiber => InQueue(f)' = InQueue(f)
         /\ InQueue(tsk.fiber) = {} => Singleton(InQueue(tsk.fiber)')
<1>1. tasks \in Seq(Task) /\ Len(tasks) \in Nat /\ DOMAIN tasks = 1..Len(tasks)
  BY DEF Inv, TypeOK
<1>2. PICK n \in Nat : n = Len(tasks)
  BY <1>1
<1>3. /\ DOMAIN tasks = 1..n /\ DOMAIN tasks' = 1..(n + 1)
      /\ tasks'[n + 1] = tsk /\ \A i \in 1..n : tasks'[i] = tasks[i]
  BY <1>1, <1>2
<1>4. \A i : i \in 1..(n + 1) <=> i \in 1..n \/ i = n + 1
  OBVIOUS
<1>5. ASSUME NEW f, f # tsk.fiber PROVE InQueue(f)' = InQueue(f)
  BY <1>3, <1>4, <1>5 DEF InQueue
<1>6. ASSUME InQueue(tsk.fiber) = {} PROVE InQueue(tsk.fiber)' = {n + 1}
  <2>1. \A i \in 1..n : tasks[i].fiber # tsk.fiber
    BY <1>3, <1>6 DEF InQueue
  <2> QED BY <1>3, <1>4, <2>1 DEF InQueue
<1>7. ASSUME InQueue(tsk.fiber) = {} PROVE Singleton(InQueue(tsk.fiber)')
  BY <1>6, <1>7 DEF Singleton
<1> QED BY <1>5, <1>7

(* Taking task i out of the queue takes away one wakeup of its fiber and   *)
(* shifts the others.                                                      *)
LEMMA PopQueue ==
  ASSUME Inv, NEW i \in DOMAIN tasks, tasks' = RemoveTask(i),
         NEW g, g = tasks[i].fiber
  PROVE  /\ InQueue(g) = {i} => InQueue(g)' = {}
         /\ \A f : InQueue(f) = {} => InQueue(f)' = {}
         /\ \A f : f # g /\ Singleton(InQueue(f))
                     => Singleton(InQueue(f)')
<1>1. tasks \in Seq(Task) /\ Len(tasks) \in Nat /\ DOMAIN tasks = 1..Len(tasks)
  BY DEF Inv, TypeOK
<1>2. PICK n \in Nat : n = Len(tasks)
  BY <1>1
<1>3. i \in 1..n /\ DOMAIN tasks = 1..n
  BY <1>1, <1>2
<1>4. /\ DOMAIN tasks' = 1..(n - 1)
      /\ \A j \in 1..(n - 1) :
           tasks'[j] = IF j < i THEN tasks[j] ELSE tasks[j + 1]
  BY <1>1, <1>2 DEF RemoveTask
<1> DEFINE Old(j) == IF j < i THEN j ELSE j + 1
<1>5. \A j \in 1..(n - 1) :
        Old(j) \in 1..n /\ Old(j) # i /\ tasks'[j] = tasks[Old(j)]
  BY <1>3, <1>4
<1>6. \A j, k \in 1..(n - 1) : Old(j) = Old(k) => j = k
  BY <1>3
<1>7. \A k \in 1..n : k # i => \E j \in 1..(n - 1) : Old(j) = k
  <2> SUFFICES ASSUME NEW k \in 1..n, k # i
               PROVE  \E j \in 1..(n - 1) : Old(j) = k
    OBVIOUS
  <2>1. CASE k < i
    <3>1. k \in 1..(n - 1) /\ Old(k) = k
      BY <1>3, <2>1
    <3> QED BY <3>1
  <2>2. CASE k > i
    <3>1. k - 1 \in 1..(n - 1) /\ Old(k - 1) = k
      BY <1>3, <2>2
    <3> QED BY <3>1
  <2> QED BY <1>3, <2>1, <2>2
<1> HIDE DEF Old
<1>8. \A f : InQueue(f)' = {j \in 1..(n - 1) : tasks[Old(j)].fiber = f}
  BY <1>4, <1>5 DEF InQueue
<1>9. \A f : InQueue(f) = {k \in 1..n : tasks[k].fiber = f}
  BY <1>3 DEF InQueue
<1>10. ASSUME InQueue(g) = {i} PROVE InQueue(g)' = {}
  <2>1. \A k \in 1..n : k # i => tasks[k].fiber # g
    BY <1>9, <1>10
  <2> QED BY <1>5, <1>8, <2>1
<1>11. ASSUME NEW f, InQueue(f) = {} PROVE InQueue(f)' = {}
  BY <1>5, <1>8, <1>9, <1>11
<1>12. ASSUME NEW f, f # g, Singleton(InQueue(f))
       PROVE  Singleton(InQueue(f)')
  <2>1. PICK k \in InQueue(f) : InQueue(f) = {k}
    BY <1>12 DEF Singleton
  <2>2. k \in 1..n /\ tasks[k].fiber = f /\ k # i
    BY <1>9, <1>12, <2>1
  <2>3. PICK j \in 1..(n - 1) : Old(j) = k
    BY <1>7, <2>2
  <2>4. j \in InQueue(f)'
    BY <1>8, <2>2, <2>3
  <2>5. \A m \in InQueue(f)' : m = j
    <3> SUFFICES ASSUME NEW m \in InQueue(f)' PROVE m = j
      OBVIOUS
    <3>1. m \in 1..(n - 1) /\ tasks[Old(m)].fiber = f
      BY <1>8
    <3>2. Old(m) = k
      BY <1>5, <1>9, <2>1, <3>1
    <3> QED BY <1>6, <2>3, <3>1, <3>2
  <2>6. InQueue(f)' = {j}
    BY <2>4, <2>5
  <2> QED BY <2>4, <2>6 DEF Singleton
<1> QED BY <1>10, <1>11, <1>12

(* A thread that moves to l with the task it then has changes the sets of  *)
(* threads that have taken f, or are inside f, by itself only.             *)
LEMMA MoveSets ==
  ASSUME NEW t \in Threads, NEW l, Moved(t, l),
         \A u \in Threads \ {t} : task'[u] = task[u], NEW f
  PROVE  /\ Taken(f)' = (Taken(f) \ {t})
              \cup {u \in {t} : l = "exec" /\ task'[t].fiber = f}
         /\ Inside(f)' = (Inside(f) \ {t})
              \cup {u \in {t} : l \in {"locked", "body"} /\ task'[t].fiber = f}
<1>1. /\ At(t)' = l
      /\ \A u \in Threads \ {t} : At(u)' = At(u) /\ task'[u] = task[u]
  BY DEF Moved
<1>2. Taken(f)' = {u \in Threads : At(u)' = "exec" /\ task'[u].fiber = f}
  BY DEF Taken
<1>3. Inside(f)' = {u \in Threads : At(u)' \in {"locked", "body"}
                                    /\ task'[u].fiber = f}
  BY DEF Inside
<1> QED BY <1>1, <1>2, <1>3 DEF Taken, Inside

(* A step after which every thread is where it was, with what it had.      *)
LEMMA SameStep ==
  ASSUME WakeInv, \A u \in Threads : At(u)' = At(u),
         UNCHANGED <<tasks, task, cbs, timers, lost, events, fresh, fstate>>
  PROVE  WakeInv'
<1>1. PlaceInv'
  BY DEF WakeInv, PlaceInv
<1>2. ASSUME NEW f \in Fibers PROVE Balanced(f)'
  <2>1. /\ InQueue(f)' = InQueue(f) /\ Taken(f)' = Taken(f)
        /\ Expired(f)' = Expired(f) /\ Inside(f)' = Inside(f)
    BY DEF InQueue, Taken, Expired, Inside
  <2>2. (NeedsNone(f)' <=> NeedsNone(f)) /\ (StaysLost(f)' <=> StaysLost(f))
    BY <2>1 DEF NeedsNone, StaysLost
  <2> QED BY <2>1, <2>2, BalancedFrame DEF WakeInv
<1> QED BY <1>1, <1>2 DEF WakeInv

(* A step of a thread outside its fibers that moves no wakeup.             *)
LEMMA QuietStep ==
  ASSUME Inv, WakeInv, NEW t \in Threads, NEW l, Moved(t, l),
         At(t) \notin {"exec", "locked", "body"},
         l \notin {"exec", "locked", "body", "yield"},
         At(t) = "schedule" /\ l # "schedule" => cbs[t] = {},
         \A u \in Threads \ {t} : task'[u] = task[u],
         task'[t] \in {task[t], NoTask},
         UNCHANGED <<tasks, cbs, timers, lost, events, fresh, fstate>>
  PROVE  WakeInv'
<1>1. PlaceInv
  BY DEF WakeInv
<1>2. At(t)' = l /\ \A u \in Threads \ {t} : At(u)' = At(u)
  BY DEF Moved
<1>3. PlaceInv'
  <2>1. ASSUME NEW f \in fresh, NEW u \in Threads PROVE task'[u].fiber # f
    <3>1. f \in Fibers /\ task[u].fiber # f
      BY <1>1 DEF Inv, TypeOK, PlaceInv
    <3> QED BY <3>1, FiberAssumption DEF NoTask
  <2>2. \A u \in Threads : At(u)' # "schedule" => cbs'[u] = {}
    BY <1>1, <1>2 DEF PlaceInv
  <2>3. \A u \in Threads :
          At(u)' \in {"body", "yield"} => fstate'[task'[u].fiber] = "RUNNING"
    BY <1>1, <1>2 DEF PlaceInv
  <2> QED BY <1>1, <2>1, <2>2, <2>3 DEF PlaceInv
<1>4. ASSUME NEW f \in Fibers PROVE Balanced(f)'
  <2>1. t \notin Taken(f) /\ t \notin Inside(f)
    BY DEF Taken, Inside
  <2>2. Taken(f)' = Taken(f) /\ Inside(f)' = Inside(f)
    BY <2>1, MoveSets
  <2>3. InQueue(f)' = InQueue(f) /\ Expired(f)' = Expired(f)
    BY DEF InQueue, Expired
  <2>4. (NeedsNone(f)' <=> NeedsNone(f)) /\ (StaysLost(f)' <=> StaysLost(f))
    BY <2>2 DEF NeedsNone, StaysLost
  <2> QED BY <2>2, <2>3, <2>4, BalancedFrame DEF WakeInv
<1> QED BY <1>3, <1>4 DEF WakeInv

(* A step of thread t that concerns the wakeup of fiber g leaves that of   *)
(* every other fiber alone.                                                *)
LEMMA OtherFibers ==
  ASSUME WakeInv, NEW t \in Threads, NEW l, Moved(t, l), NEW g,
         \A u \in Threads \ {t} : task'[u] = task[u],
         \/ l = At(t) /\ task'[t] = task[t]
         \/ /\ At(t) \in {"exec", "locked", "body"} => task[t].fiber = g
            /\ l \in {"exec", "locked", "body"} => task'[t].fiber = g,
         \A f \in Fibers \ {g} :
            /\ InQueue(f) = {} => InQueue(f)' = {}
            /\ Singleton(InQueue(f)) => Singleton(InQueue(f)')
            /\ Expired(f)' = Expired(f)
            /\ f \in timers' <=> f \in timers
            /\ f \in events' <=> f \in events
            /\ f \in fresh' <=> f \in fresh
            /\ f \in lost' <=> f \in lost
            /\ fstate'[f] = fstate[f],
         Balanced(g)'
  PROVE  \A f \in Fibers : Balanced(f)'
<1> SUFFICES ASSUME NEW f \in Fibers, f # g PROVE Balanced(f)'
  OBVIOUS
<1>1. Balanced(f)
  BY DEF WakeInv
<1>2. Taken(f)' = Taken(f) /\ Inside(f)' = Inside(f)
  <2>1. /\ Taken(f)' = (Taken(f) \ {t})
             \cup {u \in {t} : l = "exec" /\ task'[t].fiber = f}
        /\ Inside(f)' = (Inside(f) \ {t})
             \cup {u \in {t} : l \in {"locked", "body"} /\ task'[t].fiber = f}
    BY MoveSets
  <2>2. /\ t \in Taken(f) <=> At(t) = "exec" /\ task[t].fiber = f
        /\ t \in Inside(f) <=> At(t) \in {"locked", "body"} /\ task[t].fiber = f
    BY DEF Taken, Inside
  <2>3. /\ t \in Taken(f) <=> l = "exec" /\ task'[t].fiber = f
        /\ t \in Inside(f) <=> l \in {"locked", "body"} /\ task'[t].fiber = f
    BY <2>2
  <2> QED BY <2>1, <2>3
<1>3. (NeedsNone(f)' <=> NeedsNone(f)) /\ (StaysLost(f)' <=> StaysLost(f))
  BY <1>2 DEF NeedsNone, StaysLost
<1> QED BY <1>1, <1>2, <1>3, BalancedFrame

(* Two threads are never inside one fiber.                                 *)
LEMMA Alone ==
  ASSUME Inv, FiberInv, NEW t \in Threads, At(t) \in InFiber,
         NEW u \in Threads \ {t}, At(u) \in InFiber
  PROVE  task[u].fiber # task[t].fiber
BY DEF FiberInv

(* The callbacks that the caller and running fibers submit.                *)
LEMMA WakeSubmit ==
  ASSUME Inv, WakeInv, NEW t \in Threads, NEW l, NEW g \in fresh,
         NEW thr \in Threads \cup {AnyThread}, Moved(t, l), l = At(t),
         fresh' = fresh \ {g}, tasks' = Append(tasks, CbTask(g, thr)),
         UNCHANGED <<task, fstate, timers, lost, events, cbs>>
  PROVE  WakeInv'
<1>1. PlaceInv /\ g \in Fibers
  BY DEF WakeInv, Inv, TypeOK
<1>2. At(t)' = At(t) /\ \A u \in Threads \ {t} : At(u)' = At(u)
  BY DEF Moved
<1>3. PlaceInv'
  BY <1>1, <1>2 DEF PlaceInv
<1>4. CbTask(g, thr) \in Task /\ CbTask(g, thr).fiber = g
  BY <1>1, TaskTypes DEF CbTask
<1>5. /\ \A f : f # g => InQueue(f)' = InQueue(f)
      /\ InQueue(g) = {} => Singleton(InQueue(g)')
  <2>1. PICK tsk \in Task : tsk = CbTask(g, thr)
    BY <1>4
  <2>2. tasks' = Append(tasks, tsk) /\ tsk.fiber = g
    BY <1>4, <2>1
  <2> QED BY <2>2, PushQueue
<1>6. \A f : Expired(f)' = Expired(f)
  BY DEF Expired
<1>7. NoWakeup(g) /\ Inside(g) = {} /\ fstate[g] = "NONE" /\ g \notin lost
  <2>1. Balanced(g) /\ NeedsNone(g)
    BY <1>1 DEF WakeInv, NeedsNone
  <2>2. NoWakeup(g) /\ g \notin lost
    BY <2>1 DEF Balanced, StaysLost
  <2> QED BY <1>1, <2>2 DEF PlaceInv, Inside
<1>8. Taken(g)' = Taken(g) /\ Inside(g)' = Inside(g)
  BY <1>2 DEF Taken, Inside
<1>9. Balanced(g)'
  <2>1. ~NeedsNone(g)'
    BY <1>7, <1>8 DEF NeedsNone
  <2>2. /\ Singleton(InQueue(g)') /\ Taken(g)' = {} /\ Expired(g)' = {}
        /\ g \notin timers' /\ g \notin events'
    BY <1>5, <1>6, <1>7, <1>8 DEF NoWakeup
  <2> QED BY <2>1, <2>2, NowQueued
<1>10. \A f \in Fibers : Balanced(f)'
  BY <1>5, <1>6, <1>9, OtherFibers
<1> QED BY <1>3, <1>10 DEF WakeInv

(* A wakeup moves to the queue: the callback of an expired timer, or the   *)
(* fiber that waited for an event or for a timer's callback.               *)
LEMMA WakeMoved ==
  ASSUME Inv, WakeInv, NEW t \in Threads, NEW l, NEW g \in Fibers,
         NEW tsk \in Task, tsk.fiber = g, Moved(t, l),
         tasks' = Append(tasks, tsk),
         At(t) \in {"exec", "locked", "body"} => task[t].fiber = g,
         At(t) \notin {"locked", "body"},
         l \notin {"exec", "locked", "body", "yield"},
         UNCHANGED <<task, fstate, fresh, lost>>,
         \A u \in Threads : At(u)' # "schedule" => cbs'[u] = {},
         \A f \in Fibers \ {g} :
            /\ Expired(f)' = Expired(f)
            /\ f \in timers' <=> f \in timers
            /\ f \in events' <=> f \in events,
         ~NeedsNone(g), InQueue(g) = {}, Expired(g)' = {},
         At(t) # "exec" => Taken(g) = {}, At(t) = "exec" => Taken(g) = {t},
         g \notin timers', g \notin events'
  PROVE  WakeInv'
<1>1. PlaceInv
  BY DEF WakeInv
<1>2. At(t)' = l /\ \A u \in Threads \ {t} : At(u)' = At(u)
  BY DEF Moved
<1>3. PlaceInv'
  BY <1>1, <1>2 DEF PlaceInv
<1>4. /\ \A f : f # g => InQueue(f)' = InQueue(f)
      /\ Singleton(InQueue(g)')
  BY PushQueue
<1>5. Taken(g)' = {} /\ Inside(g)' = Inside(g)
  <2>1. /\ Taken(g)' = (Taken(g) \ {t})
             \cup {u \in {t} : l = "exec" /\ task'[t].fiber = g}
        /\ Inside(g)' = (Inside(g) \ {t})
             \cup {u \in {t} : l \in {"locked", "body"} /\ task'[t].fiber = g}
    BY MoveSets
  <2>2. t \notin Inside(g)
    BY DEF Inside
  <2>3. Taken(g) \ {t} = {}
    OBVIOUS
  <2> QED BY <2>1, <2>2, <2>3
<1>6. Balanced(g)'
  <2>1. ~NeedsNone(g)'
    BY <1>5 DEF NeedsNone
  <2> QED BY <1>4, <1>5, <2>1, NowQueued
<1>7. \A f \in Fibers : Balanced(f)'
  BY <1>4, <1>6, OtherFibers
<1> QED BY <1>3, <1>7 DEF WakeInv

(* The three steps that move a wakeup to the queue.                        *)
LEMMA WakeRunTimerCb ==
  ASSUME Inv, WakeInv, NEW t \in Threads, RunTimerCb(t)
  PROVE  WakeInv'
<1>1. At(t) = "exec" /\ Moved(t, "deactivate")
  BY ControlFlow
<1>2. PICK g \in Fibers : g = task[t].fiber
  BY <1>1, TaskFiber DEF BusyLabels
<1>3. PICK tsk \in Task : tsk = FiberTask(g)
  BY TaskTypes
<1>4. tsk.fiber = g
  BY <1>3 DEF FiberTask
<1>5. /\ tasks' = Append(tasks, tsk)
      /\ UNCHANGED <<task, fstate, fresh, lost, cbs, timers, events>>
  BY <1>2, <1>3 DEF RunTimerCb, ScheduleLock, fiberVars, timerVars, eventVars,
                    idleVars
<1>6. t \in Taken(g)
  BY <1>1, <1>2 DEF Taken
<1>7. Balanced(g) /\ PlaceInv
  BY DEF WakeInv
<1>8. /\ ~NeedsNone(g) /\ InQueue(g) = {} /\ Taken(g) = {t}
      /\ Expired(g) = {} /\ g \notin timers /\ g \notin events
  BY <1>6, <1>7, TheWakeup
<1>9. \A f : Expired(f)' = Expired(f)
  BY <1>5 DEF Expired
<1>10. \A u \in Threads : At(u)' # "schedule" => cbs'[u] = {}
  BY <1>1, <1>5, <1>7 DEF PlaceInv, Moved
<1> QED BY <1>1, <1>2, <1>4, <1>5, <1>8, <1>9, <1>10, WakeMoved

(* Queueing an expired callback preserves WakeInv: the wakeup of the       *)
(* fiber moves from the list of callbacks into the queue.                  *)
LEMMA WakeScheduleExpired ==
  ASSUME Inv, WakeInv, NEW t \in Threads, NEW g \in Fibers,
         ScheduleExpired(t, g)
  PROVE  WakeInv'
<1>1. At(t) = "schedule" /\ Moved(t, "schedule")
  BY ControlFlow
<1>2. PICK tsk \in Task : tsk = TimerTask(g)
  BY TaskTypes
<1>3. tsk.fiber = g
  BY <1>2 DEF TimerTask
<1>4. /\ tasks' = Append(tasks, tsk) /\ g \in cbs[t]
      /\ UNCHANGED <<task, fstate, fresh, lost, timers, events>>
      /\ cbs' = [cbs EXCEPT ![t] = @ \ {g}] /\ cbs \in [Threads -> SUBSET Fibers]
  BY <1>2 DEF ScheduleExpired, ScheduleLock, fiberVars, timerVars, eventVars,
              Inv, TypeOK
<1>5. /\ cbs'[t] = cbs[t] \ {g}
      /\ \A u \in Threads \ {t} : cbs'[u] = cbs[u]
  BY <1>4
<1>6. t \in Expired(g)
  BY <1>4 DEF Expired
<1>7. Balanced(g) /\ PlaceInv
  BY DEF WakeInv
<1>8. /\ ~NeedsNone(g) /\ InQueue(g) = {} /\ Taken(g) = {}
      /\ Expired(g) = {t} /\ g \notin timers /\ g \notin events
  BY <1>6, <1>7, TheWakeup
<1>9. Expired(g)' = {}
  <2>1. \A u \in Threads \ {t} : g \notin cbs[u]
    BY <1>8 DEF Expired
  <2> QED BY <1>5, <2>1 DEF Expired
<1>10. \A f \in Fibers \ {g} : Expired(f)' = Expired(f)
  BY <1>5 DEF Expired
<1>11. \A u \in Threads : At(u)' # "schedule" => cbs'[u] = {}
  BY <1>1, <1>5, <1>7 DEF PlaceInv, Moved
<1> QED BY <1>1, <1>3, <1>4, <1>8, <1>9, <1>10, <1>11, WakeMoved

(* triggerEvent preserves WakeInv: the wakeup of the fiber moves from the  *)
(* registration into the queue.                                            *)
LEMMA WakeTriggerEvent ==
  ASSUME Inv, WakeInv, NEW t \in Threads, NEW g \in Fibers, TriggerEvent(t, g)
  PROVE  WakeInv'
<1>1. At(t) = "handle" /\ Moved(t, "pendingDown")
  BY ControlFlow
<1>2. PICK tsk \in Task : tsk = FiberTask(g)
  BY TaskTypes
<1>3. tsk.fiber = g
  BY <1>2 DEF FiberTask
<1>4. /\ tasks' = Append(tasks, tsk) /\ g \in events
      /\ UNCHANGED <<task, fstate, fresh, lost, timers, cbs>>
      /\ events' = events \ {g}
  BY <1>2 DEF TriggerEvent, ScheduleLock, fiberVars, timerVars
<1>5. Balanced(g) /\ PlaceInv
  BY DEF WakeInv
<1>6. /\ ~NeedsNone(g) /\ InQueue(g) = {} /\ Taken(g) = {}
      /\ Expired(g) = {} /\ g \notin timers
  BY <1>4, <1>5, TheWakeup
<1>7. \A f : Expired(f)' = Expired(f)
  BY <1>4 DEF Expired
<1>8. \A u \in Threads : At(u)' # "schedule" => cbs'[u] = {}
  BY <1>1, <1>4, <1>5 DEF PlaceInv, Moved
<1> QED BY <1>1, <1>3, <1>4, <1>6, <1>7, <1>8, WakeMoved

(* listExpiredCb takes the wakeups of the overdue timers into its hands.   *)
LEMMA WakeListExpired ==
  ASSUME Inv, WakeInv, NEW t \in Threads, ListExpiredCb(t)
  PROVE  WakeInv'
<1>1. At(t) = "expire" /\ Moved(t, "schedule")
  BY ControlFlow
<1>2. /\ UNCHANGED <<tasks, task, fstate, fresh, lost, events>>
      /\ cbs' = [cbs EXCEPT ![t] = due] /\ timers' = timers \ due
      /\ due \subseteq timers /\ cbs \in [Threads -> SUBSET Fibers]
  BY DEF ListExpiredCb, queueVars, fiberVars, eventVars, Inv, TypeOK
<1>3. cbs'[t] = due /\ \A u \in Threads \ {t} : cbs'[u] = cbs[u]
  BY <1>2
<1>4. At(t)' = "schedule" /\ \A u \in Threads \ {t} : At(u)' = At(u)
  BY <1>1 DEF Moved
<1>5. PlaceInv /\ cbs[t] = {}
  BY <1>1 DEF WakeInv, PlaceInv
<1>6. PlaceInv'
  BY <1>2, <1>3, <1>4, <1>5 DEF PlaceInv
<1>7. ASSUME NEW f \in Fibers PROVE Balanced(f)'
  <2>1. Balanced(f)
    BY DEF WakeInv
  <2>2. /\ InQueue(f)' = InQueue(f) /\ Taken(f)' = Taken(f)
        /\ Inside(f)' = Inside(f)
    BY <1>1, <1>2, <1>4 DEF InQueue, Taken, Inside
  <2>3. (NeedsNone(f)' <=> NeedsNone(f)) /\ (StaysLost(f)' <=> StaysLost(f))
    BY <1>2, <2>2 DEF NeedsNone, StaysLost
  <2>4. CASE f \in due
    <3>1. /\ ~NeedsNone(f) /\ InQueue(f) = {} /\ Taken(f) = {}
          /\ Expired(f) = {} /\ f \notin events
      BY <1>2, <2>1, <2>4, TheWakeup
    <3>2. Expired(f)' = {t}
      <4>1. \A u \in Threads : f \notin cbs[u]
        BY <3>1 DEF Expired
      <4> QED BY <1>3, <2>4, <4>1 DEF Expired
    <3>3. Singleton(Expired(f)') /\ f \notin timers'
      BY <1>2, <2>4, <3>2 DEF Singleton
    <3> QED
      BY <1>2, <2>1, <2>2, <2>3, <3>1, <3>3 DEF Balanced, SingleWakeup
  <2>5. CASE f \notin due
    <3>1. Expired(f)' = Expired(f)
      BY <1>3, <1>5, <2>5 DEF Expired
    <3> QED BY <1>2, <2>1, <2>2, <2>3, <2>5, <3>1, BalancedFrame
  <2> QED BY <2>4, <2>5
<1> QED BY <1>6, <1>7 DEF WakeInv

(* run() takes a wakeup out of the queue.                                  *)
LEMMA WakeTake ==
  ASSUME Inv, WakeInv, NEW t \in Threads, Take(t)
  PROVE  WakeInv'
<1>1. At(t) = "take"
  BY ControlFlow
<1>2. UNCHANGED <<fstate, fresh, lost, events, timers, cbs>>
  BY DEF Take, fiberVars, eventVars, timerVars, idleVars
<1>3. CASE Eligible(t) = {}
  <2>1. Moved(t, "noTask")
    BY <1>3, JumpMoves DEF Take, Inv, Labels
  <2>2. tasks' = tasks /\ task' = [task EXCEPT ![t] = NoTask]
    BY <1>3 DEF Take
  <2>3. task'[t] = NoTask /\ \A u \in Threads \ {t} : task'[u] = task[u]
    BY <2>2 DEF Inv, TypeOK
  <2> QED BY <1>1, <1>2, <2>1, <2>2, <2>3, QuietStep
<1>4. CASE Eligible(t) # {}
  <2>1. Moved(t, "exec")
    BY <1>4, JumpMoves DEF Take, Inv, Labels
  <2>2. PICK i \in DOMAIN tasks : /\ task' = [task EXCEPT ![t] = tasks[i]]
                                  /\ tasks' = RemoveTask(i)
    BY <1>4 DEF Take, Eligible
  <2>3. task'[t] = tasks[i] /\ \A u \in Threads \ {t} : task'[u] = task[u]
    BY <2>2 DEF Inv, TypeOK
  <2>4. PICK g \in Fibers : g = tasks[i].fiber
    BY TaskTypes DEF Inv, TypeOK
  <2>5. Balanced(g) /\ PlaceInv
    BY DEF WakeInv
  <2>6. i \in InQueue(g)
    BY <2>4 DEF InQueue
  <2>7. /\ ~NeedsNone(g) /\ InQueue(g) = {i} /\ Taken(g) = {}
        /\ Expired(g) = {} /\ g \notin timers /\ g \notin events
    BY <2>5, <2>6, TheWakeup
  <2>8. /\ InQueue(g)' = {}
        /\ \A f : InQueue(f) = {} => InQueue(f)' = {}
        /\ \A f : f # g /\ Singleton(InQueue(f)) => Singleton(InQueue(f)')
    BY <2>2, <2>4, <2>7, PopQueue
  <2>9. \A f : Expired(f)' = Expired(f)
    BY <1>2 DEF Expired
  <2>10. t \notin Inside(g)
    BY <1>1 DEF Inside
  <2>11. Taken(g)' = {t} /\ Inside(g)' = Inside(g)
    <3>1. /\ Taken(g)' = (Taken(g) \ {t})
               \cup {u \in {t} : "exec" = "exec" /\ task'[t].fiber = g}
          /\ Inside(g)' = (Inside(g) \ {t})
               \cup {u \in {t} : /\ "exec" \in {"locked", "body"}
                                 /\ task'[t].fiber = g}
      BY <2>1, <2>3, MoveSets
    <3> QED BY <2>3, <2>4, <2>7, <2>10, <3>1
  <2>12. Balanced(g)'
    <3>1. ~NeedsNone(g)'
      BY <1>2, <2>7, <2>11 DEF NeedsNone
    <3>2. Singleton(Taken(g)')
      BY <2>11 DEF Singleton
    <3>3. SingleWakeup(g)'
      BY <1>2, <2>7, <2>8, <2>9, <3>2 DEF SingleWakeup
    <3> QED BY <3>1, <3>3 DEF Balanced, NeedsNone, StaysLost
  <2>13. \A f \in Fibers : Balanced(f)'
    BY <1>1, <1>2, <2>1, <2>3, <2>4, <2>8, <2>9, <2>12, OtherFibers
  <2>14. PlaceInv'
    <3>1. g \notin fresh
      BY <2>7 DEF NeedsNone
    <3>2. At(t)' = "exec" /\ \A u \in Threads \ {t} : At(u)' = At(u)
      BY <2>1 DEF Moved
    <3>3. \A f \in fresh, u \in Threads : task'[u].fiber # f
      BY <2>3, <2>4, <2>5, <3>1 DEF PlaceInv
    <3>4. \A u \in Threads : At(u)' # "schedule" => cbs'[u] = {}
      BY <1>1, <1>2, <2>5, <3>2 DEF PlaceInv
    <3>5. \A u \in Threads :
            At(u)' \in {"body", "yield"} => fstate'[task'[u].fiber] = "RUNNING"
      BY <1>2, <2>3, <2>5, <3>2 DEF PlaceInv
    <3> QED BY <1>2, <2>5, <3>3, <3>4, <3>5 DEF PlaceInv
  <2> QED BY <2>13, <2>14 DEF WakeInv
<1> QED BY <1>3, <1>4

(* A thread enters the fiber of its task and uses its wakeup up.           *)
LEMMA WakeLockFiber ==
  ASSUME Inv, FiberInv, WakeInv, NEW t \in Threads, LockFiber(t)
  PROVE  WakeInv'
<1>1. At(t) = "exec" /\ Moved(t, "locked")
  BY ControlFlow
<1>2. PICK g \in Fibers : g = task[t].fiber
  BY <1>1, TaskFiber DEF BusyLabels
<1>3. /\ UNCHANGED <<tasks, task, fresh, lost, events, timers, cbs>>
      /\ \A f \in Fibers \ {g} : fstate'[f] = fstate[f]
      /\ holder[g] = AnyThread
  BY <1>2 DEF LockFiber, queueVars, eventVars, timerVars, idleVars, Inv, TypeOK
<1>4. Balanced(g) /\ PlaceInv
  BY DEF WakeInv
<1>5. t \in Taken(g)
  BY <1>1, <1>2 DEF Taken
<1>6. /\ ~NeedsNone(g) /\ InQueue(g) = {} /\ Taken(g) = {t}
      /\ Expired(g) = {} /\ g \notin timers /\ g \notin events
  BY <1>4, <1>5, TheWakeup
<1>7. \A f : InQueue(f)' = InQueue(f) /\ Expired(f)' = Expired(f)
  BY <1>3 DEF InQueue, Expired
<1>8. At(t)' = "locked" /\ \A u \in Threads \ {t} : At(u)' = At(u)
  BY <1>1 DEF Moved
<1>9. t \in Inside(g)'
  BY <1>2, <1>3, <1>8 DEF Inside
<1>10. Taken(g)' = {}
  <2>1. \A u \in Threads \ {t} : ~(At(u) = "exec" /\ task[u].fiber = g)
    BY <1>6 DEF Taken
  <2> QED BY <1>3, <1>8, <2>1 DEF Taken
<1>11. Balanced(g)'
  <2>1. NeedsNone(g)'
    BY <1>9 DEF NeedsNone
  <2>2. NoWakeup(g)'
    BY <1>3, <1>6, <1>7, <1>10 DEF NoWakeup
  <2>3. StaysLost(g)'
    BY <1>3, <1>6 DEF NeedsNone, StaysLost
  <2> QED BY <2>1, <2>2, <2>3 DEF Balanced
<1>12. \A f \in Fibers : Balanced(f)'
  BY <1>1, <1>2, <1>3, <1>7, <1>11, OtherFibers
<1>13. PlaceInv'
  <2>1. g \notin fresh
    BY <1>6 DEF NeedsNone
  <2>2. \A f \in fresh : f \in Fibers \ {g}
    BY <2>1 DEF Inv, TypeOK
  <2>3. \A f \in fresh' : /\ fstate'[f] = "NONE"
                          /\ \A u \in Threads : task'[u].fiber # f
    BY <1>3, <1>4, <2>2 DEF PlaceInv
  <2>4. \A u \in Threads : At(u)' # "schedule" => cbs'[u] = {}
    BY <1>1, <1>3, <1>4, <1>8 DEF PlaceInv
  <2>5. ASSUME NEW u \in Threads, At(u)' \in {"body", "yield"}
        PROVE  fstate'[task'[u].fiber] = "RUNNING"
    <3>1. u # t /\ At(u) \in {"body", "yield"}
      BY <1>8, <2>5
    <3>2. holder[task[u].fiber] = u /\ task[u].fiber \in Fibers
      BY <3>1, TaskFiber DEF FiberInv, InFiber, BusyLabels
    <3>3. task[u].fiber \in Fibers \ {g}
      BY <1>3, <3>2, PoolAssumption
    <3> QED BY <1>3, <1>4, <3>1, <3>3 DEF PlaceInv
  <2> QED BY <2>3, <2>4, <2>5 DEF PlaceInv
<1> QED BY <1>12, <1>13 DEF WakeInv

(* The steps of a thread inside a fiber: what they have in common.         *)
LEMMA InsideStep ==
  ASSUME Inv, FiberInv, WakeInv, NEW t \in Threads, NEW l, Moved(t, l),
         NEW g \in Fibers, g = task[t].fiber,
         At(t) \in InFiber, l \in InFiber,
         UNCHANGED <<tasks, task, fresh, cbs>>,
         \A f \in Fibers \ {g} : /\ fstate'[f] = fstate[f]
                                 /\ f \in timers' <=> f \in timers
                                 /\ f \in lost' <=> f \in lost
                                 /\ f \in events' <=> f \in events,
         l \in {"body", "yield"} => fstate'[g] = "RUNNING",
         Balanced(g)'
  PROVE  WakeInv'
<1>1. PlaceInv
  BY DEF WakeInv
<1>2. At(t)' = l /\ \A u \in Threads \ {t} : At(u)' = At(u)
  BY DEF Moved
<1>3. \A f : InQueue(f)' = InQueue(f) /\ Expired(f)' = Expired(f)
  BY DEF InQueue, Expired
<1>4. \A f \in Fibers : Balanced(f)'
  BY <1>3, OtherFibers DEF InFiber
<1>5. PlaceInv'
  <2>1. \A f \in fresh : f \in Fibers \ {g}
    BY <1>1 DEF PlaceInv, Inv, TypeOK
  <2>2. \A f \in fresh' : /\ fstate'[f] = "NONE"
                          /\ \A u \in Threads : task'[u].fiber # f
    BY <1>1, <2>1 DEF PlaceInv
  <2>3. \A u \in Threads : At(u)' # "schedule" => cbs'[u] = {}
    BY <1>1, <1>2 DEF PlaceInv, InFiber
  <2>4. ASSUME NEW u \in Threads, At(u)' \in {"body", "yield"}
        PROVE  fstate'[task'[u].fiber] = "RUNNING"
    <3>1. CASE u = t
      BY <1>2, <2>4, <3>1
    <3>2. CASE u # t
      <4>1. At(u) \in {"body", "yield"}
        BY <1>2, <2>4, <3>2
      <4>2. task[u].fiber \in Fibers \ {g}
        BY <3>2, <4>1, Alone, TaskFiber DEF InFiber, BusyLabels
      <4> QED BY <1>1, <4>1, <4>2 DEF PlaceInv
    <3> QED BY <3>1, <3>2
  <2> QED BY <2>2, <2>3, <2>4 DEF PlaceInv
<1> QED BY <1>4, <1>5 DEF WakeInv

(* Who is inside the fiber of a thread that is: that thread alone.         *)
LEMMA InsideAlone ==
  ASSUME Inv, FiberInv, NEW t \in Threads, NEW l, Moved(t, l), NEW g,
         g = task[t].fiber, At(t) \in InFiber, UNCHANGED task
  PROVE  /\ Inside(g) = {u \in {t} : At(t) \in {"locked", "body"}}
         /\ Inside(g)' = {u \in {t} : l \in {"locked", "body"}}
         /\ l # "exec" => Taken(g)' = Taken(g)
<1>1. \A u \in Threads \ {t} : ~(At(u) \in {"locked", "body"} /\ task[u].fiber = g)
  BY Alone DEF InFiber
<1>2. Inside(g) = {u \in {t} : At(t) \in {"locked", "body"}}
  BY <1>1 DEF Inside
<1>3. /\ Taken(g)' = (Taken(g) \ {t})
           \cup {u \in {t} : l = "exec" /\ task'[t].fiber = g}
      /\ Inside(g)' = (Inside(g) \ {t})
           \cup {u \in {t} : l \in {"locked", "body"} /\ task'[t].fiber = g}
  BY MoveSets
<1>4. t \notin Taken(g)
  BY DEF Taken, InFiber
<1> QED BY <1>2, <1>3, <1>4

(* resume() of a fiber, or no resume() of one that has returned.           *)
LEMMA WakeResume ==
  ASSUME Inv, FiberInv, WakeInv, NEW t \in Threads, Resume(t)
  PROVE  WakeInv'
<1>1. At(t) = "locked" /\ At(t) \in InFiber
  BY ControlFlow DEF InFiber
<1>2. PICK g \in Fibers : g = task[t].fiber
  BY <1>1, TaskFiber DEF BusyLabels
<1>3. UNCHANGED <<tasks, task, fresh, lost, events, timers, cbs>>
  BY DEF Resume, queueVars, eventVars, timerVars, idleVars
<1>4. NeedsNone(g) /\ NoWakeup(g) /\ g \notin lost
  <2>1. t \in Inside(g)
    BY <1>1, <1>2 DEF Inside
  <2>2. NeedsNone(g)
    BY <2>1 DEF NeedsNone
  <2> QED BY <2>1, <2>2 DEF WakeInv, Balanced, StaysLost
<1>5. InQueue(g)' = InQueue(g) /\ Expired(g)' = Expired(g)
  BY <1>3 DEF InQueue, Expired
<1>6. CASE fstate[g] = "TERM"
  <2>1. Moved(t, "unlock") /\ fstate' = fstate
    BY <1>2, <1>6, JumpMoves DEF Resume, Inv, Labels
  <2>2. Taken(g)' = Taken(g)
    BY <1>1, <1>2, <1>3, <2>1, InsideAlone
  <2>3. Balanced(g)'
    BY <1>3, <1>4, <1>5, <1>6, <2>1, <2>2
       DEF Balanced, NeedsNone, NoWakeup, StaysLost
  <2> QED BY <1>1, <1>2, <1>3, <2>1, <2>3, InsideStep DEF InFiber
<1>7. CASE fstate[g] # "TERM"
  <2>1. Moved(t, "body")
    BY <1>2, <1>7, JumpMoves DEF Resume, Inv, Labels
  <2>2. fstate'[g] = "RUNNING" /\ \A f \in Fibers \ {g} : fstate'[f] = fstate[f]
    BY <1>2, <1>7 DEF Resume, Inv, TypeOK
  <2>3. Taken(g)' = Taken(g) /\ Inside(g)' = {t}
    BY <1>1, <1>2, <1>3, <2>1, InsideAlone
  <2>4. Balanced(g)'
    BY <1>3, <1>4, <1>5, <2>3 DEF Balanced, NeedsNone, NoWakeup, StaysLost
  <2> QED BY <1>1, <1>2, <1>3, <2>1, <2>2, <2>4, InsideStep DEF InFiber
<1> QED BY <1>6, <1>7

(* A running fiber registers its one wait.                                 *)
LEMMA WakeRegister ==
  ASSUME Inv, FiberInv, WakeInv, NEW t \in Threads, Sleep(t) \/ AddEvent(t)
  PROVE  WakeInv'
<1>1. At(t) = "body" /\ Moved(t, "yield") /\ At(t) \in InFiber
  BY ControlFlow DEF InFiber
<1>2. PICK g \in Fibers : g = task[t].fiber
  BY <1>1, TaskFiber DEF BusyLabels
<1>3. UNCHANGED <<tasks, task, fresh, fstate, cbs>>
  BY DEF Sleep, AddEvent, queueVars, idleVars
<1>4. \/ timers' = timers \cup {g} /\ events' = events /\ lost' = lost
      \/ events' = events \cup {g} /\ timers' = timers /\ lost' = lost
      \/ lost' = lost \cup {g} /\ timers' = timers /\ events' = events
  BY <1>2 DEF Sleep, AddEvent, timerVars, eventVars
<1>5. NoWakeup(g) /\ g \notin lost
  <2>1. t \in Inside(g)
    BY <1>1, <1>2 DEF Inside
  <2>2. NeedsNone(g)
    BY <2>1 DEF NeedsNone
  <2> QED BY <2>1, <2>2 DEF WakeInv, Balanced, StaysLost
<1>6. fstate[g] = "RUNNING" /\ g \notin fresh
  BY <1>1, <1>2 DEF WakeInv, PlaceInv
<1>7. Taken(g)' = Taken(g) /\ Inside(g)' = {}
  BY <1>1, <1>2, <1>3, InsideAlone
<1>8. InQueue(g)' = InQueue(g) /\ Expired(g)' = Expired(g)
  BY <1>3 DEF InQueue, Expired
<1>9. Balanced(g)'
  <2>1. StaysLost(g)'
    BY <1>3, <1>6, <1>7 DEF StaysLost
  <2>2. CASE lost' = lost
    <3>1. ~NeedsNone(g)'
      BY <1>3, <1>5, <1>6, <1>7, <2>2 DEF NeedsNone
    <3>2. timers' # timers \/ events' # events => SingleWakeup(g)'
      BY <1>4, <1>5, <1>7, <1>8 DEF SingleWakeup, NoWakeup
    <3>3. timers' # timers \/ events' # events
      BY <1>4, <1>5, <2>2 DEF NoWakeup
    <3> QED BY <2>1, <3>1, <3>2, <3>3 DEF Balanced
  <2>3. CASE lost' = lost \cup {g}
    <3>1. NeedsNone(g)'
      BY <2>3 DEF NeedsNone
    <3>2. timers' = timers /\ events' = events
      BY <1>4, <1>5, <2>3
    <3>3. NoWakeup(g)'
      BY <1>5, <1>7, <1>8, <3>2 DEF NoWakeup
    <3> QED BY <2>1, <3>1, <3>3 DEF Balanced
  <2> QED BY <1>4, <2>2, <2>3
<1> QED BY <1>1, <1>2, <1>3, <1>4, <1>6, <1>9, InsideStep DEF InFiber

(* A fiber yields, or returns.                                             *)
LEMMA WakeLeave ==
  ASSUME Inv, FiberInv, WakeInv, NEW t \in Threads, Yield(t) \/ Finish(t)
  PROVE  WakeInv'
<1>1. /\ Moved(t, "unlock") /\ At(t) \in InFiber
      /\ Yield(t) => At(t) = "yield"
      /\ Finish(t) => At(t) = "body"
  BY ControlFlow DEF InFiber
<1>2. PICK g \in Fibers : g = task[t].fiber
  BY <1>1, TaskFiber DEF BusyLabels, InFiber
<1>3. /\ UNCHANGED <<tasks, task, fresh, lost, timers, events, cbs>>
      /\ \A f \in Fibers \ {g} : fstate'[f] = fstate[f]
      /\ Yield(t) => fstate'[g] = "READY"
      /\ Finish(t) => fstate'[g] = "TERM"
  BY <1>2 DEF Yield, Finish, queueVars, timerVars, eventVars, idleVars, Inv,
              TypeOK
<1>4. /\ Inside(g) = {u \in {t} : At(t) \in {"locked", "body"}}
      /\ Inside(g)' = {} /\ Taken(g)' = Taken(g)
  BY <1>1, <1>2, <1>3, InsideAlone
<1>5. InQueue(g)' = InQueue(g) /\ Expired(g)' = Expired(g)
  BY <1>3 DEF InQueue, Expired
<1>6. Balanced(g) /\ PlaceInv
  BY DEF WakeInv
<1>7. CASE Yield(t)
  <2>1. fstate[g] = "RUNNING" /\ Inside(g) = {}
    BY <1>1, <1>2, <1>4, <1>6, <1>7 DEF PlaceInv
  <2>2. (NeedsNone(g)' <=> NeedsNone(g)) /\ (StaysLost(g)' <=> StaysLost(g))
    BY <1>3, <1>4, <1>7, <2>1 DEF NeedsNone, StaysLost
  <2>3. Balanced(g)'
    BY <1>3, <1>4, <1>5, <1>6, <2>2, BalancedFrame
  <2> QED BY <1>1, <1>2, <1>3, <2>3, InsideStep DEF InFiber
<1>8. CASE Finish(t)
  <2>1. Inside(g) # {}
    BY <1>1, <1>4, <1>8
  <2>2. NoWakeup(g) /\ g \notin lost
    BY <1>6, <2>1 DEF Balanced, NeedsNone, StaysLost
  <2>3. Balanced(g)'
    BY <1>3, <1>4, <1>5, <1>8, <2>2 DEF Balanced, NeedsNone, NoWakeup, StaysLost
  <2> QED BY <1>1, <1>2, <1>3, <2>3, InsideStep DEF InFiber
<1> QED BY <1>7, <1>8

(* Every step keeps the wakeups balanced.                                  *)
LEMMA WakeNext == Inv /\ FiberInv /\ WakeInv /\ [Next]_vars => WakeInv'
<1> SUFFICES ASSUME Inv, FiberInv, WakeInv, [Next]_vars PROVE WakeInv'
  OBVIOUS
<1> USE PoolAssumption
<1> USE DEF queueVars, fiberVars, timerVars, eventVars, idleVars
<1>1. ASSUME NEW t \in Threads, NEW g \in Fibers, Spawn(t, g) PROVE WakeInv'
  <2>1. At(t) = "body" /\ Moved(t, "body")
    BY <1>1, ControlFlow
  <2>2. /\ g \in fresh /\ fresh' = fresh \ {g}
        /\ tasks' = Append(tasks, CbTask(g, AnyThread))
        /\ UNCHANGED <<task, fstate, timers, lost, events, cbs>>
    BY <1>1 DEF Spawn, ScheduleLock
  <2> QED BY <2>1, <2>2, WakeSubmit
<1>2. ASSUME NEW g \in Fibers, NEW thr \in Pins, Submit(g, thr) PROVE WakeInv'
  <2>1. At(Caller) = "main" /\ Moved(Caller, "main")
    BY <1>2, CallerFlow
  <2>2. /\ g \in fresh /\ fresh' = fresh \ {g}
        /\ tasks' = Append(tasks, CbTask(g, thr))
        /\ UNCHANGED <<task, fstate, timers, lost, events, cbs>>
        /\ thr \in Threads \cup {AnyThread}
    BY <1>2, InputAssumption DEF Submit, ScheduleLock
  <2> QED BY <2>1, <2>2, WakeSubmit
<1>3. ASSUME NEW t \in Threads, TickleStep(t) PROVE WakeInv'
  BY <1>3, ControlFlow, SameStep DEF TickleStep
<1>4. ASSUME NEW t \in Threads, UnlockFiber(t) PROVE WakeInv'
  BY <1>4, ControlFlow, QuietStep DEF UnlockFiber
<1>5. ASSUME NEW t \in Threads, Deactivate(t) PROVE WakeInv'
  <2>1. At(t) = "deactivate" /\ Moved(t, "take")
    BY <1>5, ControlFlow
  <2>2. /\ task'[t] = NoTask /\ \A u \in Threads \ {t} : task'[u] = task[u]
        /\ UNCHANGED <<tasks, cbs, timers, lost, events, fresh, fstate>>
    BY <1>5 DEF Deactivate, Inv, TypeOK
  <2> QED BY <2>1, <2>2, QuietStep
<1>6. ASSUME NEW t \in Threads,
             \/ LeaveRun(t) \/ EnterIdle(t) \/ StoppingTimers(t)
             \/ StoppingPending(t) \/ StoppingQueue(t) \/ NextTimer(t)
             \/ EpollWait(t) \/ PendingDown(t) \/ IdleYield(t) \/ LeaveIdle(t)
      PROVE  WakeInv'
  <2>1. /\ At(t) \in {"noTask", "stopTimers", "stopPending", "stopQueue",
                      "nextTimer", "epollWait", "pendingDown", "handle",
                      "leaveIdle"}
        /\ \E l \in {"exited", "stopTimers", "stopPending", "stopQueue",
                     "leaveIdle", "nextTimer", "epollWait", "expire", "handle",
                     "take"} : Moved(t, l)
    BY <1>6, ControlFlow
  <2>2. UNCHANGED <<tasks, task, cbs, timers, lost, events, fresh, fstate>>
    BY <1>6 DEF LeaveRun, EnterIdle, StoppingTimers, StoppingPending,
                StoppingQueue, NextTimer, EpollWait, PendingDown, IdleYield,
                LeaveIdle
  <2> QED BY <2>1, <2>2, QuietStep
<1>7. ASSUME NEW t \in Threads, AllScheduled(t) PROVE WakeInv'
  <2>1. At(t) = "schedule" /\ Moved(t, "handle")
    BY <1>7, ControlFlow
  <2>2. /\ UNCHANGED <<tasks, task, cbs, timers, lost, events, fresh, fstate>>
        /\ cbs[t] = {}
    BY <1>7 DEF AllScheduled
  <2> QED BY <2>1, <2>2, QuietStep
<1>8. ASSUME NEW t \in Threads,
             DrainTickle(t) \/ \E f \in Fibers : SkipEvent(t, f)
      PROVE  WakeInv'
  <2>1. UNCHANGED <<tasks, task, cbs, timers, lost, events, fresh, fstate, pc, ret>>
    BY <1>8 DEF DrainTickle, SkipEvent
  <2>2. \A u \in Threads : At(u)' = At(u)
    BY <2>1 DEF At
  <2> QED BY <2>1, <2>2, SameStep
<1>9. ASSUME Stop \/ StopTickle PROVE WakeInv'
  <2>1. /\ At(Caller) \in {"main", "stopping"}
        /\ \E l \in {"stopping", "take"} : Moved(Caller, l)
    BY <1>9, CallerFlow
  <2>2. UNCHANGED <<tasks, task, cbs, timers, lost, events, fresh, fstate>>
    BY <1>9 DEF Stop, StopTickle
  <2> QED BY <2>1, <2>2, QuietStep
<1>10. ASSUME Join PROVE WakeInv'
  BY <1>10, CallerFlow, QuietStep DEF Join
<1>11. ASSUME Environment \/ UNCHANGED vars PROVE WakeInv'
  <2>1. UNCHANGED <<tasks, task, cbs, timers, lost, events, fresh, fstate, pc, ret>>
    BY <1>11 DEF Environment, TimerDue, IoReady, vars
  <2>2. \A u \in Threads : At(u)' = At(u)
    BY <2>1 DEF At
  <2> QED BY <2>1, <2>2, SameStep
<1>12. ASSUME NEW t \in Threads, RunTask(t) PROVE WakeInv'
  BY <1>1, <1>3, <1>4, <1>5, <1>12, WakeTake, WakeLockFiber, WakeResume,
     WakeRegister, WakeLeave, WakeRunTimerCb DEF RunTask
<1>13. ASSUME NEW t \in Threads, RunIdle(t) PROVE WakeInv'
  BY <1>6, <1>7, <1>8, <1>13, WakeListExpired, WakeScheduleExpired,
     WakeTriggerEvent DEF RunIdle
<1> QED
  BY <1>2, <1>9, <1>10, <1>11, <1>12, <1>13
     DEF Next, ThreadStep, CallerStep, Terminated

(* A balanced fiber has as many wakeups as OneWakeup says.                 *)
LEMMA CountWakeups ==
  ASSUME Inv, NEW f \in Fibers, Balanced(f)
  PROVE  Cardinality(Wakeups(f)) = IF NeedsNone(f) THEN 0 ELSE 1
<1>1. Wakeups(f) = {<<"queue", i>> : i \in InQueue(f)}
                     \cup {<<"taken", t>> : t \in Taken(f)}
                     \cup {<<"expired", t>> : t \in Expired(f)}
                     \cup (IF f \in timers THEN {<<"timer">>} ELSE {})
                     \cup (IF f \in events THEN {<<"event">>} ELSE {})
  BY DEF Wakeups, InQueue, Taken, Expired
<1>2. CASE NeedsNone(f)
  <2>1. Wakeups(f) = {}
    BY <1>1, <1>2 DEF Balanced, NoWakeup
  <2> QED BY <1>2, <2>1, FS_EmptySet
<1>3. CASE ~NeedsNone(f)
  <2>1. SingleWakeup(f)
    BY <1>3 DEF Balanced
  <2>2. \E w : Wakeups(f) = {w}
    <3>1. CASE Singleton(InQueue(f))
      <4>1. PICK i : InQueue(f) = {i}
        BY <3>1 DEF Singleton
      <4>2. /\ Taken(f) = {} /\ Expired(f) = {}
            /\ f \notin timers /\ f \notin events
        BY <2>1, <4>1 DEF SingleWakeup
      <4>3. Wakeups(f) = {<<"queue", i>>}
        BY <1>1, <4>1, <4>2
      <4> QED BY <4>3
    <3>2. CASE Singleton(Taken(f))
      <4>1. PICK t : Taken(f) = {t}
        BY <3>2 DEF Singleton
      <4>2. /\ InQueue(f) = {} /\ Expired(f) = {}
            /\ f \notin timers /\ f \notin events
        BY <2>1, <4>1 DEF SingleWakeup
      <4>3. Wakeups(f) = {<<"taken", t>>}
        BY <1>1, <4>1, <4>2
      <4> QED BY <4>3
    <3>3. CASE Singleton(Expired(f))
      <4>1. PICK t : Expired(f) = {t}
        BY <3>3 DEF Singleton
      <4>2. /\ InQueue(f) = {} /\ Taken(f) = {}
            /\ f \notin timers /\ f \notin events
        BY <2>1, <4>1 DEF SingleWakeup
      <4>3. Wakeups(f) = {<<"expired", t>>}
        BY <1>1, <4>1, <4>2
      <4> QED BY <4>3
    <3>4. CASE f \in timers
      <4>1. /\ InQueue(f) = {} /\ Taken(f) = {} /\ Expired(f) = {}
            /\ f \notin events
        BY <2>1, <3>4 DEF SingleWakeup
      <4>2. Wakeups(f) = {<<"timer">>}
        BY <1>1, <3>4, <4>1
      <4> QED BY <4>2
    <3>5. CASE f \in events
      <4>1. /\ InQueue(f) = {} /\ Taken(f) = {} /\ Expired(f) = {}
            /\ f \notin timers
        BY <2>1, <3>5 DEF SingleWakeup
      <4>2. Wakeups(f) = {<<"event">>}
        BY <1>1, <3>5, <4>1
      <4> QED BY <4>2
    <3> QED BY <2>1, <3>1, <3>2, <3>3, <3>4, <3>5 DEF SingleWakeup
  <2>3. PICK w : Wakeups(f) = {w}
    BY <2>2
  <2>4. Cardinality({w}) = 1
    BY FS_Singleton
  <2> QED BY <1>3, <2>3, <2>4
<1> QED BY <1>2, <1>3

(* A suspended fiber has exactly one wakeup outstanding, wherever it is,   *)
(* and a running or terminated one none: none is resumed twice for one     *)
(* wait, and none is lost but the sleepers whose timer the set dropped,    *)
(* for every pool and every set of fibers.                                 *)
THEOREM WakeupBalance == Spec => []OneWakeup
<1>1. Inv /\ WakeInv => OneWakeup
  <2> SUFFICES ASSUME Inv, WakeInv, NEW f \in Fibers
               PROVE  Cardinality(Wakeups(f)) =
                        IF \/ f \in fresh \cup lost \/ fstate[f] = "TERM"
                           \/ \E t \in Threads :
                                Running(t, f) /\ At(t) \in {"locked", "body"}
                        THEN 0 ELSE 1
    BY DEF OneWakeup
  <2>1. Cardinality(Wakeups(f)) = IF NeedsNone(f) THEN 0 ELSE 1
    BY CountWakeups DEF WakeInv
  <2>2. \A t \in Threads :
          t \in Inside(f) <=> Running(t, f) /\ At(t) \in {"locked", "body"}
    BY DEF Inside, Running, Inv, ThreadInv
  <2>3. Inside(f) # {} <=> \E t \in Threads :
                             Running(t, f) /\ At(t) \in {"locked", "body"}
    BY <2>2 DEF Inside
  <2> QED BY <2>1, <2>3 DEF NeedsNone
<1>2. Spec => [](Inv /\ FiberInv /\ WakeInv)
  BY InvInit, InvNext, FiberInvInit, FiberInvNext, WakeInit, WakeNext, PTL
     DEF Spec
<1> QED BY <1>1, <1>2, PTL

=============================================================================
