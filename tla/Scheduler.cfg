SPECIFICATION FairSpec
CONSTANTS
  Threads = {t0, t1}
  Caller = t0
  AnyThread = anyThread
  Fibers = {f1, f2}
  NoFiber = noFiber
  Roots = {f1}
  Pins = {t1}
  Tickle = ticklePipe
  MaxOps = 2
INVARIANTS TypeOK FiberExclusive OneWakeup WorkHasATaker DestructorAssert
PROPERTIES ExitOnlyWhenQuiescent StopReturns QueuedRuns
