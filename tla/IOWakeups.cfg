SPECIFICATION Spec
CONSTANTS
  Fibers = {r, w}
  Readers = {r}
  Timed = {r}
  Idlers = {i1, i2}
  MaxCalls = 2
  MaxArrivals = 1
CHECK_DEADLOCK FALSE
SYMMETRY IdlerSymmetry
INVARIANTS TypeOK WaiterHasWakeup PendingCounts NoLostEdge
