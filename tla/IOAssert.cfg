SPECIFICATION Spec
CONSTANTS
  Fibers = {r, w}
  Readers = {r}
  Timed = {}
  Idlers = {i1, i2}
  MaxCalls = 1
  MaxArrivals = 2
CHECK_DEADLOCK FALSE
INVARIANT TriggerAssert
