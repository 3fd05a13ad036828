SPECIFICATION FairSpec
CONSTANTS
  Fibers = {r, w}
  Readers = {r}
  Timed = {}
  Idlers = {i1, i2}
  MaxCalls = 2
  MaxArrivals = 2
CHECK_DEADLOCK FALSE
PROPERTY ReadyWakes
