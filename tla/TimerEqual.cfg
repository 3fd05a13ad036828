SPECIFICATION Spec
CONSTANTS
  Pools = {{p}}
  Timers = {a, b}
  Recurring = {}
  Periods = {1, 2}
  NewPeriods = {1, 2}
  MaxTimeout = 3
  Rollover = 1
  MaxTime = 4
  Setbacks = {}
  MaxSetbacks = 1
  SetbackPools = {}
CHECK_DEADLOCK FALSE
INVARIANT ArmedInHeap
