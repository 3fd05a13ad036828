SPECIFICATION FairSpec
CONSTANTS
  Pools = {{p}, {p, q}}
  Timers = {a, b}
  Recurring = {b}
  Periods = {0, 1}
  NewPeriods = {1}
  MaxTimeout = 2
  Rollover = 0
  MaxTime = 1
  Setbacks = {1}
  MaxSetbacks = 1
  SetbackPools = {{p}}
CHECK_DEADLOCK FALSE
INVARIANTS TypeOK OrderedSet FiresAtMostOnce NotAllOversleep
PROPERTIES CancelledNeverFires EventuallyExpires
