SPECIFICATION Spec
CONSTANTS
  Keys = {k1, k2, k3, k4}
  Values = {v1, v2}
  NoValue = noValue
  Capacities <- MCCapacities
  BlockSize = 13
  SlotSize = 4
  PtrSize = 2
  Align = 2
  Bases = {16, 32}
INVARIANTS SlotsSound MapMatchesList
PROPERTY Implements
