SPECIFICATION Spec
CONSTANTS
  e1 = e1
  e2 = e2
  e3 = e3
  Events = {e1, e2, e3}
  Malformed = {}
  BatchSize = 2
  MaxRestarts = 1
  NoEvent = NoEvent
SYMMETRY EventSymmetry
INVARIANTS
  TypeOK
  AppendFits
  LossAccounted
CHECK_DEADLOCK FALSE
