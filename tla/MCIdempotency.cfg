SPECIFICATION Spec
CONSTANTS
  r1 = r1
  r2 = r2
  r3 = r3
  b1 = b1
  b2 = b2
  Requests = {r1, r2, r3}
  Bodies = {b1, b2}
  TTL = 1
  MaxTime = 2
  NoReq = NoReq
SYMMETRY RequestSymmetry
INVARIANTS
  TypeOK
  SequentialOnce
  ReplayIsOfSuccess
  TableReplayMatchesBody
CHECK_DEADLOCK FALSE
