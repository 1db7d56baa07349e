SPECIFICATION ChainSpec
CONSTANTS
  r1 = r1
  r2 = r2
  p1 = p1
  b1 = b1
  b2 = b2
  t1 = t1
  Requests = {r1, r2}
  Plain = {p1}
  Bodies = {b1, b2}
  Tokens = {t1}
  NoReq = NoReq
  TTL = 1
  MaxTime = 1
SYMMETRY RequestSymmetry
CHECK_DEADLOCK FALSE
INVARIANTS
  ChainTypeOK
  RevokedRunsNothing
  RepliesWerePermitted
PROPERTIES
  ImplementsIdempotency
