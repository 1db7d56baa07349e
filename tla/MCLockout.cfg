SPECIFICATION Spec
CONSTANTS
  a1 = a1
  a2 = a2
  a3 = a3
  Attempts = {a1, a2, a3}
  MaxFailed = 2
  LockoutDuration = 2
  AuditPortals = {"selfcare", "operator", "admin", "system"}
  MaxTime = 6
  MaxLost = 1
  NoLock = NoLock
SYMMETRY AttemptSymmetry
INVARIANTS
  TypeOK
  CounterMatchesLock
  CountedFailuresLock
  WrongsBounded
