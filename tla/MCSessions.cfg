SPECIFICATION Spec
CONSTANTS
  s1 = s1
  s2 = s2
  s3 = s3
  s4 = s4
  r1 = r1
  r2 = r2
  Sids = {s1, s2, s3, s4}
  Requests = {r1, r2}
  AccessTTL = 2
  RefreshTTL = 3
  MaxTime = 5
  MaxLost = 1
  NoSid = NoSid
SYMMETRY SessionSymmetry
CONSTRAINT FewSessions
INVARIANTS
  TypeOK
  EndedIsUnusable
  ExchangesBounded
PROPERTIES
  ImplementsTokenLife
