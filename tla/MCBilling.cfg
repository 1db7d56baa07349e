SPECIFICATION MCSpec
CONSTANTS
  r1 = r1
  c1 = c1
  l1 = l1
  l2 = l2
  Requests = {r1}
  Charges = {c1}
  Contents <- MCContents
  Triggers <- MCTriggers
  Letters = {l1, l2}
  Texts <- MCTexts
  MaxStops = 1
  None = None
INVARIANTS
  TypeOK
  ApplicationsBounded
  FiringsAccounted
  AckedMailWasSent
  SentIsRendered
PROPERTIES
  EventuallyApplied
  EventuallyWorkedOff
CHECK_DEADLOCK FALSE
