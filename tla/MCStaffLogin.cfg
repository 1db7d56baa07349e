SPECIFICATION Spec
CONSTANTS
  r1 = r1
  r2 = r2
  Requests = {r1, r2}
  Roles = {"root", "reseller"}
  NumCodes = 2
  MaxSetups = 2
  MaxResets = 1
  MaxLost = 1
SYMMETRY RequestSymmetry
INVARIANTS
  TypeOK
  AcceptancesBounded
  EnabledIsProved
  LateSessionsBounded
PROPERTIES
  CodesGoForGood
