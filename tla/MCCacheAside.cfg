SPECIFICATION FairSpec
CONSTANTS
  r1 = r1
  r2 = r2
  w1 = w1
  w2 = w2
  Readers = {r1, r2}
  Writers = {w1, w2}
  Kinds = {"update", "logo", "import"}
  MaxVersion = 2
  MaxFailures = 2
  None = None
INVARIANTS
  TypeOK
  StaleExplained
PROPERTIES
  EventuallyCurrent
