SPECIFICATION Spec
CONSTANTS
  r1 = r1
  r2 = r2
  u1 = u1
  u2 = u2
  Requests = {r1, r2}
  Users = {u1, u2}
  Zero = Zero
  Portal = "selfcare"
  Limit = 2
  Window = 4
  Delay = 1
  MaxTime = 4
SYMMETRY ClientSymmetry
CHECK_DEADLOCK FALSE
INVARIANTS
  LimitIsPerUser
