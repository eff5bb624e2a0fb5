CONSTANTS
  Users = {u1}
  Sessions = {s1, s2}
  Requests = {r1, r2}
  None = None
  MaxUpdates = 1
  MaxAborts = 0
SPECIFICATION Spec
SYMMETRY Symmetry
INVARIANTS ResetSignsEverybodyOut
CHECK_DEADLOCK FALSE
