CONSTANTS
  Users = {u1}
  Sessions = {s1, s2, s3}
  Requests = {r1, r2}
  None = None
  MaxUpdates = 1
  MaxAborts = 1
SPECIFICATION Spec
SYMMETRY Symmetry
INVARIANTS TypeOK OneLivePerLogin SweepsReachSuccessors
PROPERTIES LogoutEndsTheLogin ChangeKeepsTheDevice LoginsSpec
CHECK_DEADLOCK FALSE
