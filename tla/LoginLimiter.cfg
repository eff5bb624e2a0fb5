CONSTANTS
  Clients = {c1, c2}
  Addresses = {i1, i2}
  Accounts = {a1}
  Limit = 2
  Capacity = 3
  Minute = 3
  Delay = 1
SPECIFICATION Spec
INVARIANTS AtMostTwiceTheLimit
PROPERTIES RefusedForAReason
SYMMETRY Symmetry
