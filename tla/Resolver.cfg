CONSTANTS
  Callers = {c1, c2}
  Cookies = {k1, k2, k3}
  NoCookie = NoCookie
  Works = {w1}
  NoWork = NoWork
  RowIds = {r1, r2}
  NoRow = NoRow
  Objects <- MCObjects
  Pages <- MCPages
  Attempts = 2
SPECIFICATION FairSpec
INVARIANTS TypeOK OneBrowser FileFollowsMemory AnswersAreRows
PROPERTIES RowsArePermanent EveryCallEnds
