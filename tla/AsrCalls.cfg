CONSTANTS
  j1 = j1
  j2 = j2
  NoJob = NoJob
  Workers = {w1, w2}
  Jobs = {j1, j2}
  Audio <- MCAudio
  Length = 6
  Overlap = 2
  Daily = 2
  Monthly = 3
  MostBilled = 2
  MaxCalls = 3
  MaxDays = 2
SPECIFICATION FairSpec
INVARIANTS TypeOK BudgetIsKept NoBlindReplay NothingSaidIsLost
PROPERTIES EveryRunEnds
