CONSTANTS
  Jobs <- MCJobs2
  Workers = {w1}
  NoWorker = NoWorker
  MaxAttempts = 2
  MaxCrashes = 1
  MaxFaults = 0
  MaxRetries = 0
  QuickRestart = FALSE
SPECIFICATION FairSpec
INVARIANTS CancelHitsItsJob
PROPERTIES EveryJobEnds
CHECK_DEADLOCK FALSE
