CONSTANTS
  Jobs <- MCJobs1
  Workers = {w1}
  NoWorker = NoWorker
  MaxAttempts = 2
  MaxCrashes = 0
  MaxFaults = 0
  MaxRetries = 0
  QuickRestart = FALSE
SPECIFICATION FairSpec
PROPERTIES CancelledDownloadEnds
CHECK_DEADLOCK FALSE
