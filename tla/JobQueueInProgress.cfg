CONSTANTS
  Jobs <- MCJobs1
  Workers = {w1}
  NoWorker = NoWorker
  MaxAttempts = 2
  MaxCrashes = 1
  MaxFaults = 0
  MaxRetries = 0
  QuickRestart = TRUE
SPECIFICATION FairSpec
PROPERTIES NoJobStaysInProgress
CHECK_DEADLOCK FALSE
