CONSTANTS
  Jobs <- MCJobs1
  Workers = {w1, w2}
  NoWorker = NoWorker
  MaxAttempts = 2
  MaxCrashes = 1
  MaxFaults = 1
  MaxRetries = 1
  QuickRestart = TRUE
SPECIFICATION Spec
INVARIANTS TypeOK RunnerOwnsItsJob AbandonedOnlyByFaults AttemptsBounded OneRunner
PROPERTIES FinishedStaysFinished LifecycleSpec
CHECK_DEADLOCK FALSE
