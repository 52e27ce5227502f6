\* One task in both services: lost reports, repeated events, a retry, a crash.
SPECIFICATION TBFairSpec
CONSTANTS
  Tasks = {t1}
  Workers = {w1, w2}
  NoTask = NoTask
  Executors = {"celery", "inline"}
  Raises = TRUE
  MaxRetries = 1
  MaxCrashes = 1
INVARIANTS
  ChargedForSuccess
  ChargedIsSucceeded
  RefundedHasFailed
PROPERTIES
  EveryHoldEnds
  EndIsCarriedOut
CHECK_DEADLOCK FALSE
