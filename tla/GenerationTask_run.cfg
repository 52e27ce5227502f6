\* One task under every handler: executions, cancel, expire, retry, a crash.
SPECIFICATION FairSpec
CONSTANTS
  Tasks = {t1}
  Workers = {w1, w2, w3}
  NoTask = NoTask
  Executors = {"celery", "inline"}
  Raises = TRUE
  MaxRetries = 1
  MaxCrashes = 1
INVARIANTS
  TypeOK
  OneRunPerTask
  OneOutcomeBilled
PROPERTIES
  EveryTaskEnds
CHECK_DEADLOCK FALSE
