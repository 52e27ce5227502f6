\* Two calls of two reads each, two slots at the gate, leases that run out and a restart.
SPECIFICATION FairSpec
CONSTANTS
  Calls = {c1, c2}
  Steps <- ThreeSteps
  DependsOn <- AfterReads
  KeyOf <- SharedKey
  NoKey = "none"
  TaskSteps = {3}
  ChunkSize = 2
  MaxAttempts = 2
  MaxCrashes = 1
  Callers <- AllJobs
  MaxPerUser = 2
INVARIANTS
  PlanTypeOK
  CountIsInside
  NoLostWakeup
  KeyExclusive
  OneReadPerAttempt
PROPERTIES
  EndedStays
  CallsReturn
CHECK_DEADLOCK FALSE
