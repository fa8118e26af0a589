SPECIFICATION Spec
CONSTANTS
  j0 = j0
  j1 = j1
  collector = collector
  Job <- TwoJobs
  CreateJob = j0
  Observer = {collector}
  MaxAttempts = 3
  MaxFaults = 3
  MaxCrashes = 0
INVARIANT RefusesOnlyStopped
CHECK_DEADLOCK FALSE
