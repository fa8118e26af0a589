SPECIFICATION Spec
CONSTANTS
  j0 = j0
  j1 = j1
  collector = collector
  Job <- TwoJobs
  CreateJob = j0
  Observer = {collector}
  MaxAttempts = 2
  MaxFaults = 1
  MaxCrashes = 1
INVARIANTS  KeepaliveIsTemporary
PROPERTIES  RunningIsCorrected
CHECK_DEADLOCK FALSE
