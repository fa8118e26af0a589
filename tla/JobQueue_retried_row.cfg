SPECIFICATION Spec
CONSTANTS
  j1 = j1
  j2 = j2
  c1 = c1
  c2 = c2
  NoJob = NoJob
  Job <- MCJobs2
  Caller <- MCCallers1
  Concurrency = 1
  MaxAttempts = 1
  MaxStalled = 0
  MaxFaults = 0
PROPERTIES
  RetriedRowIsProcessed
CHECK_DEADLOCK FALSE
