SPECIFICATION Spec
CONSTANTS
  j1 = j1
  j2 = j2
  c1 = c1
  c2 = c2
  NoJob = NoJob
  Job <- MCJobs2
  Caller <- MCCallers2
  Concurrency = 2
  MaxAttempts = 3
  MaxStalled = 1
  MaxFaults = 1
INVARIANTS
  RunsBounded
  SettledAgree
PROPERTIES
  KeepsContract
  EntriesSettle
  RowsSettle
CHECK_DEADLOCK FALSE
