SPECIFICATION Spec
CONSTANTS
  s1 = s1
  s2 = s2
  a1 = a1
  c1 = c1
  c2 = c2
  None = None
  Server <- TwoServers
  Allocation <- OneAllocation
  Caller <- Callers
  MaxAsks = 1
  MaxAttempts = 1
  MaxFaults = 1
INVARIANTS OwnerNamesIt  DeletedHasNoBox
CHECK_DEADLOCK FALSE
PROPERTY MemoryConverges
