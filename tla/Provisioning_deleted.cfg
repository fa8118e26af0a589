SPECIFICATION Spec
CONSTANTS
  s1 = s1
  s2 = s2
  a1 = a1
  c1 = c1
  c2 = c2
  None = None
  Server <- TwoServers
  Allocation <- OneAllocation
  Caller <- OneCaller
  MaxAsks = 1
  MaxAttempts = 2
  MaxFaults = 0
PROPERTY DeletedIsGone
CHECK_DEADLOCK FALSE
