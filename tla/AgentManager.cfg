SPECIFICATION Spec
CONSTANTS
  s1 = s1
  r1 = r1
  hc = hc
  HC <- hc
  Server <- MCServers1
  Request <- MCRequests1
  MaxId = 2
  AutoRestart = TRUE
  MaxRestarts = 1
INVARIANTS
  
  AutoRestartsBounded
PROPERTIES
  CrashNoticed
