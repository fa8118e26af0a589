SPECIFICATION Spec
CONSTANTS
  b1 = b1
  b2 = b2
  d1 = d1
  Backup <- MCBackups2
  Delete <- MCDelete1
  MaxBackups = 1
  Attempts = 2
  MaxStalled = 0
  MaxSecond = 2
  MaxFaults = 1
CHECK_DEADLOCK FALSE
INVARIANTS
  ScheduledIsListed
