SPECIFICATION MCSpec
CONSTANTS
  Schedule = {x1}
  Tick = {k1, k2}
  Person = {p1, p2}
  Nobody = Nobody
  MaxEvents = 3
  Cron <- MCCron
  Day = 2
  MaxClock = 7
  MaxScheduleEvents = 1
  Admin = {a1, a2}
  Row = {r1, r2}
  NoRow = NoRow
  MaxCatalogueEvents = 4
  Server = {s1, s2}
  Host = {h1}
  one = one
  Address = {one, two}
  Db = {d1, d2}
  None = None
  Capacities <- MCCapacities
  MaxDatabaseEvents = 2
  Name = {f, sub}
  SubName = sub
  ZipName = sub
  NoPath = NoPath
  ErrorText = ErrorText
  MaxFileEvents = 4
INVARIANTS
  TypesOK
  OncePerMinute
  
  AdminRemains
  CodeWorks
  NothingDangles
  ListedWorks
  WithinCapacity
  

  
  
\* Nobody has to ask for anything any more.
CHECK_DEADLOCK FALSE
