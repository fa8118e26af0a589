SPECIFICATION MCSpec
CONSTANTS
  Node = {n1, n2, n3}
  Home = n1
  Transfer = {t1, t2}
  NoTransfer = NoTransfer
  MaxEvents = 1
  Socket = {w1, w2, w3}
  NoSocket = NoSocket
  Capacity = 1
  MaxConsoleEvents = 3
  Task = {p1, p2}
  NoTask = NoTask
  MaxImageEvents = 4
INVARIANTS
  TypesOK
  
  
  OneSocket
  CompletedIsThere
PROPERTIES
  PageSettles
  
  
  
\* A transfer that has ended, a page that was left and a pull that is over
\* need not be followed by anything.
CHECK_DEADLOCK FALSE
