SPECIFICATION ConsoleSpec
CONSTANTS
  p1 = p1
  p2 = p2
  a1 = a1
  d1 = d1
  g1 = g1
  none = none
  Project = {p1, p2}
  DefaultProject = p1
  App = {a1}
  Db = {d1}
  Source = {g1}
  NoSource = none
  MaxPending = 2
INVARIANTS
  ConsoleInv
  

  
CONSTRAINT Apart
CHECK_DEADLOCK FALSE
