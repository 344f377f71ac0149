SPECIFICATION DbSpec
CONSTANTS
  p1 = p1
  p2 = p2
  Proc = {p1}
  Serial = TRUE
  MaxRow = 2
  MaxFaults = 2
  MaxRestarts = 1
INVARIANTS
  DbInv
  StillServed
CHECK_DEADLOCK FALSE
