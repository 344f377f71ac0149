SPECIFICATION GpSpec
CONSTANTS
  a1 = a1
  a2 = a2
  p1 = p1
  p2 = p2
  main = main
  dev = dev
  NoApp = NoApp
  NoBranch = NoBranch
  App = {a1, a2}
  MaxDep = 2
  Push = {p1, p2}
  Branch = {main, dev}
INVARIANTS
  PushInv
  
  
SYMMETRY Symmetry
CHECK_DEADLOCK FALSE
