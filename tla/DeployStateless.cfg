SPECIFICATION FairSpec
CONSTANTS
  a1 = a1
  a2 = a2
  NoApp = NoApp
  App = {a1}
  Stack = {}
  Volumed = {}
  MaxDep = 2
  MaxConcurrent = 2
  MaxRestarts = 1
  DaemonFails = FALSE
  StoreFails = FALSE
INVARIANTS
  RowInv
  CancelledNeverServes
  CutoverCompletes
  NoStrayTemp
PROPERTIES
  Implements
  ActiveSettles
  
CHECK_DEADLOCK FALSE
