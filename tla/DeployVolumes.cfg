SPECIFICATION Spec
CONSTANTS
  a1 = a1
  a2 = a2
  NoApp = NoApp
  App = {a1, a2}
  Stack = {a2}
  Volumed = {a1}
  MaxDep = 2
  MaxConcurrent = 1
  MaxRestarts = 1
  DaemonFails = TRUE
  StoreFails = FALSE
INVARIANTS
  LiveRowServes
  OneRunningRow
  
PROPERTY
  ClaimsInOrder
CONSTRAINT OneRequest
CHECK_DEADLOCK FALSE
