SPECIFICATION RetFairSpec
CONSTANTS
  a1 = a1
  NoApp = NoApp
  App = {a1}
  MaxDep = 3
  Keep = 1
  Shipped = 2
  Crashes = TRUE
  Deletes = TRUE
INVARIANTS
  RetInv
  FreshBuildSurvives
PROPERTIES
  OrphansReclaimed
CHECK_DEADLOCK FALSE
