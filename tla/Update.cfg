SPECIFICATION UpdateFairSpec
CONSTANTS
  c1 = c1
  j1 = j1
  Click = {c1}
  Job = {j1}
  MaxVersion = 1
  LateClaim = FALSE
  MaxLosses = 1
INVARIANTS
  
  ReportTellsTheTruth
PROPERTIES
  UpdateEnds
CHECK_DEADLOCK FALSE
