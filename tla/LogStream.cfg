SPECIFICATION LogFairSpec
CONSTANTS
  Dep <- MCDep
  v1 = v1
  Viewer = {v1}
  MaxSaid <- MCMaxSaid
  maxLines = 1
  subBuffer = 1
  keepClosed = 1
INVARIANTS
  LogInv
  NoSeam
  HistoryHonest
PROPERTIES
  ViewerTold
CHECK_DEADLOCK FALSE
