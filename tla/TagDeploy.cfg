SPECIFICATION TagSpec
CONSTANTS
  a1 = a1
  NoApp = NoApp
  App = {a1}
  MaxDep = 3
  Tag <- MCTag
  Policy <- MCPolicy
  Pushes <- MCPushes
INVARIANTS
  TagInv
PROPERTIES
  EventNeverRegresses
CONSTRAINT OneLost
CHECK_DEADLOCK FALSE
