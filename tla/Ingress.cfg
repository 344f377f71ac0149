SPECIFICATION IngressFairSpec
CONSTANTS
  a1 = a1
  App = {a1}
  Route = {2}
  HostOf <- MCHostOf
  DefaultHost = 1
  Token = {"t1", "t2"}
  MaxWaiting = 2
  MaxFaults = 1
  MaxCrashes = 1
INVARIANTS
  IngressInv
  PairsMatch
PROPERTIES
  GetsLeaf
CHECK_DEADLOCK FALSE
