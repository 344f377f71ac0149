SPECIFICATION PreviewFairSpec
CONSTANTS
  p1 = p1
  p2 = p2
  PR = {p1, p2}
  Fork = {p2}
  MaxConcurrent = 1
  QueueSize = 1
  Overlap = FALSE
  MaxEvents = 2
  MaxFaults = 2
  MaxCrashes = 1
INVARIANTS
  PreviewInv
  
PROPERTIES
  UnwantedGoes
CHECK_DEADLOCK FALSE
