SPECIFICATION BackupSpec
CONSTANTS
  a1 = a1
  a2 = a2
  d1 = d1
  v1 = v1
  v2 = v2
  c1 = c1
  g1 = g1
  g2 = g2
  AppSched = {a1}
  DbSched = {d1}
  Volume = {v1, v2}
  Ctr = {c1}
  Proc = {g1, g2}
  Retention = 1
  HistoryCap = 1
  Overlap = FALSE
  MaxRow = 2
  MaxStamp = 2
  MaxWrites = 1
  MaxFaults = 1
INVARIANTS
  BackupInv
  AppComesBack
PROPERTIES
  RestoredExactly
CHECK_DEADLOCK FALSE
