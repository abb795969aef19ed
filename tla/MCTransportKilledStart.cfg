SPECIFICATION FairSpec
CONSTANTS
  Partitions = {0, 1}
  Ids = {e1, e2, e3}
  Foreign = foreign
  NBatches = 2
  Records <- MCRecords
  PartitionOf <- MCPartitionOf
  Publishers = {p1}
  Bounds = {1, 2}
  MaxFailures = 1
  MaxReplays = 0
  MaxForeign = 0
  MaxExpiry = 0
  HardKills = TRUE
  LateLanding = FALSE
  e1 = e1
  e2 = e2
  e3 = e3
PROPERTIES
  RestartCompletesJournal
CHECK_DEADLOCK FALSE
