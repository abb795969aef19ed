SPECIFICATION FairSpec
CONSTANTS
  Partitions = {0, 1}
  Ids = {e1, e2, e3}
  Foreign = foreign
  NBatches = 2
  Records <- MCRecords
  PartitionOf <- MCPartitionOf
  Publishers = {p1}
  Bounds = {1, 2}
  MaxFailures = 2
  MaxReplays = 0
  MaxForeign = 1
  MaxExpiry = 1
  HardKills = FALSE
  LateLanding = FALSE
  e1 = e1
  e2 = e2
  e3 = e3
INVARIANTS
  CommittedIsObserved
PROPERTIES
  OffsetsNeverRewind
  EveryBatchAccepted
CHECK_DEADLOCK FALSE
