SPECIFICATION Spec
CONSTANTS
  Partitions = {0, 1}
  Ids = {e1, e2, e3}
  Foreign = foreign
  NBatches = 2
  Records <- MCRecords
  PartitionOf <- MCPartitionOf
  Publishers = {p1}
  Bounds = {1, 3}
  MaxFailures = 2
  MaxReplays = 1
  MaxForeign = 0
  MaxExpiry = 0
  HardKills = TRUE
  LateLanding = TRUE
  e1 = e1
  e2 = e2
  e3 = e3
INVARIANTS
  TypeOK
  AckedOnBroker
  AcceptedEvidence
CHECK_DEADLOCK FALSE
