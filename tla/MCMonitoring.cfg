SPECIFICATION MCSpec
CONSTANTS
  Ingested <- MCIngested
  MinRows = 2
  Model <- MCModel
  LabelFile <- MCLabelFile
  Batch <- MCBatch
  Intervals <- MCIntervals
  Cutoffs = {8, 9}
  Procs = {p1, p2}
  MaxOf <- MCMaxOf
  MaxArtifacts = 5
  MaxAbandoned = 1
  Refused = {"h"}
  ReplayWindows <- MCReplayWindows
  Bounds = {2, 3, 4}
  Deliverable <- MCDeliverable
  MaxDeliveries = 4
  Numbers = {0, 1, 3}
  Null = Null
  Bins = 4
  MinimumRows = 2
  MinimumNonNull = 1
  MaxReference = 4
  MaxComparison = 3
  Files = {"delta", "receipts"}
  Topics = {"schemas", "raw", "ready"}
  Needs <- MCNeeds
  Roots = {n1}
  Rehearsals = {i1}
  Absent = Absent
  MaxContent = 1
  MaxWork = 1
  MaxRestarts = 1
  MaxCutoffs = 2
INVARIANTS
  SourcesComplete
  PointInTime
  EvidenceCoherent
  DistancesDefined
  ReplayTold
PROPERTIES
  ArtifactsStay
  ResumesOneInstant
SYMMETRY NameSymmetry
CHECK_DEADLOCK FALSE
