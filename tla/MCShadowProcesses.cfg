SPECIFICATION ProcessesSpec
CONSTANTS
  Size <- MCPair
  Outcomes <- MCOutcomes
  Discoverers = {d1, d2}
  Controllers = {c1}
  Inspectors = {}
  Workers = {w1, w2}
  Windows = {x, y}
  MaxUndiscovered = 2
  MaxUnpublished = 3
  MaxUnprocessed = 3
  MaxTick = 2
  MaxSnapshot = 3
  MaxEarly = 0
  MaxFailures = 1
  HardKills = TRUE
  SourceEvents <- MCEvents
  Builders = {"b1", "b2"}
  Ranges <- MCRanges
  MaxReady = 2
  RowCounts = {0, 1, 3}
  MaxVersions = 2
  MaxTables = 2
  None = None
  MaxKills = 1
INVARIANTS
  ResultsInOrder
  RecordsComplete
  ArtifactsTrue
PROPERTIES
  ResultsStable
SYMMETRY ProcessSymmetry
CHECK_DEADLOCK FALSE
