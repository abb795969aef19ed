SPECIFICATION Spec
CONSTANTS
  Size <- MCSize
  Outcomes <- MCOutcomes
  Discoverers = {d1}
  Controllers = {c1}
  Inspectors = {i1}
  Workers = {w1}
  Windows = {x}
  MaxUndiscovered = 2
  MaxUnpublished = 3
  MaxUnprocessed = 2
  MaxTick = 1
  MaxSnapshot = 3
  MaxEarly = 1
  MaxFailures = 1
  HardKills = FALSE
INVARIANTS
  BacklogBounded
PROPERTIES
  ReportsTrue
CHECK_DEADLOCK FALSE
