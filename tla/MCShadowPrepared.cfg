SPECIFICATION Spec
CONSTANTS
  Size <- MCSize
  Outcomes <- MCOutcomes
  Discoverers = {d1}
  Controllers = {c1}
  Inspectors = {}
  Workers = {}
  Windows = {x}
  MaxUndiscovered = 3
  MaxUnpublished = 2
  MaxUnprocessed = 2
  MaxTick = 1
  MaxSnapshot = 3
  MaxEarly = 0
  MaxFailures = 0
  HardKills = FALSE
INVARIANT
  PreparedBacklogBounded
CHECK_DEADLOCK FALSE
