SPECIFICATION FairDelivery
CONSTANTS
  None = None
  MaxKills = 1
  ReadyEvents <- MCReady
  Version <- MCVersion
  ExaminedVersions <- MCVersions
  Handoffs = {h1, h2}
  Maxima = {1}
  MaxReplays = 1
  Inboxes <- MCInboxes
  Commands <- MCCommands
  Visible <- MCVisible
  Outside <- MCOutside
  Invalid = {}
  Workers = {w1, w2}
  MaxFailures = 1
  MaxUndiscovered = 4
  MaxStreamKills = 1
INVARIANTS
  AttemptsTrue
  OneBase
  RunsVouch
PROPERTIES
  ResultsNeverReplaced
  EverythingDelivered
CHECK_DEADLOCK FALSE
