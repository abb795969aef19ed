SPECIFICATION ChainSpec
CONSTANTS
  Milli = 2
  WatermarkDelay = 1
  CustomerCurrencies = {"a/USD"}
  InactivityTimeout = 3
  EventTimes = {1, 4, 8}
  Upstream <- MCCopies
  InitialState <- DedupInitial
  Process <- DedupBatch
  WatermarkOf <- EventTimeWatermark
  MaxVersions = 3
  MaxFailures = 1
  MaxResets = 1
INVARIANTS
  FedOnceInOrder
  EachEventOnce
