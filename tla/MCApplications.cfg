SPECIFICATION MCFairSpec
CONSTANTS
  Milli = 2
  WatermarkDelay = 1
  Customers = {"a"}
  CountWindow = 2
  AmountWindow = 3
  CustomerCurrencies = {"a/USD", "a/EUR"}
  InactivityTimeout = 3
  KeyPartitions <- MCMixed
  CustomerIds = {"x", "y"}
  InactivityMillis = 2
  Upstream <- MCUpstream
  InitialState <- MCInitial
  Process <- MCProcess
  WatermarkOf <- EventTimeWatermark
  RollingTimes = {1, 4, 7, 8}
  LaterTime = 12
  StatisticsTimes = {1, 4, 8}
  ActivityTimes = {1, 3, 4, 12}
  MaxVersions = 4
  ShortVersions = 3
  MaxFailures = 1
  MaxResets = 1
INVARIANTS
  TypeOK
  TableSound
  TableComplete
  RollingFeaturesSound
  BaselinesSound
  LifecyclesSound
PROPERTIES
  ActivityDrained
