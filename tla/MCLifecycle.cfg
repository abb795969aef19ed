SPECIFICATION FairSpec
CONSTANTS
  Models = {m1}
  Commands = {c1}
  Trackers = {t1, t2}
  Candidators = {b1, b2}
  Registrars = {r1, r2}
  None = None
  MaxStops = 1
INVARIANTS
  TypeOK
  RegisteredOnce
  EvidenceVouched
PROPERTIES
  NothingRepaired
  EverythingAssessed
CHECK_DEADLOCK FALSE
