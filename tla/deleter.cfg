\* Every kind of set; an Add that waits for ever stops the program, hence no
\* deadlock check.
CONSTANTS
  r1 = r1
  r2 = r2
  Records = {r1, r2}
  RawConfigs <- Configs
  DefaultMaxWorkers = 2
  MinSetSize = 1
  DefaultSetSize = 2
  DefaultGetLimit = 2
  SetKinds <- AllKinds
CHECK_DEADLOCK FALSE
SPECIFICATION FairSpec
INVARIANTS
  TypeOK
  PermitsAccounted
  GaugeAccounted
  OnlyExpiredClaimed
PROPERTIES
  ExpiredIsDeleted
  StopReturnsOrAddWaits
