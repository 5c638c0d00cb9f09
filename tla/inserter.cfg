\* Stop races with calls of Insert in progress; r4 has no Beginning, which
\* counts where there is a time tracker.
CONSTANTS
  r1 = r1
  r2 = r2
  r3 = r3
  r4 = r4
  Records = {r1, r2, r3, r4}
  NoBeginning = {r4}
  NoData = {}
  RawConfigs <- InserterConfigs
  DefaultInsertWorkers = 2
  DefaultMinQueueSize = 1
  CallerWaits = FALSE
SPECIFICATION MCSpec
INVARIANTS
  TypeOK
  EachAcceptedOnce
  PermitsAccounted
  GaugeAccounted
  BatchSizeBounded
  StoppedMeansDrained
PROPERTIES
  SinkSpec
  InsertIsSettled
