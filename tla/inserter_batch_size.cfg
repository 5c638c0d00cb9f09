\* A MaxBatchSize that is replaced by 1 is among the configurations.
CONSTANTS
  r1 = r1
  r2 = r2
  r3 = r3
  r4 = r4
  Records = {r1, r2, r3, r4}
  NoBeginning = {r4}
  NoData = {}
  RawConfigs <- InserterConfigs
  DefaultInsertWorkers = 2
  DefaultMinQueueSize = 1
  CallerWaits = FALSE
SPECIFICATION MCSpec
INVARIANTS
  BatchSizeRespected
