\* One worker for one or two batchers, at most two statements per batch.
CONSTANTS
  r1 = r1
  r2 = r2
  r3 = r3
  Records = {r1, r2, r3}
  NoBeginning = {r3}
  NoData = {}
  RawConfigs <- InserterConfigs
  DefaultInsertWorkers = 2
  DefaultMinQueueSize = 1
  CallerWaits = FALSE
  RetryConfigs <- BackoffConfigs
  DefaultBackoff <- Backoff
  Foresight = {FALSE}
  Durations = {1}
  MaxAttempts = 3
SPECIFICATION PipelineFairSpec
INVARIANTS
  StoredAsAnswered
  SettledAtStop
PROPERTIES
  StopReturns
  InsertReturnsFairly
