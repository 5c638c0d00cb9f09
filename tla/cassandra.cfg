\* Two callers, three calls, batches of up to two records.
CONSTANTS
  c1 = c1
  c2 = c2
  Callers = {c1, c2}
  Configs <- SomeConfigs
  Sizes = {0, 1, 2}
  MaxCalls = 3
SPECIFICATION Spec
SYMMETRY Symmetry
INVARIANTS
  PoolAccounted
  EveryCallCounted
  RowMetricsMatch
