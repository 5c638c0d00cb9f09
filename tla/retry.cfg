\* 5 attempts exceed what the limits allow.
CONSTANTS
  c1 = c1
  c2 = c2
  Calls = {c1, c2}
  RawConfigs <- Configs
  DefaultBackoff <- Library
  Foresight = {TRUE, FALSE}
  Durations = {1, 2}
  MaxAttempts = 5
SPECIFICATION FairSpec
INVARIANTS
  AttemptsStartInTime
  MetricsAccounted
PROPERTIES
  CallsEnd
