\* Up to two retries, two callers with up to three calls, three calls of
\* Close, of which one is always made; the budget bounds the rest together.
CONSTANTS
  c1 = c1
  c2 = c2
  k1 = k1
  k2 = k2
  k3 = k3
  Closers = {k1, k2, k3}
  RawRetries <- Retries
  DefaultNumRetries = 0
  MaxWaits = 1
  MaxTicks = 2
  Callers = {c1, c2}
  Sizes = {0, 1, 2}
  Limits = {0, 1}
  MaxCalls = 3
  MaxRows = 2
  Budget = 4
SPECIFICATION MCSpec
INVARIANTS
  TypeOK
  FailsOnlyAfterRetries
  ClosedStaysClosed
  RowMetricsMatchTable
  EveryCallCounted
PROPERTIES
  CloseEndsAll
