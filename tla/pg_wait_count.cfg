\* Two measurements of up to two waits.
CONSTANTS
  k1 = k1
  k2 = k2
  Closers = {k1, k2}
  RawRetries <- Retries
  DefaultNumRetries = 0
  MaxWaits = 2
  MaxTicks = 2
SPECIFICATION Spec
INVARIANTS
  WaitsCountedOnce
