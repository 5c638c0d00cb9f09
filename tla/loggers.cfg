\* Two goroutines derive up to three loggers with up to three pairs each.
CONSTANTS
  g1 = g1
  g2 = g2
  p1 = p1
  p2 = p2
  p3 = p3
  Goroutines = {g1, g2}
  Pairs = {p1, p2, p3}
  MaxFields = 3
  MaxLoggers = 3
SPECIFICATION Spec
SYMMETRY Symmetry
INVARIANTS
  RootChildrenKeep
  LostOnlyWhenShared
