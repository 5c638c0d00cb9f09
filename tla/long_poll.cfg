\* Three records to be inserted and one without an id; two per answer.
CONSTANTS
  r1 = r1
  r2 = r2
  r3 = r3
  old = old
  Records = {r1, r2, r3, old}
  Legacy = {old}
  Queries <- AllOrSome
  Births = {0, 2}
  Limit = 2
  MaxTime = 3
  MaxInserts = 3
SPECIFICATION Spec
SYMMETRY Symmetry
INVARIANTS
  NothingSkipped
PROPERTIES
  HashAdvances
  DeliveredOnce
