SPECIFICATION Spec
CONSTANTS
  Workers = {w1, w2}
  Flusher = flusher
  Main = main
  Events = {e1, e2, e3}
  BATCH_SIZE = 2
SYMMETRY Symmetry
INVARIANTS
  TypeOK
  Conservation
  CountersExact
  RowsBounded
  DestroyedIsSettled
