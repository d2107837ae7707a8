SPECIFICATION Spec
CONSTANTS
  Docs = {d1, d2}
  NoDoc = NoDoc
  Batches = 2
  MaxConcurrency = 2
  MaxUploads = 3
  MaxRestarts = 1
INVARIANTS
  TypeOK
  IndexedOnce
  NoLimbo
  ListedHasOriginal
PROPERTIES
  ChunksFirst
SYMMETRY DocSymmetry
CHECK_DEADLOCK FALSE
