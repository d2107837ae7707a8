SPECIFICATION Spec
CONSTANTS
  Docs = {d1}
  NoDoc = NoDoc
  Batches = 2
  MaxConcurrency = 1
  MaxUploads = 1
  MaxRestarts = 0
INVARIANTS
  NoPartialIndex
CHECK_DEADLOCK FALSE
