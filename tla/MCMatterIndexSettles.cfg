SPECIFICATION FairSpec
CONSTANTS
  Docs = {d1, d2}
  NoDoc = NoDoc
  Batches = 2
  MaxConcurrency = 1
  MaxUploads = 2
  MaxRestarts = 1
INVARIANTS
  IndexedOnce
PROPERTIES
  Settles
CHECK_DEADLOCK FALSE
