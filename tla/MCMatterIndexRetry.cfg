SPECIFICATION Spec
CONSTANTS
  Docs = {d1}
  NoDoc = NoDoc
  Batches = 2
  MaxConcurrency = 2
  MaxUploads = 2
  MaxRestarts = 0
INVARIANTS
  RetryNeverDuplicates
CHECK_DEADLOCK FALSE
