SPECIFICATION Spec
CONSTANTS
  a = a
  b = b
  c = c
  excluded = excluded
  act = act
  Passages <- MCPassages
  Collections <- MCCollections
  CollectionOf <- MCCollectionOf
  Allowed = {"case_law"}
  Admitted <- MCAdmitted
  Texts = {"question", "first", "second"}
  Question = "question"
  MaxFound = 2
  MaxLookups = 1
  MaxNeighbours = 1
  MaxLeaves = 1
  Budget = 2
  RerankTop = 2
  Keep <- MCKeep
  MaxSubqueries = 1
  MaxFollowUps = 1
  MaxRounds = 2
INVARIANTS
  UserScopeIsHard
CHECK_DEADLOCK FALSE
