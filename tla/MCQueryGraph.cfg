SPECIFICATION FairSpec
CONSTANTS
  a = a
  b = b
  c = c
  excluded = excluded
  act = act
  Passages <- MCPassages
  Collections <- MCCollections
  CollectionOf <- MCCollectionOf
  Allowed = {"case_law"}
  Admitted <- MCAdmitted
  Texts = {"question", "first", "second", "third"}
  Question = "question"
  MaxFound = 3
  MaxLookups = 2
  MaxNeighbours = 1
  MaxLeaves = 1
  Budget = 3
  RerankTop = 2
  Keep <- MCKeep
  MaxSubqueries = 2
  MaxFollowUps = 1
  MaxRounds = 3
INVARIANTS
  TypeOK
  NeverSearchedTwice
  PoolWithinBudget
  ScopeWithoutTopics
  AnswersOverSources
PROPERTIES
  ImplementsStream
  Ends
CHECK_DEADLOCK FALSE
