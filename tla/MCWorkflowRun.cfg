SPECIFICATION FairSpec
CONSTANTS
  Followers = {f1, f2}
  MaxEvents = 3
  END = END
  RESULT = RESULT
INVARIANTS
  TypeOK
  ClosedIsComplete
  StatusComesLast
  OnlyFollowersSubscribed
PROPERTIES
  ImplementsLog
  StreamsEnd
