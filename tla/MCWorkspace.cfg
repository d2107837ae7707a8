SPECIFICATION FairSpec
CONSTANTS
  Matters = {m1, m2}
  NoMatter = NoMatter
  MaxClicks = 5
  MaxAsked = 2
  MaxRuns = 2
  MaxCited = 2
  MaxReviews = 2
INVARIANTS
  TypeOK
  ShownIsAsked
  FileOfOneRun
  DeskTabIsThisQuestions
PROPERTIES
  StoppedIsFrozen
  EveryWaitEnds
CHECK_DEADLOCK FALSE
