SPECIFICATION FairSpec
CONSTANTS
  mNumThreads = 3
  NumTasks = 5
  CountLimit = 8
  Loads <- SomeLoads
INVARIANTS
  TypeOK
  ReturnedWhole
  NothingLost
PROPERTIES
  ChildrenFirst
  EventuallyRun
CHECK_DEADLOCK FALSE
