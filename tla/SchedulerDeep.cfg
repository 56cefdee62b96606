SPECIFICATION Spec
CONSTANTS
  mNumThreads = 2
  NumTasks = 3
  CountLimit = 8
  Loads <- DeepLoads
PROPERTIES
  ChildrenFirst
CHECK_DEADLOCK FALSE
