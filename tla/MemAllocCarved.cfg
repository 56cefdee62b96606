SPECIFICATION Spec
CONSTANTS
  kNumSmallBins = 6
  MspSize = 1
  PageSize = 4
  InitialSize = 4
  segment_granularity = 4
  segment_threshold = 3
  MaxPages = 3
  Requests = {1, 2, 6}
  MaxBlocks = 4
INVARIANTS
  FreeSpaceApart
  StructIsBacked
  NeverBroken
PROPERTIES
  KeepsTheStore
CHECK_DEADLOCK FALSE
