SPECIFICATION Spec
CONSTANTS
  kNumSmallBins = 7
  MspSize = 1
  PageSize = 10
  InitialSize = 10
  segment_granularity = 20
  segment_threshold = 20
  MaxPages = 1
  Requests = {1, 5}
  MaxBlocks = 3
INVARIANTS
  TrueWhenEmpty
CHECK_DEADLOCK FALSE
