SPECIFICATION Spec
CONSTANTS
  kNumSmallBins = 4
  MspSize = 1
  PageSize = 4
  InitialSize = 4
  segment_granularity = 4
  segment_threshold = 3
  MaxPages = 4
  Requests = {1, 2, 3}
  MaxBlocks = 5
PROPERTIES
  ReleasesOnlyTop
CHECK_DEADLOCK FALSE
