SPECIFICATION AlignedSpec
CONSTANTS
  kNumSmallBins = 12
  MspSize = 1
  PageSize = 18
  InitialSize = 18
  segment_granularity = 18
  segment_threshold = 18
  MaxPages = 1
  Requests = {1}
  MaxBlocks = 4
  AlignedRequests = {1}
  Alignments = {16}
  Offsets = {0}
INVARIANTS
  NoAlarmBesideAligned
CHECK_DEADLOCK FALSE
