SPECIFICATION AlignedSpec
CONSTANTS
  kNumSmallBins = 12
  MspSize = 1
  PageSize = 10
  InitialSize = 10
  segment_granularity = 20
  segment_threshold = 20
  MaxPages = 2
  Requests = {1, 3}
  MaxBlocks = 3
  AlignedRequests = {1, 3}
  Alignments = {16, 24}
  Offsets = {0, 1}
CONSTRAINT Intact
INVARIANTS
  AlignedTypeOK
  HeapAfterAligned
  AlignedResult
  FooterNamesSpace
CHECK_DEADLOCK FALSE
