SPECIFICATION Spec
CONSTANTS
  kNumSmallBins = 6
  MspSize = 2
  PageSize = 8
  InitialSize = 8
  segment_granularity = 16
  segment_threshold = 6
  MaxPages = 2
  Requests = {1, 2, 4}
  MaxBlocks = 4
CONSTRAINT Accounted
INVARIANTS
  TypeOK
  HeapTiled
  BoundaryTags
  Coalesced
  EmptyIsPristine
  NoAlarm
  LiveIsBacked
  CommittedPrefix
PROPERTIES
  ChunkIsStable
CHECK_DEADLOCK FALSE
