SPECIFICATION Spec
CONSTANTS
  Threads = {t1, t2}
  Sizes = {8, 100, 300}
  NumPages = 4
  MaxBlocks = 2
INVARIANTS
  TypeOK
  ReservedByClaimant
  BlocksHaveSpace
  OnlyGrowthIsLeft
  TotalInBetween
CHECK_DEADLOCK FALSE
SYMMETRY Alike
