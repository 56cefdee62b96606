SPECIFICATION Spec
CONSTANTS
  Chunk = {c1, c2, c3, c4, c5, c6}
  null = null
  Sizes = {24, 256, 264, 131072, 139264, 147456, 163840, 180224, 278528, 327680}
  Needs = {16, 150000}
SYMMETRY ChunkSymmetry
INVARIANTS
  TypeOK
  FoundInBin
  MapsMarkBins
  TreesAreSound
  BestFit
