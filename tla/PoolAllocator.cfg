SPECIFICATION PoolSpec
CONSTANTS
  CountLimit = 4
  LinearStart = 64
  LinearSize = 144
  MaxHeld = 3
  MaxGiven = 5
  Geometries <- SomePlaced
  Shapes <- SomeShapes
  LinearShapes <- SomeLinearShapes
  Requests <- SomeRequests
INVARIANTS
  TypeOK
  NodesApartThere
  BlocksApart
PROPERTIES
  KeepsThePoolThere
CHECK_DEADLOCK FALSE
