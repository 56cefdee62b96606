SPECIFICATION FairSpec
CONSTANTS
  WORK_QUEUE_SIZE = 3
  Thieves = {1, 2}
  MaxPushes = 4
INVARIANTS
  TypeOK
  TakenOnce
PROPERTIES
  KeepsTheDeque
  EventuallyTaken
CHECK_DEADLOCK FALSE
