SPECIFICATION FairSpec
CONSTANTS
  BlockSizes <- SmallAndLarge
  ContentSizes = {2, 8}
  MaxFrames = 2
  Window = 2
  Capacities = {1, 3, 8}
  Offers = {1}
CHECK_DEADLOCK FALSE
INVARIANTS
  RoomIsEnough
  CopiesInside
PROPERTIES
  ImplementsPipe
  Finishes
