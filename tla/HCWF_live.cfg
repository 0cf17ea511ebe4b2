\* Wear is not counted: all reachable states, kinds converted both ways.
CONSTANTS
  BLOCK_SIZE = 3
  BLOCK_ERASES = 2
  COUNT_WEAR = FALSE
  NUM_LPN = 4
  EMPTY = EMPTY
  INVALID = INVALID
  PLANE_SIZE = 4
  GC_ALGORITHM = "random"
  HOT = {0}
  MAX_HOT_BLOCKS = 2
  MAX_PE = 0
  UINT_MOD = 8
  NONE = NONE
SPECIFICATION FairSpec
INVARIANTS
  MapIntegrity
  HotnessIntegrity
  FrontiersOfTheirKind
PROPERTIES
  ImplementsFairDisk
