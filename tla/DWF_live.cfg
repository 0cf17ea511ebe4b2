\* Wear is not counted, so the driver never stops: all reachable states.
CONSTANTS
  BLOCK_SIZE = 2
  BLOCK_ERASES = 2
  COUNT_WEAR = FALSE
  NUM_LPN = 3
  EMPTY = EMPTY
  INVALID = INVALID
  PLANE_SIZE = 4
  GC_ALGORITHM = "random"
  HOT = {0}
  MAX_PE = 0
  UINT_MOD = 8
  NONE = NONE
SPECIFICATION FairSpec
INVARIANTS
  CountersExact
PROPERTIES
  ImplementsFairDisk
