\* Blocks that stand one erase: a victim that is worn out is soon collected.
CONSTANTS
  BLOCK_SIZE = 2
  BLOCK_ERASES = 1
  COUNT_WEAR = TRUE
  NUM_LPN = 3
  EMPTY = EMPTY
  INVALID = INVALID
  PLANE_SIZE = 5
  GC_ALGORITHM = "random"
  HOT = {0}
  MAX_HOT_BLOCKS = 2
  MAX_PE = 0
  UINT_MOD = 8
  NONE = NONE
SPECIFICATION Spec
INVARIANTS
  HotnessIntegrity
CHECK_DEADLOCK FALSE
