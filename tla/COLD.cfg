\* One lpn is not placed and is trimmed before or after its first write.
CONSTANTS
  BLOCK_SIZE = 2
  BLOCK_ERASES = 2
  COUNT_WEAR = FALSE
  NUM_LPN = 4
  EMPTY = EMPTY
  INVALID = INVALID
  PLANE_SIZE = 4
  GC_ALGORITHM = "random"
  HOT = {0, 1}
  MAX_HOT_BLOCKS = 2
  MAX_PE = 0
  UINT_MOD = 8
  NONE = NONE
  D = 2
  PLACED = {0, 1, 2}
  TRIMMED = {3}
SPECIFICATION ColdSpec
INVARIANTS
  ColdHotnessIntegrity
  VictimIsBestDrawn
PROPERTIES
  ColdVictimsStay
  LosesOnlyThroughStaleEntry
