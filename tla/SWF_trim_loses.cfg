\* One lpn is trimmed, at any time and any number of times; FIFO victims.
CONSTANTS
  BLOCK_SIZE = 2
  BLOCK_ERASES = 2
  COUNT_WEAR = FALSE
  NUM_LPN = 3
  EMPTY = EMPTY
  INVALID = INVALID
  PLANE_SIZE = 3
  GC_ALGORITHM = "FIFO"
  MAX_PE = 0
  UINT_MOD = 8
  NONE = NONE
  TRIMMED = {0}
  MAX_FAILURES = 1
SPECIFICATION Spec
INVARIANTS
  UntrimmedPagesStored
