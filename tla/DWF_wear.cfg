\* Blocks that wear out after two erases, random victims: every order of writes
\* and collections until the driver stops, worn-out victims included.
CONSTANTS
  BLOCK_SIZE = 2
  BLOCK_ERASES = 2
  COUNT_WEAR = TRUE
  NUM_LPN = 4
  EMPTY = EMPTY
  INVALID = INVALID
  PLANE_SIZE = 4
  GC_ALGORITHM = "random"
  HOT = {0, 1}
  MAX_PE = 0
  UINT_MOD = 8
  NONE = NONE
SPECIFICATION Spec
INVARIANTS
  TypeOK
  MapIntegrity
  ProgramsEmptyPage
  HotPagesExact
  PEBoundsWear
PROPERTIES
  NoOverwriteWithoutErase
  ImplementsDisk
\* The driver stops when currentPE reaches MAX_PE.
CHECK_DEADLOCK FALSE
