\* Five blocks for two logical blocks of two pages, the random log of two and the
\* sequential log of one: the drive is full soon, and every block is reclaimed.
CONSTANTS
  BLOCK_SIZE = 2
  NUM_BLOCKS = 5
  NUM_LPN = 4
  EMPTY = EMPTY
  INVALID = INVALID
  OLD = OLD
  NULL = NULL
  FIRST_FREE = {0}
  FAST_LOG_PAGE_LIMIT = 2
  WRITTEN = {0, 1, 3}
  TRIMMED = {0, 1}
  MAX_DISPOSED = 0
SPECIFICATION FastSpec
INVARIANTS
  FastEveryBlockOnce
  CountersMatchLists
  AbortsOnlyAfterTrim
  MisplacedAtPageZero
\* A failed assertion stops the simulation.
CHECK_DEADLOCK FALSE
