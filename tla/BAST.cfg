\* One log block for two logical blocks, and five or three physical blocks:
\* evictions, switches and merges, with and without room for them, and trims.
CONSTANTS
  BLOCK_SIZE = 2
  NUM_BLOCKS = 5
  NUM_LPN = 4
  EMPTY = EMPTY
  INVALID = INVALID
  OLD = OLD
  NULL = NULL
  FIRST_FREE = {0, 2}
  BAST_LOG_PAGE_LIMIT = 1
  TRIMMED = {0, 1}
SPECIFICATION FairSpec
INVARIANTS
  EveryBlockOnce
  CountersMatchTables
  AbortsOnlyAfterInvalidation
PROPERTIES
  ImplementsDisk
  WriteReturns
\* A failed assertion stops the simulation.
CHECK_DEADLOCK FALSE
