\* Blocks of four pages: every split of valid, invalid and empty pages in both.
CONSTANTS
  BLOCK_SIZE = 4
  BLOCK_ERASES = 2
  COUNT_WEAR = TRUE
  NUM_LPN = 8
  EMPTY = EMPTY
  INVALID = INVALID
SPECIFICATION LoopSpec
INVARIANTS
  LoopComputesEraseAndCopy
  NoPageLostMidway
\* The call returns.
CHECK_DEADLOCK FALSE
