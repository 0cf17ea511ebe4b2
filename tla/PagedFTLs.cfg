\* Four logical pages in two blocks and on two translation pages, three physical
\* blocks, and a cache of two entries.
CONSTANTS
  BLOCK_SIZE = 2
  NUM_BLOCKS = 3
  NUM_LPN = 4
  EMPTY = EMPTY
  INVALID = INVALID
  OLD = OLD
  NULL = NULL
  FIRST_FREE = {0}
  CACHE_DFTL_LIMIT = 1
  addressPerPage = 2
  STEPS = {2}
  READ = {2}
  WRITTEN = {0, 1, 2}
  TRIMMED = {0, 1}
  TRIM_MAP = {{}}
  WRAPPED = 5
SPECIFICATION Spec
INVARIANTS
  ReverseMapExact
  CounterWithinCache
  NoMappingDropped
  StopsOnlyFullOrTrimmed
PROPERTIES
  OnlyConversionsLosePages
\* A failed assertion stops the simulation.
CHECK_DEADLOCK FALSE
