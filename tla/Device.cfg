\* Two dies with a plane of three blocks each, on one channel; events that start
\* early or late, in any order; the pages of one block are trimmed.
CONSTANTS
  NUM_CHANNELS = 1
  PACKAGE_SIZE = 2
  DIE_SIZE = 1
  PLANE_SIZE = 3
  BLOCK_SIZE = 2
  BLOCK_ERASES = 2
  CTRL = 1
  DATA = 1
  READ_DELAY = 1
  EMPTY = EMPTY
  VALID = VALID
  INVALID = INVALID
  NoEvent = NoEvent
  STARTS = {0, 2}
  MAX_LOCKS = 3
  TRIMMED = {0, 1}
SPECIFICATION Spec
INVARIANTS
  FreeCountExact
  LeastWornHasErases
  NoDoubleBooking
