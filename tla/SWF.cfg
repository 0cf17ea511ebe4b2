\* Two lpns are trimmed, at any time and any number of times; blocks wear out
\* after two erases; random victims, WF included; the host writes on after a write
\* that fails.
CONSTANTS
  BLOCK_SIZE = 2
  BLOCK_ERASES = 2
  COUNT_WEAR = TRUE
  NUM_LPN = 3
  EMPTY = EMPTY
  INVALID = INVALID
  PLANE_SIZE = 3
  GC_ALGORITHM = "random"
  MAX_PE = 0
  UINT_MOD = 8
  NONE = NONE
  TRIMMED = {0, 1}
  MAX_FAILURES = 2
SPECIFICATION Spec
INVARIANTS
  StaleOnlyByFailure
  FailsOnlyWornOut
  CountersExact
PROPERTIES
  LosesOnlyThroughStaleEntry
