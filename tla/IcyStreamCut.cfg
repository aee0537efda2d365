CONSTANTS
  metaint = 3
  UNIT = 2
  Lengths = {0, 1, 2}
  RECEIVE = 9
  BLOCKS = 3
SPECIFICATION Spec
INVARIANT MetadIsUntilNext
CHECK_DEADLOCK FALSE
