SPECIFICATION Spec
CONSTANTS
  MaxSize = 3
  Chunk = 2
  MaxVersion = 2
  MaxGets = 2
INVARIANTS
  InvalidRangeIgnored
CHECK_DEADLOCK FALSE
