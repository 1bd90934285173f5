CONSTANTS
  LINES = 3
  Bytes = {0, 7}
SPECIFICATION Spec
INVARIANTS
  AckReturnsBest
CHECK_DEADLOCK FALSE
