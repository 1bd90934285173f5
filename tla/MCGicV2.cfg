CONSTANTS
  Lines = {27, 33}
  Wired = {27, 33}
  NrLines = 64
  Priorities = {0, 64, 128}
  Masks = {65, 255}
SPECIFICATION Spec
INVARIANTS
  ActiveLinesNest
  LastAckRuns
  PinAgrees
PROPERTY
  AckConsumesExactlyOne
CHECK_DEADLOCK FALSE
