CONSTANTS
  MaxInsns = 5
  BootQuantum = 3
  LevelQuantum = 2
  HeldMax = 2
  RxRing = 1
  MaxTyped = 3
  MaxTimer = 1
  MaxTx = 1
SPECIFICATION BootSpec
INVARIANTS
  InputInOrder
  LevelsFresh
  LogComplete
  ExitStatus
PROPERTIES
  PowerEventFinal
  PowerOffEnds
CHECK_DEADLOCK FALSE
