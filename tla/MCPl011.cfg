CONSTANTS
  TxRing = 2
  RxRing = 2
  MaxTx = 4
  MaxRx = 1
  CrValues <- MCCrValues
SPECIFICATION UartSpec
INVARIANTS
  TxConserved
  TxKeepsNewest
  RxFifo
  RxSignalled
  FlagsFresh
CHECK_DEADLOCK FALSE
