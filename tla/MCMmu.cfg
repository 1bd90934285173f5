SPECIFICATION MmuSpec
CONSTANTS
  Fanout = 2
  Frames = {0, 1, 2, 3}
  Bus <- MCBus
  Vas <- MCVas
  Els = {0, 1, 3}
  Sets = 2
  Values <- MCValues
  RegValues <- MCRegValues
  InitRam <- MCRam
  InitRegs <- MCRegs
  MaxStores = 1
  MaxMsrs = 2
INVARIANTS Parity Precise
