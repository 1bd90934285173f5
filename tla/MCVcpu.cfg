CONSTANTS
  BootEl = 1
  Code = {0, 4}
  Flags = {0}
  SpVals = {0}
  Masks = {"I", "F"}
  GuestSpsr <- MCUserSpsr
  Quantum = 2
SPECIFICATION FairVcpuSpec
INVARIANTS
  ParkedHasNoEvent
PROPERTIES
  StepsAreExceptionSteps
  InterruptsArePrecise
  SliceEnds
  WakeUp
  FiqServiced
CHECK_DEADLOCK FALSE
