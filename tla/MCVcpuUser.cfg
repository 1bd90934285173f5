CONSTANTS
  BootEl = 1
  Code = {0, 4}
  Flags = {0}
  SpVals = {0}
  Masks = {"I", "F"}
  GuestSpsr <- MCUserSpsr
  Quantum = 2
SPECIFICATION VcpuSpec
PROPERTY UserProgress
CHECK_DEADLOCK FALSE
