CONSTANTS
  BootEl = 1
  Code = {0, 4}
  Flags = {0, 1}
  SpVals = {0, 16}
  Masks = {"I", "F"}
  GuestSpsr <- MCGuestSpsr
SPECIFICATION ExcSpec
INVARIANTS
  FrameIntact
PROPERTIES
  EretRestores
  PrivilegeGate
  StackRefinement
CHECK_DEADLOCK FALSE
