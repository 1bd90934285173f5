CONSTANTS
  Top = 255
  XBits = 8
  ByteBits = 1
  Code <- MCCode
  Poly <- MCPoly
  TimeValues = {0, 165}
  SizeMax = 60
  MinCap = 2
  ChunkSize = 16
  Elf <- MCElf
  FileByte <- MCFileByte
  HeaderSize = 2
  PhEntSize = 2
  StackBase = 64
  StackSize = 16
  StackAlign = 4
  RegionCapacity = 3
  SegmentBlock <- MCSegmentBlock
  Kernel <- MCKernel
  Initrd <- MCInitrd
  Dtb <- MCDtb
  RamBase = 128
  Uart <- MCUart
  Dist <- MCDist
  Cpuif <- MCCpuif
  BootCapacity = 5
  ImageHeader = 4
  PageSize = 4
  TextLimit = 16
  DwordBytes = 4
  DtbMin = 2
  DtbMax = 30
  TokenBytes = 1
  GeneratedLen = 8
  BootlineLen = 5
  CmdlineMax = 4
  InitrdMargin = 2
  StackGap = 1
  CommandLines <- MonitorLines
  RamDefault = 64
SPECIFICATION Spec
INVARIANT AnyStoreClears
