CONSTANTS
  MinCap = 16
  MaxName = 40
  StructOff = 56
  MaxNesting = 3
  CellBase = 268435456
  Clients <- MCClients
  Calls <- MCCalls
  RamBase = 1073741824
  Uart <- MCUart
  Dist <- MCDist
  Cpuif <- MCCpuif
  UartSpi = 33
  PhysPpi = 30
  VirtPpi = 27
SPECIFICATION Spec
INVARIANTS
  RoundTrip
  TreeDescribesMachine
