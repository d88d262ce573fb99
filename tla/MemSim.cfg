SPECIFICATION Spec
CONSTANTS
  Line = {a1, a2}
  CpuTicks = 2
  ReadRoom = 1
  WriteRoom = 1
  Simulators = {"Ramulator", "NVDSim", "DRAMSim2"}
  Far = 2
  MaxLoads = 3
  MaxStores = 1
  MaxTime = 5
  Kernels = 2
PROPERTIES
  ImplementsService
SYMMETRY Lines
CHECK_DEADLOCK FALSE
