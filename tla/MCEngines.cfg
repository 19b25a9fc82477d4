SPECIFICATION MCSpec
CONSTANTS
  u = u
  Users = {u}
  Revisions = {"BYZANTIUM", "FRONTIER"}
  FileCodes = {"empty", "wasm", "version2"}
  InitialWorlds <- MCWorlds
  InitCodes = {"evm", "wasm"}
  Outputs <- MCOutputs
  MaxFiles = 1
  MaxCalls = 2
  StackLimit = 5
  MaxUses = 2
  Shapes <- AllShapes
  AddrSpace = 4
  Byte = {0, 1}
  Sizes <- MCSizes
  Buffers <- MCBuffers
  WordSize = 2
  HalfSize = 1
  StackItems = 1
INVARIANTS
  SystemContractsSound
  EngineInput
  InterfaceOfRunning
  TablesAgree
  NoAccessOutside
  CopiesExact
PROPERTIES
  DeployedMetered
CHECK_DEADLOCK FALSE
