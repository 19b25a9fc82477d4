SPECIFICATION Spec
CONSTANTS
  a = a
  b = b
  k = k
  Accounts = {a, b}
  Keys = {k}
  MaxWord = 1
  GasSchedule <- MCGasSchedule
  GasRetention = 4
  MaxDepth = 2
  GasArgs <- MCGasArgs
  Lengths <- MCLengths
  MeterModes = {TRUE, FALSE}
  InitialWorlds <- MCWorlds
  RootGas = 4
  MaxCredit = 2
INVARIANTS DepthCounts TypeOK GasBudget StaticPure
PROPERTIES ResultCodeTellsOutcome FailureBurnsGas
CONSTRAINT FramesBound
CHECK_DEADLOCK FALSE
