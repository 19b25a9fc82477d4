SPECIFICATION Spec
CONSTANTS
  a = a
  b = b
  k = k
  Accounts = {a, b}
  Keys = {k}
  MaxWord = 1
  GasSchedule <- MCGasSchedule
  GasRetention = 4
  MaxDepth = 1
  GasArgs <- MCGasArgs
  Lengths <- MCLengths
  MeterModes = {TRUE}
  InitialWorlds <- MCWorlds
  RootGas = 6
  MaxCredit = 2
INVARIANTS StipendIsPaidFor
CHECK_DEADLOCK FALSE
