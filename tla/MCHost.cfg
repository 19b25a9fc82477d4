SPECIFICATION MCSpec
CONSTANTS
  Byte <- MCByte
  WordLen = 5
  AddrLen = 4
  HalfLen = 3
  LongLen = 2
  IntLen = 1
  TopSet <- MCTopSet
  Accounts <- MCAccounts
  Words <- MCWords
  Junk <- MCJunk
  Ops <- AllOps
  MaxStack = 2
  MaxSteps = 6
  MaxLen = 2
  HashLen = 1
  GasMod = 8
  GasWords <- MCGasWords
  Cap = 3
  MaxCalls = 5
  WordBytes = 4
  SigBytes = 2
  DataByte <- MCByte
  Programs <- MCPrograms
  CallData <- MCCallData
INVARIANTS
  ExchangesAgree
  StorageAgrees
  ReturnDataAgrees
  CallsExplained
  LoadsAgree
CONSTRAINT LongOnlyWithStorage
CHECK_DEADLOCK FALSE
