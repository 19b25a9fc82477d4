SPECIFICATION Spec
CONSTANTS
  Mnemonic <- MCMnemonic
  ByteBase = 18
  Programs <- MCOpenPrograms
  WordSize = 16
  Inputs = {0, 9}
  MstkWords = 3
  StackLimit = 8
PROPERTIES
  RunsOffToStop
CHECK_DEADLOCK FALSE
