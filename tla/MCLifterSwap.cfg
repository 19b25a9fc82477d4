SPECIFICATION Spec
CONSTANTS
  Mnemonic <- MCMnemonic
  ByteBase = 18
  Programs <- MCSwapPrograms
  WordSize = 16
  Inputs = {0, 9}
  MstkWords = 3
  StackLimit = 8
PROPERTIES
  DryRunFindsConstantJumps
CHECK_DEADLOCK FALSE
