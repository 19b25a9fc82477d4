SPECIFICATION FairSpec
CONSTANTS
  Mnemonic <- MCMnemonic
  ByteBase = 18
  Programs <- MCPrograms
  WordSize = 16
  Inputs = {0, 9}
  MstkWords = 3
  StackLimit = 8
INVARIANTS
  StackSound
PROPERTIES
  ImplementsEVM
  NeverHangs
CHECK_DEADLOCK FALSE
