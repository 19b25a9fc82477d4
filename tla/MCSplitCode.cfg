SPECIFICATION SplitSpec
CONSTANTS
  Mnemonic <- MCMnemonic
  ByteBase = 6
  Programs <- MCPrograms
  MaxAny = 4
  MaxLength = 6
INVARIANTS
  ScanSound
  JumpTableExact
  OnePredecessor
  CutSound
  JumpTablesOfWhole
  RuntimeEmbedded
PROPERTIES
  SplitEnds
CHECK_DEADLOCK FALSE
