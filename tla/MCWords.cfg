SPECIFICATION MCSpec
CONSTANTS
  W = 8
  Half = 5
  Small = 3
  ByteBits = 2
  Inputs <- SomeInputs
  CodeSize = 5
  MaxStack = 3
  MaxSteps = 4
  Operands <- MCOperands
INVARIANTS
  InstructionsAgree
  SafeResultsExact
  FunctionsExact
PROPERTIES
  Terminates
CHECK_DEADLOCK FALSE
