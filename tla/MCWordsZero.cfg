SPECIFICATION MCSpec
CONSTANTS
  W = 8
  Half = 5
  Small = 3
  ByteBits = 2
  Inputs <- SomeInputs
  CodeSize = 5
  MaxStack = 1
  MaxSteps = 1
  Operands <- MCOperands
INVARIANTS
  ZeroDivisorGivesZero
CHECK_DEADLOCK FALSE
