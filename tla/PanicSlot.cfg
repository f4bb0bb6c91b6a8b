CONSTANTS
  MaxNesting = 10
  MeaningOf <- MCMeaningOf
  CodeCapacity = 256
  CodeMoves = TRUE
  ReallocZero = "block"
  ZeroRoom = 8
  Programs <- PanickingDeclaration
  MaxLines = 2
  Fuel = 10
SPECIFICATION Spec
INVARIANTS IndexesAreOnTheStack
CHECK_DEADLOCK FALSE
