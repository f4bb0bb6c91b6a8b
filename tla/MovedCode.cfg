CONSTANTS
  MaxNesting = 10
  MeaningOf <- MCMeaningOf
  CodeCapacity = 256
  CodeMoves = TRUE
  ReallocZero = "block"
  ZeroRoom = 8
  Programs <- ManyLines
  MaxLines = 30
  Fuel = 10
SPECIFICATION Spec
INVARIANTS ShowsTheMeaning
CHECK_DEADLOCK FALSE
