CONSTANTS
  MaxNesting = 10
  CodeCapacity = 256
  CodeMoves = TRUE
  ReallocZero = "block"
  ZeroRoom = 8
  Openings <- MCOpenings
  Programs <- MCPrograms
  MaxDepth = 12
SPECIFICATION Spec
INVARIANTS PathsAgree OperandsAreThere PathsReturnOneValue
CHECK_DEADLOCK FALSE
