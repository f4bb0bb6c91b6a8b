CONSTANTS
  MaxNesting = 10
  MeaningOf <- MCMeaningOf
  CodeCapacity = 256
  CodeMoves = TRUE
  ReallocZero = "block"
  ZeroRoom = 8
  Programs = {}
  Texts <- MCTexts
  MaxLines = 3
  Fuel = 20
SPECIFICATION SessionSpec
INVARIANT ShowsTheMeaning
PROPERTIES RightLinesAreRead PromptComesBack
CHECK_DEADLOCK FALSE
