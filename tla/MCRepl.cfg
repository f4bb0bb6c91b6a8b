CONSTANTS
  MaxNesting = 10
  MeaningOf <- MCMeaningOf
  CodeCapacity = 256
  CodeMoves = TRUE
  ReallocZero = "block"
  ZeroRoom = 8
  Programs <- MCPrograms
  MaxLines = 3
  Fuel = 10
SPECIFICATION Spec
INVARIANTS SlotsMatchSymbols ScopesBalance EveryScopeIsClosed NextLineRunsNext ShowsTheMeaning NeverAborts
PROPERTIES PanicNamesItsLine ErrorsLeaveNoTrace EarlierLinesStay ImmutablesNeverChange LinesFinish
CHECK_DEADLOCK FALSE
