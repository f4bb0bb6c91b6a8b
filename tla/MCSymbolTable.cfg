CONSTANTS
  Names <- MCNames
  hashSymbol <- MCHash
  HashSpace = 32
  Multiplier = 19
  InitialCapacity = 4
  Lines <- MCLines
  MaxLines = 4
SPECIFICATION Spec
INVARIANTS TypeOK TextsStayReadable SymbolsAreReachable EverySymbolHasOneSlot
PROPERTIES Implements LinesEnd
CHECK_DEADLOCK FALSE
