CONSTANTS
  Lines <- MCLines
  LaterLines <- MCLaterLines
  MaxLine = 2
SPECIFICATION Spec
INVARIANTS TypeOK NeverStops
PROPERTIES Implements
