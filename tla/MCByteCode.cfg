CONSTANTS
  CodeCapacity = 4
  CodeMoves = TRUE
  Bytes = {7}
  Lines = {1, 2}
  MaxCount = 5
  MaxBlobs = 1
SPECIFICATION Spec
INVARIANTS TypeOK CodeIsWhatWasEmitted LinesAreReported
