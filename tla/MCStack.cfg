CONSTANTS
  InitialItems = 2
  Garbage = garbage
  ReallocZero = "block"
  ZeroRoom = 2
  Values = {v1, v2}
  Bases = {16, 64}
  MaxItems = 5
  MaxScopes = 2
SPECIFICATION Spec
INVARIANTS TypeOK PointersFollowTheBlock LiveCellsWritten NoFaults
PROPERTIES Implements
