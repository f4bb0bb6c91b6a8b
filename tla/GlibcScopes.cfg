CONSTANTS
  InitialItems = 2
  Garbage = garbage
  ReallocZero = "null"
  ZeroRoom = 3
  Values = {v1, v2}
  Bases = {16, 64}
  MaxItems = 5
  MaxScopes = 2
SPECIFICATION Spec
INVARIANTS ScopesAllocated
CHECK_DEADLOCK FALSE
