SPECIFICATION LostEdgeSpec
CONSTANTS
  Vertices <- Fourteen
  Size = 5
  Inputs <- OnlyWires
  Isolated = 0
INVARIANT QueriesAgree
CHECK_DEADLOCK FALSE
