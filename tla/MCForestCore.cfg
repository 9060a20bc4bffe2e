SPECIFICATION FairCoreSpec
CONSTANTS
  Vertices <- Seven
  Size = 4
  Inputs <- Graphs
  Isolated = 0
INVARIANTS
  TypeOK
  LevelsDescribed
  TreesHalve
  BatchExact
PROPERTIES
  LevelsOnlyFall
  SearchEnds
  ConnectSpec
CHECK_DEADLOCK FALSE
