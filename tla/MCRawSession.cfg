SPECIFICATION Spec
CONSTANTS
  Occ = {o17, o23, o31, o44}
  Vertex = {2, 5, 6, 7, 8, 9, 10, 11, 12, 14}
  o17 = o17
  o23 = o23
  o31 = o31
  o44 = o44
  br41 = br41
  NoOcc = NoOcc
  NoBridge = NoBridge
  Starts <- MCStarts
  BoundaryMaps <- MCBoundaryMaps
  Relabelings = {}
  MaxCalls = 4
INVARIANTS
  EngineSound
  JoinUndoesSplit
PROPERTIES
  DirtyComplete
  SignatureKept
  EdgesKept
CHECK_DEADLOCK FALSE
