SPECIFICATION Spec
CONSTANTS
  Occ = {o17, o23, o31, o44}
  Vertex = {2, 8, 9, 65538}
  o17 = o17
  o23 = o23
  o31 = o31
  o44 = o44
  br41 = br41
  NoOcc = NoOcc
  NoBridge = NoBridge
  Starts <- RelabelStarts
  BoundaryMaps = {}
  Relabelings <- RelabelMaps
  MaxCalls = 2
INVARIANTS
  RelabelInvariant
CHECK_DEADLOCK FALSE
