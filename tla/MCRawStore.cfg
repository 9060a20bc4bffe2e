SPECIFICATION Spec
CONSTANTS
  Occ = {o1}
  Vertex = {u, w, c}
  o1 = o1
  u = u
  w = w
  c = c
  NoOcc = NoOcc
  NoBridge = NoBridge
  Builders <- MCBuilders
  MaxSkel = 2
  MaxVerts = 4
INVARIANTS
  TypeOK
  Ownership
  LocalGraph
  RecordsCurrent
