SPECIFICATION Spec
CONSTANTS
  Vertices <- Six
  DegreeCap = 32
  Inputs <- OnlyMisled
INVARIANT Answered
