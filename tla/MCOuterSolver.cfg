SPECIFICATION Spec
CONSTANTS
  Vertices <- Six
  DegreeCap = 3
  Inputs <- CheckedInputs
INVARIANTS
  TypeOK
  NeverTooFine
  OracleExact
  SolverExact
  NoneLeftOut
  Answered
