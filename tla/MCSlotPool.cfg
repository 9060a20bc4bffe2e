SPECIFICATION Spec
CONSTANTS
  Val = {x1, x2}
  NIL = 9
  MaxSlots = 4
INVARIANTS
  TypeOK
  FreeListExact
PROPERTIES
  ImplementsAllocator
  StepsArePoolSteps
