SPECIFICATION Spec
CONSTANTS
  P = 3
  V = 3
  Calls <- MCCalls
INVARIANTS
  TypeOK
  PassesInOrder
  GradsReduced
PROPERTIES
  Termination
  ImplementsFlush
