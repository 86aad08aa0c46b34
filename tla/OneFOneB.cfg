SPECIFICATION Spec
CONSTANTS
  P = 4
  Calls <- MCCalls
INVARIANTS
  TypeOK
  PassesInOrder
  PartialCheckpointWindow
  GradsReduced
PROPERTIES
  Termination
  ImplementsFlush
