SPECIFICATION Spec
CONSTANTS
  P = 4
  Calls <- MCCalls
INVARIANTS
  TypeOK
  PassesInOrder
  GradsComplete
  MemoryAs1F1B
PROPERTIES
  Termination
  ImplementsFlush
