SPECIFICATION Spec
CONSTANTS
  Jobs <- MCJobs
  MaxRestarts = 1
INVARIANTS
  TypeOK
  TrainItersExact
PROPERTIES
  ImplementsStream
  Termination
