SPECIFICATION Spec
CONSTANTS
  TrainIters = 2
  Configs <- MCPlain
  MaxRestarts = 1
INVARIANTS
  TrackerNamesCheckpoint
