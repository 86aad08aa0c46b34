SPECIFICATION Spec
CONSTANTS
  TrainIters = 3
  Configs <- MCConfigs
  MaxRestarts = 2
INVARIANTS
  TypeOK
  CollectivesMatch
  RanksAgree
  Accounting
  LatestCheckpointWhole
PROPERTIES
  Stops
  ImplementsDurableTraining
