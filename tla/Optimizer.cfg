SPECIFICATION Spec
CONSTANTS
  Configs <- MCConfigs
  MaxSteps = 3
  MaxRestarts = 1
  InitialScale = 1
  MinScale = 0
  GrowthInterval = 2
  Hysteresis = 2
INVARIANTS
  TypeOK
  ScalerFollowsHistory
PROPERTIES
  Termination
  ImplementsSynchronous
