SPECIFICATION Spec
CONSTANTS
  Configs <- MCConfigs
  Seed = 1234
  MaxIterations = 2
  MaxRestarts = 1
INVARIANTS
  TypeOK
  MasksIndependent
PROPERTIES
  ImplementsDropoutMasks
