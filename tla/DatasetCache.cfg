SPECIFICATION Spec
CONSTANTS
  R = 2
  MaxRestarts = 2
  Jobs <- MCJobs
INVARIANTS
  EverySampleOnce
  BlendedSamplesExist
PROPERTIES
  RanksEndAlike
