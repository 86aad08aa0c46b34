SPECIFICATION TPSpec
CONSTANTS
  Models <- MCModels
INVARIANTS
  TPTypeOK
  GradientsComplete
