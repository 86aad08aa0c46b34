SPECIFICATION Spec
CONSTANTS
  P = 2
  Calls <- MCCallsNoGradSync
INVARIANTS
  GradsReducedOnEveryStage
