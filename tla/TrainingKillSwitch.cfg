SPECIFICATION Spec
CONSTANTS
  TrainIters = 2
  Configs <- MCKillSwitch
  MaxRestarts = 0
CHECK_DEADLOCK FALSE
PROPERTIES
  KillSwitchExits
