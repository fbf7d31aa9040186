SPECIFICATION Spec
CONSTANTS
  Size = 2
  Steps = 1
  NCkpt = 1
  HaloPhase = 0
  MaxKills = 1
PROPERTIES JobRestarts
CHECK_DEADLOCK FALSE
