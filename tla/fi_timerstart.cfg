SPECIFICATION FairSpec
CONSTANTS
  Scenario <- NoStartTick
  Horizon = 5
  DefaultTick = 1
  Programs <- TimedProgram
  MaxQueue = 2
  NoEvent = NoEvent
PROPERTIES TimerStartHeard
CHECK_DEADLOCK FALSE
