SPECIFICATION FairSpec
CONSTANTS
  Scenario <- OnlyStartTick
  Horizon = 5
  DefaultTick = 1
  Programs <- TestProgram
  MaxQueue = 2
  NoEvent = NoEvent
PROPERTIES ProgramStarts
CHECK_DEADLOCK FALSE
