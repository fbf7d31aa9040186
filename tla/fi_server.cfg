SPECIFICATION FairSpec
CONSTANTS
  Scenario <- TwoFailures
  Horizon = 5
  DefaultTick = 1
  Programs <- AllPrograms
  MaxQueue = 2
  NoEvent = NoEvent
INVARIANTS TypeOK NoDropBeforeApproval
PROPERTIES RunsInOrder ScenarioEnds FirstEventHandled
CHECK_DEADLOCK FALSE
