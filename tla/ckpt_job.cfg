SPECIFICATION Spec
CONSTANTS
  Size = 2
  Steps = 2
  NCkpt = 2
  HaloPhase = 1
  MaxKills = 2
INVARIANTS TypeOK StartAnswered AnnouncedIsBegun NoHaloDeadlock OneTornFile ScePhaseBacked
PROPERTIES ImplementsLockstep JobFinishes
CHECK_DEADLOCK FALSE
