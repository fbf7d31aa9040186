SPECIFICATION FairSpec
CONSTANTS
  Proc = {"srv", "cli", "cli2"}
  Role <- OneNodeRole
  KillRole <- TestKills
  Completers = {}
  Faults = {}
INVARIANTS NoneStranded
PROPERTIES EveryonePassesTheWait
CHECK_DEADLOCK FALSE
