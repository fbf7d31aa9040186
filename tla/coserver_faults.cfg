SPECIFICATION Spec
CONSTANTS
  Proc = {"srv", "peer", "cli"}
  Role <- TwoNodeRoles
  KillRole <- TestKills
  Completers = {"srv", "cli"}
  Faults = {"ForkFails", "ExecFails", "PgrepFails"}
INVARIANTS TypeOK NoOrphanServer MarkerMeansAgent
CHECK_DEADLOCK FALSE
