SPECIFICATION Spec
CONSTANTS
  NCkpt = 2
  Steps = 3
  Duration <- MCDuration
  Interval <- MCInterval
INVARIANTS TypeOK ClockBounded LatestInterval ReplayLosesOnePhase
PROPERTIES RootNeverBehind RenewalApplied
CHECK_DEADLOCK FALSE
