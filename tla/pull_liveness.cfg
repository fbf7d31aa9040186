SPECIFICATION FairSpec
CONSTANTS
  N = 3
  Signal = {s1, s2}
  Payload = {p1}
  MaxQueue = 1
  NoSub = NoSub
  NoEvent = NoEvent
INVARIANTS BoundedBypass
PROPERTIES NoStarvation
CHECK_DEADLOCK FALSE
