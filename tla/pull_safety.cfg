SPECIFICATION Spec
CONSTANTS
  N = 2
  Signal = {s1, s2}
  Payload = {p1, p2}
  MaxQueue = 2
  NoSub = NoSub
  NoEvent = NoEvent
SYMMETRY Symmetry
INVARIANTS TypeOK
PROPERTIES HeldEventStable ImplementsMailbox
CHECK_DEADLOCK FALSE
