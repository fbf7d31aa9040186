SPECIFICATION Spec
CONSTANTS
  Signal = {1, 2, 3}
  Payload = {p1, p2}
  Clauses <- UsageClauses
  Strcmp <- ByteDifference
  MaxQueue = 2
  NoSub = NoSub
  NoEvent = NoEvent
INVARIANTS TypeOK
PROPERTIES ClauseNotPreempted ImplementsMailbox
