SPECIFICATION Spec
CONSTANTS
  c1 = c1
  h1 = h1
  Null = Null
  Clients = {c1}
  Channels = {h1}
  Projects = {p1}
  p1 = p1
  CheckStatuses <- BaselineCheck
  MaxRows = 3
  MaxInits = 2
INVARIANTS TypeOK ChainShape
PROPERTIES SleepHandsOver WokenAtMostOnce
CHECK_DEADLOCK FALSE
