SPECIFICATION ServiceSpec
CONSTANTS
  c1 = c1
  c2 = c2
  Null = Null
  Clients = {c1, c2}
  Channels = {}
  Projects = {}
  CheckStatuses <- BlockableCheck
  MaxRows = 3
  MaxInits = 1
INVARIANTS SleepsOnce
PROPERTIES CompletedIsFinal ImplementsLogicalProcess
CHECK_DEADLOCK FALSE
