SPECIFICATION Spec
CONSTANTS
  p1 = p1
  Pollers = {p1}
  FailureLimit = 1
  DailyCap = 3
  BypassCap = 2
  MaxRows = 5
  MaxDay = 1
INVARIANTS TypeOK SlotExclusive DispatchCap HaltsAfterFailures FormulaOnce
CHECK_DEADLOCK FALSE
