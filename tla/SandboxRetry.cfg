SPECIFICATION Spec
CONSTANTS
  Terminals = {t1, t2}
  MaxRuns = 5
  MaxFaults = 3
INVARIANT RetrySafe
CHECK_DEADLOCK FALSE
