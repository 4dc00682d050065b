SPECIFICATION FairSpec
CONSTANTS
  Terminals = {t1, t2}
  MaxRuns = 5
  MaxFaults = 3
INVARIANTS TypeOK VmHasRow KeyWorks
PROPERTY GetsSandbox
CHECK_DEADLOCK FALSE
