SPECIFICATION FairSpec
CONSTANTS
  None = None
  r1 = r1
  Rest = {r1}
  Written = {"open"}
  Budget = 3
  Threshold = 2
  MaxStarts = 2
INVARIANTS TypeOK ThrashOnlyStuck WorkPushed
PROPERTIES CommittedNotRerun LoopEnds
CHECK_DEADLOCK FALSE
