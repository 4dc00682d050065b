SPECIFICATION FairSpec
CONSTANTS
  r1 = r1
  r2 = r2
  Resumers = {r1, r2}
  Nobody = Nobody
  MaxSegs = 2
INVARIANTS TypeOK OneLive ResumedOnce FlagKeepsWorktree
PROPERTIES SleepEnds GhostsReaped
