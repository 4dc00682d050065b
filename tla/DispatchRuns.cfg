SPECIFICATION FairSpec
CONSTANTS
  c1 = c1
  c2 = c2
  Commands = {c1, c2}
  MaxLaunches = 2
  MaxFaults = 3
INVARIANTS TypeOK EnvNamesRow LoopOwnsTree LoopHasRow
PROPERTY Redispatched
CHECK_DEADLOCK FALSE
