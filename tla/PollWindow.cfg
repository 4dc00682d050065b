SPECIFICATION Spec
CONSTANTS
  Fires <- UnevenFires
  Window = 3
  MaxPoll = 3
  MaxLate = 2
  MaxTime = 17
INVARIANTS TypeOK SeenOnce GapBounded
CHECK_DEADLOCK FALSE
