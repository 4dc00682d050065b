SPECIFICATION Spec
CONSTANTS
  c1 = c1
  Commands = {c1}
  MaxLaunches = 2
  MaxFaults = 1
PROPERTY PruneSparesLive
CHECK_DEADLOCK FALSE
