SPECIFICATION FairSpec
CONSTANTS
  Hooks = {h1, h2}
  Bad = {h1}
  Consumers = {c1, c2}
  Limit = 2
  MaxEvents = 3
  MaxFaults = 2
INVARIANTS TypeOK LossBounded DeliveriesBounded
PROPERTY Drained
\* The webhooks of the instance come to an end, and with them the work.
CHECK_DEADLOCK FALSE
