SPECIFICATION Spec
CONSTANTS
  Queues = {0}
  Burst = 2
  Counts = {2}
  Prime = 1
  Commands = {"count", "start", "stop"}
  MaxCommands = 4
INVARIANTS CountHonoured
CHECK_DEADLOCK FALSE
