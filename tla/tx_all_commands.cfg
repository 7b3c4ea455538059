SPECIFICATION FairSpec
CONSTANTS
  Queues = {0, 1}
  Burst = 2
  Counts = {0, 3}
  Prime = 1
  Commands = {"count", "start", "stop", "prime"}
  MaxCommands = 5
INVARIANTS TypeOK BudgetExact StopIsFinal
PROPERTIES StopSettles RunEnds
CHECK_DEADLOCK FALSE
