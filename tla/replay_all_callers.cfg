SPECIFICATION Spec
CONSTANTS
  Queues = {0, 1}
  Cap <- CapTwoOne
  TxCounts = {1}
  FilePkts = 5
  PageSize = 2
  CliIndexes = {}
  Paging = FALSE
  ChunkMod = 4
  LoopReads = {"fresh", "cached"}
  Spurious = TRUE
  ApiCalls = {"reload", "close"}
INVARIANTS CompleteUnlessLoading
CHECK_DEADLOCK FALSE
VIEW ControlView
