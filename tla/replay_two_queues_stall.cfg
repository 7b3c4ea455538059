SPECIFICATION FairSpec
CONSTANTS
  Queues = {0, 1}
  Cap <- CapTwoTwo
  TxCounts = {1}
  FilePkts = 5
  PageSize = 2
  CliIndexes = {}
  Paging = FALSE
  ChunkMod = 4
  LoopReads = {"cached"}
  Spurious = FALSE
  ApiCalls = {}
PROPERTIES QuitReturns
CHECK_DEADLOCK FALSE
