SPECIFICATION WireSpec
CONSTANTS
  Queues = {0}
  Cap <- CapFourTwo
  TxCounts = {2}
  FilePkts = 5
  PageSize = 2
  CliIndexes = {}
  Paging = FALSE
  ChunkMod = 4
  LoopReads = {"cached"}
  Spurious = FALSE
  ApiCalls = {}
  NicDepth = 6
PROPERTIES InFlightIntact
CHECK_DEADLOCK FALSE
