SPECIFICATION WireFairSpec
CONSTANTS
  Queues = {0}
  Cap <- CapFourTwo
  TxCounts = {2}
  FilePkts = 5
  PageSize = 2
  CliIndexes = {}
  Paging = FALSE
  ChunkMod = 4
  LoopReads = {"cached"}
  Spurious = FALSE
  ApiCalls = {}
  NicDepth = 6
INVARIANTS WireTypeOK
PROPERTIES InOrder ReplayGoesOn
CHECK_DEADLOCK FALSE
