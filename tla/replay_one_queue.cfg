SPECIFICATION FairSpec
CONSTANTS
  Queues = {0}
  Cap <- CapTwoTwo
  TxCounts = {1, 2}
  FilePkts = 5
  PageSize = 7
  CliIndexes = {0, 1, 7}
  Paging = TRUE
  ChunkMod = 4
  LoopReads = {"cached"}
  Spurious = FALSE
  ApiCalls = {}
INVARIANTS TypeOK ActiveNotReloaded LockedIffReloading SleeperHasReload
PROPERTIES SwitchWhenReady SwitchFollowsChunk WaitEnds QuitReturns
CHECK_DEADLOCK FALSE
