SPECIFICATION MCSpec
CONSTANTS
  SpecialQueues = {0, 1}
  SeqCnt = 1
  MaxRequests = 3
  LogHistory = 5
  PageLines = 3
  MaxMessages = 8
  Modulus = 4
  MaxPackets = 2
  MaxClears = 1
  MaxDump = 3
  ByteSize = 8
  DumpAsks = {1, 4}
  DumpBurst = 2
  MaxDumpPkts = 4
  MaxDumpCmds = 2
  CapturePorts = {0, 1}
  NoPort = 2
  CaptureEnd = 3
  Sizes = {1, 2}
  CaptureBurst = 2
  MaxCaptured = 2
  MaxToggles = 4
  MaxProbes = 3
  MaxBuilds = 1
  MaxResets = 1
  RxQueues = {0, 1}
  MaxEntries = 4
  Totals = {1, 4}
  MaxRuns = 2
  RxMbufs = {1, 2, 3, 4}
  SpMbufs = {5, 6}
  RxBurst = 2
  Inputs = {"plain", "arp"}
  FieldSize = 6
  Room = 10
  MaxInc = 3
  GapSize = 2
  Blank = "."
  Chars = {"a", "_"}
  Space = "_"
  Lines <- TwoLines
  MaxLine = 2
  EdgeKeys = FALSE
  HistLines = 3
  Commands = {"a", "b", "m"}
  AliasLine = "s"
  Meaning = "m"
  MaxEntered = 6
INVARIANTS
  ComponentsTypeOK NoRequestLost RingHoldsNewest PageInOrder StaleOnlyIfOverlapped
  StatsRecover QueueRateExact DumpFaithful DumpInBounds FileFaithful SkipsExplained
  SamplesFaithful OwnedOnce KeepsNewest GapInBuffer
PROPERTIES LineRefined LapsComplete
CHECK_DEADLOCK FALSE
