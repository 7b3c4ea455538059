SPECIFICATION FairSpec
CONSTANTS
  Sources <- AllSources
  Totals = {0, 3, 12, 17, 24, 33}
  Used = {0, 2, 5}
  Page = 2
  PerPkt = 2
  Multiple = 2
  MinPool = 6
INVARIANTS TypeOK FitsMemory
PROPERTIES LoadsInOrder TwoSectionsInOrder StartsOrExits AllReplayed
CHECK_DEADLOCK FALSE
