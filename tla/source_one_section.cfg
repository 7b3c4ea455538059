SPECIFICATION Spec
CONSTANTS
  Sources <- GoodSources
  Totals = {12, 17, 24, 33}
  Used = {0, 2, 5}
  Page = 2
  PerPkt = 2
  Multiple = 2
  MinPool = 6
INVARIANTS AllInOneSection
CHECK_DEADLOCK FALSE
