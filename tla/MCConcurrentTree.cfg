SPECIFICATION FairSpec
CONSTANTS
  t1 = t1
  t2 = t2
  Threads = {t1, t2}
  Loader = t1
  Null = Null
  IMBALANCE_THRESHOLD = 2
  Requests <- SomeRanges
  AllKeys <- All
  Loads <- FourLoads
  MaxCalls = 3
  MaxOps = 3
  MaxNodes = 9
INVARIANTS
  HoldsContents
PROPERTIES
  PrepareOrder
  HoldersWrite
  CallsReturn
CHECK_DEADLOCK FALSE
