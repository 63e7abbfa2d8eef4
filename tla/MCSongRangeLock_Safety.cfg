SPECIFICATION FairSpec
CONSTANTS
  t1 = t1
  t2 = t2
  Threads = {t1, t2}
  MAX_LEVEL = 1
  MAX_VALUE = 6
  SizeModulus = 16
  Requests <- FourRanges
  MaxCalls = 3
  Misuse = FALSE
  head = head
  tail = tail
  Null = Null
INVARIANTS
  SkipListShape
  SizeCounts
PROPERTIES
  ImplementsRangeLock
  CallsReturn
CHECK_DEADLOCK FALSE
