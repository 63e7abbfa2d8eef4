SPECIFICATION FairSpec
CONSTANTS
  t1 = t1
  t2 = t2
  Threads = {t1, t2}
  MaxLevel = 1
  Min = 0
  Max = 6
  SizeModulus = 16
  Requests <- MeetingRanges
  MaxCalls = 2
  Misuse = TRUE
  head = head
  tail = tail
  Null = Null
INVARIANTS
  TypeOK
  SizeCounts
PROPERTIES
  MarkedWordsFrozen
  CallsReturn
CHECK_DEADLOCK FALSE
