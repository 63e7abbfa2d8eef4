SPECIFICATION Spec
CONSTANTS
  t1 = t1
  t2 = t2
  Threads = {t1, t2}
  MaxLevel = 1
  Min = 0
  Max = 8
  Requests <- MeetingRanges
  MaxCalls = 2
  Misuse = FALSE
  head = head
  tail = tail
  Null = Null
INVARIANTS
  MutualExclusion
CHECK_DEADLOCK FALSE
