SPECIFICATION Spec
CONSTANTS
  t1 = t1
  t2 = t2
  Threads = {t1, t2}
  Requests <- TouchingRanges
  MaxCalls = 4
  head = head
  Null = Null
INVARIANTS
  MutualExclusion
CHECK_DEADLOCK FALSE
