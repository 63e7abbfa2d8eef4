SPECIFICATION FairSpec
CONSTANTS
  t1 = t1
  t2 = t2
  t3 = t3
  Threads = {t1, t2, t3}
  Requests <- TouchingRanges
  MaxCalls = 3
  head = head
  Null = Null
INVARIANTS
  TypeOK
  LocksReachable
  PointersAscend
  RefusalsJustified
PROPERTIES
  MarkedPointersFrozen
  ImplementsRangeLock
  CallsReturn
CHECK_DEADLOCK FALSE
