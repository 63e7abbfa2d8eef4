SPECIFICATION FairSpec
CONSTANTS
  t1 = t1
  t2 = t2
  Threads = {t1, t2}
  MaxLevel = 1
  Min = 0
  Max = 8
  Requests <- ApartRanges
  MaxCalls = 3
  Misuse = FALSE
  head = head
  tail = tail
  Null = Null
INVARIANTS
  TypeOK
  OwnersProtected
  OrderedChain
  OwnerReleases
  DeadlockFree
PROPERTIES
  MarkedNodesFrozen
  ImplementsRangeLock
  ReturnsUnlessStarved
CHECK_DEADLOCK FALSE
