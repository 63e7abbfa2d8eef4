SPECIFICATION Spec
CONSTANTS
  t1 = t1
  t2 = t2
  Threads = {t1, t2}
  MaxLevel = 1
  Min = 0
  Max = 6
  SizeModulus = 16
  Requests <- ThreeRanges
  MaxCalls = 3
  Misuse = FALSE
  head = head
  tail = tail
  Null = Null
SYMMETRY ThreadSymmetry
INVARIANTS
  MutualExclusion
  OwnersProtected
  OrderedChain
  RefusalsJustified
  OwnerReleases
  WordsExist
  LevelsAscend
  UnmarkedIsLinked
PROPERTIES
  ImplementsRangeLock
CHECK_DEADLOCK FALSE
