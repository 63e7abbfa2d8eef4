SPECIFICATION Spec
CONSTANTS
  numThreads = 2
  numOfRanges = 3
  num_transactions_per_thread = 2
  num_records = 4
  minLength = 1
  maxLength = 2
INVARIANTS
  WritesSafe
  ReleasesOwned
  SizeAtJoin
PROPERTIES
  Joins
CHECK_DEADLOCK FALSE
