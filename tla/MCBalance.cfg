SPECIFICATION RegularSpec
CONSTANTS
  Jobs <- MCJobs
  MaxMatched = 5
  MaxSize = 8
  PartitionCounts = {1, 2, 3}
  Descending = TRUE
INVARIANTS EveryFileOnce NoMoveHelps NearOptimal
CHECK_DEADLOCK FALSE
