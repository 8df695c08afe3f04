SPECIFICATION Spec
CONSTANTS
  Jobs <- MCJobs
  MaxMatched = 3
  MaxSize = 3
  PartitionCounts = {2}
  Descending = FALSE
INVARIANTS EveryFileOnce
CHECK_DEADLOCK FALSE
