SPECIFICATION RegularFairSpec
CONSTANTS
  Garbage = Garbage
  Jobs <- MCJobs
  Client = {"reset"}
  InitialCap = 4
  SeekTargets = {}
  MaxPastEnd = 0
  MaxCap = 4
  MinFiles = 1
  MaxFiles = 2
  MinEntries = 1
  MaxEntries = 3
  Sizes = {3, 6}
  Batches = {1, 2, 3}
  Starts = {0, 2}
  Ends = {1, 4}
INVARIANTS HasNextExact OnlyDeclaredErrors NoOverrun BufferNoLargerThanNeeded
PROPERTIES Progress
CHECK_DEADLOCK FALSE
