SPECIFICATION RegularSpec
CONSTANTS
  Garbage = Garbage
  Jobs <- MCJobs
  Client = {"reset", "incrementIndex"}
  InitialCap = 4
  SeekTargets = {}
  MaxPastEnd = 1
  MaxCap = 8
  MinFiles = 1
  MaxFiles = 2
  MinEntries = 1
  MaxEntries = 3
  Sizes = {2, 3}
  Batches = {1, 2, 3}
  Starts = {0, 2}
  Ends = {4}
INVARIANTS NumbersInSync CopiesTheMicroBatch
CHECK_DEADLOCK FALSE
