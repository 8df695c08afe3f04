SPECIFICATION RegularSpec
CONSTANTS
  Garbage = Garbage
  Jobs <- MCJobs
  Client = {}
  InitialCap = 4
  SeekTargets = {}
  MaxPastEnd = 0
  MaxCap = 4
  MinFiles = 1
  MaxFiles = 2
  MinEntries = 1
  MaxEntries = 3
  Sizes = {2}
  Batches = {3}
  Starts = {0}
  Ends = {1, 4}
INVARIANTS NoOverrun
CHECK_DEADLOCK FALSE
