SPECIFICATION Spec
CONSTANTS
  Garbage = Garbage
  Jobs <- MCJobs
  Client = {"setIndex"}
  InitialCap = 4
  SeekTargets = {0, 1, 2, 3}
  MaxPastEnd = 0
  MaxCap = 4
  MinFiles = 1
  MaxFiles = 2
  MinEntries = 1
  MaxEntries = 3
  Sizes = {3}
  Batches = {2}
  Starts = {0}
  Ends = {1, 4}
INVARIANTS DeliversIndexed
CHECK_DEADLOCK FALSE
