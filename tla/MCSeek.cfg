SPECIFICATION RegularSpec
CONSTANTS
  Garbage = Garbage
  Jobs <- MCJobs
  Client = {"setIndex", "reset"}
  InitialCap = 4
  SeekTargets = {0, 1, 2, 3, 4}
  MaxPastEnd = 0
  MaxCap = 4
  MinFiles = 1
  MaxFiles = 3
  MinEntries = 1
  MaxEntries = 2
  Sizes = {2, 5}
  Batches = {1, 2, 3}
  Starts = {0, 1}
  Ends = {3}
INVARIANTS TypeOK DeliversIndexed BufferInSync
PROPERTIES ImplementsCursor NearerTheReturn
CHECK_DEADLOCK FALSE
