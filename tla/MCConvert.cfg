SPECIFICATION FairSpec
CONSTANTS
  Jobs <- MCJobs
  Garbage = Garbage
  RawCap = 1
  BlockRecords = 3
  MinFiles = 1
  MaxFiles = 3
  MinEntries = 1
  MaxEntries = 3
  Sizes = {1, 5}
  Modes = {"json", "avro", "avro-stream", "dump", "schema", "other"}
  Starts = {1, 3}
  Ends = {2}
  Resolves = {2}
  MayBreak = {0, 2}
  MayRefuse = {4}
  MayThrow = {1, 3}
  MaxDumpFiles = 1
INVARIANTS TypeOK ConvertsTheRange SuccessIsComplete LossNeedsCause ReaderAtCurrentEntry
PROPERTIES ImplementsStream NearerTheEnd Exits
CHECK_DEADLOCK FALSE
