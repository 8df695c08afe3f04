SPECIFICATION Spec
CONSTANTS
  Jobs <- MCJobs
  Garbage = Garbage
  RawCap = 2
  BlockRecords = 2
  MinFiles = 2
  MaxFiles = 2
  MinEntries = 1
  MaxEntries = 3
  Sizes = {1}
  Modes = {"dump"}
  Starts = {0, 1, 3}
  Ends = {1, 3}
  Resolves = {0}
  MayBreak = {}
  MayRefuse = {}
  MayThrow = {}
  MaxDumpFiles = 2
INVARIANTS ConvertsTheRange
CHECK_DEADLOCK FALSE
