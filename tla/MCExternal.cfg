SPECIFICATION FairSpec
CONSTANTS
  Jobs <- MCJobs
  NoRecord = NoRecord
  PipeCap = 2
  MaxNoise = 2
  Heads = {1, 2, 3}
  Others = {0}
  Starts = {0, 1}
  Ends = {2, 3}
  Trials = {1, 2}
  Warnings = {0, 1}
INVARIANTS TypeOK EndIsComplete OneAhead
PROPERTIES ImplementsCursor CallReturns
CHECK_DEADLOCK FALSE
