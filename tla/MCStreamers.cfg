SPECIFICATION RegularFairSpec
CONSTANTS
  Classes <- MCClasses
  Headers <- MCHeaders
  Names <- MCNames
  None = None
  Jobs <- MCJobs
  MaxTops = 4
INVARIANTS TypeOK DeclaredOnce DefinedBeforeUse NothingMissing
PROPERTY Finishes
CHECK_DEADLOCK FALSE
