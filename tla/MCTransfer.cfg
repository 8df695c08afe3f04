SPECIFICATION RegularFairSpec
CONSTANTS
  Half <- MCHalf
  Mantissa = 16
  SixDigits = 16
  Classes <- MCClasses
  Jobs <- MCJobs
  InitialCap = 8
  MaxEntries = 3
  Depth = 6
  Data <- MCData
  Chars <- MCChars
INVARIANTS TypeOK ValuesArrive RecordIsLaid RefusedForAReason BothSchemasAgree HeaderDescribes
PROPERTY Finishes
