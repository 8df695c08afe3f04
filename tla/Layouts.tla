-------------------------------- MODULE Layouts --------------------------------
(***************************************************************************)
(* The data sets of the model-checking runs: every list of files within    *)
(* the bounds, with every choice of record sizes.                          *)
(***************************************************************************)
EXTENDS Integers

CONSTANTS
  MinFiles, MaxFiles,     \* bounds: number of files
  MinEntries, MaxEntries, \* bounds: entries of one file
  Sizes                   \* the sizes a record may have, in units of the buffer

\* How files and records are laid out: the prefix sums of their sizes.
PrefixSums(len, steps) ==
  { LET sum[k \in 0 .. len] == IF k = 0 THEN 0 ELSE sum[k - 1] + step[k]
    IN [k \in 0 .. len |-> sum[k]] : step \in [1 .. len -> steps] }

Layouts ==
  UNION { { [files |-> n, base |-> b, off |-> o] : o \in PrefixSums(b[n], Sizes) } :
            <<n, b>> \in UNION { {n} \X PrefixSums(n, MinEntries .. MaxEntries) :
                                   n \in MinFiles .. MaxFiles } }
=============================================================================
