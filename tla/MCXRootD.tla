-------------------------------- MODULE MCXRootD --------------------------------
(***************************************************************************)
(* Small sets of files for the runs of XRootD.                             *)
(***************************************************************************)
EXTENDS XRootD

CONSTANTS
  MaxMatched,      \* bound: the number of files
  MaxSize,         \* bound: the size of a file
  PartitionCounts, \* the numbers of partitions
  Descending       \* the sizes of the files 1, 2, ... are in descending order

\* The names of the files do not matter: 1, 2, ... in the order of their sizes.
MCJobs ==
  { j \in UNION { [matched : {1 .. n}, size : [1 .. n -> 0 .. MaxSize], partitions : PartitionCounts] :
                    n \in 1 .. MaxMatched } :
      \A f, g \in j.matched : f < g => IF Descending THEN j.size[f] > j.size[g] ELSE j.size[f] >= j.size[g] }
================================================================================
