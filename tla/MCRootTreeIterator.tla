-------------------------- MODULE MCRootTreeIterator --------------------------
(***************************************************************************)
(* Small data sets and parameters for the runs of RootTreeIterator.        *)
(***************************************************************************)
EXTENDS RootTreeIterator, Layouts

CONSTANTS
  Batches,                \* values of microBatchSize
  Starts, Ends            \* values of start, and of end besides "none"

MCJobs ==
  { j \in { [files |-> l.files, base |-> l.base, off |-> l.off, start |-> s, end |-> e, batch |-> b] :
              l \in Layouts, s \in Starts, e \in Ends \cup {-1}, b \in Batches } :
      ParametersOK(j) }
=============================================================================
