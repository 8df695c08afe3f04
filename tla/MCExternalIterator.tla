-------------------------- MODULE MCExternalIterator --------------------------
(***************************************************************************)
(* Small data sets and parameters for the runs of ExternalIterator.        *)
(***************************************************************************)
EXTENDS ExternalIterator

CONSTANTS
  Heads, Others,     \* entries of the first file, and of all others
  Starts, Ends,      \* values of start, and of end besides "none"
  Trials, Warnings   \* values of numberOfTrials and of warnings

MCJobs ==
  { j \in { [head |-> h, total |-> h + o, start |-> s, end |-> e, numberOfTrials |-> t,
             libs |-> l, reprFits |-> f, warnings |-> w] :
              h \in Heads, o \in Others, s \in Starts, e \in Ends \cup {NoEnd},
              t \in Trials, l \in BOOLEAN, f \in BOOLEAN, w \in Warnings } :
      ParametersOK(j) }
=============================================================================
