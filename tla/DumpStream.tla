------------------------------- MODULE DumpStream -------------------------------
(***************************************************************************)
(* What a root2avro process in dump mode promises its reader (root2avro.cpp*)
(* 321-340, datawalker.cpp 2854-2874, read by scaroot-reader's             *)
(* external.scala): the records of the requested range in order, each under*)
(* its entry number, then one end marker.  The process may die at any time,*)
(* and then there is no marker.                                            *)
(***************************************************************************)
EXTENDS Integers, Sequences

CONSTANT NoRecord    \* what stands in the place of the record in an end marker

VARIABLES
  first,    \* the first entry asked for
  limit,    \* the entry after the last
  log,      \* everything written to standard output
  status    \* "running", "done" or "died"

streamVars == <<first, limit, log, status>>

Item(entry, record) == [entry |-> entry, rec |-> record]
EndMarker           == Item(-1, NoRecord)

Init ==
  /\ first \in Nat /\ limit \in Nat
  /\ log = << >>
  /\ status = "running"

Send ==
  /\ status = "running"
  /\ first + Len(log) < limit
  /\ log' = Append(log, Item(first + Len(log), first + Len(log)))
  /\ UNCHANGED <<first, limit, status>>

Finish ==
  /\ status = "running"
  /\ first + Len(log) >= limit
  /\ log' = Append(log, EndMarker)
  /\ status' = "done"
  /\ UNCHANGED <<first, limit>>

Die ==
  /\ status = "running"
  /\ status' = "died"
  /\ UNCHANGED <<first, limit, log>>

Next == Send \/ Finish \/ Die

Stream == Init /\ [][Next]_streamVars
=============================================================================
