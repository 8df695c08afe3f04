------------------------------ MODULE EntryCursor ------------------------------
(***************************************************************************)
(* What RootTreeIterator promises (scaroot-reader/README.md: an iterator   *)
(* over the entries of a list of files that is "rewindable and seekable"). *)
(* The entries are one sequence of records, numbered from 0; the cursor is *)
(* the number of the record that next() will return.  Files, buffers and   *)
(* micro-batches do not exist here.                                        *)
(***************************************************************************)
EXTENDS Integers

VARIABLES
  first,    \* the first entry the client asked for
  limit,    \* the entry after the last
  pos,      \* the record next() returns, if pos < limit
  last      \* the record the last next() returned; Nothing after a seek

CONSTANT Nothing

cursorVars == <<first, limit, pos, last>>

Init ==
  /\ first \in Nat /\ limit \in Nat /\ first < limit
  /\ pos = first
  /\ last = Nothing

\* next() returns the record under the cursor and moves it by one.
NextRecord ==
  /\ pos < limit
  /\ last' = pos
  /\ pos' = pos + 1
  /\ UNCHANGED <<first, limit>>

\* setIndex(i) moves the cursor to i, and behind the last entry if there is no i.
SeekTo(i) ==
  /\ pos' = IF i < limit THEN i ELSE limit
  /\ last' = Nothing
  /\ UNCHANGED <<first, limit>>

Next == NextRecord \/ \E i \in first .. limit : SeekTo(i)

Cursor == Init /\ [][Next]_cursorVars
=============================================================================
