------------------------------ MODULE TreeWalker ------------------------------
(***************************************************************************)
(* The C++ TreeWalker as its callers see it (root2avro/src/datawalker.cpp):*)
(* one ROOT file is open at a time, a TTreeReader stands on one entry of   *)
(* its tree, and copyToBuffer serialises a micro-batch of entries into     *)
(* memory that the caller owns.                                            *)
(*                                                                         *)
(* A record is named by its position in the concatenation of all files, so *)
(* "the right record" is an equality of numbers.  The sizes of the files   *)
(* and of the records are given by prefix sums: file f holds the records   *)
(* base[f] .. base[f+1]-1 and record g takes off[g+1]-off[g] bytes of the  *)
(* buffer, its status byte included.  The walkers are taken not to throw   *)
(* while they write a record; Root2Avro has the step in which one does.    *)
(***************************************************************************)
EXTENDS Integers, Sequences

CONSTANTS
  Jobs,     \* the files, record sizes and parameters a run may be started with
  Garbage   \* what decoding bytes that are no record of the tree yields

VARIABLES
  job,      \* the element of Jobs this behaviour is about; it never changes
  reader,   \* the open file and the entry the TTreeReader stands on
  buffer,   \* the shared memory: capacity, records written, write pointer
  copying   \* the arguments of the running copyToBuffer and its loop counter

walkerVars == <<job, reader, buffer, copying>>

(***************************************************************************)
(* The first byte of every record (datawalker.h, BufferStatus).            *)
(***************************************************************************)
StatusReading  == 0
StatusWriting  == 1
StatusTooSmall == 2
BufferStatus   == {StatusReading, StatusWriting, StatusTooSmall}

Files      == 0 .. job.files - 1
Total      == job.base[job.files]
Records    == 0 .. Total - 1
Entries(f) == job.base[f + 1] - job.base[f]

(***************************************************************************)
(* What reading entry e of file f yields.  ROOT does not fail on an entry  *)
(* the tree does not have: the branches keep whatever they held.           *)
(***************************************************************************)
RecordAt(f, e) == IF e \in 0 .. Entries(f) - 1 THEN job.base[f] + e ELSE Garbage

\* A record that is no record still has its status byte.
Width(r) == IF r = Garbage THEN 1 ELSE job.off[r + 1] - job.off[r]

LayoutOK(j) ==
  /\ j.files \in Nat \ {0}
  /\ j.base \in [0 .. j.files -> Nat]
  /\ j.base[0] = 0
  /\ \A f, g \in 0 .. j.files : f <= g => j.base[f] <= j.base[g]
  /\ j.off \in [0 .. j.base[j.files] -> Nat]
  /\ \A g, h \in 0 .. j.base[j.files] : g < h => j.off[g] < j.off[h]

ASSUME JobsAssumption    == \A j \in Jobs : LayoutOK(j)
ASSUME GarbageAssumption == Garbage \notin Int

Slot == [status : BufferStatus, rec : Nat \cup {Garbage}]

Readers  == [file : Files, entry : Int]
Buffers  == [cap : Nat \ {0}, slots : Seq(Slot), ptr : Nat, overrun : BOOLEAN]
Copyings == [entry : Nat, n : Nat, i : Nat, phase : {"poll", "loop"}]

WalkerTypeOK ==
  /\ LayoutOK(job)
  /\ reader \in Readers
  /\ buffer \in Buffers
  /\ copying \in Copyings

-----------------------------------------------------------------------------
(***************************************************************************)
(* reset: close the file, open another one and point every field at the    *)
(* new reader.  The files are taken to exist (see the README).             *)
(***************************************************************************)
Opened(f) == [file |-> f, entry |-> -1]

\* Mutant: the caller forgets to set the status byte.
NotWritable(cap) ==
  [cap     |-> cap,
   slots   |-> << [status |-> StatusReading, rec |-> Garbage] >>,
   ptr     |-> 0,
   overrun |-> FALSE]

(***************************************************************************)
(* The caller's half of the handshake: a buffer of the given capacity whose*)
(* first byte says that C++ may write.  What follows that byte is left     *)
(* from before.                                                            *)
(***************************************************************************)
Writable(cap) ==
  [cap     |-> cap,
   slots   |-> << [status |-> StatusWriting, rec |-> Garbage] >>,
   ptr     |-> 0,
   overrun |-> FALSE]

\* A call polls the status byte, then loops over the micro-batch.
Call(entry, n) == [entry |-> entry, n |-> n, i |-> 0, phase |-> "poll"]

Poll ==
  /\ copying.phase = "poll"
  /\ buffer.slots[1].status = StatusWriting
  /\ copying' = [copying EXCEPT !.phase = "loop"]
  /\ UNCHANGED <<job, reader, buffer>>

(***************************************************************************)
(* The body of copyToBuffer's loop for the record after the ones written:  *)
(* SetEntry, then every field copies itself unless the bytes left are too  *)
(* few.  The bytes left are limit - ptr as an unsigned number, so the test *)
(* can only fail for a record that begins inside the buffer: one that      *)
(* begins at its limit finds 2^64 - 1 bytes left and is written behind it. *)
(***************************************************************************)
Source == RecordAt(reader.file, copying.entry + copying.i)

\* Mutant: the bytes left are compared without the status byte already written.
FitsWithoutStatus == buffer.ptr + Width(Source) - 1 <= buffer.cap

Fits     == buffer.ptr + Width(Source) <= buffer.cap
Written  == IF buffer.ptr = 0 THEN << >> ELSE buffer.slots
InLoop   == copying.phase = "loop" /\ copying.i < copying.n
SetEntry == reader' = [reader EXCEPT !.entry = copying.entry + copying.i]

CopyFits ==
  /\ InLoop
  /\ buffer.ptr < buffer.cap
  /\ Fits
  /\ SetEntry
  /\ buffer' = [buffer EXCEPT !.slots = Append(Written, [status |-> StatusReading, rec |-> Source]),
                              !.ptr   = @ + Width(Source)]
  /\ copying' = [copying EXCEPT !.i = @ + 1]
  /\ UNCHANGED job

\* Some field found too few bytes: only the status byte tells, and the loop ends.
CopyTooSmall ==
  /\ InLoop
  /\ buffer.ptr < buffer.cap
  /\ ~Fits
  /\ SetEntry
  /\ buffer' = [buffer EXCEPT !.slots = Append(Written, [status |-> StatusTooSmall, rec |-> Garbage])]
  /\ copying' = [copying EXCEPT !.n = copying.i]
  /\ UNCHANGED job

CopyPastLimit ==
  /\ InLoop
  /\ buffer.ptr >= buffer.cap
  /\ SetEntry
  /\ buffer' = [buffer EXCEPT !.ptr = @ + Width(Source), !.overrun = TRUE]
  /\ copying' = [copying EXCEPT !.i = @ + 1]
  /\ UNCHANGED job

CopyReturns == copying.phase = "loop" /\ copying.i >= copying.n /\ UNCHANGED walkerVars

-----------------------------------------------------------------------------
(***************************************************************************)
(* How far a call is from its end: the bytes of a record that do not fit   *)
(* even at the beginning of the buffer, and the steps of the call that are *)
(* not about one of the records.                                           *)
(***************************************************************************)
Shortage(r) == IF Width(r) > buffer.cap THEN Width(r) - buffer.cap ELSE 0
CallSteps   == IF copying.phase = "poll" THEN 2 ELSE IF copying.i < copying.n THEN 1 ELSE 0
=============================================================================
