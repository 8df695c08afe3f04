--------------------------- MODULE TreeWalker_proofs ---------------------------
(***************************************************************************)
(* What every caller of the TreeWalker needs to know of it: the records of *)
(* a layout have numbers and sizes, and a step of copyToBuffer keeps the   *)
(* reader, the buffer and the arguments of the call in their types.        *)
(***************************************************************************)
EXTENDS TreeWalker, SequenceTheorems, TLAPS

LEMMA EntriesType ==
  ASSUME LayoutOK(job), NEW f \in Files
  PROVE  /\ Entries(f) \in Nat
         /\ job.base[f] \in Nat /\ job.base[f + 1] \in Nat
         /\ job.base[f + 1] <= Total /\ Total \in Nat
<1>1. job.files \in Nat \ {0} /\ f \in 0 .. job.files /\ f + 1 \in 0 .. job.files
  BY DEF LayoutOK, Files
<1>2. \A k \in 0 .. job.files : job.base[k] \in Nat
  BY DEF LayoutOK
<1>3. \A k, l \in 0 .. job.files : k <= l => job.base[k] <= job.base[l]
  BY DEF LayoutOK
<1>4. job.base[f] <= job.base[f + 1] /\ job.base[f + 1] <= job.base[job.files]
  BY <1>1, <1>3
<1>5. QED
  BY <1>1, <1>2, <1>4 DEF Entries, Total

LEMMA WidthType ==
  ASSUME LayoutOK(job), NEW r \in Records
  PROVE  Width(r) \in Nat \ {0}
<1>1. job.base[job.files] \in Nat
  BY DEF LayoutOK
<1>2. /\ r \in 0 .. job.base[job.files] /\ r + 1 \in 0 .. job.base[job.files] /\ r \in Int
  BY <1>1 DEF Records, Total
<1>3. job.off[r] \in Nat /\ job.off[r + 1] \in Nat
  BY <1>2 DEF LayoutOK
<1>4. job.off[r] < job.off[r + 1]
  <2>1. \A g, h \in 0 .. job.base[job.files] : g < h => job.off[g] < job.off[h]
    BY DEF LayoutOK
  <2>2. r < r + 1
    BY <1>2
  <2>3. QED
    BY <1>2, <2>1, <2>2
<1>5. r # Garbage
  BY <1>2, GarbageAssumption
<1>6. QED
  BY <1>3, <1>4, <1>5 DEF Width

LEMMA RecordType ==
  ASSUME LayoutOK(job), NEW f \in Files, NEW e \in Int
  PROVE  /\ RecordAt(f, e) \in Nat \cup {Garbage}
         /\ Width(RecordAt(f, e)) \in Nat \ {0}
<1>1. CASE e \in 0 .. Entries(f) - 1
  <2>1. RecordAt(f, e) = job.base[f] + e
    BY <1>1 DEF RecordAt
  <2>2. job.base[f] + e \in Records
    BY <1>1, EntriesType DEF Entries, Records
  <2>3. job.base[f] + e \in Nat
    BY <2>2, EntriesType DEF Records
  <2>4. QED
    BY <2>1, <2>2, <2>3, WidthType
<1>2. CASE e \notin 0 .. Entries(f) - 1
  BY <1>2 DEF RecordAt, Width
<1>3. QED
  BY <1>1, <1>2

LEMMA WalkerKept ==
  ASSUME WalkerTypeOK, UNCHANGED walkerVars
  PROVE  WalkerTypeOK'
BY DEF WalkerTypeOK, walkerVars, Readers, Buffers, Copyings, Files, Slot

\* What the type of a state asks of the next one, step by step.
LEMMA WalkerStep ==
  ASSUME WalkerTypeOK, UNCHANGED job, reader' \in Readers, buffer' \in Buffers,
         copying' \in Copyings
  PROVE  WalkerTypeOK'
BY DEF WalkerTypeOK, Readers, Buffers, Copyings, Files, Slot

LEMMA WritableType ==
  ASSUME NEW cap \in Nat \ {0}
  PROVE  Writable(cap) \in Buffers
<1>1. [status |-> StatusWriting, rec |-> Garbage] \in Slot
  BY DEF Slot, BufferStatus, StatusWriting
<1>2. << [status |-> StatusWriting, rec |-> Garbage] >> \in Seq(Slot)
  BY <1>1
<1>3. QED
  BY <1>2 DEF Writable, Buffers

LEMMA CopyType ==
  ASSUME WalkerTypeOK, Poll \/ CopyFits \/ CopyTooSmall \/ CopyPastLimit
  PROVE  /\ WalkerTypeOK' /\ UNCHANGED job
         /\ buffer.slots # << >> => buffer'.slots # << >>
<1>1. /\ reader.file \in Files /\ copying.entry + copying.i \in Int
      /\ copying.i \in Nat /\ copying.n \in Nat
      /\ buffer.ptr \in Nat /\ buffer.slots \in Seq(Slot) /\ buffer.cap \in Nat \ {0}
      /\ LayoutOK(job)
  BY DEF WalkerTypeOK, Readers, Buffers, Copyings
<1>2. Source \in Nat \cup {Garbage} /\ Width(Source) \in Nat \ {0}
  BY <1>1, RecordType DEF Source
<1>3. Written \in Seq(Slot)
  BY <1>1 DEF Written
<1>4. UNCHANGED job
  BY DEF Poll, CopyFits, CopyTooSmall, CopyPastLimit
<1>5. SetEntry => reader' \in Readers
  BY <1>1 DEF SetEntry, Readers, WalkerTypeOK
<1>6. CASE Poll
  <2>1. buffer' = buffer /\ reader' = reader /\ copying' \in Copyings
    BY <1>6 DEF Poll, WalkerTypeOK, Copyings
  <2>2. WalkerTypeOK'
    BY <1>4, <2>1, WalkerStep DEF WalkerTypeOK
  <2>3. QED
    BY <1>4, <2>1, <2>2
<1>7. CASE CopyFits
  <2>1. [status |-> StatusReading, rec |-> Source] \in Slot
    BY <1>2 DEF Slot, BufferStatus, StatusReading
  <2>2. /\ Append(Written, [status |-> StatusReading, rec |-> Source]) \in Seq(Slot)
        /\ Append(Written, [status |-> StatusReading, rec |-> Source]) # << >>
    BY <1>3, <2>1, AppendProperties
  <2>3. buffer.ptr + Width(Source) \in Nat
    BY <1>1, <1>2
  <2>4. buffer' \in Buffers /\ buffer'.slots # << >>
    BY <1>7, <2>2, <2>3 DEF CopyFits, Buffers, WalkerTypeOK
  <2>5. copying' \in Copyings /\ SetEntry
    BY <1>1, <1>7 DEF CopyFits, Copyings, WalkerTypeOK
  <2>6. QED
    BY <1>4, <1>5, <2>4, <2>5, WalkerStep
<1>8. CASE CopyTooSmall
  <2>1. [status |-> StatusTooSmall, rec |-> Garbage] \in Slot
    BY DEF Slot, BufferStatus, StatusTooSmall
  <2>2. /\ Append(Written, [status |-> StatusTooSmall, rec |-> Garbage]) \in Seq(Slot)
        /\ Append(Written, [status |-> StatusTooSmall, rec |-> Garbage]) # << >>
    BY <1>3, <2>1, AppendProperties
  <2>3. buffer' \in Buffers /\ buffer'.slots # << >>
    BY <1>8, <2>2 DEF CopyTooSmall, Buffers, WalkerTypeOK
  <2>4. copying' \in Copyings /\ SetEntry
    BY <1>1, <1>8 DEF CopyTooSmall, Copyings, WalkerTypeOK
  <2>5. QED
    BY <1>4, <1>5, <2>3, <2>4, WalkerStep
<1>9. CASE CopyPastLimit
  <2>1. buffer.ptr + Width(Source) \in Nat
    BY <1>1, <1>2
  <2>2. buffer' \in Buffers /\ buffer'.slots = buffer.slots
    BY <1>9, <2>1 DEF CopyPastLimit, Buffers, WalkerTypeOK
  <2>3. copying' \in Copyings /\ SetEntry
    BY <1>1, <1>9 DEF CopyPastLimit, Copyings, WalkerTypeOK
  <2>4. QED
    BY <1>4, <1>5, <2>2, <2>3, WalkerStep
<1>10. QED
  BY <1>6, <1>7, <1>8, <1>9
=============================================================================
