------------------------ MODULE RootTreeIterator_proofs ------------------------
(***************************************************************************)
(* Proofs about RootTreeIterator for every list of files, every record     *)
(* size and every micro-batch size.  For any client: the type invariant,   *)
(* the position numbers and what copyToBuffer copies.  For a client that   *)
(* does not call incrementIndex: what next() returns, the size of the      *)
(* buffer, the errors, the refinement of EntryCursor and the measure by    *)
(* which a call ends.  A theorem that is about a seek into the files only  *)
(* (SeeksInside), or about records that end before the buffer does         *)
(* (NeverFills), says so.                                                  *)
(***************************************************************************)
EXTENDS RootTreeIterator, TreeWalker_proofs

(***************************************************************************)
(* The inductive invariant, part by part.  Position and OpenFile are about *)
(* the numbers; CopyInv and ReadInv say what is in the buffer while it is  *)
(* being written and while it is being read.                               *)
(***************************************************************************)
Slots == buffer.slots

\* entriesInFile is only ever asked about a file that has this many entries left.
InFile ==
  /\ ~Lost => entryInFileIndex <= Entries(fileIndex)
  /\ pc \in {"seek", "copy"} => ~Lost
  /\ pc = "seek" /\ entryIndex < target => entryInFileIndex = 0

TypeInv == TypeOK /\ InFile

SeekInv ==
  pc = "seek" =>
    /\ ~Lost
    /\ microBatchIndex = 0
    /\ entryInFileIndex < Entries(fileIndex)
    /\ entryIndex = job.base[fileIndex] + entryInFileIndex
    /\ entryIndex <= target
    /\ entryIndex < target => entryInFileIndex = 0
    /\ EqualSizes \/ target = 0

Position ==
  pc \in {"idle", "copy", "decode"} /\ ~Lost =>
    /\ entryInFileIndex < Entries(fileIndex)
    /\ entryIndex = job.base[fileIndex] + entryInFileIndex
    /\ reader.file = fileIndex

\* A client that skips entries (as in MCSkip) leaves the buffer behind: what follows is
\* the case without it.
Skips == "incrementIndex" \in Client

LostInv ==
  /\ ~Skips /\ Lost => pc \in {"idle", "unbuilt"} /\ microBatchIndex = 0
  /\ pc = "copy" => microBatchIndex = 0

\* The size of the micro-batch that starts at entry e of the current file.
BatchAt(e) == IF Entries(fileIndex) - e > job.batch THEN job.batch ELSE Entries(fileIndex) - e

\* Slot k holds the k-th record after the entry the copy started at.
Holds(k) ==
  /\ Slots[k].status = StatusReading
  /\ Slots[k].rec = job.base[fileIndex] + copying.entry + (k - 1)

AllHold       == \A k \in DOMAIN Slots : Holds(k)
EndsTooSmall  == Slots # << >> /\ Slots[Len(Slots)].status = StatusTooSmall
HoldUpToShort == EndsTooSmall /\ \A k \in DOMAIN Slots : k < Len(Slots) => Holds(k)

Fresh == copying.i = 0 /\ buffer.ptr = 0 /\ copying.n = BatchAt(copying.entry) /\ ~buffer.overrun

Partial ==
  /\ copying.i \in 1 .. copying.n /\ copying.n = BatchAt(copying.entry)
  /\ buffer.ptr > 0 /\ Slots # << >> /\ AllHold
  /\ IF buffer.overrun THEN buffer.ptr >= buffer.cap ELSE Len(Slots) = copying.i

CutShort == copying.i = copying.n /\ HoldUpToShort /\ ~buffer.overrun

CopyInv ==
  pc = "copy" => copying.entry = entryInFileIndex /\ (Fresh \/ Partial \/ CutShort)

\* The buffer serves the reads of the micro-batch until one that is refused.
Serves ==
  \/ buffer.overrun /\ AllHold
  \/ rd <= Len(Slots) /\ HoldUpToShort
  \/ rd <= Len(Slots) /\ AllHold /\ Len(Slots) = BatchAt(copying.entry)

Reading == pc = "decode" \/ (pc = "idle" /\ microBatchIndex # 0)

ReadInv ==
  ~Skips /\ Reading =>
    /\ rd = microBatchIndex + 1
    /\ copying.entry + microBatchIndex = entryInFileIndex
    /\ Serves

DeliveryInv == ~Skips => DeliversIndexed

Core == Regular /\ SeekInv /\ Position /\ LostInv /\ CopyInv /\ ReadInv /\ DeliveryInv
IInv == TypeInv /\ Core

-----------------------------------------------------------------------------
(***************************************************************************)
(* Types.                                                                  *)
(***************************************************************************)
LEMMA InitType == Init => TypeInv
<1> SUFFICES ASSUME Init PROVE TypeInv
  OBVIOUS
<1>1. LayoutOK(job) /\ ParametersOK(job)
  BY JobsAssumption, ParametersAssumption DEF Init
<1>2. job.files \in Nat \ {0} /\ 0 \in Files /\ job.start \in Nat
  BY <1>1 DEF LayoutOK, ParametersOK, Files
<1>3. WalkerTypeOK
  <2>1. reader \in Readers /\ copying \in Copyings
    BY <1>2 DEF Init, Opened, Call, Readers, Copyings
  <2>2. buffer = [cap |-> InitialCap, slots |-> << >>, ptr |-> 0, overrun |-> FALSE]
    BY DEF Init, Writable
  <2>3. << >> \in Seq(Slot)
    OBVIOUS
  <2>4. buffer \in Buffers
    BY <2>2, <2>3, BoundsAssumption DEF Buffers
  <2>5. QED
    BY <1>1, <2>1, <2>4 DEF WalkerTypeOK
<1>4. InFile
  BY <1>2, EntriesType, <1>1 DEF Init, InFile, Lost
<1>5. /\ pc = "seek" /\ built = FALSE /\ target = job.start /\ done \in BOOLEAN
      /\ entryIndex = 0 /\ fileIndex = 0 /\ entryInFileIndex = 0 /\ microBatchIndex = 0
      /\ counted = {} /\ rd = 1 /\ out = NoRecord /\ raised = "none"
  BY DEF Init
<1>6. NoRecord \in [at : Nat \cup {-1}, rec : Nat \cup {Garbage}] /\ "none" \in Exceptions
  BY DEF NoRecord, Exceptions
<1>7. FlagsTypeOK
  BY <1>5 DEF FlagsTypeOK
<1>8. TypeOK
  BY <1>1, <1>2, <1>3, <1>5, <1>6, <1>7 DEF TypeOK
<1>9. QED
  BY <1>4, <1>8 DEF TypeInv

LEMMA TypeFacts ==
  ASSUME TypeInv
  PROVE  /\ LayoutOK(job) /\ job.files \in Nat \ {0} /\ job.batch \in Nat \ {0}
         /\ fileIndex \in 0 .. job.files
         /\ entryInFileIndex \in Nat /\ entryIndex \in Nat /\ microBatchIndex \in Nat
         /\ ~Lost => /\ fileIndex \in Files
                     /\ Entries(fileIndex) \in Nat
                     /\ entryInFileIndex <= Entries(fileIndex)
         /\ pc \in {"seek", "copy"} => ~Lost
         /\ pc = "seek" /\ entryIndex < target => entryInFileIndex = 0
<1>1. /\ LayoutOK(job) /\ ParametersOK(job) /\ fileIndex \in 0 .. job.files
      /\ entryInFileIndex \in Nat /\ entryIndex \in Nat /\ microBatchIndex \in Nat
  BY DEF TypeInv, TypeOK, WalkerTypeOK
<1>2. job.files \in Nat \ {0} /\ job.batch \in Nat \ {0}
  BY <1>1 DEF LayoutOK, ParametersOK
<1>3. ~Lost => fileIndex \in Files
  BY <1>1, <1>2 DEF Lost, Files
<1>4. QED
  BY <1>1, <1>2, <1>3, EntriesType DEF TypeInv, InFile

LEMMA CountType ==
  ASSUME TypeInv, NEW f \in Files, CountEntries(f)
  PROVE  reader' \in Readers /\ counted' \subseteq Files
BY DEF TypeInv, TypeOK, WalkerTypeOK, CountEntries, Opened, Readers

LEMMA SetIndexType ==
  ASSUME TypeInv, NEW i \in Nat, SetIndex(i)
  PROVE  TypeInv'
<1>1. UNCHANGED walkerVars /\ UNCHANGED <<built, counted, rd>> /\ job' = job
  BY DEF SetIndex, walkerVars
<1>2. WalkerTypeOK' /\ ParametersOK(job')
  BY <1>1, WalkerKept DEF TypeInv, TypeOK
<1>3. FlagsTypeOK'
  BY DEF SetIndex, numbers, TypeInv, TypeOK, FlagsTypeOK
<1>4. CASE InBounds(i)
  <2>1. Zeroed /\ pc' = "seek" /\ target' = i /\ Moved
    BY <1>4 DEF SetIndex
  <2>2. 0 \in Files /\ 0 \in 0 .. job.files
    BY TypeFacts DEF Files
  <2>3. InFile'
    BY <1>1, <2>1, <2>2, EntriesType, TypeFacts DEF InFile, Zeroed, Lost, Entries
  <2>4. QED
    BY <1>1, <1>2, <1>3, <2>1, <2>2, <2>3
    DEF TypeInv, TypeOK, Zeroed, Moved, NoRecord, Exceptions, Files
<1>5. CASE ~InBounds(i)
  <2>1. UNCHANGED <<pc, target, numbers, out>> /\ raised' = "IllegalArgument"
    BY <1>5 DEF SetIndex, Fails
  <2>2. InFile'
    BY <1>1, <2>1 DEF TypeInv, InFile, Lost, Entries, numbers
  <2>3. QED
    BY <1>1, <1>2, <1>3, <2>1, <2>2 DEF TypeInv, TypeOK, numbers, Exceptions, Files
<1>6. QED
  BY <1>4, <1>5

LEMMA SeekStepsType ==
  ASSUME TypeInv, SeekPassesFile \/ SeekLandsInFile \/ SeekReturns
  PROVE  TypeInv'
<1> DEFINE f == fileIndex
<1>1. /\ UNCHANGED <<job, buffer, copying>> /\ UNCHANGED <<target, rd, microBatchIndex>>
      /\ pc = "seek" /\ target \in Nat
  BY DEF SeekPassesFile, SeekLandsInFile, SeekReturns, TypeInv, TypeOK
<1>2. f \in Files /\ ~Lost
  BY <1>1, TypeFacts
<1>3. FlagsTypeOK'
  BY DEF SeekPassesFile, SeekLandsInFile, SeekReturns, SeekFails, TypeInv, TypeOK, FlagsTypeOK
<1>4. CASE SeekPassesFile
  <2>1. entryInFileIndex = 0 /\ fileIndex' = f + 1 /\ UNCHANGED entryInFileIndex
    BY <1>4, TypeFacts DEF SeekPassesFile
  <2>2. CASE f + 1 < job.files
    <3>1. f + 1 \in Files
      BY <1>2, <2>2, TypeFacts DEF Files
    <3>2. /\ entryIndex' = entryIndex + Entries(f + 1) /\ counted' = counted \cup {f, f + 1}
          /\ reader' = IF f + 1 \notin counted THEN Opened(f + 1)
                       ELSE IF f \notin counted THEN Opened(f) ELSE reader
          /\ UNCHANGED <<pc, built, out, raised>>
      BY <1>4, <2>1, <2>2 DEF SeekPassesFile
    <3>3. reader' \in Readers
      BY <1>2, <3>1, <3>2 DEF Opened, Readers, TypeInv, TypeOK, WalkerTypeOK
    <3>4. WalkerTypeOK'
      BY <1>1, <3>3, WalkerStep DEF TypeInv, TypeOK, WalkerTypeOK
    <3>5. Entries(f + 1) \in Nat
      BY <3>1, EntriesType, TypeFacts
    <3>6. InFile'
      BY <1>1, <2>1, <2>2, <3>1, <3>2, <3>5, TypeFacts DEF InFile, Lost, Entries, Files
    <3>7. QED
      <4>1. /\ entryIndex' \in Nat /\ fileIndex' \in 0 .. job.files /\ counted' \subseteq Files
        BY <1>2, <2>1, <3>1, <3>2, <3>5, TypeFacts DEF TypeInv, TypeOK, Files
      <4>2. QED
        BY <1>1, <1>3, <2>1, <3>2, <3>4, <3>6, <4>1 DEF TypeInv, TypeOK, Files
  <2>3. CASE ~(f + 1 < job.files)
    <3>1. SeekFails /\ CountEntries(f) /\ UNCHANGED entryIndex
      BY <1>4, <2>1, <2>3 DEF SeekPassesFile
    <3>2. f + 1 = job.files
      BY <1>2, <2>3, TypeFacts DEF Files
    <3>3. WalkerTypeOK' /\ counted' \subseteq Files
      BY <1>1, <1>2, <3>1, CountType, WalkerStep DEF TypeInv, TypeOK, WalkerTypeOK
    <3>4. InFile'
      BY <1>1, <2>1, <3>1, <3>2, TypeFacts DEF InFile, Lost, SeekFails
    <3>5. QED
      BY <1>1, <1>3, <2>1, <3>1, <3>2, <3>3, <3>4
      DEF TypeInv, TypeOK, SeekFails, Fails, Exceptions, Files
  <2>4. QED
    BY <2>2, <2>3
<1>5. CASE SeekLandsInFile
  <2>1. /\ entryInFileIndex' = target - entryIndex /\ entryIndex' = target /\ CountEntries(f)
        /\ entryIndex < target /\ entryIndex + Entries(f) > target
        /\ UNCHANGED <<pc, built, done, fileIndex, out, raised>>
    BY <1>5 DEF SeekLandsInFile
  <2>2. WalkerTypeOK' /\ counted' \subseteq Files
    BY <1>1, <1>2, <2>1, CountType, WalkerStep DEF TypeInv, TypeOK, WalkerTypeOK
  <2>3. entryInFileIndex' \in Nat /\ entryInFileIndex' <= Entries(f)
    BY <1>1, <1>2, <2>1, TypeFacts
  <2>4. InFile'
    BY <1>1, <1>2, <2>1, <2>3 DEF InFile, Lost, Entries
  <2>5. QED
    BY <1>1, <1>3, <2>1, <2>2, <2>3, <2>4 DEF TypeInv, TypeOK, Files
<1>6. CASE SeekReturns
  <2>1. reader' = Opened(f) /\ pc' = "idle"
        /\ UNCHANGED <<entryIndex, fileIndex, entryInFileIndex, counted, out, raised>>
    BY <1>6 DEF SeekReturns
  <2>2. WalkerTypeOK'
    BY <1>1, <1>2, <2>1, WalkerStep DEF TypeInv, TypeOK, WalkerTypeOK, Opened, Readers
  <2>3. InFile'
    BY <1>1, <1>2, <2>1 DEF InFile, Lost, Entries, TypeInv
  <2>4. QED
    BY <1>1, <1>3, <2>1, <2>2, <2>3 DEF TypeInv, TypeOK, Files
<1>7. QED
  BY <1>4, <1>5, <1>6

\* What both forms of incrementIndex do to the numbers.
NumbersType ==
  /\ entryIndex \in Nat /\ fileIndex \in 0 .. job.files /\ entryInFileIndex \in Nat
  /\ microBatchIndex \in Nat
  /\ counted \subseteq Files
  /\ reader \in Readers
  /\ ~Lost => entryInFileIndex <= Entries(fileIndex)

LEMMA IncrementType ==
  ASSUME TypeInv, ~Lost, UNCHANGED job, IncrementIndex
  PROVE  NumbersType' /\ done' = (done \/ Exhausts)
<1>1. fileIndex \in Files /\ Files' = Files /\ Readers' = Readers
  BY TypeFacts DEF Files, Readers
<1>2. reader' \in Readers /\ counted' \subseteq Files
  <2>1. reader \in Readers /\ counted \subseteq Files
    BY DEF TypeInv, TypeOK, WalkerTypeOK
  <2>2. fileIndex + 1 < job.files => fileIndex + 1 \in Files
    BY <1>1, TypeFacts DEF Files
  <2>3. QED
    BY <1>1, <2>1, <2>2 DEF IncrementIndex, Opened, Readers
<1>3. CASE LeavesFile
  <2>1. /\ entryIndex' = entryIndex + 1 /\ fileIndex' = fileIndex + 1
        /\ entryInFileIndex' = 0 /\ microBatchIndex' = 0
    BY <1>3 DEF IncrementIndex
  <2>2. fileIndex + 1 \in 0 .. job.files
    BY <1>1, TypeFacts DEF Files
  <2>3. ~Lost' => 0 <= Entries(fileIndex + 1)
    BY <2>1, <2>2, EntriesType, TypeFacts DEF Lost, Files
  <2>4. QED
    BY <1>1, <1>2, <2>1, <2>2, <2>3, TypeFacts DEF NumbersType, IncrementIndex, Entries
<1>4. CASE ~LeavesFile
  <2>1. /\ entryIndex' = entryIndex + 1 /\ fileIndex' = fileIndex
        /\ entryInFileIndex' = entryInFileIndex + 1
        /\ microBatchIndex' = IF microBatchIndex + 1 >= job.batch THEN 0 ELSE microBatchIndex + 1
    BY <1>4 DEF IncrementIndex
  <2>2. entryInFileIndex + 1 <= Entries(fileIndex)
    BY <1>1, <1>4, TypeFacts DEF LeavesFile
  <2>3. QED
    BY <1>1, <1>2, <2>1, <2>2, TypeFacts DEF NumbersType, IncrementIndex, Entries
<1>5. QED
  BY <1>3, <1>4

LEMMA IncrementPastType ==
  ASSUME TypeInv, Lost, UNCHANGED job, IncrementPastLastFile
  PROVE  NumbersType'
<1>1. UNCHANGED <<reader, done, fileIndex, counted>> /\ Lost'
  BY DEF IncrementPastLastFile, Lost
<1>2. reader \in Readers /\ counted \subseteq Files /\ Files' = Files /\ Readers' = Readers
  BY DEF TypeInv, TypeOK, WalkerTypeOK, Files, Readers
<1>3. /\ entryIndex' = entryIndex + 1 /\ entryInFileIndex' = entryInFileIndex + 1
      /\ microBatchIndex' = IF microBatchIndex + 1 >= job.batch THEN 0 ELSE microBatchIndex + 1
  BY DEF IncrementPastLastFile
<1>4. QED
  BY <1>1, <1>2, <1>3, TypeFacts DEF NumbersType

\* The rest of the type invariant, when the call ends or stays between two calls.
LEMMA IdleType ==
  ASSUME TypeInv, UNCHANGED <<job, buffer, copying>>, UNCHANGED <<target, built>>, NumbersType',
         pc' \in {"idle", "decode"}, rd' \in Nat \ {0},
         out' \in [at : Nat \cup {-1}, rec : Nat \cup {Garbage}], raised' \in Exceptions,
         done' \in BOOLEAN
  PROVE  TypeInv'
<1>1. WalkerTypeOK'
  BY WalkerStep DEF TypeInv, TypeOK, WalkerTypeOK, NumbersType, Readers, Files
<1>2. FlagsTypeOK'
  BY DEF FlagsTypeOK, TypeInv, TypeOK
<1>3. InFile'
  BY DEF InFile, NumbersType
<1>4. QED
  BY <1>1, <1>2, <1>3 DEF TypeInv, TypeOK, NumbersType, Files

LEMMA SkipType ==
  ASSUME TypeInv, Skip
  PROVE  TypeInv'
<1>1. /\ UNCHANGED <<job, buffer, copying>> /\ UNCHANGED <<target, built>> /\ pc' = "idle"
      /\ rd' = rd /\ job' = job
  BY DEF Skip
<1>2. CASE Lost
  <2>1. IncrementPastLastFile
    BY <1>2 DEF Skip
  <2>2. NumbersType'
    BY <1>1, <1>2, <2>1, IncrementPastType
  <2>3. done' \in BOOLEAN
    BY <2>1 DEF IncrementPastLastFile, TypeInv, TypeOK, FlagsTypeOK
  <2>4. QED
    BY <1>1, <2>1, <2>2, <2>3, IdleType
    DEF IncrementPastLastFile, Fails, Exceptions, TypeInv, TypeOK
<1>3. CASE ~Lost
  <2>1. IncrementIndex /\ Moved
    BY <1>3 DEF Skip
  <2>2. NumbersType' /\ done' = (done \/ Exhausts)
    BY <1>1, <1>3, <2>1, IncrementType
  <2>3. done' \in BOOLEAN
    BY <2>2
  <2>4. QED
    BY <1>1, <2>1, <2>2, <2>3, IdleType DEF Moved, NoRecord, Exceptions, TypeInv, TypeOK
<1>4. QED
  BY <1>2, <1>3

LEMMA FillType ==
  ASSUME TypeInv, ~Lost, NEW cap \in Nat \ {0}, Fill(cap), UNCHANGED <<job, built, target, done>>,
         UNCHANGED <<entryIndex, fileIndex, entryInFileIndex, rd, out, raised>>,
         microBatchIndex' \in Nat
  PROVE  TypeInv'
<1>1. reader' \in Readers /\ counted' \subseteq Files
  BY CountType, TypeFacts DEF Fill
<1>2. copying' \in Copyings
  <2>1. ThisMicroBatchSize \in Nat
    BY TypeFacts DEF ThisMicroBatchSize, Remaining
  <2>2. QED
    BY <2>1, TypeFacts DEF Fill, Call, Copyings
<1>3. buffer' \in Buffers
  BY WritableType DEF Fill
<1>4. WalkerTypeOK'
  BY <1>1, <1>2, <1>3, WalkerStep DEF TypeInv, TypeOK
<1>5. FlagsTypeOK'
  BY DEF FlagsTypeOK, TypeInv, TypeOK
<1>6. InFile' /\ pc' = "copy"
  BY DEF Fill, InFile, Lost, Entries, TypeInv
<1>7. QED
  BY <1>1, <1>4, <1>5, <1>6 DEF TypeInv, TypeOK, Files

LEMMA FillBeyondType ==
  ASSUME TypeInv, Lost, NEW cap \in Nat \ {0}, FillBeyondLastFile(cap), microBatchIndex' \in Nat,
         pc' = "idle"
  PROVE  TypeInv'
<1>1. buffer' \in Buffers /\ UNCHANGED <<job, reader, copying>>
  BY WritableType DEF FillBeyondLastFile
<1>2. WalkerTypeOK'
  BY <1>1, WalkerStep DEF TypeInv, TypeOK, WalkerTypeOK
<1>3. FlagsTypeOK'
  BY DEF FillBeyondLastFile, FlagsTypeOK, TypeInv, TypeOK
<1>4. InFile'
  BY <1>1 DEF FillBeyondLastFile, InFile, Lost
<1>5. QED
  BY <1>1, <1>2, <1>3, <1>4 DEF FillBeyondLastFile, Fails, Exceptions, TypeInv, TypeOK, Files

\* Steps that move no number and at most end or begin a call.
LEMMA KeepType ==
  ASSUME TypeInv, UNCHANGED <<job, built, target>>, UNCHANGED numbers, UNCHANGED counted,
         WalkerTypeOK', pc' \in {"idle", "decode", "crashed", pc}, rd' \in Nat \ {0},
         UNCHANGED out, raised' \in Exceptions
  PROVE  TypeInv'
<1>1. FlagsTypeOK'
  BY DEF FlagsTypeOK, TypeInv, TypeOK, numbers
<1>2. InFile'
  BY DEF InFile, Lost, Entries, numbers, TypeInv
<1>3. QED
  BY <1>1, <1>2 DEF TypeInv, TypeOK, numbers, Files

LEMMA CallNextType ==
  ASSUME TypeInv, CallNext
  PROVE  TypeInv'
<1>1. CASE NextWhenDone
  BY <1>1, KeepType, WalkerKept
  DEF NextWhenDone, Fails, Exceptions, walkerVars, TypeInv, TypeOK
<1>2. CASE NextFills
  <2>1. buffer.cap \in Nat \ {0} /\ microBatchIndex \in Nat
    BY DEF TypeInv, TypeOK, WalkerTypeOK, Buffers
  <2>2. QED
    BY <1>2, <2>1, FillType DEF NextFills, numbers
<1>3. CASE NextBeyondLastFile
  <2>1. buffer.cap \in Nat \ {0} /\ microBatchIndex \in Nat
    BY DEF TypeInv, TypeOK, WalkerTypeOK, Buffers
  <2>2. QED
    BY <1>3, <2>1, FillBeyondType DEF NextBeyondLastFile
<1>4. CASE NextFromBuffer
  BY <1>4, KeepType, WalkerKept DEF NextFromBuffer, walkerVars, TypeInv, TypeOK
<1>5. QED
  BY <1>1, <1>2, <1>3, <1>4 DEF CallNext

LEMMA DecodeType ==
  ASSUME TypeInv, Retry \/ Deliver \/ DecodeFails
  PROVE  TypeInv'
<1>1. buffer.cap \in Nat \ {0} /\ rd \in Nat \ {0} /\ microBatchIndex \in Nat
  BY DEF TypeInv, TypeOK, WalkerTypeOK, Buffers
<1>2. CASE Retry
  <2>1. Grown \in Nat \ {0} /\ microBatchIndex' \in Nat
    BY <1>1, <1>2 DEF Grown, Retry
  <2>2. CASE Lost
    BY <1>2, <2>1, <2>2, FillBeyondType DEF Retry
  <2>3. CASE ~Lost
    BY <1>2, <2>1, <2>3, FillType DEF Retry
  <2>4. QED
    BY <2>2, <2>3
<1>3. CASE Deliver
  <2>1. /\ UNCHANGED <<job, buffer, copying>> /\ UNCHANGED <<target, built>> /\ job' = job
        /\ pc' = "idle" /\ rd' \in Nat \ {0}
    BY <1>1, <1>3 DEF Deliver
  <2>2. CASE Lost
    <3>1. IncrementPastLastFile
      BY <1>3, <2>2 DEF Deliver
    <3>2. NumbersType'
      BY <2>1, <2>2, <3>1, IncrementPastType
    <3>3. done' \in BOOLEAN
      BY <3>1 DEF IncrementPastLastFile, TypeInv, TypeOK, FlagsTypeOK
    <3>4. QED
      BY <2>1, <3>1, <3>2, <3>3, IdleType
      DEF IncrementPastLastFile, Fails, Exceptions, TypeInv, TypeOK
  <2>3. CASE ~Lost
    <3>1. IncrementIndex /\ out' = [at |-> entryIndex, rec |-> RecordRead] /\ raised' = "none"
      BY <1>3, <2>3 DEF Deliver
    <3>2. NumbersType' /\ done' = (done \/ Exhausts)
      BY <2>1, <2>3, <3>1, IncrementType
    <3>3. done' \in BOOLEAN
      BY <3>2
    <3>4. RecordRead \in Nat \cup {Garbage}
      <4>1. buffer.slots \in Seq(Slot)
        BY DEF TypeInv, TypeOK, WalkerTypeOK, Buffers
      <4>2. OnSlot => buffer.slots[rd] \in Slot
        BY <4>1 DEF OnSlot
      <4>3. QED
        BY <4>2 DEF RecordRead, Slot
    <3>5. out' \in [at : Nat \cup {-1}, rec : Nat \cup {Garbage}]
      BY <3>1, <3>4, TypeFacts
    <3>6. QED
      BY <2>1, <3>1, <3>2, <3>3, <3>5, IdleType DEF Exceptions
  <2>4. QED
    BY <2>2, <2>3
<1>4. CASE DecodeFails
  BY <1>4, KeepType, WalkerKept
  DEF DecodeFails, Fails, Exceptions, walkerVars, TypeInv, TypeOK
<1>5. QED
  BY <1>2, <1>3, <1>4

LEMMA CppType ==
  ASSUME TypeInv, CopyStep \/ CopyOverruns \/ CopyEnds
  PROVE  TypeInv'
<1>1. CASE CopyStep
  <2>1. WalkerTypeOK' /\ UNCHANGED job
    BY <1>1, CopyType DEF CopyStep, TypeInv, TypeOK
  <2>2. QED
    BY <1>1, <2>1, KeepType DEF CopyStep, jvmVars, numbers, TypeInv, TypeOK
<1>2. CASE CopyOverruns
  <2>1. WalkerTypeOK' /\ UNCHANGED job
    BY <1>2, CopyType DEF CopyOverruns, TypeInv, TypeOK
  <2>2. QED
    BY <1>2, <2>1, KeepType DEF CopyOverruns, TypeInv, TypeOK
<1>3. CASE CopyEnds
  <2>1. UNCHANGED walkerVars /\ UNCHANGED job
    BY <1>3 DEF CopyEnds, CopyReturns, walkerVars
  <2>2. WalkerTypeOK'
    BY <2>1, WalkerKept DEF TypeInv, TypeOK
  <2>3. QED
    BY <1>3, <2>1, <2>2, KeepType DEF CopyEnds, TypeInv, TypeOK
<1>4. QED
  BY <1>1, <1>2, <1>3

LEMMA NextType == TypeInv /\ [Next]_vars => TypeInv'
<1> SUFFICES ASSUME TypeInv, [Next]_vars PROVE TypeInv'
  OBVIOUS
<1>1. CASE CallNext
  BY <1>1, CallNextType
<1>2. CASE Seek
  BY <1>2, SetIndexType, ClientAssumption DEF Seek
<1>3. CASE Reset
  BY <1>3, SetIndexType DEF Reset
<1>4. CASE Skip
  BY <1>4, SkipType
<1>5. CASE Work
  BY <1>5, SeekStepsType, CppType, DecodeType DEF Work
<1>6. CASE UNCHANGED vars
  <2>1. WalkerTypeOK'
    BY <1>6, WalkerKept DEF vars, TypeInv, TypeOK
  <2>2. QED
    BY <1>6, <2>1, KeepType DEF vars, walkerVars, jvmVars, numbers, TypeInv, TypeOK
<1>7. QED
  BY <1>1, <1>2, <1>3, <1>4, <1>5, <1>6 DEF Next

(***************************************************************************)
(* Whatever the client calls, in whatever order, and whatever the files    *)
(* are: no number leaves its range, no per-file array is read outside its  *)
(* bounds by a step that goes on, and copyToBuffer is never asked for a    *)
(* negative number of records (the arithmetic of 201-250 and 286-290).     *)
(***************************************************************************)
THEOREM TypeCorrect == Spec => []TypeOK
<1>1. Init => TypeInv
  BY InitType
<1>2. TypeInv /\ [Next]_vars => TypeInv'
  BY NextType
<1>3. TypeInv => TypeOK
  BY DEF TypeInv
<1>4. QED
  BY <1>1, <1>2, <1>3, PTL DEF Spec

-----------------------------------------------------------------------------
(***************************************************************************)
(* The records that next() returns.  Each lemma takes one group of actions *)
(* and shows every part of IInv in the next state; TypeInv' comes from     *)
(* NextType.                                                               *)
(***************************************************************************)
LEMMA RegularFacts ==
  ASSUME TypeInv, Regular, NEW f \in Files
  PROVE  /\ Entries(f) \in Nat \ {0}
         /\ job.base[f] \in Nat /\ job.base[f + 1] = job.base[f] + Entries(f)
         /\ job.base[0] = 0
         /\ f + 1 < job.files => f + 1 \in Files
<1>1. Entries(f) \in Nat /\ job.base[f] \in Nat /\ job.base[f + 1] \in Nat
  BY EntriesType, TypeFacts
<1>2. Entries(f) > 0
  BY DEF Regular, NonEmpty
<1>3. job.base[0] = 0
  BY TypeFacts DEF LayoutOK
<1>4. f + 1 < job.files => f + 1 \in Files
  BY TypeFacts DEF Files
<1>5. QED
  BY <1>1, <1>2, <1>3, <1>4 DEF Entries

LEMMA RegularKept ==
  ASSUME Regular, UNCHANGED job
  PROVE  Regular' /\ EqualSizes' = EqualSizes
BY DEF Regular, NonEmpty, EqualSizes, OnlyForward, Entries, Files, Total

\* The parts that speak of a state between calls, when nothing they mention moves.
LEMMA CoreKept ==
  ASSUME Core, UNCHANGED <<job, reader, buffer, copying>>, UNCHANGED numbers,
         UNCHANGED <<rd, out>>, UNCHANGED target, pc' = pc
  PROVE  Core'
<1>1. Regular' /\ EqualSizes' = EqualSizes
  BY RegularKept DEF Core
<1>2. SeekInv' /\ Position' /\ LostInv' /\ DeliveryInv'
  BY <1>1 DEF Core, SeekInv, Position, LostInv, DeliveryInv, DeliversIndexed, NoRecord, numbers, Lost, Entries
<1>3. CopyInv' /\ ReadInv'
  BY DEF Core, CopyInv, ReadInv, Reading, Serves, Fresh, Partial, CutShort, HoldUpToShort,
         EndsTooSmall, AllHold, Holds, BatchAt, Slots, numbers, Entries
<1>4. QED
  BY <1>1, <1>2, <1>3 DEF Core

LEMMA SetIndexCore ==
  ASSUME TypeInv, Core, NEW i \in Nat, SetIndex(i), EqualSizes \/ i = 0
  PROVE  Core'
<1>1. UNCHANGED <<job, reader, buffer, copying>> /\ UNCHANGED rd /\ pc = "idle"
  BY DEF SetIndex, walkerVars
<1>2. Regular' /\ EqualSizes' = EqualSizes
  BY <1>1, RegularKept DEF Core
<1>3. CASE InBounds(i)
  <2>1. Zeroed /\ pc' = "seek" /\ target' = i /\ out' = NoRecord
    BY <1>3 DEF SetIndex, Moved
  <2>2. 0 \in Files /\ job.files > 0
    BY TypeFacts DEF Files
  <2>3. Entries(0) > 0 /\ job.base[0] = 0
    BY <2>2, RegularFacts DEF Core
  <2>4. /\ job' = job /\ entryIndex' = 0 /\ fileIndex' = 0 /\ entryInFileIndex' = 0
        /\ microBatchIndex' = 0 /\ ~Lost'
    BY <1>1, <2>1, <2>2, TypeFacts DEF Zeroed, Lost
  <2>5. job.base[0 + 1] - job.base[0] > 0
    BY <2>3 DEF Entries
  <2>6. SeekInv'
    BY <1>2, <2>1, <2>3, <2>4, <2>5 DEF SeekInv, Entries
  <2>7. Position' /\ LostInv' /\ CopyInv' /\ ReadInv' /\ DeliveryInv'
    BY <2>1, <2>4
    DEF Position, LostInv, CopyInv, ReadInv, Reading, DeliveryInv, DeliversIndexed, NoRecord
  <2>8. QED
    BY <1>2, <2>6, <2>7 DEF Core
<1>4. CASE ~InBounds(i)
  BY <1>1, <1>4, CoreKept DEF SetIndex, Fails
<1>5. QED
  BY <1>3, <1>4

LEMMA SeekStepsCore ==
  ASSUME TypeInv, Core, SeekPassesFile \/ SeekLandsInFile \/ SeekReturns
  PROVE  Core'
<1> DEFINE f == fileIndex
<1>1. /\ UNCHANGED <<job, buffer, copying>> /\ UNCHANGED <<target, rd, out>>
      /\ UNCHANGED microBatchIndex /\ pc = "seek" /\ target \in Nat
  BY DEF SeekPassesFile, SeekLandsInFile, SeekReturns, SeekFails, Fails, TypeInv, TypeOK
<1>2. Regular' /\ EqualSizes' = EqualSizes
  BY <1>1, RegularKept DEF Core
<1>3. f \in Files /\ ~Lost
  BY <1>1, TypeFacts
<1>4. /\ microBatchIndex = 0 /\ entryInFileIndex < Entries(f)
      /\ entryIndex = job.base[f] + entryInFileIndex /\ entryIndex <= target
      /\ entryIndex < target => entryInFileIndex = 0
      /\ EqualSizes \/ target = 0
  BY <1>1 DEF Core, SeekInv
<1>5. DeliveryInv'
  BY <1>1 DEF Core, DeliveryInv, DeliversIndexed, NoRecord
<1>6. /\ Entries(f) \in Nat \ {0} /\ job.base[f] \in Nat
      /\ job.base[f + 1] = job.base[f] + Entries(f)
      /\ f + 1 < job.files => f + 1 \in Files
  BY <1>3, RegularFacts DEF Core
<1>7. CASE SeekPassesFile
  <2>1. /\ entryIndex < target /\ entryIndex + Entries(f) <= target
        /\ fileIndex' = f + 1 /\ UNCHANGED entryInFileIndex
    BY <1>7 DEF SeekPassesFile
  <2>2. entryInFileIndex = 0 /\ EqualSizes
    BY <1>1, <1>4, <2>1, TypeFacts
  <2>3. CASE f + 1 < job.files
    <3>1. entryIndex' = entryIndex + Entries(f + 1) /\ UNCHANGED <<pc, out>>
      BY <1>7, <2>1, <2>3 DEF SeekPassesFile
    <3>2. Entries(f + 1) = Entries(f)
      BY <1>3, <1>6, <2>2, <2>3 DEF EqualSizes
    <3>3. SeekInv'
      BY <1>1, <1>2, <1>4, <1>6, <2>1, <2>2, <2>3, <3>1, <3>2, TypeFacts
      DEF SeekInv, Lost, Entries
    <3>4. Position' /\ LostInv' /\ CopyInv' /\ ReadInv'
      BY <1>1, <2>1, <2>3, <3>1, TypeFacts
      DEF Position, LostInv, CopyInv, ReadInv, Reading, Lost
    <3>5. QED
      BY <1>2, <1>5, <3>3, <3>4 DEF Core
  <2>4. CASE ~(f + 1 < job.files)
    <3>1. pc' \in {"idle", "unbuilt"}
      BY <1>7, <2>1, <2>4 DEF SeekPassesFile, SeekFails
    <3>2. Lost' /\ microBatchIndex' = 0
      BY <1>1, <1>4, <2>1, <2>4, TypeFacts DEF Lost
    <3>3. SeekInv' /\ Position' /\ LostInv' /\ CopyInv' /\ ReadInv'
      BY <3>1, <3>2 DEF SeekInv, Position, LostInv, CopyInv, ReadInv, Reading
    <3>4. QED
      BY <1>2, <1>5, <3>3 DEF Core
  <2>5. QED
    BY <2>3, <2>4
<1>8. CASE SeekLandsInFile
  <2>1. /\ entryIndex < target /\ entryIndex + Entries(f) > target
        /\ entryInFileIndex' = target - entryIndex /\ entryIndex' = target
        /\ UNCHANGED <<pc, fileIndex>>
    BY <1>8 DEF SeekLandsInFile
  <2>2. SeekInv'
    BY <1>1, <1>2, <1>3, <1>4, <1>6, <2>1, TypeFacts DEF SeekInv, Lost, Entries
  <2>3. Position' /\ LostInv' /\ CopyInv' /\ ReadInv'
    BY <1>1, <1>3, <2>1 DEF Position, LostInv, CopyInv, ReadInv, Reading, Lost
  <2>4. QED
    BY <1>2, <1>5, <2>2, <2>3 DEF Core
<1>9. CASE SeekReturns
  <2>1. /\ reader' = Opened(f) /\ pc' = "idle"
        /\ UNCHANGED <<entryIndex, fileIndex, entryInFileIndex>>
    BY <1>9 DEF SeekReturns
  <2>2. Position'
    BY <1>1, <1>4, <2>1 DEF Position, Opened, Entries
  <2>3. SeekInv' /\ LostInv' /\ CopyInv' /\ ReadInv'
    BY <1>1, <1>3, <1>4, <2>1 DEF SeekInv, LostInv, CopyInv, ReadInv, Reading, Lost
  <2>4. QED
    BY <1>2, <1>5, <2>2, <2>3 DEF Core
<1>10. QED
  BY <1>7, <1>8, <1>9

\* A call of copyToBuffer for the rest of the micro-batch, just made.
LEMMA FillCore ==
  ASSUME TypeInv, Core, ~Lost, pc \in {"idle", "decode"}, NEW cap \in Nat \ {0}, Fill(cap),
         UNCHANGED <<job, entryIndex, fileIndex, entryInFileIndex>>, UNCHANGED out,
         microBatchIndex' = 0
  PROVE  Core'
<1>1. Regular'
  BY RegularKept DEF Core
<1>2. /\ entryInFileIndex < Entries(fileIndex) /\ reader.file = fileIndex
      /\ entryIndex = job.base[fileIndex] + entryInFileIndex
  BY DEF Core, Position
<1>3. pc' = "copy" /\ ~Lost' /\ CountEntries(fileIndex)
  BY DEF Fill, Lost
<1>4. Position'
  BY <1>2, <1>3 DEF Position, CountEntries, Opened, Entries
<1>5. Fresh' /\ copying'.entry = entryInFileIndex'
  <2>1. /\ copying' = [entry |-> entryInFileIndex, n |-> ThisMicroBatchSize, i |-> 0, phase |-> "poll"]
        /\ buffer'.ptr = 0 /\ buffer'.overrun = FALSE
    BY DEF Fill, Call, Writable
  <2>2. ThisMicroBatchSize = BatchAt(entryInFileIndex)'
    BY DEF ThisMicroBatchSize, Remaining, BatchAt, Entries
  <2>3. QED
    BY <2>1, <2>2 DEF Fresh, BatchAt, Entries
<1>6. CopyInv' /\ SeekInv' /\ LostInv' /\ ReadInv'
  BY <1>3, <1>5 DEF CopyInv, SeekInv, LostInv, ReadInv, Reading
<1>7. DeliveryInv'
  BY DEF Core, DeliveryInv, DeliversIndexed, NoRecord
<1>8. QED
  BY <1>1, <1>4, <1>6, <1>7 DEF Core

LEMMA CallNextCore ==
  ASSUME TypeInv, Core, CallNext
  PROVE  Core'
<1>1. CASE NextWhenDone
  BY <1>1, CoreKept DEF NextWhenDone, Fails, walkerVars
<1>2. CASE NextFills
  <2>1. buffer.cap \in Nat \ {0}
    BY DEF TypeInv, TypeOK, WalkerTypeOK, Buffers
  <2>2. QED
    BY <1>2, <2>1, FillCore DEF NextFills, numbers
<1>3. CASE NextBeyondLastFile
  <2>1. /\ pc' = "idle" /\ microBatchIndex' = 0 /\ Lost' /\ UNCHANGED out /\ UNCHANGED job
    BY <1>3 DEF NextBeyondLastFile, FillBeyondLastFile, Fails, Lost
  <2>2. Regular'
    BY <2>1, RegularKept DEF Core
  <2>3. SeekInv' /\ Position' /\ LostInv' /\ CopyInv' /\ ReadInv'
    BY <2>1 DEF SeekInv, Position, LostInv, CopyInv, ReadInv, Reading
  <2>4. QED
    BY <2>1, <2>2, <2>3 DEF Core, DeliveryInv, DeliversIndexed, NoRecord
<1>4. CASE NextFromBuffer
  <2>1. /\ pc = "idle" /\ microBatchIndex # 0 /\ pc' = "decode"
        /\ UNCHANGED <<job, reader, buffer, copying>> /\ UNCHANGED numbers
        /\ UNCHANGED <<rd, out>>
    BY <1>4 DEF NextFromBuffer, walkerVars
  <2>2. Regular'
    BY <2>1, RegularKept DEF Core
  <2>3. SeekInv' /\ Position' /\ LostInv' /\ CopyInv' /\ DeliveryInv'
    BY <2>1, <2>2
    DEF Core, SeekInv, Position, LostInv, CopyInv, DeliveryInv, DeliversIndexed, NoRecord, Lost,
        Entries, numbers
  <2>4. ReadInv'
    BY <2>1 DEF Core, ReadInv, Reading, Serves, HoldUpToShort, EndsTooSmall, AllHold, Holds,
                BatchAt, Slots, Entries, numbers
  <2>5. QED
    BY <2>2, <2>3, <2>4 DEF Core
<1>5. QED
  BY <1>1, <1>2, <1>3, <1>4 DEF CallNext

\* What the invariant says of a running copyToBuffer.
LEMMA CopyFacts ==
  ASSUME TypeInv, Core, pc = "copy"
  PROVE  /\ ~Lost /\ fileIndex \in Files /\ microBatchIndex = 0 /\ reader.file = fileIndex
         /\ copying.entry = entryInFileIndex /\ copying.entry \in Nat
         /\ copying.i \in Nat /\ copying.n \in Nat
         /\ buffer.ptr \in Nat /\ buffer.cap \in Nat \ {0} /\ Slots \in Seq(Slot)
         /\ Entries(fileIndex) \in Nat /\ copying.entry < Entries(fileIndex)
         /\ BatchAt(copying.entry) \in 1 .. Entries(fileIndex) - copying.entry
         /\ job.base[fileIndex] \in Nat
         /\ Fresh \/ Partial \/ CutShort
<1>1. ~Lost /\ fileIndex \in Files
  BY TypeFacts
<1>2. /\ copying.entry \in Nat /\ copying.i \in Nat /\ copying.n \in Nat
      /\ buffer.ptr \in Nat /\ buffer.cap \in Nat \ {0} /\ Slots \in Seq(Slot)
  BY DEF TypeInv, TypeOK, WalkerTypeOK, Buffers, Copyings, Slots
<1>3. reader.file = fileIndex /\ entryInFileIndex < Entries(fileIndex) /\ microBatchIndex = 0
  BY <1>1 DEF Core, Position, LostInv
<1>4. copying.entry = entryInFileIndex /\ (Fresh \/ Partial \/ CutShort)
  BY DEF Core, CopyInv
<1>5. Entries(fileIndex) \in Nat /\ job.base[fileIndex] \in Nat /\ job.batch \in Nat \ {0}
  BY <1>1, RegularFacts, TypeFacts DEF Core
<1>6. BatchAt(copying.entry) \in 1 .. Entries(fileIndex) - copying.entry
  BY <1>2, <1>3, <1>4, <1>5 DEF BatchAt
<1>7. QED
  BY <1>1, <1>2, <1>3, <1>4, <1>5, <1>6

LEMMA SourceFacts ==
  ASSUME TypeInv, Core, pc = "copy", InLoop
  PROVE  /\ Fresh \/ Partial
         /\ Source = job.base[fileIndex] + copying.entry + copying.i
         /\ Width(Source) \in Nat \ {0}
<1>1. Fresh \/ Partial
  BY CopyFacts DEF InLoop, CutShort
<1>2. copying.entry + copying.i \in 0 .. Entries(fileIndex) - 1
  BY <1>1, CopyFacts DEF InLoop, Fresh, Partial
<1>3. Source = RecordAt(fileIndex, copying.entry + copying.i)
  BY CopyFacts DEF Source
<1>4. RecordAt(fileIndex, copying.entry + copying.i) = job.base[fileIndex] + (copying.entry + copying.i)
  BY <1>2 DEF RecordAt
<1>5. job.base[fileIndex] + (copying.entry + copying.i) = job.base[fileIndex] + copying.entry + copying.i
  BY CopyFacts
<1>6. Width(RecordAt(fileIndex, copying.entry + copying.i)) \in Nat \ {0}
  <2>1. LayoutOK(job) /\ fileIndex \in Files /\ copying.entry + copying.i \in Int
    BY CopyFacts, TypeFacts
  <2>2. QED
    BY <2>1, RecordType
<1>7. QED
  BY <1>1, <1>3, <1>4, <1>5, <1>6

\* What the loop has written so far, while it still fits: the first copying.i
\* entries of the micro-batch.
LEMMA WrittenFacts ==
  ASSUME TypeInv, Core, pc = "copy", InLoop, buffer.ptr < buffer.cap
  PROVE  /\ Len(Written) = copying.i /\ Written \in Seq(Slot) /\ ~buffer.overrun
         /\ \A k \in DOMAIN Written : Written[k].status = StatusReading
                   /\ Written[k].rec = job.base[fileIndex] + copying.entry + (k - 1)
<1>1. /\ buffer.ptr \in Nat /\ buffer.cap \in Nat \ {0} /\ Slots \in Seq(Slot)
      /\ copying.i \in Nat
  BY CopyFacts
<1>2. CASE Fresh
  <2>1. Written = << >> /\ copying.i = 0 /\ ~buffer.overrun
    BY <1>2 DEF Written, Fresh
  <2>2. QED
    BY <2>1
<1>3. CASE Partial
  <2>1. Written = Slots /\ AllHold
    BY <1>1, <1>3 DEF Written, Partial, Slots
  <2>2. Len(Slots) = copying.i /\ ~buffer.overrun
    BY <1>1, <1>3 DEF Partial
  <2>3. QED
    BY <1>1, <2>1, <2>2 DEF AllHold, Holds
<1>4. QED
  BY <1>2, <1>3, SourceFacts

LEMMA CopyLoopCore ==
  ASSUME TypeInv, Core, pc = "copy", CopyFits \/ CopyTooSmall \/ CopyPastLimit,
         UNCHANGED numbers
  PROVE  (Fresh \/ Partial \/ CutShort)' /\ reader'.file = fileIndex' /\ copying'.entry = copying.entry
<1>1. InLoop /\ SetEntry /\ UNCHANGED job /\ fileIndex' = fileIndex
  BY DEF CopyFits, CopyTooSmall, CopyPastLimit, numbers
<1>2. reader'.file = fileIndex'
  BY <1>1, CopyFacts DEF SetEntry, TypeInv, TypeOK, WalkerTypeOK, Readers
<1>3. copying \in Copyings /\ buffer \in Buffers
  BY DEF TypeInv, TypeOK, WalkerTypeOK
<1>4. CASE CopyFits
  <2> DEFINE new == [status |-> StatusReading, rec |-> Source]
  <2>1. /\ copying'.entry = copying.entry /\ copying'.n = copying.n /\ copying'.i = copying.i + 1
        /\ buffer'.slots = Append(Written, new)
        /\ buffer'.ptr = buffer.ptr + Width(Source)
        /\ buffer'.overrun = buffer.overrun /\ buffer.ptr < buffer.cap
    BY <1>3, <1>4 DEF CopyFits, Copyings, Buffers
  <2>2. Len(Written) = copying.i /\ Written \in Seq(Slot) /\ ~buffer.overrun
        /\ \A k \in DOMAIN Written : Written[k].status = StatusReading
                  /\ Written[k].rec = job.base[fileIndex] + copying.entry + (k - 1)
    BY <1>1, <2>1, WrittenFacts
  <2>3. /\ buffer'.slots # << >> /\ Len(buffer'.slots) = copying.i + 1
        /\ \A k \in DOMAIN buffer'.slots : buffer'.slots[k].status = StatusReading
                  /\ buffer'.slots[k].rec = job.base[fileIndex] + copying.entry + (k - 1)
    <3>1. Len(buffer'.slots) = copying.i + 1 /\ buffer'.slots # << >>
          /\ DOMAIN buffer'.slots = 1 .. copying.i + 1
      BY <2>1, <2>2
    <3>2. SUFFICES ASSUME NEW k \in 1 .. copying.i + 1
                   PROVE  /\ buffer'.slots[k].status = StatusReading
                          /\ buffer'.slots[k].rec = job.base[fileIndex] + copying.entry + (k - 1)
      BY <3>1
    <3>3. CASE k = copying.i + 1
      <4>1. buffer'.slots[k] = new
        BY <2>1, <2>2, <3>3
      <4>2. Source = job.base[fileIndex] + copying.entry + copying.i
        BY <1>1, SourceFacts
      <4>3. job.base[fileIndex] \in Nat /\ copying.entry \in Nat /\ copying.i \in Nat
        BY CopyFacts
      <4>4. new.status = StatusReading /\ new.rec = job.base[fileIndex] + copying.entry + copying.i
        BY <4>2
      <4>5. k - 1 = copying.i
        BY <3>3, <4>3
      <4>6. QED
        BY <4>1, <4>4, <4>5
    <3>4. CASE k # copying.i + 1
      <4>1. k \in DOMAIN Written /\ buffer'.slots[k] = Written[k]
        <5>1. copying.i \in Nat
          BY CopyFacts
        <5>2. QED
          BY <2>1, <2>2, <3>4, <5>1
      <4>2. QED
        BY <2>2, <4>1
    <3>5. QED
      BY <3>3, <3>4
  <2>4. copying.i + 1 \in 1 .. copying.n /\ copying.n = BatchAt(copying.entry)
    <3>1. copying.i \in Nat /\ copying.n \in Nat /\ copying.i < copying.n
      BY <1>1, CopyFacts DEF InLoop
    <3>2. copying.n = BatchAt(copying.entry)
      BY <1>1, SourceFacts DEF Fresh, Partial
    <3>3. QED
      BY <3>1, <3>2
  <2>5. buffer.ptr + Width(Source) > 0
    <3>1. buffer.ptr \in Nat
      BY CopyFacts
    <3>2. Width(Source) \in Nat \ {0}
      BY <1>1, SourceFacts
    <3>3. QED
      BY <3>1, <3>2
  <2>6. AllHold'
    BY <1>1, <2>1, <2>3 DEF AllHold, Holds, Slots
  <2>7. BatchAt(copying.entry)' = BatchAt(copying.entry)
    BY <1>1, <2>1 DEF BatchAt, Entries
  <2>8. Partial'
    BY <1>1, <2>1, <2>2, <2>3, <2>4, <2>5, <2>6, <2>7 DEF Partial, Slots
  <2>9. QED
    BY <1>2, <2>1, <2>8
<1>5. CASE CopyTooSmall
  <2> DEFINE new == [status |-> StatusTooSmall, rec |-> Garbage]
  <2>1. /\ copying'.entry = copying.entry /\ copying'.n = copying.i /\ copying'.i = copying.i
        /\ buffer'.slots = Append(Written, new)
        /\ buffer'.overrun = buffer.overrun /\ buffer.ptr < buffer.cap
    BY <1>3, <1>5 DEF CopyTooSmall, Copyings, Buffers
  <2>2. Len(Written) = copying.i /\ Written \in Seq(Slot) /\ ~buffer.overrun
        /\ \A k \in DOMAIN Written : Written[k].status = StatusReading
                  /\ Written[k].rec = job.base[fileIndex] + copying.entry + (k - 1)
    BY <1>1, <2>1, WrittenFacts
  <2>3. /\ Len(buffer'.slots) = copying.i + 1 /\ buffer'.slots # << >>
        /\ buffer'.slots[copying.i + 1] = new
        /\ DOMAIN buffer'.slots = 1 .. copying.i + 1
        /\ \A k \in 1 .. copying.i : buffer'.slots[k] = Written[k] /\ k \in DOMAIN Written
    <3>1. /\ Len(buffer'.slots) = copying.i + 1 /\ buffer'.slots # << >>
          /\ DOMAIN buffer'.slots = 1 .. copying.i + 1
      <4>1. new \in Slot
        BY DEF Slot, BufferStatus, StatusTooSmall
      <4>2. buffer'.slots \in Seq(Slot) /\ Len(buffer'.slots) = copying.i + 1
        BY <2>1, <2>2, <4>1
      <4>3. QED
        BY <4>2, CopyFacts
    <3>2. buffer'.slots[copying.i + 1] = new
      BY <2>1, <2>2
    <3>3. DOMAIN Written = 1 .. copying.i
      BY <2>2
    <3>4. ASSUME NEW k \in 1 .. copying.i PROVE buffer'.slots[k] = Written[k]
      BY <2>1, <2>2, <3>3
    <3>5. QED
      BY <3>1, <3>2, <3>3, <3>4
  <2>4. EndsTooSmall'
    BY <2>3 DEF EndsTooSmall, Slots
  <2>5. ASSUME NEW k \in DOMAIN buffer'.slots, k < Len(buffer'.slots)
        PROVE  /\ buffer'.slots[k].status = StatusReading
               /\ buffer'.slots[k].rec = job.base[fileIndex] + copying.entry + (k - 1)
    <3>1. k \in 1 .. copying.i
      BY <2>3, <2>5, CopyFacts
    <3>2. QED
      BY <2>2, <2>3, <3>1
  <2>6. HoldUpToShort'
    BY <1>1, <2>1, <2>4, <2>5 DEF HoldUpToShort, Holds, Slots
  <2>7. QED
    BY <1>2, <2>1, <2>2, <2>6 DEF CutShort
<1>6. CASE CopyPastLimit
  <2>1. /\ copying'.entry = copying.entry /\ copying'.n = copying.n /\ copying'.i = copying.i + 1
        /\ buffer'.slots = buffer.slots /\ buffer'.cap = buffer.cap
        /\ buffer'.ptr = buffer.ptr + Width(Source)
        /\ buffer'.overrun /\ buffer.ptr >= buffer.cap
    BY <1>3, <1>6 DEF CopyPastLimit, Copyings, Buffers
  <2>2. Partial
    BY <1>1, <2>1, SourceFacts, CopyFacts DEF Fresh
  <2>3. copying.i + 1 \in 1 .. copying.n /\ copying.n = BatchAt(copying.entry)
    BY <1>1, <2>2, CopyFacts DEF InLoop, Partial
  <2>4. buffer'.ptr > 0 /\ buffer'.ptr >= buffer'.cap
    <3>1. buffer.ptr \in Nat /\ buffer.cap \in Nat \ {0}
      BY CopyFacts
    <3>2. Width(Source) \in Nat \ {0}
      BY <1>1, SourceFacts
    <3>3. QED
      BY <2>1, <3>1, <3>2
  <2>5. AllHold'
    BY <1>1, <2>1, <2>2 DEF Partial, AllHold, Holds, Slots
  <2>6. BatchAt(copying.entry)' = BatchAt(copying.entry)
    BY <1>1, <2>1 DEF BatchAt, Entries
  <2>7. Partial'
    BY <2>1, <2>2, <2>3, <2>4, <2>5, <2>6 DEF Partial, Slots
  <2>8. QED
    BY <1>2, <2>1, <2>7
<1>7. QED
  BY <1>4, <1>5, <1>6

\* A step of a running copyToBuffer that moves no number.
LEMMA CopyKeepsCore ==
  ASSUME TypeInv, Core, pc = "copy", pc' \in {"copy", "crashed"}, UNCHANGED <<job, target, out>>,
         UNCHANGED numbers, (Fresh \/ Partial \/ CutShort)', reader'.file = fileIndex',
         copying'.entry = copying.entry
  PROVE  Core'
<1>1. Regular' /\ EqualSizes' = EqualSizes
  BY RegularKept DEF Core
<1>2. Position'
  BY DEF Core, Position, numbers, Lost, Entries
<1>3. CopyInv'
  BY DEF Core, CopyInv, numbers
<1>4. SeekInv' /\ LostInv' /\ ReadInv'
  BY CopyFacts DEF SeekInv, LostInv, ReadInv, Reading, Lost, numbers
<1>5. DeliveryInv'
  BY DEF Core, DeliveryInv, DeliversIndexed, NoRecord
<1>6. QED
  BY <1>1, <1>2, <1>3, <1>4, <1>5 DEF Core

LEMMA CppCore ==
  ASSUME TypeInv, Core, CopyStep \/ CopyOverruns \/ CopyEnds
  PROVE  Core'
<1>1. CASE CopyStep /\ Poll
  <2>1. /\ pc = "copy" /\ pc' = "copy" /\ UNCHANGED <<job, target, out>> /\ UNCHANGED numbers
        /\ UNCHANGED <<reader, buffer>> /\ copying' = [copying EXCEPT !.phase = "loop"]
    BY <1>1 DEF CopyStep, Poll, jvmVars, numbers
  <2>2. copying'.entry = copying.entry /\ copying'.n = copying.n /\ copying'.i = copying.i
    BY <2>1 DEF TypeInv, TypeOK, WalkerTypeOK, Copyings
  <2>3. (Fresh \/ Partial \/ CutShort)'
    BY <2>1, <2>2, CopyFacts
    DEF Fresh, Partial, CutShort, HoldUpToShort, EndsTooSmall, AllHold, Holds, BatchAt, Slots,
        Entries, numbers
  <2>4. reader'.file = fileIndex'
    BY <2>1, CopyFacts DEF numbers
  <2>5. QED
    BY <2>1, <2>2, <2>3, <2>4, CopyKeepsCore
<1>2. CASE (CopyStep /\ (CopyFits \/ CopyTooSmall)) \/ CopyOverruns
  <2>1. /\ pc = "copy" /\ pc' \in {"copy", "crashed"} /\ UNCHANGED <<target, out>>
        /\ UNCHANGED numbers
        /\ CopyFits \/ CopyTooSmall \/ CopyPastLimit
    BY <1>2 DEF CopyStep, CopyOverruns, jvmVars, numbers
  <2>2. UNCHANGED job
    BY <2>1 DEF CopyFits, CopyTooSmall, CopyPastLimit
  <2>3. /\ (Fresh \/ Partial \/ CutShort)' /\ reader'.file = fileIndex'
        /\ copying'.entry = copying.entry
    BY <2>1, CopyLoopCore
  <2>4. QED
    BY <2>1, <2>2, <2>3, CopyKeepsCore
<1>3. CASE CopyEnds
  <2>1. /\ pc = "copy" /\ pc' = "decode" /\ rd' = 1 /\ UNCHANGED <<job, reader, buffer, copying>>
        /\ UNCHANGED numbers /\ UNCHANGED <<target, out>> /\ copying.i >= copying.n
    BY <1>3 DEF CopyEnds, CopyReturns, walkerVars
  <2>2. Regular'
    BY <2>1, RegularKept DEF Core
  <2>3. Position' /\ SeekInv' /\ CopyInv'
    BY <2>1 DEF Core, Position, SeekInv, CopyInv, Lost, Entries, numbers
  <2>4. LostInv' /\ DeliveryInv'
    BY <2>1, CopyFacts DEF Core, LostInv, DeliveryInv, DeliversIndexed, NoRecord, Lost, numbers
  <2>5. \/ buffer.overrun /\ AllHold
        \/ 1 <= Len(Slots) /\ HoldUpToShort
        \/ 1 <= Len(Slots) /\ AllHold /\ Len(Slots) = BatchAt(copying.entry)
    <3>1. Slots # << >> => 1 <= Len(Slots)
      BY <2>1, CopyFacts
    <3>2. ~Fresh
      BY <2>1, CopyFacts DEF Fresh
    <3>3. CASE CutShort
      BY <3>1, <3>3 DEF CutShort, HoldUpToShort, EndsTooSmall
    <3>4. CASE Partial
      BY <2>1, <3>1, <3>4, CopyFacts DEF Partial
    <3>5. QED
      BY <2>1, <3>2, <3>3, <3>4, CopyFacts
  <2>6. Serves'
    BY <2>1, <2>5 DEF Serves, HoldUpToShort, EndsTooSmall, AllHold, Holds, BatchAt, Slots,
                      Entries, numbers
  <2>7. ReadInv'
    BY <2>1, <2>6, CopyFacts DEF ReadInv, Reading, numbers
  <2>8. QED
    BY <2>2, <2>3, <2>4, <2>7 DEF Core
<1>4. QED
  BY <1>1, <1>2, <1>3 DEF CopyStep

\* incrementIndex keeps the numbers and the open file together, whoever calls it.
LEMMA IncrementPosition ==
  ASSUME TypeInv, Core, ~Lost, pc \in {"idle", "decode"}, UNCHANGED job, IncrementIndex,
         pc' = "idle"
  PROVE  Position'
<1> DEFINE f == fileIndex
<1>1. /\ f \in Files /\ entryInFileIndex \in Nat /\ entryIndex \in Nat
      /\ entryInFileIndex < Entries(f) /\ entryIndex = job.base[f] + entryInFileIndex
      /\ reader.file = f
  BY TypeFacts DEF Core, Position
<1>2. /\ Entries(f) \in Nat \ {0} /\ job.base[f] \in Nat
      /\ job.base[f + 1] = job.base[f] + Entries(f)
      /\ f + 1 < job.files => f + 1 \in Files
  BY <1>1, RegularFacts DEF Core
<1>3. CASE LeavesFile
  <2>1. /\ entryIndex' = entryIndex + 1 /\ fileIndex' = f + 1 /\ entryInFileIndex' = 0
        /\ f + 1 < job.files => reader' = Opened(f + 1)
    BY <1>3 DEF IncrementIndex
  <2>2. entryInFileIndex + 1 = Entries(f)
    BY <1>1, <1>2, <1>3 DEF LeavesFile
  <2>3. SUFFICES ASSUME f + 1 < job.files
                 PROVE  /\ 0 < Entries(f + 1)
                        /\ entryIndex + 1 = job.base[f + 1] + 0
                        /\ Opened(f + 1).file = f + 1
    BY <2>1, TypeFacts DEF Position, Lost, Entries
  <2>4. Entries(f + 1) \in Nat \ {0}
    BY <1>2, <2>3, RegularFacts DEF Core
  <2>5. QED
    BY <1>1, <1>2, <2>2, <2>4 DEF Opened
<1>4. CASE ~LeavesFile
  <2>1. /\ entryIndex' = entryIndex + 1 /\ fileIndex' = f
        /\ entryInFileIndex' = entryInFileIndex + 1
        /\ reader' \in {Opened(f), reader}
    BY <1>4 DEF IncrementIndex
  <2>2. entryInFileIndex + 1 < Entries(f)
    BY <1>1, <1>2, <1>4 DEF LeavesFile
  <2>3. entryIndex + 1 = job.base[f] + (entryInFileIndex + 1)
    BY <1>1, <1>2
  <2>4. reader'.file = f
    BY <1>1, <2>1 DEF Opened
  <2>5. QED
    BY <2>1, <2>2, <2>3, <2>4 DEF Position, Entries
<1>5. QED
  BY <1>3, <1>4

\* What is left to show of a call that ends and moves no number of a lost iterator.
LEMMA LostCore ==
  ASSUME TypeInv, Core, Skips, Lost, pc \in {"idle", "decode"}, pc' \in {"idle", "decode"},
         UNCHANGED <<job, fileIndex>>
  PROVE  Core'
<1>1. Regular'
  BY RegularKept DEF Core
<1>2. Lost'
  BY DEF Lost
<1>3. SeekInv' /\ Position' /\ LostInv' /\ CopyInv' /\ ReadInv' /\ DeliveryInv'
  BY <1>2 DEF SeekInv, Position, LostInv, CopyInv, ReadInv, DeliveryInv, Skips
<1>4. QED
  BY <1>1, <1>3 DEF Core

LEMMA SkipCore ==
  ASSUME TypeInv, Core, Skip
  PROVE  Core'
<1>1. Skips /\ pc = "idle" /\ pc' = "idle" /\ UNCHANGED job
  BY DEF Skip, Skips
<1>2. CASE Lost
  BY <1>1, <1>2, LostCore DEF Skip, IncrementPastLastFile
<1>3. CASE ~Lost
  <2>1. Position'
    BY <1>1, <1>3, IncrementPosition DEF Skip
  <2>2. Regular'
    BY <1>1, RegularKept DEF Core
  <2>3. SeekInv' /\ LostInv' /\ CopyInv' /\ ReadInv' /\ DeliveryInv'
    BY <1>1 DEF SeekInv, LostInv, CopyInv, ReadInv, DeliveryInv, Skips
  <2>4. QED
    BY <2>1, <2>2, <2>3 DEF Core
<1>4. QED
  BY <1>2, <1>3

\* The slot the byteBuffer is positioned at, and the one after it.
LEMMA SlotRead ==
  ASSUME TypeInv, Core, ~Skips, pc = "decode", Readable
  PROVE  /\ RecordRead = entryIndex
         /\ OnSlot
         /\ Slots[rd].status # StatusTooSmall
<1>1. /\ rd = microBatchIndex + 1 /\ copying.entry + microBatchIndex = entryInFileIndex /\ Serves
  BY DEF Core, ReadInv, Reading
<1>2. ~Lost
  BY DEF Core, LostInv
<1>3. entryIndex = job.base[fileIndex] + entryInFileIndex /\ job.base[fileIndex] \in Nat
  BY <1>2, RegularFacts, TypeFacts DEF Core, Position
<1>4. /\ Slots \in Seq(Slot) /\ copying.entry \in Nat /\ microBatchIndex \in Nat
      /\ rd \in Nat \ {0}
  BY DEF TypeInv, TypeOK, WalkerTypeOK, Buffers, Copyings, Slots
<1>5. OnSlot
  <2>1. rd <= Len(Slots) => OnSlot
    BY <1>4 DEF OnSlot, Slots
  <2>2. CASE buffer.overrun
    BY <2>2 DEF Readable, StatusRead
  <2>3. QED
    BY <1>1, <2>1, <2>2 DEF Serves
<1>6. Slots[rd].status # StatusTooSmall
  BY <1>5 DEF Readable, StatusRead, Slots
<1>7. Holds(rd)
  BY <1>1, <1>4, <1>5, <1>6 DEF Serves, AllHold, HoldUpToShort, EndsTooSmall, OnSlot, Slots
<1>8. QED
  BY <1>1, <1>3, <1>4, <1>5, <1>6, <1>7 DEF RecordRead, Holds, Slots

LEMMA DeliverCore ==
  ASSUME TypeInv, Core, Deliver
  PROVE  Core'
<1>1. /\ pc = "decode" /\ pc' = "idle" /\ UNCHANGED <<job, buffer, copying>> /\ Readable
      /\ rd' = IF OnSlot THEN rd + 1 ELSE rd
  BY DEF Deliver
<1>2. CASE Lost
  <2>1. Skips
    BY <1>1, <1>2 DEF Core, LostInv
  <2>2. QED
    BY <1>1, <1>2, <2>1, LostCore DEF Deliver, IncrementPastLastFile
<1>3. CASE ~Lost
  <2>1. IncrementIndex /\ out' = [at |-> entryIndex, rec |-> RecordRead]
    BY <1>3 DEF Deliver
  <2>2. Regular' /\ Position'
    BY <1>1, <1>3, <2>1, RegularKept, IncrementPosition DEF Core
  <2>3. SeekInv' /\ CopyInv'
    BY <1>1 DEF SeekInv, CopyInv
  <2>4. LostInv'
    BY <1>1, <1>3, <2>1, TypeFacts DEF LostInv, Lost, IncrementIndex
  <2>5. DeliveryInv'
    BY <1>1, <2>1, SlotRead DEF DeliveryInv, DeliversIndexed
  <2>6. ReadInv'
    <3>1. SUFFICES ASSUME ~Skips, microBatchIndex' # 0
                   PROVE  /\ rd' = microBatchIndex' + 1
                          /\ copying'.entry + microBatchIndex' = entryInFileIndex'
                          /\ Serves'
      BY <1>1 DEF ReadInv, Reading
    <3>2. /\ ~LeavesFile /\ microBatchIndex + 1 < job.batch /\ microBatchIndex' = microBatchIndex + 1
          /\ entryInFileIndex' = entryInFileIndex + 1 /\ fileIndex' = fileIndex
      BY <2>1, <3>1, TypeFacts DEF IncrementIndex
    <3>3. /\ rd = microBatchIndex + 1 /\ copying.entry + microBatchIndex = entryInFileIndex
          /\ Serves
      BY <1>1, <3>1 DEF Core, ReadInv, Reading
    <3>4. OnSlot /\ Slots[rd].status # StatusTooSmall
      BY <1>1, <3>1, SlotRead
    <3>5. /\ Slots \in Seq(Slot) /\ copying.entry \in Nat /\ microBatchIndex \in Nat
          /\ Entries(fileIndex) \in Nat /\ job.batch \in Nat \ {0} /\ entryInFileIndex \in Nat
      BY <1>3, TypeFacts DEF TypeInv, TypeOK, WalkerTypeOK, Buffers, Copyings, Slots
    <3>6. rd + 1 <= BatchAt(copying.entry)
      BY <3>2, <3>3, <3>5 DEF BatchAt, LeavesFile
    <3>7. rd # Len(Slots) \/ ~EndsTooSmall
      BY <3>4 DEF EndsTooSmall
    <3>8. \/ buffer.overrun /\ AllHold
          \/ rd + 1 <= Len(Slots) /\ HoldUpToShort
          \/ rd + 1 <= Len(Slots) /\ AllHold /\ Len(Slots) = BatchAt(copying.entry)
      BY <3>3, <3>5, <3>6, <3>7 DEF Serves, HoldUpToShort
    <3>9. rd' = rd + 1 /\ BatchAt(copying.entry)' = BatchAt(copying.entry)
      BY <1>1, <3>2, <3>4 DEF BatchAt, Entries
    <3>10. (AllHold <=> AllHold') /\ (HoldUpToShort <=> HoldUpToShort')
      BY <1>1, <3>2 DEF AllHold, HoldUpToShort, EndsTooSmall, Holds, Slots
    <3>11. Serves'
      BY <1>1, <3>8, <3>9, <3>10 DEF Serves, Slots
    <3>12. rd' = microBatchIndex' + 1
      BY <3>2, <3>3, <3>9
    <3>13. copying' = copying /\ microBatchIndex \in Nat
      BY <1>1 DEF TypeInv, TypeOK, WalkerTypeOK
    <3>14. copying'.entry + microBatchIndex' = entryInFileIndex'
      BY <3>2, <3>3, <3>5, <3>13
    <3>15. QED
      BY <3>11, <3>12, <3>14
  <2>7. QED
    BY <2>2, <2>3, <2>4, <2>5, <2>6 DEF Core
<1>4. QED
  BY <1>2, <1>3

LEMMA DecodeCore ==
  ASSUME TypeInv, Core, Retry \/ DecodeFails
  PROVE  Core'
<1>1. CASE Retry
  <2>1. pc = "decode" /\ buffer.cap \in Nat \ {0} /\ microBatchIndex' = 0
    BY <1>1 DEF Retry, TypeInv, TypeOK, WalkerTypeOK, Buffers
  <2>2. CASE Lost
    <3>1. Skips
      BY <2>1, <2>2 DEF Core, LostInv
    <3>2. QED
      BY <1>1, <2>1, <2>2, <3>1, LostCore DEF Retry, FillBeyondLastFile
  <2>3. CASE ~Lost
    <3>1. Grown \in Nat \ {0}
      BY <2>1 DEF Grown
    <3>2. QED
      BY <1>1, <2>1, <2>3, <3>1, FillCore DEF Retry
  <2>4. QED
    BY <2>2, <2>3
<1>2. CASE DecodeFails
  <2>1. /\ pc = "decode" /\ pc' = "idle" /\ UNCHANGED <<job, reader, buffer, copying>>
        /\ UNCHANGED numbers /\ UNCHANGED <<rd, out>>
    BY <1>2 DEF DecodeFails, Fails, walkerVars
  <2>2. Regular'
    BY <2>1, RegularKept DEF Core
  <2>3. Position' /\ SeekInv' /\ CopyInv' /\ DeliveryInv'
    BY <2>1 DEF Core, Position, SeekInv, CopyInv, DeliveryInv, DeliversIndexed, NoRecord, Lost,
                Entries, numbers
  <2>4. LostInv'
    BY <2>1 DEF Core, LostInv, Lost, numbers
  <2>5. ReadInv'
    BY <2>1 DEF Core, ReadInv, Reading, Serves, HoldUpToShort, EndsTooSmall, AllHold, Holds,
                BatchAt, Slots, Entries, numbers
  <2>6. QED
    BY <2>2, <2>3, <2>4, <2>5 DEF Core
<1>3. QED
  BY <1>1, <1>2

LEMMA InitCore == Init /\ Regular => Core
<1> SUFFICES ASSUME Init, Regular PROVE Core
  OBVIOUS
<1>1. TypeInv
  BY InitType
<1>2. 0 \in Files /\ job.files > 0
  BY <1>1, TypeFacts DEF Files
<1>3. Entries(0) \in Nat \ {0} /\ job.base[0] = 0
  BY <1>1, <1>2, RegularFacts
<1>4. /\ pc = "seek" /\ target = job.start /\ entryIndex = 0 /\ fileIndex = 0
      /\ entryInFileIndex = 0 /\ microBatchIndex = 0 /\ out = NoRecord
  BY DEF Init
<1>5. job.start \in Nat
  BY <1>1 DEF TypeInv, TypeOK, ParametersOK
<1>6. SeekInv
  <2>1. ~Lost
    BY <1>1, <1>2, <1>4, TypeFacts DEF Lost
  <2>2. EqualSizes \/ target = 0
    BY <1>4 DEF Regular, OnlyForward
  <2>3. QED
    BY <1>3, <1>4, <1>5, <2>1, <2>2 DEF SeekInv
<1>7. Position /\ LostInv /\ CopyInv /\ ReadInv
  <2>1. ~Lost
    BY <1>1, <1>2, <1>4, TypeFacts DEF Lost
  <2>2. QED
    BY <1>4, <2>1 DEF Position, LostInv, CopyInv, ReadInv, Reading
<1>8. DeliveryInv
  BY <1>4 DEF DeliveryInv, DeliversIndexed
<1>9. QED
  BY <1>6, <1>7, <1>8 DEF Core

LEMMA NextCore == IInv /\ [Next]_vars => IInv'
<1> SUFFICES ASSUME TypeInv, Core, [Next]_vars PROVE Core'
  BY NextType DEF IInv
<1>1. CASE CallNext
  BY <1>1, CallNextCore
<1>2. CASE Seek
  <2>1. EqualSizes
    BY <1>2 DEF Seek, Core, Regular, OnlyForward
  <2>2. QED
    BY <1>2, <2>1, SetIndexCore, ClientAssumption DEF Seek
<1>3. CASE Reset
  BY <1>3, SetIndexCore DEF Reset
<1>4. CASE Skip
  BY <1>4, SkipCore
<1>5. CASE Work
  BY <1>5, SeekStepsCore, CppCore, DeliverCore, DecodeCore DEF Work
<1>6. CASE UNCHANGED vars
  BY <1>6, CoreKept DEF vars, walkerVars, jvmVars, numbers
<1>7. QED
  BY <1>1, <1>2, <1>3, <1>4, <1>5, <1>6 DEF Next

LEMMA Invariance == RegularSpec => []IInv
<1>1. Init /\ Regular => IInv
  BY InitType, InitCore DEF IInv
<1>2. IInv /\ [Next]_vars => IInv'
  BY NextCore
<1>3. QED
  BY <1>1, <1>2, PTL DEF RegularSpec, RegularInit

(***************************************************************************)
(* For regular data sets and any client, the numbers of RootTreeIterator   *)
(* name one existing record, and the file they name is the open one (180). *)
(***************************************************************************)
THEOREM NumbersCorrect == RegularSpec => []NumbersInSync
<1>1. IInv => NumbersInSync
  BY DEF IInv, Core, Position, NumbersInSync
<1>2. QED
  BY <1>1, Invariance, PTL

(***************************************************************************)
(* For regular data sets and any client, the entries copyToBuffer reads are*)
(* the ones whose numbers next() counts, in a file that has them.          *)
(***************************************************************************)
THEOREM CopiesCorrect == RegularSpec => []CopiesTheMicroBatch
<1>1. IInv => CopiesTheMicroBatch
  <2> SUFFICES ASSUME TypeInv, Core, pc = "copy", InLoop PROVE Source = entryIndex + copying.i
    BY DEF IInv, CopiesTheMicroBatch
  <2>1. Source = job.base[fileIndex] + copying.entry + copying.i
    BY SourceFacts
  <2>2. entryIndex = job.base[fileIndex] + copying.entry
    BY CopyFacts DEF Core, Position
  <2>3. QED
    BY <2>1, <2>2
<1>2. QED
  BY <1>1, Invariance, PTL

(***************************************************************************)
(* For regular data sets and a client that uses next, setIndex and reset,  *)
(* next() returns the record of the index it was called at, through every  *)
(* refill, retry, change of file and seek (293-330).                       *)
(***************************************************************************)
THEOREM DeliversCorrect ==
  ASSUME "incrementIndex" \notin Client
  PROVE  RegularSpec => []DeliversIndexed
<1>1. IInv => DeliversIndexed
  BY DEF IInv, Core, DeliveryInv, Skips
<1>2. QED
  BY <1>1, Invariance, PTL

(***************************************************************************)
(* For such a client the rest of the micro-batch in the buffer is what     *)
(* next() will be asked for (278-282, 299).                                *)
(***************************************************************************)
THEOREM BufferCorrect ==
  ASSUME "incrementIndex" \notin Client
  PROVE  RegularSpec => []BufferInSync
<1>1. IInv => BufferInSync
  <2> SUFFICES ASSUME TypeInv, Core, pc = "idle", microBatchIndex # 0, ~Lost
               PROVE  /\ OnSlot \/ buffer.overrun
                      /\ \A k \in rd .. Len(Slots) : Slots[k].status = StatusReading =>
                           Slots[k].rec = entryIndex + (k - rd)
    BY DEF IInv, BufferInSync, Slots
  <2>1. /\ rd = microBatchIndex + 1 /\ copying.entry + microBatchIndex = entryInFileIndex /\ Serves
    BY DEF Core, ReadInv, Reading, Skips
  <2>2. entryIndex = job.base[fileIndex] + entryInFileIndex /\ job.base[fileIndex] \in Nat
    BY RegularFacts, TypeFacts DEF Core, Position
  <2>3. /\ Slots \in Seq(Slot) /\ copying.entry \in Nat /\ microBatchIndex \in Nat
        /\ rd \in Nat \ {0}
    BY DEF TypeInv, TypeOK, WalkerTypeOK, Buffers, Copyings, Slots
  <2>4. OnSlot \/ buffer.overrun
    BY <2>1, <2>3 DEF Serves, OnSlot, Slots
  <2>5. ASSUME NEW k \in rd .. Len(Slots), Slots[k].status = StatusReading
        PROVE  Slots[k].rec = entryIndex + (k - rd)
    <3>1. k \in DOMAIN Slots /\ k \in Nat /\ k <= Len(Slots)
      BY <2>3
    <3>2. Holds(k)
      BY <2>1, <2>3, <2>5, <3>1
      DEF Serves, AllHold, HoldUpToShort, EndsTooSmall, StatusReading, StatusTooSmall
    <3>3. Slots[k].rec = job.base[fileIndex] + copying.entry + (k - 1)
      BY <3>2 DEF Holds
    <3>4. entryIndex + (k - rd) = job.base[fileIndex] + copying.entry + (k - 1)
      <4>1. entryIndex = job.base[fileIndex] + (copying.entry + microBatchIndex)
            /\ rd = microBatchIndex + 1
        BY <2>1, <2>2
      <4>2. PICK b, c \in Int : b = job.base[fileIndex] /\ c = copying.entry
        BY <2>2, <2>3
      <4>3. (b + (c + microBatchIndex)) + (k - (microBatchIndex + 1)) = b + c + (k - 1)
        BY <2>3, <3>1
      <4>4. QED
        BY <4>1, <4>2, <4>3
    <3>5. QED
      BY <3>3, <3>4
  <2>6. QED
    BY <2>4, <2>5
<1>2. QED
  BY <1>1, Invariance, PTL

-----------------------------------------------------------------------------
(***************************************************************************)
(* hasNext, the bytes and the size of the buffer.                          *)
(***************************************************************************)
\* No client seeks an entry that is in no file; it may be behind the end the client gave.
SeeksInside == "setIndex" \in Client => \A i \in SeekTargets : i < Total

DoneInv ==
  /\ pc = "seek" /\ job.end >= 0 => target < job.end
  /\ pc = "idle" /\ ~Lost => (done <=> entryIndex >= Limit)
  /\ pc \in {"copy", "decode"} /\ ~Lost => ~done /\ entryIndex < Limit

InsideInv ==
  /\ pc = "seek" => target < Total
  /\ Lost => done /\ entryIndex >= Limit
  /\ pc \in {"copy", "decode"} => ~Lost

\* The bytes of the micro-batch that have been written.
BytesInv ==
  pc = "copy" /\ ~buffer.overrun =>
    /\ buffer.ptr = BatchBytes(job.base[fileIndex] + copying.entry, copying.i)
    /\ buffer.ptr <= buffer.cap

\* A record that was refused: the micro-batch up to it needs more than there is.
ShortInv ==
  (pc = "copy" \/ (~Skips /\ Reading)) /\ EndsTooSmall =>
    /\ Len(Slots) <= job.batch
    /\ copying.entry + Len(Slots) <= Entries(fileIndex)
    /\ BatchBytes(job.base[fileIndex] + copying.entry, Len(Slots)) > buffer.cap

(***************************************************************************)
(* Caps are the capacities that doubling can reach.  A micro-batch that has*)
(* filled one of them when there is another record to come is written on   *)
(* behind its limit (MCExactFill).                                         *)
(***************************************************************************)
Doubling(Caps) == InitialCap \in Caps /\ \A c \in Caps : 2 * c \in Caps

NeverFills(Caps) ==
  \A f \in Files : \A e \in 0 .. Entries(f) - 1 : \A n \in 1 .. job.batch - 1 :
    e + n < Entries(f) => BatchBytes(job.base[f] + e, n) \notin Caps

LEMMA LimitFacts ==
  ASSUME TypeInv
  PROVE  /\ Total \in Nat /\ Limit \in Nat /\ Limit <= Total
         /\ \A n \in Nat : n < Limit <=> n < Total /\ (job.end >= 0 => n < job.end)
<1>1. Total \in Nat /\ job.end \in Nat \cup {-1}
  BY DEF TypeInv, TypeOK, WalkerTypeOK, LayoutOK, ParametersOK, Total
<1>2. QED
  BY <1>1 DEF Limit

\* Only behind the last file is there nothing more to come.
LEMMA LastFile ==
  ASSUME TypeInv, Regular, NEW f \in Files
  PROVE  /\ job.base[f] + Entries(f) <= Total
         /\ f + 1 < job.files <=> job.base[f] + Entries(f) < Total
<1>1. /\ job.base[f + 1] = job.base[f] + Entries(f) /\ job.base[f + 1] <= Total /\ job.base[f + 1] \in Nat
      /\ Total \in Nat
  BY RegularFacts, EntriesType, TypeFacts
<1>2. CASE f + 1 < job.files
  <2>1. f + 1 \in Files
    BY <1>2, RegularFacts
  <2>2. /\ Entries(f + 1) \in Nat \ {0} /\ job.base[(f + 1) + 1] = job.base[f + 1] + Entries(f + 1)
        /\ job.base[(f + 1) + 1] <= Total
    BY <2>1, RegularFacts, EntriesType, TypeFacts
  <2>3. QED
    BY <1>1, <1>2, <2>2
<1>3. CASE ~(f + 1 < job.files)
  <2>1. f + 1 = job.files
    BY <1>3, TypeFacts DEF Files
  <2>2. QED
    BY <1>1, <1>3, <2>1 DEF Total
<1>4. QED
  BY <1>2, <1>3

\* incrementIndex sets done when the index reaches the end, and not before.
LEMMA ExhaustsExactly ==
  ASSUME TypeInv, Core, pc \in {"idle", "decode"}, ~Lost
  PROVE  /\ Exhausts <=> entryIndex + 1 >= Limit
         /\ LeavesFile /\ fileIndex + 1 >= job.files => entryIndex + 1 = Total
<1>1. /\ fileIndex \in Files /\ entryIndex \in Nat /\ entryInFileIndex \in Nat
      /\ job.files \in Nat /\ fileIndex \in Nat /\ entryIndex + 1 \in Nat
  BY TypeFacts DEF Files
<1>2. /\ entryInFileIndex < Entries(fileIndex) /\ entryIndex = job.base[fileIndex] + entryInFileIndex
      /\ Entries(fileIndex) \in Nat /\ job.base[fileIndex] \in Nat
  BY <1>1, RegularFacts DEF Core, Position
<1>3. /\ job.base[fileIndex] + Entries(fileIndex) <= Total /\ Total \in Nat
      /\ fileIndex + 1 < job.files <=> job.base[fileIndex] + Entries(fileIndex) < Total
  BY <1>1, LastFile, LimitFacts DEF Core
<1>4. LeavesFile <=> entryIndex + 1 = job.base[fileIndex] + Entries(fileIndex)
  BY <1>1, <1>2 DEF LeavesFile
<1>5. LeavesFile /\ fileIndex + 1 >= job.files <=> entryIndex + 1 >= Total
  BY <1>1, <1>2, <1>3, <1>4
<1>6. LeavesFile /\ fileIndex + 1 >= job.files => entryIndex + 1 = Total
  BY <1>1, <1>2, <1>3, <1>4
<1>7. entryIndex + 1 >= Limit <=> entryIndex + 1 >= Total \/ (job.end >= 0 /\ entryIndex + 1 >= job.end)
  <2>1. job.end \in Int /\ Limit \in Nat
    BY LimitFacts DEF TypeInv, TypeOK, ParametersOK
  <2>2. entryIndex + 1 < Limit <=> entryIndex + 1 < Total /\ (job.end >= 0 => entryIndex + 1 < job.end)
    BY <1>1, LimitFacts
  <2>3. QED
    BY <1>1, <1>3, <2>1, <2>2
<1>8. QED
  BY <1>5, <1>6, <1>7 DEF Exhausts

\* The parts of a step that matter to hasNext.
DoneKeeps ==
  \/ pc' = pc
  \/ pc = "idle" /\ ~done /\ pc' \in {"copy", "decode"}
  \/ pc \in {"copy", "decode"} /\ pc' \in {"idle", "copy", "decode", "crashed"}
  \/ Lost /\ pc' # "seek"

LEMMA DoneSame ==
  ASSUME TypeInv, DoneInv, UNCHANGED <<job, target, done, entryIndex, fileIndex>>, DoneKeeps
  PROVE  DoneInv'
<1>1. Limit' = Limit /\ Total' = Total /\ (Lost' <=> Lost)
  BY DEF Limit, Total, Lost
<1>2. entryIndex < Limit <=> ~(entryIndex >= Limit)
  BY LimitFacts, TypeFacts
<1>3. QED
  BY <1>1, <1>2 DEF DoneInv, DoneKeeps

LEMMA DoneIncrement ==
  ASSUME TypeInv, Core, DoneInv, pc \in {"idle", "decode"}, ~Lost, UNCHANGED job, IncrementIndex,
         pc' = "idle"
  PROVE  DoneInv'
<1>1. Limit' = Limit
  BY DEF Limit, Total
<1>2. entryIndex \in Nat /\ Limit \in Nat /\ entryIndex' = entryIndex + 1 /\ done' = (done \/ Exhausts)
  BY LimitFacts, TypeFacts DEF IncrementIndex
<1>3. Exhausts <=> entryIndex + 1 >= Limit
  BY ExhaustsExactly
<1>4. done => entryIndex + 1 >= Limit
  <2>1. done => entryIndex >= Limit
    BY <1>2 DEF DoneInv
  <2>2. entryIndex >= Limit => entryIndex + 1 >= Limit
    BY <1>2
  <2>3. QED
    BY <2>1, <2>2
<1>5. done' <=> entryIndex + 1 >= Limit
  BY <1>2, <1>3, <1>4, Zenon
<1>6. QED
  BY <1>1, <1>2, <1>5 DEF DoneInv

LEMMA DoneSetIndex ==
  ASSUME TypeInv, DoneInv, NEW i \in Nat, SetIndex(i)
  PROVE  DoneInv'
<1>1. CASE InBounds(i)
  BY <1>1 DEF SetIndex, InBounds, DoneInv, walkerVars
<1>2. CASE ~InBounds(i)
  <2>1. UNCHANGED <<job, target, done, entryIndex, fileIndex>> /\ pc' = pc
    BY <1>2 DEF SetIndex, walkerVars, numbers
  <2>2. QED
    BY <2>1, DoneSame DEF DoneKeeps
<1>3. QED
  BY <1>1, <1>2

LEMMA DoneSeeks ==
  ASSUME TypeInv, Core, DoneInv, SeekPassesFile \/ SeekLandsInFile \/ SeekReturns
  PROVE  DoneInv'
<1>1. pc = "seek" /\ UNCHANGED <<job, target>> /\ target \in Nat
  BY DEF SeekPassesFile, SeekLandsInFile, SeekReturns, TypeInv, TypeOK
<1>2. CASE pc' = "seek"
  BY <1>1, <1>2 DEF DoneInv
<1>3. CASE SeekPassesFile /\ pc' # "seek"
  <2>1. fileIndex' >= job.files /\ pc' \in {"idle", "unbuilt"}
    BY <1>1, <1>3, TypeFacts DEF SeekPassesFile, SeekFails, Files
  <2>2. Lost'
    BY <1>1, <2>1 DEF Lost
  <2>3. QED
    BY <2>1, <2>2 DEF DoneInv
<1>4. CASE SeekReturns
  <2>1. pc' = "idle" /\ done' = FALSE /\ UNCHANGED <<entryIndex, fileIndex>> /\ entryIndex >= target
    BY <1>4 DEF SeekReturns
  <2>2. /\ fileIndex \in Files /\ entryInFileIndex < Entries(fileIndex) /\ entryIndex <= target
        /\ entryIndex = job.base[fileIndex] + entryInFileIndex
    BY <1>1, TypeFacts DEF Core, SeekInv
  <2>3. /\ entryIndex \in Nat /\ entryInFileIndex \in Nat /\ Entries(fileIndex) \in Nat
        /\ job.base[fileIndex] \in Nat /\ Total \in Nat
    BY <2>2, RegularFacts, TypeFacts, LimitFacts DEF Core
  <2>4. entryIndex = target /\ entryIndex < Total
    <3>1. job.base[fileIndex] + Entries(fileIndex) <= Total
      BY <2>2, LastFile DEF Core
    <3>2. QED
      BY <1>1, <2>1, <2>2, <2>3, <3>1
  <2>5. entryIndex < Limit
    BY <1>1, <2>3, <2>4, LimitFacts DEF DoneInv
  <2>6. Limit' = Limit /\ Limit \in Nat
    BY <1>1, LimitFacts DEF Limit, Total
  <2>7. QED
    BY <2>1, <2>3, <2>5, <2>6 DEF DoneInv
<1>5. CASE SeekLandsInFile
  BY <1>1, <1>2, <1>5 DEF SeekLandsInFile
<1>6. QED
  BY <1>2, <1>3, <1>4, <1>5

LEMMA DoneStep ==
  ASSUME IInv, DoneInv, [Next]_vars
  PROVE  DoneInv'
<1> USE DEF IInv
<1>1. CASE CallNext
  <2>1. UNCHANGED <<job, target, done, entryIndex, fileIndex>> /\ DoneKeeps
    BY <1>1 DEF CallNext, NextWhenDone, NextFills, NextBeyondLastFile, NextFromBuffer, Fill,
                FillBeyondLastFile, Fails, walkerVars, numbers, DoneKeeps
  <2>2. QED
    BY <2>1, DoneSame
<1>2. CASE Seek \/ Reset
  BY <1>2, DoneSetIndex, ClientAssumption DEF Seek, Reset
<1>3. CASE (Skip \/ Deliver) /\ Lost
  <2>1. UNCHANGED job /\ Lost' /\ pc' = "idle"
    BY <1>3 DEF Skip, Deliver, IncrementPastLastFile, Lost
  <2>2. QED
    BY <2>1 DEF DoneInv
<1>4. CASE (Skip \/ Deliver) /\ ~Lost
  <2>1. pc \in {"idle", "decode"} /\ UNCHANGED job /\ IncrementIndex /\ pc' = "idle"
    BY <1>4 DEF Skip, Deliver
  <2>2. QED
    BY <1>4, <2>1, DoneIncrement
<1>5. CASE SeekPassesFile \/ SeekLandsInFile \/ SeekReturns
  BY <1>5, DoneSeeks
<1>6. CASE CopyStep \/ CopyOverruns \/ CopyEnds
  <2>1. UNCHANGED job
    BY <1>6 DEF CopyStep, CopyOverruns, CopyEnds, Poll, CopyFits, CopyTooSmall, CopyPastLimit, CopyReturns,
                walkerVars
  <2>2. UNCHANGED <<target, done, entryIndex, fileIndex>> /\ DoneKeeps
    BY <1>6 DEF CopyStep, CopyOverruns, CopyEnds, jvmVars, numbers, DoneKeeps
  <2>3. QED
    BY <2>1, <2>2, DoneSame
<1>7. CASE Retry \/ DecodeFails
  <2>1. UNCHANGED <<job, target, done, entryIndex, fileIndex>> /\ DoneKeeps
    BY <1>7 DEF Retry, DecodeFails, Fill, FillBeyondLastFile, Fails, walkerVars, numbers, DoneKeeps
  <2>2. QED
    BY <2>1, DoneSame
<1>8. CASE UNCHANGED vars
  BY <1>8, DoneSame DEF vars, walkerVars, jvmVars, DoneKeeps
<1>9. QED
  BY <1>1, <1>2, <1>3, <1>4, <1>5, <1>6, <1>7, <1>8 DEF Next, Work

LEMMA DoneInit == RegularInit => DoneInv
<1> SUFFICES ASSUME RegularInit PROVE DoneInv
  OBVIOUS
<1>1. pc = "seek" /\ target = job.start /\ ParametersOK(job)
  BY ParametersAssumption DEF RegularInit, Init
<1>2. QED
  BY <1>1 DEF DoneInv, ParametersOK

LEMMA DoneInvariance == RegularSpec => [](IInv /\ DoneInv)
<1>1. RegularInit => IInv /\ DoneInv
  BY InitType, InitCore, DoneInit DEF RegularInit, IInv
<1>2. IInv /\ DoneInv /\ [Next]_vars => IInv' /\ DoneInv'
  BY NextCore, DoneStep
<1>3. QED
  BY <1>1, <1>2, PTL DEF RegularSpec

(***************************************************************************)
(* No seek goes beyond the last file: then no step of the iterator does.   *)
(***************************************************************************)

LEMMA InsideSame ==
  ASSUME InsideInv, UNCHANGED <<job, target, done, entryIndex, fileIndex>>,
         pc' = "seek" => pc = "seek", pc' \in {"copy", "decode"} => ~Lost
  PROVE  InsideInv'
BY DEF InsideInv, Limit, Total, Lost

LEMMA InsideIncrement ==
  ASSUME TypeInv, Core, InsideInv, pc \in {"idle", "decode"}, ~Lost, UNCHANGED job, IncrementIndex,
         pc' = "idle"
  PROVE  InsideInv'
<1>1. Limit' = Limit /\ Limit \in Nat /\ Total \in Nat /\ Limit <= Total
  BY LimitFacts DEF Limit, Total
<1>2. entryIndex' = entryIndex + 1 /\ done' = (done \/ Exhausts)
      /\ fileIndex' = IF LeavesFile THEN fileIndex + 1 ELSE fileIndex
  BY DEF IncrementIndex
<1>3. CASE LeavesFile /\ fileIndex + 1 >= job.files
  <2>1. Exhausts /\ entryIndex + 1 = Total
    BY <1>3, ExhaustsExactly DEF Exhausts
  <2>2. done' = TRUE
    BY <1>2, <2>1, Zenon
  <2>3. entryIndex' >= Limit
    BY <1>1, <1>2, <2>1
  <2>4. QED
    BY <1>1, <2>2, <2>3 DEF InsideInv
<1>4. CASE ~(LeavesFile /\ fileIndex + 1 >= job.files)
  <2>1. ~Lost'
    BY <1>2, <1>4 DEF Lost
  <2>2. QED
    BY <2>1 DEF InsideInv
<1>5. QED
  BY <1>3, <1>4

LEMMA NoSeekFails ==
  ASSUME TypeInv, Core, InsideInv, SeekPassesFile
  PROVE  fileIndex' < job.files
<1>1. /\ pc = "seek" /\ entryIndex < target /\ entryIndex + Entries(fileIndex) <= target
      /\ fileIndex' = fileIndex + 1 /\ target \in Nat /\ target < Total /\ fileIndex \in Files
  BY TypeFacts DEF SeekPassesFile, TypeInv, TypeOK, InsideInv
<1>2. entryIndex = job.base[fileIndex] + entryInFileIndex /\ entryInFileIndex = 0
  BY <1>1 DEF Core, SeekInv
<1>3. /\ job.base[fileIndex] \in Nat /\ Entries(fileIndex) \in Nat /\ Total \in Nat
      /\ fileIndex + 1 < job.files <=> job.base[fileIndex] + Entries(fileIndex) < Total
  BY <1>1, RegularFacts, LastFile, LimitFacts DEF Core
<1>4. job.base[fileIndex] + Entries(fileIndex) < Total
  BY <1>1, <1>2, <1>3
<1>5. QED
  BY <1>1, <1>3, <1>4

LEMMA InsideSeeks ==
  ASSUME TypeInv, Core, InsideInv, SeekPassesFile \/ SeekLandsInFile \/ SeekReturns
  PROVE  InsideInv'
<1>1. /\ pc = "seek" /\ UNCHANGED <<job, target>> /\ target < Total /\ ~Lost /\ fileIndex \in Files
  BY TypeFacts
  DEF SeekPassesFile, SeekLandsInFile, SeekReturns, TypeInv, TypeOK, InsideInv
<1>2. Total' = Total
  BY <1>1 DEF Total
<1>3. CASE SeekPassesFile
  <2>1. fileIndex' < job.files /\ fileIndex' = fileIndex + 1
    BY <1>3, NoSeekFails DEF SeekPassesFile
  <2>2. pc' = pc /\ ~Lost'
    BY <1>1, <1>3, <2>1, TypeFacts DEF SeekPassesFile, Lost, Files
  <2>3. QED
    BY <1>1, <1>2, <2>2 DEF InsideInv
<1>4. CASE SeekLandsInFile \/ SeekReturns
  <2>1. ~Lost' /\ pc' \in {pc, "idle"}
    BY <1>1, <1>4 DEF SeekLandsInFile, SeekReturns, Lost
  <2>2. QED
    BY <1>1, <1>2, <2>1 DEF InsideInv
<1>5. QED
  BY <1>3, <1>4

LEMMA InsideSetIndex ==
  ASSUME TypeInv, InsideInv, NEW i \in Nat, i < Total, SetIndex(i)
  PROVE  InsideInv'
<1>1. CASE InBounds(i)
  <2>1. pc' = "seek" /\ target' = i /\ fileIndex' = 0 /\ job' = job
    BY <1>1 DEF SetIndex, Zeroed, walkerVars
  <2>2. ~Lost' /\ Total' = Total
    BY <2>1, TypeFacts DEF Lost, Total
  <2>3. QED
    BY <2>1, <2>2 DEF InsideInv
<1>2. CASE ~InBounds(i)
  <2>1. UNCHANGED <<job, target, done, entryIndex, fileIndex>> /\ pc' = pc /\ pc = "idle"
    BY <1>2 DEF SetIndex, walkerVars, numbers
  <2>2. QED
    BY <2>1, InsideSame
<1>3. QED
  BY <1>1, <1>2

LEMMA InsideStep ==
  ASSUME IInv, SeeksInside, InsideInv, [Next]_vars
  PROVE  InsideInv'
<1> USE DEF IInv
<1>1. CASE CallNext
  <2>1. /\ UNCHANGED <<job, target, done, entryIndex, fileIndex>> /\ pc' # "seek"
        /\ pc' \in {"copy", "decode"} => ~Lost
    BY <1>1 DEF CallNext, NextWhenDone, NextFills, NextBeyondLastFile, NextFromBuffer, Fill,
                FillBeyondLastFile, Fails, walkerVars, numbers, InsideInv
  <2>2. QED
    BY <2>1, InsideSame
<1>2. CASE Seek \/ Reset
  <2>1. 0 < Total /\ Total \in Nat
    BY LimitFacts DEF Core, Regular, TypeInv, TypeOK, ParametersOK
  <2>2. PICK i \in Nat : i < Total /\ SetIndex(i)
    BY <1>2, <2>1, ClientAssumption DEF Seek, Reset, SeeksInside
  <2>3. QED
    BY <2>2, InsideSetIndex
<1>3. CASE (Skip \/ Deliver) /\ Lost
  <2>1. UNCHANGED job /\ Lost' /\ pc' = "idle" /\ done' = done /\ entryIndex' = entryIndex + 1
    BY <1>3 DEF Skip, Deliver, IncrementPastLastFile, Lost
  <2>2. Limit' = Limit /\ Limit \in Nat /\ entryIndex \in Nat /\ entryIndex >= Limit /\ done
    BY <1>3, <2>1, LimitFacts, TypeFacts DEF Limit, Total, InsideInv
  <2>3. entryIndex' >= Limit'
    BY <2>1, <2>2
  <2>4. QED
    BY <2>1, <2>2, <2>3 DEF InsideInv
<1>4. CASE (Skip \/ Deliver) /\ ~Lost
  <2>1. pc \in {"idle", "decode"} /\ UNCHANGED job /\ IncrementIndex /\ pc' = "idle"
    BY <1>4 DEF Skip, Deliver
  <2>2. QED
    BY <1>4, <2>1, InsideIncrement
<1>5. CASE SeekPassesFile \/ SeekLandsInFile \/ SeekReturns
  BY <1>5, InsideSeeks
<1>6. CASE CopyStep \/ CopyOverruns \/ CopyEnds
  <2>1. UNCHANGED job
    BY <1>6 DEF CopyStep, CopyOverruns, CopyEnds, Poll, CopyFits, CopyTooSmall, CopyPastLimit, CopyReturns,
                walkerVars
  <2>2. UNCHANGED <<target, done, entryIndex, fileIndex>> /\ pc = "copy" /\ pc' # "seek"
    BY <1>6 DEF CopyStep, CopyOverruns, CopyEnds, jvmVars, numbers
  <2>3. QED
    BY <2>1, <2>2, InsideSame DEF InsideInv
<1>7. CASE Retry \/ DecodeFails
  <2>1. UNCHANGED <<job, target, done, entryIndex, fileIndex>> /\ pc = "decode" /\ pc' # "seek"
    BY <1>7 DEF Retry, DecodeFails, Fill, FillBeyondLastFile, Fails, walkerVars, numbers
  <2>2. QED
    BY <2>1, InsideSame DEF InsideInv
<1>8. CASE UNCHANGED vars
  BY <1>8, InsideSame DEF vars, walkerVars, jvmVars, InsideInv
<1>9. QED
  BY <1>1, <1>2, <1>3, <1>4, <1>5, <1>6, <1>7, <1>8 DEF Next, Work

LEMMA JobKept ==
  ASSUME [Next]_vars
  PROVE  job' = job
<1>1. CASE Work
  BY <1>1 DEF Work, SeekPassesFile, SeekLandsInFile, SeekReturns, CopyStep, CopyOverruns, CopyEnds, Poll,
     CopyFits, CopyTooSmall, CopyPastLimit, CopyReturns, Retry, FillBeyondLastFile, Deliver, DecodeFails,
     walkerVars
<1>2. CASE CallNext \/ Seek \/ Reset \/ Skip
  BY <1>2 DEF CallNext, NextWhenDone, NextFills, NextBeyondLastFile, NextFromBuffer, FillBeyondLastFile,
     Seek, Reset, Skip, SetIndex, walkerVars
<1>3. CASE UNCHANGED vars
  BY <1>3 DEF vars, walkerVars
<1>4. QED
  BY <1>1, <1>2, <1>3 DEF Next

LEMMA InsideInvariance == RegularSpec /\ SeeksInside => [](IInv /\ DoneInv /\ SeeksInside /\ InsideInv)
<1>1. RegularInit /\ SeeksInside => InsideInv
  <2> SUFFICES ASSUME RegularInit PROVE InsideInv
    OBVIOUS
  <2>1. pc = "seek" /\ target = job.start /\ fileIndex = 0 /\ job.start < Total /\ TypeInv
    BY InitType DEF RegularInit, Init, Regular
  <2>2. ~Lost
    BY <2>1, TypeFacts DEF Lost
  <2>3. QED
    BY <2>1, <2>2 DEF InsideInv
<1>2. IInv /\ SeeksInside /\ InsideInv /\ [Next]_vars => SeeksInside' /\ InsideInv'
  <2> SUFFICES ASSUME IInv, SeeksInside, InsideInv, [Next]_vars PROVE SeeksInside' /\ InsideInv'
    OBVIOUS
  <2>1. SeeksInside'
    BY JobKept DEF SeeksInside, Total
  <2>2. QED
    BY <2>1, InsideStep
<1>3. QED
  BY <1>1, <1>2, DoneInvariance, PTL DEF RegularSpec

(***************************************************************************)
(* For regular data sets of any size and a client that skips, rewinds and  *)
(* seeks existing entries in any order: hasNext is true exactly while there*)
(* is an entry before the end (292, 239-256).                              *)
(***************************************************************************)
THEOREM HasNextCorrect == RegularSpec /\ SeeksInside => []HasNextExact
<1>1. DoneInv /\ InsideInv => HasNextExact
  BY DEF DoneInv, InsideInv, HasNextExact
<1>2. QED
  BY <1>1, InsideInvariance, PTL

-----------------------------------------------------------------------------
(***************************************************************************)
(* The bytes of the buffer.                                                *)
(***************************************************************************)
LEMMA BytesType ==
  ASSUME TypeInv, NEW g \in Nat, NEW n \in Nat, g + n <= Total
  PROVE  BatchBytes(g, n) \in Int /\ BatchBytes(g, 0) = 0
<1>1. Total \in Nat /\ job.off \in [0 .. Total -> Nat]
  BY LimitFacts, TypeFacts DEF LayoutOK, Total
<1>2. g \in 0 .. Total /\ g + n \in 0 .. Total /\ g + 0 = g
  BY <1>1
<1>3. QED
  BY <1>1, <1>2 DEF BatchBytes

\* The bytes of the record to come, added to the ones of the records before it.
LEMMA NextBytes ==
  ASSUME TypeInv, Core, BytesInv, pc = "copy", InLoop, ~buffer.overrun
  PROVE  /\ buffer.ptr + Width(Source) = BatchBytes(job.base[fileIndex] + copying.entry, copying.i + 1)
         /\ copying.i < job.batch /\ copying.entry + copying.i + 1 <= Entries(fileIndex)
<1> DEFINE g == job.base[fileIndex] + copying.entry
<1>1. /\ copying.i \in Nat /\ copying.n \in Nat /\ copying.entry \in Nat /\ copying.i < copying.n
      /\ Entries(fileIndex) \in Nat /\ job.base[fileIndex] \in Nat /\ fileIndex \in Files
      /\ copying.n = BatchAt(copying.entry) /\ copying.n <= Entries(fileIndex) - copying.entry
      /\ job.batch \in Nat /\ copying.n <= job.batch
  <2>1. copying.n = BatchAt(copying.entry)
    BY SourceFacts DEF Fresh, Partial
  <2>2. QED
    BY <2>1, CopyFacts, TypeFacts DEF InLoop, BatchAt
<1>2. job.base[fileIndex] + Entries(fileIndex) <= Total /\ Total \in Nat
  BY <1>1, LastFile, LimitFacts DEF Core
<1>3. g \in Nat /\ g + copying.i \in 0 .. Total /\ g + copying.i + 1 \in 0 .. Total /\ g \in 0 .. Total
      /\ g + (copying.i + 1) = g + copying.i + 1
  BY <1>1, <1>2
<1>4. job.off \in [0 .. Total -> Nat]
  BY TypeFacts DEF LayoutOK, Total
<1>5. job.off[g] \in Nat /\ job.off[g + copying.i] \in Nat /\ job.off[g + copying.i + 1] \in Nat
  BY <1>3, <1>4
<1>6. Width(Source) = job.off[g + copying.i + 1] - job.off[g + copying.i]
  <2>1. Source = g + copying.i
    BY SourceFacts
  <2>2. Source # Garbage
    BY <1>3, <2>1, GarbageAssumption
  <2>3. QED
    BY <2>1, <2>2 DEF Width
<1>7. buffer.ptr = job.off[g + copying.i] - job.off[g]
  BY DEF BytesInv, BatchBytes
<1>8. BatchBytes(g, copying.i + 1) = job.off[g + copying.i + 1] - job.off[g]
  BY <1>3 DEF BatchBytes
<1>9. buffer.ptr + Width(Source) = BatchBytes(g, copying.i + 1)
  BY <1>5, <1>6, <1>7, <1>8
<1>10. copying.i < job.batch /\ copying.entry + copying.i + 1 <= Entries(fileIndex)
  BY <1>1
<1>11. QED
  BY <1>9, <1>10

\* Who writes to the buffer, and who leaves it alone.
LoopSteps == CopyFits \/ CopyTooSmall \/ CopyPastLimit

Refill ==
  /\ \E cap \in {buffer.cap, Grown} : buffer' = Writable(cap)
  /\ \/ pc' = "idle"
     \/ /\ pc \in {"idle", "decode"} /\ pc' = "copy" /\ ~Lost
        /\ copying' = Call(entryInFileIndex, ThisMicroBatchSize)
        /\ UNCHANGED <<job, fileIndex, entryInFileIndex>>

LEMMA BufferSteps ==
  ASSUME TypeInv, [Next]_vars
  PROVE  \/ pc = "copy" /\ LoopSteps /\ UNCHANGED numbers /\ pc' \in {"copy", "crashed"}
         \/ Refill
         \/ /\ buffer' = buffer /\ copying'.entry = copying.entry
            /\ pc' = "copy" => pc = "copy" /\ copying'.i = copying.i /\ UNCHANGED fileIndex
<1>1. CASE CallNext
  <2>1. CASE NextFills
    BY <1>1, <2>1 DEF NextFills, Fill, Refill, numbers
  <2>2. CASE NextBeyondLastFile
    BY <1>1, <2>2 DEF NextBeyondLastFile, FillBeyondLastFile, Refill
  <2>3. CASE NextWhenDone \/ NextFromBuffer
    BY <1>1, <2>3 DEF NextWhenDone, NextFromBuffer, walkerVars
  <2>4. QED
    BY <1>1, <2>1, <2>2, <2>3 DEF CallNext
<1>2. CASE Seek \/ Reset \/ Skip
  BY <1>2 DEF Seek, Reset, Skip, SetIndex, walkerVars
<1>3. CASE SeekPassesFile \/ SeekLandsInFile \/ SeekReturns
  BY <1>3 DEF SeekPassesFile, SeekLandsInFile, SeekReturns, SeekFails
<1>4. CASE CopyStep
  <2>1. CASE Poll
    <3>1. copying' = [copying EXCEPT !.phase = "loop"] /\ copying \in Copyings
      BY <2>1 DEF Poll, TypeInv, TypeOK, WalkerTypeOK
    <3>2. copying'.entry = copying.entry /\ copying'.i = copying.i
      BY <3>1 DEF Copyings
    <3>3. QED
      BY <1>4, <2>1, <3>2 DEF CopyStep, Poll, jvmVars
  <2>2. CASE CopyFits \/ CopyTooSmall
    BY <1>4, <2>2 DEF CopyStep, LoopSteps, jvmVars, numbers
  <2>3. QED
    BY <1>4, <2>1, <2>2 DEF CopyStep
<1>5. CASE CopyOverruns
  BY <1>5 DEF CopyOverruns, LoopSteps, numbers
<1>6. CASE CopyEnds \/ Deliver \/ DecodeFails
  BY <1>6 DEF CopyEnds, CopyReturns, Deliver, DecodeFails, walkerVars
<1>7. CASE Retry
  BY <1>7 DEF Retry, Refill, Fill, FillBeyondLastFile
<1>8. CASE UNCHANGED vars
  BY <1>8 DEF vars, walkerVars, jvmVars
<1>9. QED
  BY <1>1, <1>2, <1>3, <1>4, <1>5, <1>6, <1>7, <1>8 DEF Next, Work

\* The fields of buffer and copying after a step of the loop.
LEMMA LoopFacts ==
  ASSUME TypeInv, LoopSteps
  PROVE  /\ InLoop /\ UNCHANGED job /\ copying'.entry = copying.entry /\ buffer'.cap = buffer.cap
         /\ CopyFits => /\ copying'.i = copying.i + 1 /\ buffer'.ptr = buffer.ptr + Width(Source)
                        /\ buffer'.slots = Append(Written, [status |-> StatusReading, rec |-> Source])
                        /\ buffer'.overrun = buffer.overrun
         /\ CopyTooSmall => /\ copying'.i = copying.i /\ buffer'.ptr = buffer.ptr
                            /\ buffer'.slots = Append(Written, [status |-> StatusTooSmall, rec |-> Garbage])
                            /\ buffer'.overrun = buffer.overrun
         /\ CopyPastLimit => buffer'.overrun = TRUE /\ buffer'.slots = buffer.slots
<1>1. copying \in Copyings /\ buffer \in Buffers
  BY DEF TypeInv, TypeOK, WalkerTypeOK
<1>2. QED
  BY <1>1 DEF LoopSteps, CopyFits, CopyTooSmall, CopyPastLimit, Copyings, Buffers

LEMMA BytesStep ==
  ASSUME IInv, BytesInv, [Next]_vars
  PROVE  BytesInv'
<1> USE DEF IInv
<1> SUFFICES ASSUME pc' = "copy", ~buffer.overrun'
             PROVE  /\ buffer'.ptr = BatchBytes(job.base[fileIndex] + copying.entry, copying.i)'
                    /\ buffer'.ptr <= buffer'.cap
  BY DEF BytesInv
<1>1. job' = job
  BY JobKept
<1>2. CASE pc = "copy" /\ LoopSteps /\ UNCHANGED numbers
  <2>1. fileIndex' = fileIndex /\ copying'.entry = copying.entry /\ InLoop /\ buffer'.cap = buffer.cap
    BY <1>2, LoopFacts DEF numbers
  <2>2. CASE CopyFits
    <3>1. ~buffer.overrun /\ copying'.i = copying.i + 1 /\ buffer'.ptr = buffer.ptr + Width(Source)
      BY <1>2, <2>2, LoopFacts
    <3>2. buffer'.ptr = BatchBytes(job.base[fileIndex] + copying.entry, copying.i + 1)
      BY <1>2, <2>1, <3>1, NextBytes
    <3>3. buffer'.ptr <= buffer'.cap
      BY <2>1, <2>2, <3>1 DEF CopyFits, Fits
    <3>4. QED
      BY <1>1, <2>1, <3>1, <3>2, <3>3 DEF BatchBytes
  <2>3. CASE CopyTooSmall
    <3>1. ~buffer.overrun /\ copying'.i = copying.i /\ buffer'.ptr = buffer.ptr
      BY <1>2, <2>3, LoopFacts
    <3>2. QED
      BY <1>1, <1>2, <2>1, <3>1 DEF BytesInv, BatchBytes
  <2>4. CASE CopyPastLimit
    BY <1>2, <2>4, LoopFacts
  <2>5. QED
    BY <1>2, <2>2, <2>3, <2>4 DEF LoopSteps
<1>3. CASE Refill
  <2>1. /\ pc \in {"idle", "decode"} /\ ~Lost /\ copying' = Call(entryInFileIndex, ThisMicroBatchSize)
        /\ UNCHANGED <<job, fileIndex, entryInFileIndex>>
    BY <1>3 DEF Refill
  <2>2. PICK cap \in {buffer.cap, Grown} : buffer' = Writable(cap)
    BY <1>3 DEF Refill
  <2>3. cap \in Nat
    BY DEF TypeInv, TypeOK, WalkerTypeOK, Buffers, Grown
  <2>4. copying'.entry = entryInFileIndex /\ copying'.i = 0 /\ buffer'.ptr = 0 /\ buffer'.cap = cap
    BY <2>1, <2>2 DEF Call, Writable
  <2>5. BatchBytes(job.base[fileIndex] + entryInFileIndex, 0) = 0
    <3>1. /\ fileIndex \in Files /\ entryInFileIndex < Entries(fileIndex) /\ entryInFileIndex \in Nat
          /\ job.base[fileIndex] \in Nat /\ Entries(fileIndex) \in Nat
          /\ job.base[fileIndex] + Entries(fileIndex) <= Total /\ Total \in Nat
      BY <2>1, TypeFacts, RegularFacts, LastFile, LimitFacts DEF Core, Position
    <3>2. job.base[fileIndex] + entryInFileIndex \in Nat /\ job.base[fileIndex] + entryInFileIndex + 0 <= Total
      BY <3>1
    <3>3. QED
      BY <3>2, BytesType
  <2>6. QED
    BY <2>1, <2>3, <2>4, <2>5 DEF BatchBytes
<1>4. CASE buffer' = buffer /\ copying'.entry = copying.entry /\ pc = "copy" /\ copying'.i = copying.i
             /\ UNCHANGED fileIndex
  BY <1>1, <1>4 DEF BytesInv, BatchBytes
<1>5. QED
  BY <1>2, <1>3, <1>4, BufferSteps

LEMMA BytesInvariance == RegularSpec => [](IInv /\ BytesInv)
<1>1. RegularInit => IInv /\ BytesInv
  BY InitType, InitCore DEF RegularInit, IInv, Init, BytesInv
<1>2. IInv /\ BytesInv /\ [Next]_vars => IInv' /\ BytesInv'
  BY NextCore, BytesStep
<1>3. QED
  BY <1>1, <1>2, PTL DEF RegularSpec

-----------------------------------------------------------------------------
(***************************************************************************)
(* No write behind the limit.                                              *)
(***************************************************************************)
CapInv(Caps) == ~buffer.overrun /\ buffer.cap \in Caps

LEMMA CapStep ==
  ASSUME NEW Caps, Doubling(Caps), IInv, BytesInv, NeverFills(Caps), CapInv(Caps), [Next]_vars
  PROVE  CapInv(Caps)'
<1> USE DEF IInv
<1>1. CASE pc = "copy" /\ LoopSteps
  <2>1. buffer'.cap = buffer.cap /\ InLoop
    BY <1>1, LoopFacts
  <2>2. CASE CopyPastLimit
    <3> DEFINE e == copying.entry
    <3>1. buffer.ptr >= buffer.cap /\ buffer.ptr <= buffer.cap
      BY <1>1, <2>2 DEF CopyPastLimit, BytesInv, CapInv
    <3>2. buffer.ptr = buffer.cap /\ buffer.cap \in Nat \ {0} /\ copying.i \in Nat /\ e \in Nat
      BY <1>1, <3>1, CopyFacts
    <3>3. BatchBytes(job.base[fileIndex] + e, copying.i) \in Caps
      BY <1>1, <3>2 DEF CapInv, BytesInv
    <3>4. copying.i # 0
      BY <1>1, <2>1, <3>2, SourceFacts DEF Fresh, Partial
    <3>5. /\ copying.i < job.batch /\ e + copying.i + 1 <= Entries(fileIndex)
      BY <1>1, <2>1, NextBytes DEF CapInv
    <3>6. fileIndex \in Files /\ Entries(fileIndex) \in Nat /\ job.batch \in Nat
      BY <1>1, CopyFacts, TypeFacts
    <3>7. e \in 0 .. Entries(fileIndex) - 1 /\ copying.i \in 1 .. job.batch - 1 /\ e + copying.i < Entries(fileIndex)
      BY <3>2, <3>4, <3>5, <3>6
    <3>8. QED
      BY <3>3, <3>6, <3>7 DEF NeverFills
  <2>3. CASE CopyFits \/ CopyTooSmall
    BY <1>1, <2>1, <2>3, LoopFacts DEF CapInv
  <2>4. QED
    BY <1>1, <2>2, <2>3 DEF LoopSteps
<1>2. CASE Refill
  BY <1>2 DEF Refill, Writable, Grown, CapInv, Doubling
<1>3. CASE buffer' = buffer
  BY <1>3 DEF CapInv
<1>4. QED
  BY <1>1, <1>2, <1>3, BufferSteps

LEMMA NeverFillsKept ==
  ASSUME NEW Caps, NeverFills(Caps), job' = job
  PROVE  NeverFills(Caps)'
BY DEF NeverFills, Files, Entries, BatchBytes

LEMMA CapInvariance ==
  ASSUME NEW Caps, Doubling(Caps)
  PROVE  RegularSpec /\ NeverFills(Caps) => []CapInv(Caps)
<1>1. RegularInit => CapInv(Caps)
  BY DEF RegularInit, Init, Writable, CapInv, Doubling
<1>2. IInv /\ BytesInv /\ NeverFills(Caps) /\ CapInv(Caps) /\ [Next]_vars => NeverFills(Caps)' /\ CapInv(Caps)'
  BY CapStep, NeverFillsKept, JobKept
<1>3. QED
  BY <1>1, <1>2, BytesInvariance, PTL DEF RegularSpec

(***************************************************************************)
(* For regular data sets and any client: when no micro-batch reaches a     *)
(* capacity of the buffer exactly before its last record, a record that    *)
(* does not fit is refused and never written behind the limit (305, and    *)
(* datawalker.cpp 2800-2850).                                              *)
(***************************************************************************)
THEOREM OverrunCorrect ==
  ASSUME NEW Caps, Doubling(Caps)
  PROVE  RegularSpec /\ NeverFills(Caps) => []NoOverrun
<1>1. CapInv(Caps) => NoOverrun
  BY DEF CapInv, NoOverrun
<1>2. QED
  BY <1>1, CapInvariance, PTL

-----------------------------------------------------------------------------
(***************************************************************************)
(* The size of the buffer.                                                 *)
(***************************************************************************)

\* A read goes on in the file it began in, from the buffer C++ has written.
LEMMA ReadingKept ==
  ASSUME IInv, [Next]_vars, ~Skips, Reading'
  PROVE  (pc = "copy" \/ Reading) /\ fileIndex' = fileIndex
<1> USE DEF IInv
<1>1. CASE CallNext
  <2>1. CASE NextBeyondLastFile
    BY <2>1 DEF NextBeyondLastFile, FillBeyondLastFile, Reading
  <2>2. CASE NextFills
    BY <2>2 DEF NextFills, Fill, Reading
  <2>3. CASE NextWhenDone \/ NextFromBuffer
    BY <2>3 DEF NextWhenDone, NextFromBuffer, Reading, numbers
  <2>4. QED
    BY <1>1, <2>1, <2>2, <2>3 DEF CallNext
<1>2. CASE Seek \/ Reset
  BY <1>2 DEF Seek, Reset, SetIndex, Reading, numbers
<1>3. CASE Skip
  BY <1>3 DEF Skip, Skips
<1>4. CASE SeekPassesFile \/ SeekLandsInFile \/ SeekReturns
  <2>1. pc = "seek" /\ microBatchIndex' = microBatchIndex /\ pc' # "decode"
    BY <1>4 DEF SeekPassesFile, SeekFails, SeekLandsInFile, SeekReturns
  <2>2. microBatchIndex = 0
    BY <2>1 DEF Core, SeekInv
  <2>3. QED
    BY <2>1, <2>2 DEF Reading
<1>5. CASE CopyStep \/ CopyOverruns \/ CopyEnds
  BY <1>5 DEF CopyStep, CopyOverruns, CopyEnds, jvmVars, numbers
<1>6. CASE Retry
  <2>1. microBatchIndex' = 0 /\ pc' # "decode"
    BY <1>6 DEF Retry, Fill
  <2>2. QED
    BY <2>1 DEF Reading
<1>7. CASE Deliver
  <2>1. pc = "decode" /\ pc' = "idle" /\ ~Lost
    BY <1>7 DEF Deliver, Core, LostInv
  <2>2. IncrementIndex
    BY <1>7, <2>1 DEF Deliver
  <2>3. QED
    BY <2>1, <2>2 DEF IncrementIndex, Reading
<1>8. CASE DecodeFails
  BY <1>8 DEF DecodeFails, numbers, Reading
<1>9. CASE UNCHANGED vars
  BY <1>9 DEF vars, jvmVars, Reading
<1>10. QED
  BY <1>1, <1>2, <1>3, <1>4, <1>5, <1>6, <1>7, <1>8, <1>9 DEF Next, Work

\* A record is refused because the micro-batch up to it needs more than there is.
LEMMA RefusedShort ==
  ASSUME IInv, BytesInv, pc = "copy", CopyTooSmall
  PROVE  /\ Len(buffer'.slots) = copying.i + 1
         /\ copying.i + 1 <= job.batch /\ copying.entry + (copying.i + 1) <= Entries(fileIndex)
         /\ BatchBytes(job.base[fileIndex] + copying.entry, copying.i + 1) > buffer.cap
<1> USE DEF IInv
<1>1. InLoop /\ buffer.ptr < buffer.cap /\ ~Fits
  BY DEF CopyTooSmall
<1>2. Len(Written) = copying.i /\ Written \in Seq(Slot) /\ ~buffer.overrun
  BY <1>1, WrittenFacts
<1>3. buffer'.slots = Append(Written, [status |-> StatusTooSmall, rec |-> Garbage])
  BY LoopFacts DEF LoopSteps
<1>4. Len(buffer'.slots) = copying.i + 1
  BY <1>2, <1>3
<1>5. /\ buffer.ptr + Width(Source) = BatchBytes(job.base[fileIndex] + copying.entry, copying.i + 1)
      /\ copying.i < job.batch /\ copying.entry + copying.i + 1 <= Entries(fileIndex)
  BY <1>1, <1>2, NextBytes
<1>6. /\ buffer.ptr \in Nat /\ buffer.cap \in Nat /\ Width(Source) \in Nat /\ copying.i \in Nat
      /\ copying.entry \in Nat /\ job.batch \in Nat
  BY <1>1, CopyFacts, SourceFacts, TypeFacts
<1>7. buffer.ptr + Width(Source) > buffer.cap
  BY <1>1, <1>6 DEF Fits
<1>8. copying.i + 1 <= job.batch /\ copying.entry + (copying.i + 1) <= Entries(fileIndex)
  BY <1>5, <1>6
<1>9. QED
  BY <1>4, <1>5, <1>7, <1>8

LEMMA ShortStep ==
  ASSUME IInv, BytesInv, ShortInv, [Next]_vars
  PROVE  ShortInv'
<1> USE DEF IInv
<1>1. job' = job
  BY JobKept
<1>2. ASSUME UNCHANGED <<fileIndex, Slots>>, copying'.entry = copying.entry, buffer'.cap = buffer.cap,
             pc = "copy" \/ (~Skips /\ Reading)
      PROVE  ShortInv'
  BY <1>1, <1>2 DEF ShortInv, EndsTooSmall, BatchBytes, Entries
<1>3. CASE pc = "copy" /\ LoopSteps /\ UNCHANGED numbers
  <2>1. fileIndex' = fileIndex /\ copying'.entry = copying.entry /\ buffer'.cap = buffer.cap /\ InLoop
    BY <1>3, LoopFacts DEF numbers
  <2>2. CASE CopyFits
    <3>1. buffer'.slots = Append(Written, [status |-> StatusReading, rec |-> Source])
      BY <1>3, <2>2, LoopFacts
    <3>2. Written \in Seq(Slot)
      BY <1>3, <2>1, <2>2, WrittenFacts DEF CopyFits
    <3>3. buffer'.slots[Len(buffer'.slots)].status = StatusReading
      BY <3>1, <3>2
    <3>4. ~EndsTooSmall'
      BY <3>3 DEF EndsTooSmall, Slots, StatusReading, StatusTooSmall
    <3>5. QED
      BY <3>4 DEF ShortInv
  <2>3. CASE CopyTooSmall
    <3>1. /\ Len(buffer'.slots) = copying.i + 1
          /\ copying.i + 1 <= job.batch /\ copying.entry + (copying.i + 1) <= Entries(fileIndex)
          /\ BatchBytes(job.base[fileIndex] + copying.entry, copying.i + 1) > buffer.cap
      BY <1>3, <2>3, RefusedShort
    <3>2. QED
      BY <1>1, <2>1, <3>1 DEF ShortInv, Slots, BatchBytes, Entries
  <2>4. CASE CopyPastLimit
    <3>1. UNCHANGED Slots
      BY <1>3, <2>4, LoopFacts DEF Slots
    <3>2. QED
      BY <1>2, <1>3, <2>1, <3>1
  <2>5. QED
    BY <1>3, <2>2, <2>3, <2>4 DEF LoopSteps
<1>4. CASE Refill
  <2>1. ~EndsTooSmall'
    BY <1>4 DEF Refill, Writable, EndsTooSmall, Slots, StatusWriting, StatusTooSmall
  <2>2. QED
    BY <2>1 DEF ShortInv
<1>5. CASE /\ buffer' = buffer /\ copying'.entry = copying.entry
           /\ pc' = "copy" => pc = "copy" /\ copying'.i = copying.i /\ UNCHANGED fileIndex
  <2>1. CASE pc' = "copy"
    BY <1>2, <1>5, <2>1 DEF Slots
  <2>2. CASE ~Skips /\ Reading'
    BY <1>2, <1>5, <2>2, ReadingKept DEF Slots
  <2>3. CASE ~(pc' = "copy" \/ (~Skips /\ Reading'))
    BY <2>3 DEF ShortInv, Skips
  <2>4. QED
    BY <2>1, <2>2, <2>3
<1>6. QED
  BY <1>3, <1>4, <1>5, BufferSteps

LEMMA OnlyRetryGrows ==
  ASSUME TypeInv, [Next]_vars
  PROVE  buffer'.cap = buffer.cap \/ Retry
<1>1. CASE CallNext
  BY <1>1 DEF CallNext, NextWhenDone, NextFills, NextBeyondLastFile, NextFromBuffer, Fill,
              FillBeyondLastFile, Writable, walkerVars
<1>2. CASE Seek \/ Reset \/ Skip
  BY <1>2 DEF Seek, Reset, Skip, SetIndex, walkerVars
<1>3. CASE SeekPassesFile \/ SeekLandsInFile \/ SeekReturns
  BY <1>3 DEF SeekPassesFile, SeekLandsInFile, SeekReturns
<1>4. CASE CopyStep \/ CopyOverruns
  <2>1. CASE Poll
    BY <2>1 DEF Poll
  <2>2. CASE LoopSteps
    BY <2>2, LoopFacts
  <2>3. QED
    BY <1>4, <2>1, <2>2 DEF CopyStep, CopyOverruns, LoopSteps
<1>5. CASE CopyEnds \/ Deliver \/ DecodeFails
  BY <1>5 DEF CopyEnds, CopyReturns, Deliver, DecodeFails, walkerVars
<1>6. CASE UNCHANGED vars
  BY <1>6 DEF vars, walkerVars
<1>7. QED
  BY <1>1, <1>2, <1>3, <1>4, <1>5, <1>6 DEF Next, Work

\* The status "too small" is only ever read from a record that was refused.
LEMMA RetryFacts ==
  ASSUME IInv, ~Skips, pc = "decode", StatusTooSmall \in StatusRead
  PROVE  ~Lost /\ EndsTooSmall
<1> USE DEF IInv
<1>1. ~Lost /\ Serves
  BY DEF Core, LostInv, ReadInv, Reading
<1>2. Slots \in Seq(Slot) /\ rd \in Nat \ {0}
  BY DEF TypeInv, TypeOK, WalkerTypeOK, Buffers, Slots
<1>3. rd <= Len(Slots) => OnSlot
  BY <1>2 DEF OnSlot, Slots
<1>4. ~AllHold \/ ~OnSlot
  <2> SUFFICES ASSUME AllHold, OnSlot PROVE FALSE
    OBVIOUS
  <2>1. Slots[rd].status = StatusReading
    BY DEF AllHold, OnSlot, Holds, Slots
  <2>2. QED
    BY <2>1 DEF StatusRead, Slots, StatusReading, StatusTooSmall
<1>5. buffer.overrun => OnSlot
  BY DEF StatusRead
<1>6. QED
  BY <1>1, <1>3, <1>4, <1>5 DEF Serves, HoldUpToShort

LEMMA SizeStep ==
  ASSUME IInv, ShortInv, ~Skips, BufferNoLargerThanNeeded, [Next]_vars
  PROVE  BufferNoLargerThanNeeded'
<1>1. job' = job
  BY JobKept
<1>2. CASE buffer'.cap = buffer.cap
  BY <1>1, <1>2 DEF BufferNoLargerThanNeeded, Files, Entries, BatchBytes
<1>3. CASE Retry
  <2> DEFINE f == fileIndex
             e == copying.entry
             n == Len(Slots)
  <2>1. pc = "decode" /\ ~Lost /\ EndsTooSmall
    BY <1>3, RetryFacts DEF Retry
  <2>2. /\ n <= job.batch /\ e + n <= Entries(f)
        /\ BatchBytes(job.base[f] + e, n) > buffer.cap
    BY <2>1 DEF ShortInv, Reading
  <2>3. /\ f \in Files /\ Entries(f) \in Nat /\ job.base[f] \in Nat /\ job.batch \in Nat
        /\ job.base[f] + Entries(f) <= Total /\ Total \in Nat
    BY <2>1, TypeFacts, RegularFacts, LastFile, LimitFacts DEF IInv, Core
  <2>4. Slots \in Seq(Slot) /\ e \in Nat /\ buffer.cap \in Nat
    BY DEF IInv, TypeInv, TypeOK, WalkerTypeOK, Buffers, Copyings, Slots
  <2>5. n \in Nat /\ n # 0
    BY <2>1, <2>4 DEF EndsTooSmall
  <2>6. n \in 1 .. job.batch /\ e \in 0 .. Entries(f) - 1
    BY <2>2, <2>3, <2>4, <2>5
  <2>7. BatchBytes(job.base[f] + e, n) \in Int
    <3>1. job.base[f] + e \in Nat /\ job.base[f] + e + n <= Total
      BY <2>2, <2>3, <2>4, <2>5
    <3>2. QED
      BY <2>5, <3>1, BytesType DEF IInv
  <2>8. buffer'.cap = 2 * buffer.cap
    BY <1>3, <2>1 DEF Retry, Fill, Grown, Writable
  <2>9. 2 * BatchBytes(job.base[f] + e, n) > buffer'.cap
    BY <2>2, <2>4, <2>7, <2>8
  <2>10. \E f1 \in Files : \E e1 \in 0 .. Entries(f1) - 1 : \E n1 \in 1 .. job.batch :
           e1 + n1 <= Entries(f1) /\ 2 * BatchBytes(job.base[f1] + e1, n1) > buffer'.cap
    BY <2>2, <2>3, <2>6, <2>9
  <2>11. QED
    BY <1>1, <2>10 DEF BufferNoLargerThanNeeded, Files, Entries, BatchBytes
<1>4. QED
  BY <1>2, <1>3, OnlyRetryGrows DEF IInv

(***************************************************************************)
(* For regular data sets and a client that does not call incrementIndex,   *)
(* the buffer has its first size or the one that some micro-batch of a file*)
(* needed: no sequence of seeks, refills and retries makes it larger ("the *)
(* only error we handle", 305-318).                                        *)
(***************************************************************************)
THEOREM BufferSizeCorrect ==
  ASSUME "incrementIndex" \notin Client
  PROVE  RegularSpec => []BufferNoLargerThanNeeded
<1>1. RegularInit => ShortInv /\ BufferNoLargerThanNeeded
  BY DEF RegularInit, Init, Writable, ShortInv, Reading, BufferNoLargerThanNeeded
<1>2. IInv /\ BytesInv /\ ShortInv /\ BufferNoLargerThanNeeded /\ [Next]_vars
        => ShortInv' /\ BufferNoLargerThanNeeded'
  BY ShortStep, SizeStep DEF Skips
<1>3. QED
  BY <1>1, <1>2, BytesInvariance, PTL DEF RegularSpec

-----------------------------------------------------------------------------
(***************************************************************************)
(* The exceptions.                                                         *)
(***************************************************************************)
LEMMA ErrorStep ==
  ASSUME IInv, InsideInv, ~Skips, ~buffer.overrun, OnlyDeclaredErrors, [Next]_vars
  PROVE  OnlyDeclaredErrors'
<1> USE DEF IInv
<1>1. CASE CallNext
  <2>1. ~NextBeyondLastFile
    BY DEF NextBeyondLastFile, InsideInv
  <2>2. QED
    BY <1>1, <2>1 DEF CallNext, NextWhenDone, NextFills, NextFromBuffer, Fails, OnlyDeclaredErrors
<1>2. CASE Seek \/ Reset
  BY <1>2 DEF Seek, Reset, SetIndex, Moved, Fails, OnlyDeclaredErrors
<1>3. CASE Skip
  BY <1>3 DEF Skip, Skips
<1>4. CASE SeekPassesFile
  <2>1. fileIndex' < job.files
    BY <1>4, NoSeekFails
  <2>2. QED
    BY <1>4, <2>1 DEF SeekPassesFile, OnlyDeclaredErrors
<1>5. CASE SeekLandsInFile \/ SeekReturns
  BY <1>5 DEF SeekLandsInFile, SeekReturns, OnlyDeclaredErrors
<1>6. CASE CopyStep \/ CopyOverruns \/ CopyEnds
  BY <1>6 DEF CopyStep, CopyOverruns, CopyEnds, jvmVars, OnlyDeclaredErrors
<1>7. CASE Retry
  <2>1. ~Lost
    BY <1>7 DEF Retry, InsideInv
  <2>2. QED
    BY <1>7, <2>1 DEF Retry, OnlyDeclaredErrors
<1>8. CASE Deliver
  <2>1. ~Lost
    BY <1>8 DEF Deliver, InsideInv
  <2>2. QED
    BY <1>8, <2>1 DEF Deliver, OnlyDeclaredErrors
<1>9. CASE DecodeFails
  <2>1. pc = "decode"
    BY <1>9 DEF DecodeFails
  <2>2. StatusRead # {}
    BY DEF StatusRead, BufferStatus
  <2>3. Readable /\ RecordRead = Garbage
    BY <1>9, <2>2 DEF DecodeFails
  <2>4. RecordRead = entryIndex /\ entryIndex \in Int
    BY <2>1, <2>3, SlotRead, TypeFacts
  <2>5. QED
    BY <2>3, <2>4, GarbageAssumption
<1>10. CASE UNCHANGED vars
  BY <1>10 DEF vars, jvmVars, OnlyDeclaredErrors
<1>11. QED
  BY <1>1, <1>2, <1>3, <1>4, <1>5, <1>6, <1>7, <1>8, <1>9, <1>10 DEF Next, Work

(***************************************************************************)
(* For regular data sets, a client that uses next, reset and setIndex on   *)
(* existing entries, and a buffer that no micro-batch fills exactly: no    *)
(* call ends in an exception the code does not throw on purpose (203, 295).*)
(***************************************************************************)
THEOREM ErrorsCorrect ==
  ASSUME "incrementIndex" \notin Client, NEW Caps, Doubling(Caps)
  PROVE  RegularSpec /\ SeeksInside /\ NeverFills(Caps) => []OnlyDeclaredErrors
<1>1. RegularInit => OnlyDeclaredErrors
  BY DEF RegularInit, Init, OnlyDeclaredErrors
<1>2. IInv /\ InsideInv /\ CapInv(Caps) /\ OnlyDeclaredErrors /\ [Next]_vars => OnlyDeclaredErrors'
  BY ErrorStep DEF Skips, CapInv
<1>3. QED
  BY <1>1, <1>2, InsideInvariance, CapInvariance, PTL DEF RegularSpec

-----------------------------------------------------------------------------
(***************************************************************************)
(* The iterator implements a cursor.  A refill, a retry, a change of file  *)
(* and the loop of setIndex are stuttering steps.                          *)
(***************************************************************************)
LEMMA CursorSame ==
  ASSUME UNCHANGED <<job, target, entryIndex, fileIndex, out>>,
         Lost \/ (pc' = "seek" <=> pc = "seek")
  PROVE  UNCHANGED CursorOf!cursorVars
<1>1. Limit' = Limit /\ (Lost' <=> Lost)
  BY DEF Limit, Total, Lost
<1>2. CursorPosition' = CursorPosition
  BY <1>1 DEF CursorPosition
<1>3. QED
  BY <1>1, <1>2 DEF CursorOf!cursorVars

\* setIndex moves the cursor when it is called, if it does not throw at once.
LEMMA CursorSetIndex ==
  ASSUME IInv, NEW i \in Nat, SetIndex(i)
  PROVE  [CursorOf!Next]_(CursorOf!cursorVars)
<1> USE DEF IInv
<1>1. CASE ~InBounds(i)
  <2>1. UNCHANGED <<job, target, entryIndex, fileIndex, out>> /\ pc' = pc
    BY <1>1 DEF SetIndex, Fails, walkerVars, numbers
  <2>2. QED
    BY <2>1, CursorSame
<1>2. CASE InBounds(i)
  <2>1. /\ pc' = "seek" /\ target' = i /\ fileIndex' = 0 /\ out'.rec = Garbage /\ job' = job
        /\ i >= job.start
    BY <1>2 DEF SetIndex, Zeroed, Moved, NoRecord, walkerVars, InBounds
  <2>2. Limit' = Limit /\ ~Lost'
    BY <2>1, TypeFacts DEF Limit, Total, Lost
  <2>3. job.start \in Nat /\ job.start < Limit /\ Limit \in Nat
    <3>1. job.start < Total /\ job.start \in Nat /\ (job.end >= 0 => job.start < job.end)
      BY DEF Core, Regular, TypeInv, TypeOK, ParametersOK
    <3>2. QED
      BY <3>1, LimitFacts
  <2>4. PICK k \in job.start .. Limit : k = IF i < Limit THEN i ELSE Limit
    BY <2>1, <2>3
  <2>5. CursorPosition' = IF k < Limit THEN k ELSE Limit
    BY <2>1, <2>2, <2>3, <2>4 DEF CursorPosition
  <2>6. CursorOf!SeekTo(k)
    BY <2>1, <2>2, <2>5 DEF CursorOf!SeekTo
  <2>7. QED
    BY <2>4, <2>6 DEF CursorOf!Next
<1>3. QED
  BY <1>1, <1>2

LEMMA CursorSeeks ==
  ASSUME IInv, DoneInv, SeekPassesFile \/ SeekLandsInFile \/ SeekReturns
  PROVE  UNCHANGED CursorOf!cursorVars
<1> USE DEF IInv
<1>1. /\ pc = "seek" /\ UNCHANGED <<job, target, out>> /\ target \in Nat /\ fileIndex \in Files /\ ~Lost
  BY TypeFacts DEF SeekPassesFile, SeekLandsInFile, SeekReturns, SeekFails, Fails, TypeInv, TypeOK
<1>2. Limit' = Limit /\ Limit \in Nat /\ Limit <= Total /\ Total \in Nat
  BY <1>1, LimitFacts DEF Limit, Total
<1>3. CursorPosition = IF target < Limit THEN target ELSE Limit
  BY <1>1 DEF CursorPosition
<1>4. /\ entryIndex = job.base[fileIndex] + entryInFileIndex /\ entryInFileIndex < Entries(fileIndex)
      /\ entryIndex <= target /\ (entryIndex < target => entryInFileIndex = 0)
      /\ entryIndex \in Nat /\ entryInFileIndex \in Nat
  BY <1>1, TypeFacts DEF Core, SeekInv
<1>5. /\ Entries(fileIndex) \in Nat /\ job.base[fileIndex] \in Nat
      /\ job.base[fileIndex] + Entries(fileIndex) <= Total
      /\ fileIndex + 1 < job.files <=> job.base[fileIndex] + Entries(fileIndex) < Total
  BY <1>1, RegularFacts, LastFile DEF Core
<1>6. SUFFICES CursorPosition' = CursorPosition
  BY <1>1, <1>2 DEF CursorOf!cursorVars
<1>7. CASE pc' = "seek" /\ ~Lost'
  BY <1>1, <1>2, <1>3, <1>7 DEF CursorPosition
<1>8. CASE SeekPassesFile /\ fileIndex' < job.files
  BY <1>1, <1>7, <1>8, TypeFacts DEF SeekPassesFile, Lost
<1>9. CASE SeekPassesFile /\ ~(fileIndex' < job.files)
  <2>1. /\ ~(fileIndex + 1 < job.files) /\ entryIndex < target
        /\ entryIndex + Entries(fileIndex) <= target
    BY <1>9 DEF SeekPassesFile
  <2>2. Total <= target
    BY <1>1, <1>2, <1>4, <1>5, <2>1
  <2>3. CursorPosition = Limit
    BY <1>1, <1>2, <1>3, <2>2
  <2>4. Lost'
    BY <1>1, <1>9, TypeFacts DEF SeekPassesFile, Lost, Files
  <2>5. QED
    BY <1>2, <2>3, <2>4 DEF CursorPosition
<1>10. CASE SeekLandsInFile
  BY <1>1, <1>7, <1>10 DEF SeekLandsInFile, Lost
<1>11. CASE SeekReturns
  <2>1. pc' = "idle" /\ UNCHANGED <<entryIndex, fileIndex>> /\ entryIndex >= target
    BY <1>11 DEF SeekReturns
  <2>2. entryIndex = target /\ entryIndex < Total
    BY <1>1, <1>2, <1>4, <1>5, <2>1
  <2>3. target < Limit
    BY <1>1, <1>2, <2>2, LimitFacts DEF DoneInv
  <2>4. ~Lost'
    BY <1>1, <2>1 DEF Lost
  <2>5. QED
    BY <1>3, <2>1, <2>2, <2>3, <2>4 DEF CursorPosition
<1>12. QED
  BY <1>8, <1>9, <1>10, <1>11

LEMMA CursorDeliver ==
  ASSUME IInv, DoneInv, ~Skips, Deliver
  PROVE  CursorOf!NextRecord
<1> USE DEF IInv
<1>1. pc = "decode" /\ pc' = "idle" /\ Readable /\ job' = job /\ ~Lost
  BY DEF Deliver, Core, LostInv
<1>2. IncrementIndex /\ out' = [at |-> entryIndex, rec |-> RecordRead]
  BY <1>1 DEF Deliver
<1>3. CursorPosition = entryIndex /\ entryIndex < Limit
  BY <1>1 DEF CursorPosition, DoneInv
<1>4. out'.rec = entryIndex
  BY <1>1, <1>2, SlotRead
<1>5. Limit' = Limit /\ Limit \in Nat /\ entryIndex \in Nat /\ Limit <= Total /\ Total \in Nat
  BY <1>1, LimitFacts, TypeFacts DEF Limit, Total
<1>6. /\ entryIndex' = entryIndex + 1
      /\ fileIndex' = IF LeavesFile THEN fileIndex + 1 ELSE fileIndex
  BY <1>2 DEF IncrementIndex
<1>7. Lost' => LeavesFile /\ fileIndex + 1 >= job.files
  BY <1>1, <1>6 DEF Lost
<1>8. Lost' => entryIndex + 1 = Limit
  <2>1. Lost' => entryIndex + 1 = Total
    BY <1>1, <1>7, ExhaustsExactly
  <2>2. QED
    BY <1>3, <1>5, <2>1
<1>9. CursorPosition' = entryIndex + 1
  BY <1>1, <1>5, <1>6, <1>8 DEF CursorPosition
<1>10. QED
  BY <1>1, <1>3, <1>4, <1>5, <1>9 DEF CursorOf!NextRecord

LEMMA CursorStep ==
  ASSUME IInv, DoneInv, ~Skips, [Next]_vars
  PROVE  [CursorOf!Next]_(CursorOf!cursorVars)
<1>1. CASE CallNext
  <2>1. UNCHANGED <<job, target, entryIndex, fileIndex, out>> /\ pc = "idle" /\ pc' # "seek"
    BY <1>1 DEF CallNext, NextWhenDone, NextFills, NextBeyondLastFile, NextFromBuffer, Fill,
                FillBeyondLastFile, Fails, walkerVars, numbers
  <2>2. QED
    BY <2>1, CursorSame
<1>2. CASE Seek \/ Reset
  BY <1>2, CursorSetIndex, ClientAssumption DEF Seek, Reset
<1>3. CASE Skip
  BY <1>3 DEF Skip, Skips
<1>4. CASE SeekPassesFile \/ SeekLandsInFile \/ SeekReturns
  BY <1>4, CursorSeeks
<1>5. CASE CopyStep \/ CopyOverruns \/ CopyEnds
  <2>1. UNCHANGED <<target, entryIndex, fileIndex, out>> /\ pc = "copy" /\ pc' # "seek"
    BY <1>5 DEF CopyStep, CopyOverruns, CopyEnds, jvmVars, numbers
  <2>2. QED
    BY <2>1, JobKept, CursorSame
<1>6. CASE Retry \/ DecodeFails
  <2>1. UNCHANGED <<target, entryIndex, fileIndex, out>> /\ pc = "decode" /\ pc' # "seek"
    BY <1>6 DEF Retry, DecodeFails, Fill, FillBeyondLastFile, Fails, numbers
  <2>2. QED
    BY <2>1, JobKept, CursorSame
<1>7. CASE Deliver
  BY <1>7, CursorDeliver DEF CursorOf!Next
<1>8. CASE UNCHANGED vars
  BY <1>8, CursorSame DEF vars, walkerVars, jvmVars
<1>9. QED
  BY <1>1, <1>2, <1>3, <1>4, <1>5, <1>6, <1>7, <1>8 DEF Next, Work

LEMMA CursorInit == RegularInit => CursorOf!Init
<1> SUFFICES ASSUME RegularInit PROVE CursorOf!Init
  OBVIOUS
<1>1. TypeInv /\ pc = "seek" /\ target = job.start /\ fileIndex = 0 /\ out.rec = Garbage
  BY InitType DEF RegularInit, Init, NoRecord
<1>2. job.start \in Nat /\ job.start < Limit /\ Limit \in Nat
  <2>1. job.start < Total /\ job.start \in Nat /\ (job.end >= 0 => job.start < job.end)
    BY <1>1 DEF RegularInit, Regular, TypeInv, TypeOK, ParametersOK
  <2>2. QED
    BY <1>1, <2>1, LimitFacts
<1>3. ~Lost
  BY <1>1, TypeFacts DEF Lost
<1>4. QED
  BY <1>1, <1>2, <1>3 DEF CursorOf!Init, CursorPosition

(***************************************************************************)
(* For regular data sets of any size and a client that does not call       *)
(* incrementIndex, the iterator is a "rewindable and seekable" cursor over *)
(* the records of all files, whatever the micro-batches and the buffers are*)
(* (README, 239-330).                                                      *)
(***************************************************************************)
THEOREM CursorCorrect ==
  ASSUME "incrementIndex" \notin Client
  PROVE  RegularSpec => ImplementsCursor
<1>1. IInv /\ DoneInv /\ [Next]_vars => [CursorOf!Next]_(CursorOf!cursorVars)
  BY CursorStep DEF Skips
<1>2. QED
  BY <1>1, CursorInit, DoneInvariance, PTL DEF RegularSpec, ImplementsCursor, CursorOf!Cursor

-----------------------------------------------------------------------------
(***************************************************************************)
(* Why a call returns: the number of its steps left falls with each one.   *)
(***************************************************************************)
Nearer == StepsLeft' < StepsLeft /\ StepsLeft \in Nat

\* No more records are copied than the micro-batch has, and once one is written the
\* first one has fitted.
BatchInv == pc = "copy" => copying.i <= ThisMicroBatchSize
FirstFits == pc = "copy" /\ copying.i # 0 => Shortage(entryIndex) = 0
CallInv  == BatchInv /\ FirstFits

\* The record at the position, and what is left of its micro-batch.
LEMMA HereFacts ==
  ASSUME TypeInv, Core, ~Skips, pc \in {"copy", "decode"}
  PROVE  /\ ~Lost /\ fileIndex \in Files
         /\ ThisMicroBatchSize = BatchAt(entryInFileIndex) /\ ThisMicroBatchSize \in Nat \ {0}
         /\ entryIndex = job.base[fileIndex] + entryInFileIndex
         /\ entryIndex \in Nat /\ entryIndex + 1 \in Nat /\ entryIndex + 1 <= Total /\ Total \in Nat
         /\ Width(entryIndex) \in Nat \ {0} /\ Width(entryIndex) = BatchBytes(entryIndex, 1)
         /\ buffer.cap \in Nat \ {0} /\ Shortage(entryIndex) \in Nat
         /\ copying \in Copyings
<1>1. ~Lost /\ fileIndex \in Files
  BY TypeFacts DEF Core, LostInv
<1>2. /\ Entries(fileIndex) \in Nat \ {0} /\ job.base[fileIndex] \in Nat
      /\ job.base[fileIndex] + Entries(fileIndex) <= Total /\ Total \in Nat
  BY <1>1, RegularFacts, LastFile, LimitFacts DEF Core
<1>3. /\ entryInFileIndex < Entries(fileIndex) /\ entryIndex = job.base[fileIndex] + entryInFileIndex
      /\ entryInFileIndex \in Nat
  BY <1>1, TypeFacts DEF Core, Position
<1>4. job.batch \in Nat \ {0} /\ LayoutOK(job)
  BY TypeFacts
<1>5. ThisMicroBatchSize = BatchAt(entryInFileIndex) /\ ThisMicroBatchSize \in Nat \ {0}
  <2>1. ThisMicroBatchSize = BatchAt(entryInFileIndex)
    BY DEF ThisMicroBatchSize, BatchAt, Remaining
  <2>2. Entries(fileIndex) - entryInFileIndex \in Nat \ {0}
    BY <1>2, <1>3
  <2>3. QED
    BY <1>4, <2>1, <2>2 DEF BatchAt
<1>6. entryIndex \in Nat /\ entryIndex + 1 \in Nat /\ entryIndex + 1 <= Total
  BY <1>2, <1>3
<1>7. entryIndex \in Records /\ entryIndex # Garbage
  BY <1>2, <1>6, GarbageAssumption DEF Records
<1>8. Width(entryIndex) \in Nat \ {0}
  BY <1>4, <1>7, WidthType
<1>9. Width(entryIndex) = BatchBytes(entryIndex, 1)
  BY <1>7 DEF Width, BatchBytes
<1>10. buffer.cap \in Nat \ {0} /\ copying \in Copyings
  BY DEF TypeInv, TypeOK, WalkerTypeOK, Buffers
<1>11. Shortage(entryIndex) \in Nat
  BY <1>8, <1>10 DEF Shortage
<1>12. QED
  BY <1>1, <1>2, <1>3, <1>5, <1>6, <1>8, <1>9, <1>10, <1>11

LEMMA SeekNearer ==
  ASSUME TypeInv, SeekPassesFile \/ SeekLandsInFile \/ SeekReturns
  PROVE  Nearer
<1> DEFINE rest == job.files - fileIndex
<1>1. /\ pc = "seek" /\ job' = job /\ target' = target /\ fileIndex \in Files /\ job.files \in Nat
      /\ entryIndex \in Nat /\ target \in Nat
  BY TypeFacts DEF SeekPassesFile, SeekLandsInFile, SeekReturns, TypeInv, TypeOK
<1>2. rest \in Nat \ {0}
  BY <1>1 DEF Files
<1>3. /\ StepsLeft = rest + (IF entryIndex < target THEN 2 ELSE 1)
      /\ pc' = "seek" => StepsLeft' = (job.files - fileIndex') + (IF entryIndex' < target THEN 2 ELSE 1)
      /\ pc' \in {"idle", "unbuilt"} => StepsLeft' = 0
  BY <1>1 DEF StepsLeft
<1> HIDE DEF rest
<1>4. CASE pc' \in {"idle", "unbuilt"}
  BY <1>2, <1>3, <1>4 DEF Nearer
<1>5. CASE SeekPassesFile /\ pc' \notin {"idle", "unbuilt"}
  <2>1. pc' = "seek" /\ fileIndex' = fileIndex + 1 /\ entryIndex < target
    BY <1>1, <1>5 DEF SeekPassesFile, SeekFails
  <2>2. job.files - fileIndex' = rest - 1
    BY <1>1, <2>1 DEF rest, Files
  <2>3. QED
    BY <1>2, <1>3, <2>1, <2>2 DEF Nearer
<1>6. CASE SeekLandsInFile
  <2>1. pc' = "seek" /\ fileIndex' = fileIndex /\ entryIndex < target /\ entryIndex' = target
    BY <1>1, <1>6 DEF SeekLandsInFile
  <2>2. ~(entryIndex' < target) /\ job.files - fileIndex' = rest
    BY <1>1, <2>1 DEF rest
  <2>3. QED
    BY <1>2, <1>3, <2>1, <2>2 DEF Nearer
<1>7. QED
  BY <1>4, <1>5, <1>6 DEF SeekReturns

LEMMA CopyLeft ==
  ASSUME TypeInv, Core, BatchInv, ~Skips, pc = "copy"
  PROVE  /\ StepsLeft = 4 * Shortage(entryIndex) + (ThisMicroBatchSize - copying.i) + 2 + CallSteps
         /\ ThisMicroBatchSize - copying.i \in Nat /\ CallSteps \in 0 .. 2
         /\ Shortage(entryIndex) \in Nat /\ StepsLeft \in Nat
<1>1. StepsLeft = 4 * Shortage(entryIndex) + (ThisMicroBatchSize - copying.i) + 2 + CallSteps
  BY DEF StepsLeft
<1>2. CallSteps \in 0 .. 2
  BY DEF CallSteps
<1>3. ThisMicroBatchSize \in Nat /\ Shortage(entryIndex) \in Nat /\ copying.i \in Nat
  BY HereFacts, CopyFacts
<1>4. ThisMicroBatchSize - copying.i \in Nat
  BY <1>3 DEF BatchInv
<1>5. QED
  BY <1>1, <1>2, <1>3, <1>4

LEMMA CopyNearer ==
  ASSUME TypeInv, Core, BatchInv, ~Skips, CopyStep
  PROVE  Nearer
<1>1. pc = "copy" /\ pc' = "copy" /\ UNCHANGED <<job, fileIndex, entryInFileIndex, entryIndex, microBatchIndex>>
  BY DEF CopyStep, Poll, CopyFits, CopyTooSmall, jvmVars
<1>2. buffer \in Buffers /\ copying \in Copyings
  BY DEF TypeInv, TypeOK, WalkerTypeOK
<1>3. buffer'.cap = buffer.cap
  BY <1>2 DEF CopyStep, Poll, CopyFits, CopyTooSmall, Buffers
<1>4. Shortage(entryIndex)' = Shortage(entryIndex) /\ ThisMicroBatchSize' = ThisMicroBatchSize
  BY <1>1, <1>3 DEF Shortage, Width, ThisMicroBatchSize, Remaining, Entries
<1>5. PICK short \in Nat, rest \in Nat, steps \in 0 .. 2 :
        /\ short = Shortage(entryIndex) /\ rest = ThisMicroBatchSize - copying.i /\ steps = CallSteps
  BY <1>1, CopyLeft
<1>6. StepsLeft = 4 * short + rest + 2 + steps /\ StepsLeft \in Nat
  BY <1>1, <1>5, CopyLeft
<1>7. PICK steps1 \in 0 .. 2 : steps1 = CallSteps'
  BY DEF CallSteps
<1>8. StepsLeft' = 4 * short + (ThisMicroBatchSize - copying'.i) + 2 + steps1
  BY <1>1, <1>4, <1>5, <1>7 DEF StepsLeft
<1>9. copying.i \in Nat /\ copying.n \in Nat /\ ThisMicroBatchSize \in Nat
  BY <1>1, <1>2, HereFacts DEF Copyings
<1>10. CASE Poll
  <2>1. copying'.i = copying.i /\ copying.phase = "poll" /\ copying'.phase = "loop"
    BY <1>2, <1>10 DEF Poll, Copyings
  <2>2. steps = 2 /\ steps1 < 2
    BY <1>5, <1>7, <2>1 DEF CallSteps
  <2>3. QED
    BY <1>5, <1>6, <1>8, <2>1, <2>2 DEF Nearer
<1>11. CASE CopyFits
  <2>1. copying'.i = copying.i + 1 /\ copying.phase = "loop" /\ copying.i < copying.n /\ copying'.phase = "loop"
    BY <1>2, <1>11 DEF CopyFits, InLoop, Copyings
  <2>2. steps = 1 /\ steps1 <= 1
    BY <1>5, <1>7, <2>1 DEF CallSteps
  <2>3. ThisMicroBatchSize - copying'.i = rest - 1
    BY <1>5, <1>9, <2>1
  <2>4. QED
    BY <1>6, <1>8, <2>2, <2>3 DEF Nearer
<1>12. CASE CopyTooSmall
  <2>1. /\ copying'.i = copying.i /\ copying'.n = copying.i /\ copying.phase = "loop" /\ copying.i < copying.n
        /\ copying'.phase = "loop"
    BY <1>2, <1>12 DEF CopyTooSmall, InLoop, Copyings
  <2>2. steps = 1 /\ steps1 = 0
    BY <1>5, <1>7, <1>9, <2>1 DEF CallSteps
  <2>3. QED
    BY <1>5, <1>6, <1>8, <2>1, <2>2 DEF Nearer
<1>13. QED
  BY <1>10, <1>11, <1>12 DEF CopyStep

\* A write behind the limit is still one of the micro-batch's.
LEMMA OverrunNearer ==
  ASSUME TypeInv, Core, BatchInv, ~Skips, CopyOverruns
  PROVE  Nearer
<1>1. /\ pc = "copy" /\ UNCHANGED <<job, fileIndex, entryInFileIndex, entryIndex>>
      /\ pc' \in {"copy", "crashed"} /\ CopyPastLimit
  BY DEF CopyOverruns, CopyPastLimit, numbers
<1>2. buffer \in Buffers /\ copying \in Copyings
  BY DEF TypeInv, TypeOK, WalkerTypeOK
<1>3. buffer'.cap = buffer.cap
  BY <1>1, <1>2 DEF CopyPastLimit, Buffers
<1>4. Shortage(entryIndex)' = Shortage(entryIndex) /\ ThisMicroBatchSize' = ThisMicroBatchSize
  BY <1>1, <1>3 DEF Shortage, Width, ThisMicroBatchSize, Remaining, Entries
<1>5. PICK short \in Nat, rest \in Nat, steps \in 0 .. 2 :
        /\ short = Shortage(entryIndex) /\ rest = ThisMicroBatchSize - copying.i /\ steps = CallSteps
  BY <1>1, CopyLeft
<1>6. StepsLeft = 4 * short + rest + 2 + steps /\ StepsLeft \in Nat
  BY <1>1, <1>5, CopyLeft
<1>7. CASE pc' = "copy"
  <2>1. PICK steps1 \in 0 .. 2 : steps1 = CallSteps'
    BY DEF CallSteps
  <2>2. StepsLeft' = 4 * short + (ThisMicroBatchSize - copying'.i) + 2 + steps1
    BY <1>4, <1>5, <1>7, <2>1 DEF StepsLeft
  <2>3. copying'.i = copying.i + 1 /\ copying.phase = "loop" /\ copying.i < copying.n /\ copying'.phase = "loop"
    BY <1>1, <1>2 DEF CopyPastLimit, InLoop, Copyings
  <2>4. steps = 1 /\ steps1 <= 1
    BY <1>5, <2>1, <2>3 DEF CallSteps
  <2>5. ThisMicroBatchSize - copying'.i = rest - 1
    <3>1. ThisMicroBatchSize \in Nat /\ copying.i \in Nat
      BY <1>1, <1>2, HereFacts DEF Copyings
    <3>2. QED
      BY <1>5, <2>3, <3>1
  <2>6. QED
    BY <1>6, <2>2, <2>4, <2>5 DEF Nearer
<1>8. CASE pc' = "crashed"
  <2>1. StepsLeft' = 0
    BY <1>8 DEF StepsLeft
  <2>2. QED
    BY <1>6, <2>1 DEF Nearer
<1>9. QED
  BY <1>1, <1>7, <1>8

LEMMA CopyEndsNearer ==
  ASSUME TypeInv, Core, CallInv, ~Skips, CopyEnds
  PROVE  Nearer
<1>1. /\ pc = "copy" /\ pc' = "decode" /\ UNCHANGED walkerVars
      /\ UNCHANGED <<job, buffer, fileIndex, entryInFileIndex, entryIndex, microBatchIndex>>
  BY DEF CopyEnds, CopyReturns, walkerVars, numbers
<1>2. microBatchIndex' = 0
  BY <1>1, CopyFacts
<1>3. Shortage(entryIndex)' = Shortage(entryIndex) /\ ThisMicroBatchSize' = ThisMicroBatchSize
  BY <1>1 DEF Shortage, Width, ThisMicroBatchSize, Remaining, Entries
<1>4. PICK short \in Nat, rest \in Nat, steps \in 0 .. 2 :
        /\ short = Shortage(entryIndex) /\ rest = ThisMicroBatchSize - copying.i /\ steps = CallSteps
  BY <1>1, CopyLeft DEF CallInv
<1>5. StepsLeft = 4 * short + rest + 2 + steps /\ StepsLeft \in Nat
  BY <1>1, <1>4, CopyLeft DEF CallInv
<1>6. CASE short = 0
  <2>1. StepsLeft' = 1
    BY <1>1, <1>2, <1>3, <1>4, <1>6 DEF StepsLeft
  <2>2. QED
    BY <1>5, <2>1 DEF Nearer
<1>7. CASE short # 0
  <2>1. copying.i = 0
    BY <1>1, <1>4, <1>7 DEF CallInv, FirstFits
  <2>2. rest = ThisMicroBatchSize
    <3>1. ThisMicroBatchSize \in Nat
      BY <1>1, HereFacts
    <3>2. QED
      BY <1>4, <2>1, <3>1
  <2>3. short > 0
    BY <1>4, <1>7
  <2>4. StepsLeft' = 4 * short + rest + 1
    BY <1>1, <1>2, <1>3, <1>4, <2>2, <2>3 DEF StepsLeft
  <2>5. QED
    BY <1>5, <2>4 DEF Nearer
<1>8. QED
  BY <1>6, <1>7

LEMMA DecodeLeft ==
  ASSUME TypeInv, Core, ~Skips, pc = "decode"
  PROVE  /\ StepsLeft \in Nat \ {0}
         /\ microBatchIndex # 0 => StepsLeft = 4 * Shortage(entryIndex) + ThisMicroBatchSize + 5
         /\ microBatchIndex = 0 /\ Shortage(entryIndex) > 0
              => StepsLeft = 4 * Shortage(entryIndex) + ThisMicroBatchSize + 1
<1>1. Shortage(entryIndex) \in Nat /\ ThisMicroBatchSize \in Nat
  BY HereFacts
<1>2. /\ microBatchIndex # 0 => StepsLeft = 4 * Shortage(entryIndex) + ThisMicroBatchSize + 5
      /\ microBatchIndex = 0 /\ Shortage(entryIndex) > 0
           => StepsLeft = 4 * Shortage(entryIndex) + ThisMicroBatchSize + 1
      /\ microBatchIndex = 0 /\ Shortage(entryIndex) = 0 => StepsLeft = 1
  BY DEF StepsLeft
<1>3. QED
  BY <1>1, <1>2

\* The call is over.
LEMMA ReturnNearer ==
  ASSUME TypeInv, Core, ~Skips, Deliver \/ DecodeFails
  PROVE  Nearer
<1>1. pc = "decode" /\ pc' = "idle"
  BY DEF Deliver, DecodeFails
<1>2. StepsLeft' = 0
  BY <1>1 DEF StepsLeft
<1>3. QED
  BY <1>1, <1>2, DecodeLeft DEF Nearer

\* A record refused at the beginning of the buffer is one the buffer is too short for.
LEMMA RefusedFirst ==
  ASSUME IInv, ShortInv, ~Skips, pc = "decode", StatusTooSmall \in StatusRead, microBatchIndex = 0
  PROVE  Width(entryIndex) > buffer.cap
<1> USE DEF IInv
<1>1. ~Lost /\ EndsTooSmall
  BY RetryFacts
<1>2. rd = 1 /\ copying.entry + 0 = entryInFileIndex /\ Serves
  BY <1>1 DEF Core, ReadInv, Reading
<1>3. Slots \in Seq(Slot) /\ copying.entry \in Nat
  BY DEF TypeInv, TypeOK, WalkerTypeOK, Buffers, Slots, Copyings
<1>4. Len(Slots) \in Nat \ {0} /\ DOMAIN Slots = 1 .. Len(Slots)
  BY <1>1, <1>3 DEF EndsTooSmall
<1>5. OnSlot /\ Slots[1].status = StatusTooSmall
  BY <1>2, <1>4 DEF OnSlot, Slots, StatusRead
<1>6. ~Holds(1)
  BY <1>5 DEF Holds, StatusReading, StatusTooSmall
<1>7. HoldUpToShort
  BY <1>1, <1>2, <1>4, <1>6 DEF Serves, AllHold
<1>8. Len(Slots) = 1
  BY <1>4, <1>6, <1>7 DEF HoldUpToShort
<1>9. BatchBytes(job.base[fileIndex] + copying.entry, 1) > buffer.cap
  BY <1>1, <1>8 DEF ShortInv, Reading
<1>10. Width(entryIndex) = BatchBytes(entryIndex, 1) /\ entryIndex = job.base[fileIndex] + entryInFileIndex
  BY HereFacts
<1>11. QED
  BY <1>2, <1>3, <1>9, <1>10

LEMMA RetryNearer ==
  ASSUME IInv, ShortInv, ~Skips, Retry
  PROVE  Nearer
<1> USE DEF IInv
<1>1. pc = "decode" /\ StatusTooSmall \in StatusRead /\ ~Lost
  BY RetryFacts DEF Retry
<1>2. /\ Fill(Grown) /\ pc' = "copy"
      /\ UNCHANGED <<job, entryIndex, fileIndex, entryInFileIndex>>
  BY <1>1 DEF Retry, Fill
<1>3. /\ buffer'.cap = 2 * buffer.cap
      /\ copying'.i = 0 /\ copying'.phase = "poll"
  BY <1>2 DEF Fill, Writable, Grown, Call
<1>4. ThisMicroBatchSize' = ThisMicroBatchSize /\ Width(entryIndex)' = Width(entryIndex)
  BY <1>2 DEF Width, ThisMicroBatchSize, Remaining, Entries
<1>5. PICK size \in Nat, width \in Nat, cap \in Nat \ {0}, short \in Nat :
        /\ size = ThisMicroBatchSize /\ width = Width(entryIndex) /\ cap = buffer.cap
        /\ short = Shortage(entryIndex)
  BY <1>1, HereFacts
<1>6. short = IF width > cap THEN width - cap ELSE 0
  BY <1>5 DEF Shortage
<1>7. PICK short1 \in Nat : short1 = IF width > 2 * cap THEN width - 2 * cap ELSE 0
  BY <1>5
<1>8. short1 = Shortage(entryIndex)'
  BY <1>3, <1>4, <1>5, <1>7 DEF Shortage
<1>9. StepsLeft' = 4 * short1 + (size - 0) + 2 + 2
  BY <1>2, <1>3, <1>4, <1>5, <1>8 DEF StepsLeft, CallSteps
<1>10. CASE microBatchIndex # 0
  <2>1. StepsLeft = 4 * short + size + 5 /\ StepsLeft \in Nat
    BY <1>1, <1>5, <1>10, DecodeLeft
  <2>2. short1 <= short
    BY <1>5, <1>6, <1>7
  <2>3. StepsLeft' < StepsLeft
    BY <1>5, <1>7, <1>9, <2>1, <2>2
  <2>4. QED
    BY <2>1, <2>3 DEF Nearer
<1>11. CASE microBatchIndex = 0
  <2>1. width > cap
    BY <1>1, <1>5, <1>11, RefusedFirst
  <2>2. short > 0 /\ short1 < short
    BY <1>5, <1>6, <1>7, <2>1
  <2>3. StepsLeft = 4 * short + size + 1 /\ StepsLeft \in Nat
    BY <1>1, <1>5, <1>11, <2>2, DecodeLeft
  <2>4. StepsLeft' < StepsLeft
    BY <1>5, <1>7, <1>9, <2>2, <2>3
  <2>5. QED
    BY <2>3, <2>4 DEF Nearer
<1>12. QED
  BY <1>10, <1>11

LEMMA StepNearer ==
  ASSUME IInv, ShortInv, CallInv, ~Skips, Busy, [Next]_vars, vars' # vars
  PROVE  Nearer
<1>1. Work
  BY DEF Next, CallNext, NextWhenDone, NextFills, NextBeyondLastFile, NextFromBuffer, Seek, Reset, Skip,
         SetIndex, Busy
<1>2. QED
  BY <1>1, SeekNearer, CopyNearer, OverrunNearer, CopyEndsNearer, RetryNearer, ReturnNearer
  DEF Work, IInv, CallInv

\* How the copy got to where it is.
LEMMA IntoCopy ==
  ASSUME TypeInv, [Next]_vars, pc' = "copy"
  PROVE  \/ /\ copying'.i = 0 /\ ~Lost /\ pc \in {"idle", "decode"}
            /\ UNCHANGED <<job, fileIndex, entryInFileIndex>>
         \/ pc = "copy" /\ UNCHANGED numbers /\ (Poll \/ LoopSteps \/ UNCHANGED walkerVars)
<1>1. CASE CallNext
  <2>1. NextFills
    BY <1>1 DEF CallNext, NextWhenDone, NextBeyondLastFile, NextFromBuffer
  <2>2. QED
    BY <2>1 DEF NextFills, Fill, Call, numbers
<1>2. CASE Retry
  BY <1>2 DEF Retry, Fill, Call
<1>3. CASE CopyStep \/ CopyOverruns
  BY <1>3 DEF CopyStep, CopyOverruns, LoopSteps, jvmVars, numbers
<1>4. CASE UNCHANGED vars
  BY <1>4 DEF vars, walkerVars, jvmVars, numbers
<1>5. CASE CopyEnds \/ Deliver \/ DecodeFails
  BY <1>5 DEF CopyEnds, Deliver, DecodeFails
<1>6. CASE SeekPassesFile \/ SeekLandsInFile \/ SeekReturns
  BY <1>6 DEF SeekPassesFile, SeekFails, SeekLandsInFile, SeekReturns
<1>7. CASE Seek \/ Reset \/ Skip
  BY <1>7 DEF Seek, Reset, Skip, SetIndex
<1>8. QED
  BY <1>1, <1>2, <1>3, <1>4, <1>5, <1>6, <1>7 DEF Next, Work

LEMMA CallStep ==
  ASSUME IInv, CallInv, ~Skips, [Next]_vars
  PROVE  CallInv'
<1> USE DEF IInv
<1> SUFFICES ASSUME pc' = "copy"
             PROVE  /\ copying'.i <= ThisMicroBatchSize'
                    /\ copying'.i # 0 => Shortage(entryIndex)' = 0
  BY DEF CallInv, BatchInv, FirstFits
<1>1. CASE /\ copying'.i = 0 /\ ~Lost /\ pc \in {"idle", "decode"}
           /\ UNCHANGED <<job, fileIndex, entryInFileIndex>>
  <2>1. ThisMicroBatchSize' = ThisMicroBatchSize
    BY <1>1 DEF ThisMicroBatchSize, Remaining, Entries
  <2>2. /\ entryInFileIndex < Entries(fileIndex) /\ entryInFileIndex \in Nat /\ Entries(fileIndex) \in Nat
        /\ job.batch \in Nat
    BY <1>1, TypeFacts DEF Core, Position
  <2>3. ThisMicroBatchSize \in Nat
    BY <2>2 DEF ThisMicroBatchSize, Remaining
  <2>4. QED
    BY <1>1, <2>1, <2>3
<1>2. CASE pc = "copy" /\ UNCHANGED numbers /\ (Poll \/ LoopSteps \/ UNCHANGED walkerVars)
  <2>1. buffer \in Buffers /\ copying \in Copyings
    BY DEF TypeInv, TypeOK, WalkerTypeOK
  <2>2. UNCHANGED <<job, fileIndex, entryInFileIndex, entryIndex>> /\ buffer'.cap = buffer.cap
    BY <1>2, <2>1, JobKept, LoopFacts DEF numbers, Poll, walkerVars
  <2>3. Shortage(entryIndex)' = Shortage(entryIndex) /\ ThisMicroBatchSize' = ThisMicroBatchSize
    BY <2>2 DEF Shortage, Width, ThisMicroBatchSize, Remaining, Entries
  <2>4. copying.i <= ThisMicroBatchSize /\ (copying.i # 0 => Shortage(entryIndex) = 0)
    BY <1>2 DEF CallInv, BatchInv, FirstFits
  <2>5. CASE copying'.i = copying.i
    BY <2>3, <2>4, <2>5
  <2>6. CASE CopyFits \/ CopyPastLimit
    <3>1. InLoop /\ copying'.i = copying.i + 1
      BY <2>1, <2>6 DEF CopyFits, CopyPastLimit, Copyings
    <3>2. Fresh \/ Partial
      BY <1>2, <3>1, SourceFacts
    <3>3. copying.n = ThisMicroBatchSize
      BY <1>2, <3>2, CopyFacts, HereFacts DEF Fresh, Partial
    <3>4. copying.i \in Nat /\ copying.n \in Nat /\ copying.i < copying.n
      BY <2>1, <3>1 DEF InLoop, Copyings
    <3>5. copying'.i <= ThisMicroBatchSize
      BY <3>1, <3>3, <3>4
    <3>6. ASSUME copying.i = 0 PROVE Shortage(entryIndex) = 0
      <4>1. buffer.ptr = 0 /\ buffer.cap \in Nat \ {0}
        BY <1>2, <3>2, <3>6, CopyFacts DEF Fresh, Partial
      <4>2. CopyFits /\ Fits
        BY <2>6, <4>1 DEF CopyPastLimit, CopyFits
      <4>3. Source = entryIndex
        BY <1>2, <3>1, <3>6, SourceFacts, CopyFacts, HereFacts
      <4>4. Width(entryIndex) \in Nat
        BY <1>2, HereFacts
      <4>5. Width(entryIndex) <= buffer.cap
        BY <4>1, <4>2, <4>3, <4>4 DEF Fits
      <4>6. QED
        BY <4>1, <4>4, <4>5 DEF Shortage
    <3>7. QED
      BY <2>3, <2>4, <3>5, <3>6
  <2>7. QED
    <3>1. Poll \/ CopyTooSmall \/ UNCHANGED walkerVars => copying'.i = copying.i
      BY <2>1 DEF Poll, CopyTooSmall, walkerVars, Copyings
    <3>2. QED
      BY <1>2, <2>5, <2>6, <3>1 DEF LoopSteps
<1>3. QED
  BY <1>1, <1>2, IntoCopy

(***************************************************************************)
(* For regular data sets and a client that does not call incrementIndex,   *)
(* each step of a call leaves fewer steps of it, whatever the records, the *)
(* micro-batches and the first buffer are: the loop of setIndex (208-219), *)
(* the retries with a larger buffer (307-321) and the loop of copyToBuffer *)
(* end, even when it writes behind the buffer.                             *)
(***************************************************************************)
THEOREM ReturnComesNearer ==
  ASSUME "incrementIndex" \notin Client
  PROVE  RegularSpec => NearerTheReturn
<1>1. RegularInit => ShortInv /\ CallInv
  BY DEF RegularInit, Init, Writable, ShortInv, Reading, CallInv, BatchInv, FirstFits
<1>2. IInv /\ BytesInv /\ ShortInv /\ CallInv /\ [Next]_vars => ShortInv' /\ CallInv'
  BY ShortStep, CallStep DEF Skips
<1>3. /\ IInv /\ ShortInv /\ CallInv /\ [Next]_vars
         => [Busy => StepsLeft' < StepsLeft /\ StepsLeft \in Nat]_vars
  BY StepNearer DEF Skips, Nearer
<1>4. QED
  BY <1>1, <1>2, <1>3, BytesInvariance, PTL DEF RegularSpec, NearerTheReturn

-----------------------------------------------------------------------------
(***************************************************************************)
(* The one place where the thread waits.                                   *)
(***************************************************************************)
PollAnswered == pc = "copy" /\ copying.phase = "poll" => Slots[1].status = StatusWriting

LEMMA PollStep == TypeInv /\ PollAnswered /\ [Next]_vars => PollAnswered'
<1> SUFFICES ASSUME TypeInv, PollAnswered, [Next]_vars, pc' = "copy", copying'.phase = "poll"
             PROVE  Slots'[1].status = StatusWriting
  BY DEF PollAnswered
<1>1. CASE CallNext
  <2>1. NextFills
    BY <1>1 DEF CallNext, NextWhenDone, NextBeyondLastFile, NextFromBuffer
  <2>2. QED
    BY <2>1 DEF NextFills, Fill, Writable, Slots
<1>2. CASE Retry
  BY <1>2 DEF Retry, Fill, Writable, Slots
<1>3. CASE CopyStep \/ CopyOverruns
  <2>1. copying \in Copyings
    BY DEF TypeInv, TypeOK, WalkerTypeOK
  <2>2. copying'.phase = "loop"
    BY <1>3, <2>1 DEF CopyStep, CopyOverruns, Poll, CopyFits, CopyTooSmall, CopyPastLimit, InLoop, Copyings
  <2>3. QED
    BY <2>2
<1>4. CASE UNCHANGED vars
  BY <1>4 DEF vars, walkerVars, jvmVars, PollAnswered, Slots
<1>5. CASE CopyEnds \/ Deliver \/ DecodeFails
  BY <1>5 DEF CopyEnds, Deliver, DecodeFails
<1>6. CASE SeekPassesFile \/ SeekLandsInFile \/ SeekReturns
  BY <1>6 DEF SeekPassesFile, SeekFails, SeekLandsInFile, SeekReturns
<1>7. CASE Seek \/ Reset \/ Skip
  BY <1>7 DEF Seek, Reset, Skip, SetIndex
<1>8. QED
  BY <1>1, <1>2, <1>3, <1>4, <1>5, <1>6, <1>7 DEF Next, Work

(***************************************************************************)
(* For all data and any client: whenever copyToBuffer polls the status byte*)
(* (datawalker.cpp 2821), JVM code in the same thread has set it to the    *)
(* value it waits for (300, 317).  With ReturnComesNearer this is why a call*)
(* returns.                                                                *)
(***************************************************************************)
THEOREM NeverHangs == Spec => []PollAnswered
<1>1. Init => TypeInv /\ PollAnswered
  BY InitType DEF Init, PollAnswered
<1>2. TypeInv /\ PollAnswered /\ [Next]_vars => TypeInv' /\ PollAnswered'
  BY NextType, PollStep
<1>3. QED
  BY <1>1, <1>2, PTL DEF Spec
=============================================================================
