--------------------------- MODULE Root2Avro_proofs ---------------------------
(***************************************************************************)
(* Proofs about Root2Avro for every list of files, every command line and  *)
(* every size of the buffer and of an Avro block: the type invariant and   *)
(* LossNeedsCause for all data, and for regular data the invariant         *)
(* behind ReaderAtCurrentEntry, ConvertsTheRange, SuccessIsComplete and the*)
(* refinement of DumpStream, and the measure by which the program ends.    *)
(***************************************************************************)
EXTENDS Root2Avro, TreeWalker_proofs

(***************************************************************************)
(* Types.  The loops over the entries run inside a file, and dumpRaw has   *)
(* always a status byte to read.  Only an abort loses what is on stdout.   *)
(***************************************************************************)
InLoops == pc \in {"entry", "copy", "next"}

TypeInv ==
  /\ TypeOK
  /\ ParametersOK(job)
  /\ InLoops => fileIndex < job.files
  /\ pc = "copy" => buffer.slots # << >> /\ job.mode = "dump"
  /\ pc # "exit" => lost = 0

\* Only the loop of avro keeps records in a block, behind the header of a walker.
BlockInv ==
  /\ block # << >> => job.mode = "avro" /\ walker /\ header
  /\ InLoops => walker /\ (job.mode \in AvroModes => header)

(***************************************************************************)
(* Where the reader stands: currentEntry counts all entries before the file*)
(* and those passed in it, and a loop is entered at the first wanted one.  *)
(***************************************************************************)
Place ==
  /\ pc = "file" => currentEntry = job.base[fileIndex]
  /\ InLoops =>
       /\ reader.file = fileIndex
       /\ reader.entry \in 0 .. Entries(fileIndex) - 1
       /\ currentEntry = job.base[fileIndex] + reader.entry + (IF pc = "next" THEN 1 ELSE 0)
       /\ currentEntry >= Lo

\* The entry of a dump is unread, read, or did not fit.
Unread  == copying.n = 1 /\ copying.i = 0 /\ buffer.ptr = 0
ReadNow == /\ copying.n = 1 /\ copying.i = 1
           /\ buffer.slots[1] = [status |-> StatusReading, rec |-> currentEntry]
NoRoom  == copying.n = 0 /\ copying.i = 0 /\ Status = StatusTooSmall

DumpInv ==
  pc = "copy" =>
    /\ job.mode = "dump" /\ ~EndReached
    /\ fileIndex = 0 /\ copying.entry = currentEntry
    /\ Unread \/ ReadNow \/ NoRoom

(***************************************************************************)
(* The output: the records of the range from Lo on, on standard output and *)
(* then in the block, as many as currentEntry says.                        *)
(***************************************************************************)
Ordered(s, from) == \A k \in 1 .. Len(s) : s[k] = Item(from + k - 1, from + k - 1)
Done             == IF currentEntry > Lo THEN currentEntry - Lo ELSE 0

OutputInv ==
  /\ pc # "exit" =>
       /\ Ordered(stdout, Lo) /\ Ordered(block, Lo + Len(stdout))
       /\ Len(stdout) + Len(block) = Done
       /\ currentEntry > Lo => currentEntry <= Hi
  /\ pc = "exit" => ConvertsTheRange /\ SuccessIsComplete

Core == Regular /\ BlockInv /\ Place /\ DumpInv /\ OutputInv
IInv == TypeInv /\ Core

-----------------------------------------------------------------------------
(***************************************************************************)
(* Types.                                                                  *)
(***************************************************************************)
LEMMA TypeFacts ==
  ASSUME TypeInv
  PROVE  /\ LayoutOK(job) /\ ParametersOK(job) /\ job.files \in Nat \ {0}
         /\ fileIndex \in 0 .. job.files /\ currentEntry \in Nat
         /\ reader.file \in Files /\ reader.entry \in Int
         /\ buffer.cap \in Nat \ {0} /\ buffer.slots \in Seq(Slot)
         /\ block \in Seq(Items) /\ Len(block) <= BlockRecords
         /\ stdout \in Seq(Items)
         /\ fileIndex < job.files => fileIndex \in Files
<1>1. /\ LayoutOK(job) /\ ParametersOK(job) /\ fileIndex \in 0 .. job.files /\ currentEntry \in Nat
      /\ reader \in Readers /\ buffer \in Buffers
      /\ block \in Seq(Items) /\ Len(block) <= BlockRecords /\ stdout \in Seq(Items)
  BY DEF TypeInv, TypeOK, WalkerTypeOK
<1>2. job.files \in Nat \ {0}
  BY <1>1 DEF LayoutOK
<1>3. reader.file \in Files /\ reader.entry \in Int
  BY <1>1 DEF Readers
<1>4. buffer.cap \in Nat \ {0} /\ buffer.slots \in Seq(Slot)
  BY <1>1 DEF Buffers
<1>5. fileIndex < job.files => fileIndex \in Files
  BY <1>1, <1>2 DEF Files
<1>6. QED
  BY <1>1, <1>2, <1>3, <1>4, <1>5

LEMMA ItemType ==
  /\ EndMarker \in Items
  /\ \A n \in Nat : \A r \in Nat \cup {Garbage} : Item(n, r) \in Items
BY DEF Item, EndMarker, Items

LEMMA InitType == Init => TypeInv
<1> SUFFICES ASSUME Init PROVE TypeInv
  OBVIOUS
<1>1. LayoutOK(job) /\ ParametersOK(job)
  BY JobsAssumption, ParametersAssumption DEF Init
<1>2. job.files \in Nat \ {0} /\ 0 \in Files
  BY <1>1 DEF LayoutOK, Files
<1>3. reader \in Readers /\ copying \in Copyings
  BY <1>2 DEF Init, Opened, Call, Readers, Copyings
<1>4. buffer \in Buffers
  <2>1. buffer = [cap |-> RawCap, slots |-> << >>, ptr |-> 0, overrun |-> FALSE]
    BY DEF Init, Writable
  <2>2. << >> \in Seq(Slot)
    OBVIOUS
  <2>3. QED
    BY <2>1, <2>2, SizesAssumption DEF Buffers
<1>5. << >> \in Seq(Items) /\ Len(<< >>) = 0
  OBVIOUS
<1>6. Len(block) <= BlockRecords /\ block \in Seq(Items) /\ stdout \in Seq(Items)
  <2>1. block = << >> /\ stdout = << >>
    BY DEF Init
  <2>2. QED
    BY <1>5, <2>1, SizesAssumption
<1>7. pc = "file" /\ fileIndex = 0 /\ currentEntry = 0 /\ walker = FALSE /\ header = FALSE /\ code = 0
  BY DEF Init
<1>8. WalkerTypeOK
  BY <1>1, <1>3, <1>4 DEF WalkerTypeOK
<1>9. fileIndex \in 0 .. job.files
  BY <1>2, <1>7
<1>10. lost = 0 /\ Len(stdout) \in Nat /\ lost \in 0 .. Len(stdout)
  <2>1. lost = 0 /\ Len(stdout) \in Nat
    BY <1>6, LenProperties DEF Init
  <2>2. QED
    BY <2>1
<1>11. QED
  BY <1>1, <1>6, <1>7, <1>8, <1>9, <1>10 DEF TypeInv, TypeOK, InLoops

LEMMA NothingLost ==
  ASSUME TypeInv, lost' = lost, pc # "exit", stdout' \in Seq(Items)
  PROVE  lost' = 0 /\ lost' \in 0 .. Len(stdout')
<1>1. lost' = 0 /\ Len(stdout') \in Nat
  BY LenProperties DEF TypeInv
<1>2. QED
  BY <1>1

\* A step that leaves reader, buffer and call alone.
LEMMA TypeKept ==
  ASSUME TypeInv, UNCHANGED walkerVars,
         pc' \in {"file", "entry", "copy", "next", "exit"},
         fileIndex' \in 0 .. job.files, currentEntry' \in Nat,
         walker' \in BOOLEAN, header' \in BOOLEAN,
         block' \in Seq(Items), Len(block') <= BlockRecords, stdout' \in Seq(Items),
         code' \in {0, -1, Aborted}, lost' = lost, pc # "exit" \/ UNCHANGED <<pc, stdout>>,
         InLoops' => fileIndex' < job.files,
         pc' = "copy" => pc = "copy"
  PROVE  TypeInv'
<1>1. WalkerTypeOK' /\ UNCHANGED <<job, buffer>>
  BY WalkerKept DEF TypeInv, TypeOK, walkerVars
<1>2. lost' \in 0 .. Len(stdout') /\ (pc' # "exit" => lost' = 0)
  <2>1. CASE pc # "exit"
    BY <2>1, NothingLost
  <2>2. CASE UNCHANGED <<pc, stdout>>
    BY <2>2 DEF TypeInv, TypeOK
  <2>3. QED
    BY <2>1, <2>2
<1>3. QED
  BY <1>1, <1>2 DEF TypeInv, TypeOK

LEMMA ClosedType ==
  ASSUME TypeInv, CloseAvro
  PROVE  block' \in Seq(Items) /\ Len(block') <= BlockRecords /\ stdout' \in Seq(Items)
<1>1. stdout \o block \in Seq(Items)
  BY TypeFacts, ConcatProperties
<1>2. stdout' = stdout \o block /\ block' = << >>
  BY DEF CloseAvro
<1>3. << >> \in Seq(Items) /\ Len(<< >>) = 0
  OBVIOUS
<1>4. QED
  BY <1>1, <1>2, <1>3, SizesAssumption

LEMMA WriteType ==
  ASSUME TypeInv, NEW item \in Items, Write(item)
  PROVE  block' \in Seq(Items) /\ Len(block') <= BlockRecords /\ stdout' \in Seq(Items)
<1>1. CASE job.mode # "avro"
  <2>1. stdout' = Append(stdout, item) /\ block' = block
    BY <1>1 DEF Write
  <2>2. QED
    BY <2>1, TypeFacts
<1>2. CASE job.mode = "avro" /\ Len(block) < BlockRecords
  <2>1. block' = Append(block, item) /\ stdout' = stdout
    BY <1>2 DEF Write
  <2>2. Append(block, item) \in Seq(Items) /\ Len(Append(block, item)) = Len(block) + 1
    BY TypeFacts
  <2>3. QED
    BY <1>2, <2>1, <2>2, TypeFacts, SizesAssumption
<1>3. CASE job.mode = "avro" /\ ~(Len(block) < BlockRecords)
  <2>1. stdout' = stdout \o block /\ block' = << item >>
    BY <1>3 DEF Write
  <2>2. stdout \o block \in Seq(Items)
    BY TypeFacts, ConcatProperties
  <2>3. << item >> \in Seq(Items) /\ Len(<< item >>) = 1
    OBVIOUS
  <2>4. QED
    BY <2>1, <2>2, <2>3, SizesAssumption
<1>4. QED
  BY <1>1, <1>2, <1>3

LEMMA MarkedType ==
  ASSUME TypeInv, stdout' = Append(stdout, EndMarker)
  PROVE  stdout' \in Seq(Items)
BY TypeFacts, ItemType, AppendProperties

LEMMA EndsType ==
  ASSUME TypeInv,
         IF job.mode = "dump"
         THEN stdout' = Append(stdout, EndMarker) /\ UNCHANGED block
         ELSE CloseAvro
  PROVE  block' \in Seq(Items) /\ Len(block') <= BlockRecords /\ stdout' \in Seq(Items)
BY TypeFacts, ClosedType, MarkedType

LEMMA OverFilesType ==
  ASSUME TypeInv, OverFiles
  PROVE  TypeInv'
<1> USE TypeFacts
<1>1. /\ pc = "file" /\ walker \in BOOLEAN /\ header \in BOOLEAN /\ code \in {0, -1, Aborted}
  BY DEF OverFiles, FileFails, SkipFile, PrintOnce, EnterFile, AllFilesDone, AtFile,
         TypeInv, TypeOK
<1>2. CASE FileFails
  BY <1>1, <1>2, TypeKept DEF FileFails, Exit, InLoops
<1>3. CASE SkipFile
  <2>1. fileIndex \in Files /\ fileIndex + 1 \in 0 .. job.files
    <3>1. job.files \in Nat /\ fileIndex \in 0 .. job.files /\ fileIndex < job.files
      BY <1>3 DEF SkipFile, AtFile
    <3> HIDE TypeFacts
    <3>2. QED
      BY <3>1 DEF Files
  <2>2. currentEntry' \in Nat
    <3>1. currentEntry \in Nat /\ Entries(fileIndex) \in Nat
      BY <2>1, EntriesType
    <3> HIDE TypeFacts
    <3>2. QED
      BY <1>3, <3>1 DEF SkipFile
  <2>3. reader' \in Readers /\ UNCHANGED <<job, buffer, copying>>
    BY <1>3, <2>1 DEF SkipFile, Opened, Readers
  <2>4. WalkerTypeOK'
    BY <2>3, WalkerStep DEF TypeInv, TypeOK, WalkerTypeOK
  <2>5. pc' = "file" /\ fileIndex' = fileIndex + 1 /\ walker' = TRUE
        /\ UNCHANGED <<header, block, stdout, lost, code>>
    BY <1>1, <1>3 DEF SkipFile
  <2>6. lost' = 0 /\ lost' \in 0 .. Len(stdout')
    BY <1>1, <2>5, NothingLost
  <2>7. QED
    BY <1>1, <2>1, <2>2, <2>3, <2>4, <2>5, <2>6 DEF TypeInv, TypeOK, InLoops
<1>4. CASE PrintOnce
  BY <1>1, <1>4, TypeKept DEF PrintOnce, Exit, InLoops
<1>5. CASE EnterFile
  <2>1. fileIndex \in Files
    BY <1>5 DEF EnterFile, AtFile
  <2>2. job.start # NA => job.start \in Nat
    BY DEF ParametersOK
  <2>3. reader' \in Readers /\ currentEntry' \in Nat
    BY <1>5, <2>1, <2>2 DEF EnterFile, SetFirstEntry, Readers
  <2>4. /\ UNCHANGED <<job, buffer, copying>> /\ UNCHANGED <<fileIndex, block, stdout, lost>>
        /\ walker' = TRUE /\ header' \in BOOLEAN /\ pc' \in {"entry", "exit"} /\ code' \in {0, -1, Aborted}
    BY <1>1, <1>5 DEF EnterFile, Exit
  <2>5. WalkerTypeOK'
    BY <2>3, <2>4, WalkerStep DEF TypeInv, TypeOK, WalkerTypeOK
  <2>6. fileIndex < job.files
    BY <1>5 DEF EnterFile, AtFile
  <2>7. lost' = 0 /\ lost' \in 0 .. Len(stdout')
    BY <1>1, <2>4, NothingLost
  <2>8. QED
    BY <2>3, <2>4, <2>5, <2>6, <2>7 DEF TypeInv, TypeOK, InLoops
<1>6. CASE AllFilesDone
  BY <1>1, <1>6, TypeKept, EndsType DEF AllFilesDone, Exit, InLoops
<1>7. QED
  BY <1>2, <1>3, <1>4, <1>5, <1>6 DEF OverFiles

LEMMA OverEntriesType ==
  ASSUME TypeInv, OverEntries
  PROVE  TypeInv'
<1> USE TypeFacts
<1>1. /\ pc \in {"entry", "next"} /\ fileIndex < job.files
      /\ walker \in BOOLEAN /\ header \in BOOLEAN /\ code \in {0, -1, Aborted}
  BY DEF OverEntries, ReachEnd, PrintRecord, PrintFails, NextEntry, NextFile, AtRecord,
         TypeInv, TypeOK, InLoops
<1>2. CASE ReachEnd
  BY <1>1, <1>2, TypeKept, EndsType DEF ReachEnd, Exit, InLoops
<1>3. CASE PrintRecord
  <2>1. Item(currentEntry, Current) \in Items
    BY RecordType, ItemType DEF Current
  <2>2. Write(Item(currentEntry, Current))
    BY <1>3 DEF PrintRecord
  <2>3. block' \in Seq(Items) /\ Len(block') <= BlockRecords /\ stdout' \in Seq(Items)
    BY <2>1, <2>2, WriteType
  <2>4. QED
    BY <1>1, <1>3, <2>3, TypeKept DEF PrintRecord, InLoops
<1>4. CASE PrintFails
  BY <1>1, <1>4, TypeKept, ClosedType DEF PrintFails, Exit, InLoops
<1>5. CASE NextEntry
  <2>1. reader' \in Readers /\ UNCHANGED <<job, buffer, copying>>
    <3>1. reader \in Readers
      BY DEF TypeInv, TypeOK, WalkerTypeOK
    <3> HIDE TypeFacts
    <3>2. QED
      BY <1>5, <3>1 DEF NextEntry, Readers
  <2>2. WalkerTypeOK'
    BY <2>1, WalkerStep DEF TypeInv, TypeOK, WalkerTypeOK
  <2>3. lost' = 0 /\ lost' \in 0 .. Len(stdout')
    BY <1>1, <1>5, NothingLost DEF NextEntry
  <2>4. QED
    BY <1>1, <1>5, <2>1, <2>2, <2>3 DEF NextEntry, TypeInv, TypeOK, InLoops
<1>6. CASE NextFile
  <2>1. fileIndex + 1 \in 0 .. job.files
    BY <1>1
  <2>2. QED
    BY <1>1, <1>6, <2>1, TypeKept DEF NextFile, InLoops
<1>7. QED
  BY <1>2, <1>3, <1>4, <1>5, <1>6 DEF OverEntries

LEMMA DumpType ==
  ASSUME TypeInv, Dump
  PROVE  TypeInv'
<1> USE TypeFacts
<1>1. /\ fileIndex < job.files
      /\ walker \in BOOLEAN /\ header \in BOOLEAN /\ code \in {0, -1, Aborted}
  BY DEF Dump, StartDump, DumpCopies, DumpGrows, DumpWrites, AtRecord, TypeInv, TypeOK, InLoops
<1>2. ASSUME NEW cap \in Nat \ {0}, buffer' = Writable(cap), copying' = Call(currentEntry, 1),
             pc # "exit", job.mode = "dump",
             UNCHANGED <<job, reader, fileIndex, currentEntry, walker, header, block, stdout, lost, code>>,
             pc' = "copy"
      PROVE  TypeInv'
  <2>1. buffer' \in Buffers /\ copying' \in Copyings /\ buffer'.slots # << >>
    BY <1>2, WritableType DEF Call, Copyings, Writable
  <2>2. reader' \in Readers
    BY <1>2 DEF TypeInv, TypeOK, WalkerTypeOK, Readers, Files
  <2>3. WalkerTypeOK'
    BY <1>2, <2>1, WalkerStep DEF TypeInv, TypeOK, WalkerTypeOK
  <2>4. lost' = 0 /\ lost' \in 0 .. Len(stdout')
    BY <1>2, NothingLost
  <2>5. QED
    BY <1>1, <1>2, <2>1, <2>3, <2>4 DEF TypeInv, TypeOK, InLoops
<1>3. CASE StartDump
  BY <1>2, <1>3 DEF StartDump, AtRecord
<1>4. CASE DumpCopies
  <2>1. WalkerTypeOK' /\ UNCHANGED job /\ buffer'.slots # << >>
    BY <1>4, CopyType DEF DumpCopies, TypeInv, TypeOK
  <2>2. pc = "copy" /\ lost' = 0 /\ lost' \in 0 .. Len(stdout')
    BY <1>4, NothingLost DEF DumpCopies, mainVars
  <2>3. QED
    BY <1>1, <1>4, <2>1, <2>2 DEF DumpCopies, mainVars, TypeInv, TypeOK, InLoops
<1>5. CASE DumpGrows
  <2>1. 2 * buffer.cap \in Nat \ {0}
    <3>1. buffer.cap \in Nat \ {0}
      OBVIOUS
    <3> HIDE TypeFacts
    <3>2. QED
      BY <3>1
  <2>2. pc = "copy" /\ job.mode = "dump"
    BY <1>5 DEF DumpGrows, TypeInv
  <2>3. QED
    BY <1>2, <1>5, <2>1, <2>2 DEF DumpGrows, mainVars
<1>6. CASE DumpWrites
  <2>1. pc = "copy" /\ buffer.slots # << >> /\ UNCHANGED walkerVars
    BY <1>6 DEF DumpWrites, CopyReturns, TypeInv
  <2>2. buffer.slots[1] \in Slot
    BY <2>1
  <2>3. Item(currentEntry, buffer.slots[1].rec) \in Items
    BY <2>2, ItemType DEF Slot
  <2>4. stdout' \in Seq(Items)
    BY <1>6, <2>3 DEF DumpWrites
  <2>5. QED
    BY <1>1, <1>6, <2>1, <2>4, TypeKept DEF DumpWrites, InLoops
<1>7. QED
  BY <1>3, <1>4, <1>5, <1>6 DEF Dump

LEMMA ThrowsType ==
  ASSUME TypeInv, RecordThrows
  PROVE  TypeInv'
<1>1. /\ pc' = "exit" /\ code' = Aborted /\ lost' \in {0} \cup 0 .. Len(stdout)
      /\ UNCHANGED walkerVars /\ UNCHANGED <<fileIndex, currentEntry, walker, header, block, stdout>>
  BY DEF RecordThrows
<1>2. Len(stdout) \in Nat
  BY TypeFacts, LenProperties
<1>3. lost' \in 0 .. Len(stdout')
  BY <1>1, <1>2
<1>4. WalkerTypeOK' /\ job' = job
  BY <1>1, WalkerKept DEF TypeInv, TypeOK, walkerVars
<1>5. QED
  BY <1>1, <1>3, <1>4 DEF TypeInv, TypeOK, InLoops

LEMMA NextType == TypeInv /\ [Next]_vars => TypeInv'
<1> SUFFICES ASSUME TypeInv, [Next]_vars PROVE TypeInv'
  OBVIOUS
<1>1. CASE UNCHANGED vars
  <2>1. UNCHANGED walkerVars /\ UNCHANGED mainVars /\ job' = job
    BY <1>1 DEF vars, walkerVars
  <2>2. InLoops' = InLoops
    BY <2>1 DEF mainVars, InLoops
  <2>3. QED
    BY <2>1, <2>2, TypeKept DEF mainVars, TypeInv, TypeOK
<1>2. QED
  BY <1>1, OverFilesType, OverEntriesType, DumpType, ThrowsType DEF Next

(***************************************************************************)
(* For any data and command line: no file is looked for behind the last, no*)
(* block holds more records than the Avro writer takes, and dumpRaw looks  *)
(* only at a status byte that is there (214-362, 2854-2874).               *)
(***************************************************************************)
THEOREM TypeCorrect == Spec => []TypeOK
<1>1. Init => TypeInv
  BY InitType
<1>2. TypeInv /\ [Next]_vars => TypeInv'
  BY NextType
<1>3. TypeInv => TypeOK
  BY DEF TypeInv
<1>4. QED
  BY <1>1, <1>2, <1>3, PTL DEF Spec

-----------------------------------------------------------------------------
(***************************************************************************)
(* The block of the Avro writer.                                           *)
(***************************************************************************)
LEMMA WriteFacts ==
  ASSUME NEW item, Write(item), job.mode # "avro"
  PROVE  block' = block
BY DEF Write

LEMMA BlockStep == TypeInv /\ BlockInv /\ [Next]_vars => BlockInv'
<1> SUFFICES ASSUME TypeInv, BlockInv, [Next]_vars PROVE BlockInv'
  OBVIOUS
<1>1. CASE FileFails \/ PrintOnce \/ RecordThrows
  BY <1>1 DEF FileFails, PrintOnce, RecordThrows, Exit, BlockInv, InLoops, walkerVars
<1>2. CASE SkipFile
  BY <1>2 DEF SkipFile, AtFile, BlockInv, InLoops
<1>3. CASE EnterFile
  BY <1>3 DEF EnterFile, Exit, BlockInv, InLoops, AtFile
<1>4. CASE AllFilesDone \/ ReachEnd
  BY <1>4 DEF AllFilesDone, ReachEnd, CloseAvro, Exit, BlockInv, InLoops, walkerVars
<1>5. CASE PrintRecord
  <2>1. job.mode # "avro" => block' = block
    BY <1>5, WriteFacts DEF PrintRecord
  <2>2. walker /\ (job.mode \in AvroModes => header)
    BY <1>5 DEF PrintRecord, AtRecord, BlockInv, InLoops
  <2>3. UNCHANGED <<job, walker, header>> /\ pc' = "next"
    BY <1>5 DEF PrintRecord, walkerVars
  <2>4. QED
    BY <2>1, <2>2, <2>3 DEF BlockInv, InLoops, AvroModes
<1>6. CASE PrintFails
  BY <1>6 DEF PrintFails, CloseAvro, Exit, BlockInv, InLoops
<1>7. CASE NextEntry \/ NextFile
  BY <1>7 DEF NextEntry, NextFile, BlockInv, InLoops, walkerVars
<1>8. CASE Dump
  <2>1. DumpCopies => UNCHANGED job
    BY DEF DumpCopies, Poll, CopyFits, CopyTooSmall
  <2>2. QED
    BY <1>8, <2>1 DEF Dump, StartDump, DumpCopies, DumpGrows, DumpWrites, CopyReturns, AtRecord,
                      walkerVars, mainVars, BlockInv, InLoops
<1>9. CASE UNCHANGED vars
  BY <1>9 DEF vars, walkerVars, mainVars, BlockInv, InLoops
<1>10. QED
  BY <1>1, <1>2, <1>3, <1>4, <1>5, <1>6, <1>7, <1>8, <1>9 DEF Next, OverFiles, OverEntries

(***************************************************************************)
(* What is known when the program has ended with records in the block.     *)
(***************************************************************************)
LossInv == TypeInv /\ BlockInv /\ LossNeedsCause

LEMMA NoLoss ==
  ASSUME TypeInv, pc # "exit", lost' = lost,
         block' = << >> \/ (code' = -1 /\ fileIndex' \in job'.broken)
  PROVE  LossNeedsCause'
<1>1. lost' = 0 /\ ~(0 > 0)
  BY DEF TypeInv
<1>2. QED
  BY <1>1 DEF LossNeedsCause

LEMMA LossStep == LossInv /\ [Next]_vars => LossInv'
<1> SUFFICES ASSUME LossInv, [Next]_vars PROVE LossNeedsCause'
  BY NextType, BlockStep DEF LossInv
<1>1. TypeInv /\ BlockInv /\ LossNeedsCause
  BY DEF LossInv
<1>2. CASE FileFails
  <2>1. UNCHANGED <<job, fileIndex, block, lost>> /\ code' = -1 /\ Unusable /\ pc = "file"
    BY <1>2 DEF FileFails, AtFile, Exit, walkerVars
  <2>2. block # << >> => walker
    BY <1>1 DEF BlockInv
  <2>3. block' = << >> \/ (code' = -1 /\ fileIndex' \in job'.broken)
    BY <2>1, <2>2 DEF Unusable, Unresolved
  <2>4. QED
    BY <1>1, <2>1, <2>3, NoLoss
<1>3. CASE PrintOnce
  <2>1. job.mode \notin EntryModes /\ UNCHANGED <<job, block, lost>> /\ pc = "file"
    BY <1>3 DEF PrintOnce, AtFile, Exit, walkerVars
  <2>2. block = << >>
    BY <1>1, <2>1 DEF BlockInv, EntryModes, AvroModes
  <2>3. QED
    BY <1>1, <2>1, <2>2, NoLoss
<1>4. CASE EnterFile
  <2>1. pc = "file" /\ UNCHANGED <<block, lost>> /\ (pc' = "exit" => ~header) /\ pc' \in {"entry", "exit"}
    BY <1>4 DEF EnterFile, AtFile, HeaderFails, Exit
  <2>2. block # << >> => header
    BY <1>1 DEF BlockInv
  <2>3. CASE pc' = "exit"
    BY <1>1, <2>1, <2>2, <2>3, NoLoss
  <2>4. CASE pc' # "exit"
    BY <2>4 DEF LossNeedsCause
  <2>5. QED
    BY <2>3, <2>4
<1>5. CASE AllFilesDone \/ ReachEnd
  <2>1. /\ pc # "exit" /\ lost' = lost
        /\ block' = << >> \/ (job.mode = "dump" /\ block' = block)
    BY <1>5 DEF AllFilesDone, ReachEnd, CloseAvro, Exit
  <2>2. block' = << >>
    BY <1>1, <2>1 DEF BlockInv
  <2>3. QED
    BY <1>1, <2>1, <2>2, NoLoss
<1>6. CASE PrintFails
  <2>1. pc # "exit" /\ lost' = lost /\ block' = << >>
    BY <1>6 DEF PrintFails, AtRecord, CloseAvro, Exit
  <2>2. QED
    BY <1>1, <2>1, NoLoss
<1>7. CASE RecordThrows
  <2>1. /\ code' = Aborted /\ UNCHANGED <<job, reader, copying>>
        /\ job.mode = "json" => lost' = 0
    BY <1>7 DEF RecordThrows, walkerVars
  <2>2. (IF job.mode = "dump" THEN Source ELSE Current) \in job.throwing
    <3>1. CASE AtRecord /\ job.mode # "dump" /\ Current \in job.throwing
      BY <3>1
    <3>2. CASE pc = "copy" /\ InLoop /\ Source \in job.throwing
      BY <1>1, <3>2 DEF TypeInv
    <3>3. QED
      BY <1>7, <3>1, <3>2 DEF RecordThrows
  <2>3. Source' = Source /\ Current' = Current
    BY <2>1 DEF Source, Current, RecordAt, Entries
  <2>4. Threw'
    BY <2>1, <2>2, <2>3 DEF Threw
  <2>5. lost' > 0 => job'.mode # "json"
    BY <2>1
  <2>6. QED
    BY <2>4, <2>5 DEF LossNeedsCause
<1>8. CASE SkipFile \/ PrintRecord \/ NextEntry \/ NextFile \/ Dump
  <2>1. pc' # "exit"
    BY <1>8 DEF SkipFile, AtFile, PrintRecord, NextEntry, NextFile, Dump, StartDump, DumpCopies,
                DumpGrows, DumpWrites, mainVars
  <2>2. QED
    BY <2>1 DEF LossNeedsCause
<1>9. CASE UNCHANGED vars
  <2>1. UNCHANGED <<job, reader, copying>> /\ UNCHANGED mainVars
    BY <1>9 DEF vars, walkerVars
  <2>2. Source' = Source /\ Current' = Current
    BY <2>1 DEF Source, Current, RecordAt, Entries
  <2>3. QED
    BY <1>1, <2>1, <2>2 DEF mainVars, LossNeedsCause, Threw
<1>10. QED
  BY <1>2, <1>3, <1>4, <1>5, <1>6, <1>7, <1>8, <1>9 DEF Next, OverFiles, OverEntries

(***************************************************************************)
(* For any data and command line, regular or not: a record that has been   *)
(* converted is lost only where a later file does not open (exit code -1,  *)
(* 233-236) or the record that follows makes its walker throw (an abort,   *)
(* 253-259, 279, 304, 336); a record Avro refuses, a codec it does not know*)
(* and a mode that is none lose nothing (279-282).                         *)
(***************************************************************************)
THEOREM LossCorrect == Spec => []LossNeedsCause
<1>1. Init => LossInv
  BY InitType DEF LossInv, BlockInv, LossNeedsCause, Init, InLoops
<1>2. LossInv /\ [Next]_vars => LossInv'
  BY LossStep
<1>3. LossInv => LossNeedsCause
  BY DEF LossInv
<1>4. QED
  BY <1>1, <1>2, <1>3, PTL DEF Spec

-----------------------------------------------------------------------------
(***************************************************************************)
(* Sequences of records in order.                                          *)
(***************************************************************************)
LEMMA Unmarking ==
  ASSUME NEW s \in Seq(Items), NEW from \in Nat, Ordered(s, from)
  PROVE  Unmarked(s) = s
<1>1. CASE s = << >>
  BY <1>1 DEF Unmarked
<1>2. CASE s # << >>
  <2>1. Len(s) \in 1 .. Len(s)
    BY <1>2, EmptySeq
  <2>2. s[Len(s)] = Item(from + Len(s) - 1, from + Len(s) - 1)
    BY <2>1 DEF Ordered
  <2>3. s[Len(s)].entry = from + Len(s) - 1 /\ EndMarker.entry = -1
    BY <2>2 DEF Item, EndMarker
  <2>4. s[Len(s)] # EndMarker
    BY <2>1, <2>3
  <2>5. QED
    BY <2>4 DEF Unmarked
<1>3. QED
  BY <1>1, <1>2

LEMMA Marking ==
  ASSUME NEW s \in Seq(Items)
  PROVE  Unmarked(Append(s, EndMarker)) = s
<1> DEFINE t == Append(s, EndMarker)
<1>1. /\ t \in Seq(Items) /\ t # << >> /\ Len(t) = Len(s) + 1 /\ Len(s) \in Nat
      /\ \A k \in 1 .. Len(s) : t[k] = s[k]
      /\ t[Len(s) + 1] = EndMarker
  BY ItemType, AppendProperties, LenProperties
<1> HIDE DEF t
<1>2. Unmarked(t) = SubSeq(t, 1, Len(s))
  BY <1>1 DEF Unmarked
<1>3. \A k \in 1 .. Len(s) : t[k] \in Items
  BY <1>1, ElementOfSeq
<1>4. /\ SubSeq(t, 1, Len(s)) \in Seq(Items)
      /\ Len(SubSeq(t, 1, Len(s))) = Len(s)
      /\ \A k \in 1 .. Len(s) : SubSeq(t, 1, Len(s))[k] = s[k]
  <2>1. /\ SubSeq(t, 1, Len(s)) \in Seq(Items)
        /\ Len(SubSeq(t, 1, Len(s))) = IF 1 <= Len(s) THEN Len(s) - 1 + 1 ELSE 0
        /\ \A k \in 1 .. Len(s) - 1 + 1 : SubSeq(t, 1, Len(s))[k] = t[1 + k - 1]
    BY <1>1, <1>3, SubSeqProperties
  <2>2. QED
    BY <1>1, <2>1
<1>5. SubSeq(t, 1, Len(s)) = s
  BY <1>4, SeqEqual
<1>6. QED
  BY <1>2, <1>5 DEF t

LEMMA Concatenated ==
  ASSUME NEW s \in Seq(Items), NEW t \in Seq(Items), NEW from \in Nat,
         Ordered(s, from), Ordered(t, from + Len(s))
  PROVE  /\ s \o t \in Seq(Items) /\ Len(s \o t) = Len(s) + Len(t)
         /\ Ordered(s \o t, from)
<1>1. /\ s \o t \in Seq(Items) /\ Len(s \o t) = Len(s) + Len(t)
      /\ \A k \in 1 .. Len(s) + Len(t) : (s \o t)[k] = IF k <= Len(s) THEN s[k] ELSE t[k - Len(s)]
      /\ Len(s) \in Nat /\ Len(t) \in Nat
  BY ConcatProperties, LenProperties
<1>2. ASSUME NEW k \in 1 .. Len(s \o t)
      PROVE  (s \o t)[k] = Item(from + k - 1, from + k - 1)
  <2>1. CASE k <= Len(s)
    BY <1>1, <2>1 DEF Ordered
  <2>2. CASE ~(k <= Len(s))
    <3>1. k - Len(s) \in 1 .. Len(t) /\ (from + Len(s)) + (k - Len(s)) - 1 = from + k - 1
      BY <1>1, <2>2
    <3>2. t[k - Len(s)] = Item(from + k - 1, from + k - 1)
      BY <3>1 DEF Ordered
    <3>3. QED
      BY <1>1, <2>2, <3>2
  <2>3. QED
    BY <2>1, <2>2
<1>3. QED
  BY <1>1, <1>2 DEF Ordered

LEMMA Appended ==
  ASSUME NEW s \in Seq(Items), NEW from \in Nat, Ordered(s, from),
         NEW item \in Items, item = Item(from + Len(s), from + Len(s))
  PROVE  /\ Append(s, item) \in Seq(Items) /\ Len(Append(s, item)) = Len(s) + 1
         /\ Ordered(Append(s, item), from)
<1>1. /\ Append(s, item) \in Seq(Items) /\ Len(Append(s, item)) = Len(s) + 1
      /\ \A k \in 1 .. Len(s) : Append(s, item)[k] = s[k]
      /\ Append(s, item)[Len(s) + 1] = item /\ Len(s) \in Nat
  BY AppendProperties, LenProperties
<1>2. ASSUME NEW k \in 1 .. Len(Append(s, item))
      PROVE  Append(s, item)[k] = Item(from + k - 1, from + k - 1)
  <2>1. CASE k = Len(s) + 1
    BY <1>1, <2>1
  <2>2. CASE k \in 1 .. Len(s)
    BY <1>1, <2>2 DEF Ordered
  <2>3. QED
    BY <1>1, <2>1, <2>2
<1>3. QED
  BY <1>1, <1>2 DEF Ordered

-----------------------------------------------------------------------------
(***************************************************************************)
(* Regular data.                                                           *)
(***************************************************************************)
LEMMA RangeFacts ==
  ASSUME TypeInv
  PROVE  /\ Total \in Nat /\ Lo \in Nat /\ Hi \in Nat /\ Hi <= Total
         /\ job.end # NA => Hi <= job.end
         /\ job.end = NA \/ job.end >= Total => Hi = Total
         /\ job.end # NA /\ job.end < Total => Hi = job.end
         /\ job.start # NA => Lo = job.start
         /\ job.start = NA => Lo = 0
<1>1. Total \in Nat
  BY TypeFacts DEF LayoutOK, Total
<1>2. job.start \in Nat \cup {NA} /\ job.end \in Nat \cup {NA}
  BY TypeFacts DEF ParametersOK
<1>3. QED
  BY <1>1, <1>2 DEF Lo, Hi, NA

LEMMA FileFacts ==
  ASSUME TypeInv, Regular, fileIndex < job.files
  PROVE  /\ fileIndex \in Files /\ fileIndex + 1 \in 0 .. job.files
         /\ Entries(fileIndex) \in Nat \ {0}
         /\ job.base[fileIndex] \in Nat
         /\ job.base[fileIndex + 1] = job.base[fileIndex] + Entries(fileIndex)
         /\ job.base[fileIndex + 1] <= Total
<1>1. fileIndex \in Files /\ fileIndex + 1 \in 0 .. job.files
  BY TypeFacts DEF Files
<1>2. Entries(fileIndex) \in Nat /\ job.base[fileIndex] \in Nat /\ job.base[fileIndex + 1] \in Nat
      /\ job.base[fileIndex + 1] <= Total
  BY <1>1, TypeFacts, EntriesType
<1>3. Entries(fileIndex) > 0
  BY <1>1 DEF Regular, NonEmpty
<1>4. QED
  BY <1>1, <1>2, <1>3 DEF Entries

LEMMA JobKept ==
  ASSUME job' = job
  PROVE  /\ Lo' = Lo /\ Hi' = Hi /\ Total' = Total
         /\ Regular' = Regular
         /\ \A f : Entries(f)' = Entries(f)
BY DEF Lo, Hi, Total, Regular, NonEmpty, OneForDump, Files, Entries

\* In the loops the records so far are those before currentEntry.
LEMMA OutputFacts ==
  ASSUME TypeInv, BlockInv, OutputInv, pc # "exit"
  PROVE  /\ Done \in Nat
         /\ Unmarked(stdout) = stdout
         /\ Converted = stdout \o block
         /\ stdout \o block \in Seq(Items) /\ Len(stdout \o block) = Done
         /\ Ordered(stdout \o block, Lo)
         /\ job.mode # "avro" => block = << >> /\ stdout \o block = stdout
<1>1. Ordered(stdout, Lo) /\ Ordered(block, Lo + Len(stdout)) /\ Len(stdout) + Len(block) = Done
  BY DEF OutputInv
<1>2. Done \in Nat
  BY RangeFacts, TypeFacts DEF Done
<1>3. Unmarked(stdout) = stdout
  BY <1>1, RangeFacts, TypeFacts, Unmarking
<1>4. /\ stdout \o block \in Seq(Items) /\ Len(stdout \o block) = Done
      /\ Ordered(stdout \o block, Lo)
  BY <1>1, RangeFacts, TypeFacts, Concatenated
<1>5. job.mode # "avro" => block = << >>
  BY DEF BlockInv
<1>6. stdout \o << >> = stdout
  BY TypeFacts, ConcatEmptySeq
<1>7. QED
  BY <1>2, <1>3, <1>4, <1>5, <1>6 DEF Converted

\* The two ways in which the loops end well.
LEMMA Closed ==
  ASSUME TypeInv, BlockInv, OutputInv, pc # "exit",
         IF job.mode = "dump"
         THEN stdout' = Append(stdout, EndMarker) /\ UNCHANGED block
         ELSE CloseAvro
  PROVE  block' = << >> /\ Converted' = stdout \o block
<1>1. CASE job.mode = "dump"
  <2>1. block' = << >> /\ stdout' = Append(stdout, EndMarker) /\ stdout \o block = stdout
    BY <1>1, OutputFacts
  <2>2. Unmarked(stdout') = stdout
    BY <2>1, TypeFacts, Marking
  <2>3. Converted' = Unmarked(stdout') \o block'
    BY DEF Converted, Unmarked
  <2>4. stdout \o << >> = stdout
    BY TypeFacts, ConcatEmptySeq
  <2>5. QED
    BY <2>1, <2>2, <2>3, <2>4
<1>2. CASE job.mode # "dump"
  <2>1. block' = << >> /\ stdout' = stdout \o block
    BY <1>2 DEF CloseAvro
  <2>2. stdout' \in Seq(Items) /\ Unmarked(stdout') = stdout'
    BY <2>1, OutputFacts, RangeFacts, Unmarking
  <2>3. Converted' = Unmarked(stdout') \o block'
    BY DEF Converted, Unmarked
  <2>4. stdout' \o << >> = stdout'
    BY <2>2, ConcatEmptySeq
  <2>5. QED
    BY <2>1, <2>2, <2>3, <2>4
<1>3. QED
  BY <1>1, <1>2

\* What a step that ends the program has to show.
LEMMA ExitCore ==
  ASSUME IInv, pc # "exit", pc' = "exit", job' = job, BlockInv',
         Converted' = stdout \o block,
         code' = 0 /\ job.mode \in EntryModes => block' = << >> /\ (Lo < Hi => Done = Hi - Lo)
  PROVE  Core'
<1>1. TypeInv /\ BlockInv /\ OutputInv /\ Regular
  BY DEF IInv, Core
<1>2. Lo' = Lo /\ Hi' = Hi /\ Regular'
  BY <1>1, JobKept
<1>3. Len(Converted') = Done /\ Ordered(Converted', Lo) /\ Converted' \in Seq(Items)
  BY <1>1, OutputFacts
<1>4. ConvertsTheRange'
  <2>1. Done > 0 => Lo + Done <= Hi
    BY <1>1, RangeFacts, TypeFacts DEF OutputInv, Done
  <2>2. Done = 0 => Converted' = << >>
    BY <1>3, EmptySeq
  <2>3. DOMAIN Converted' = 1 .. Len(Converted')
    BY <1>3, LenProperties
  <2>4. \A k \in DOMAIN Converted' : Converted'[k] = Item(Lo + k - 1, Lo + k - 1)
    BY <1>3, <2>3 DEF Ordered
  <2>5. Done \in Nat
    BY <1>1, OutputFacts
  <2>6. Lo + Len(Converted') <= Hi \/ Converted' = << >>
    BY <1>3, <2>1, <2>2, <2>5
  <2>7. QED
    BY <1>2, <2>4, <2>6 DEF ConvertsTheRange, Item
<1>5. SuccessIsComplete'
  BY <1>2, <1>3 DEF SuccessIsComplete
<1>6. Place' /\ DumpInv'
  BY DEF Place, DumpInv, InLoops
<1>7. QED
  BY <1>2, <1>4, <1>5, <1>6 DEF Core, OutputInv

-----------------------------------------------------------------------------
(***************************************************************************)
(* The invariant, action by action.                                        *)
(***************************************************************************)
LEMMA PlaceFacts ==
  ASSUME IInv
  PROVE  /\ TypeInv /\ Regular /\ BlockInv /\ Place /\ DumpInv /\ OutputInv
         /\ currentEntry \in Nat /\ fileIndex \in 0 .. job.files
         /\ InLoops => /\ fileIndex < job.files
                       /\ reader.entry \in 0 .. Entries(fileIndex) - 1
                       /\ currentEntry < Total \/ pc = "next"
                       /\ Done = currentEntry - Lo
<1>1. TypeInv /\ Regular /\ BlockInv /\ Place /\ DumpInv /\ OutputInv
  BY DEF IInv, Core
<1>2. currentEntry \in Nat /\ fileIndex \in 0 .. job.files
  BY <1>1, TypeFacts
<1>3. ASSUME InLoops
      PROVE  /\ fileIndex < job.files
             /\ reader.entry \in 0 .. Entries(fileIndex) - 1
             /\ currentEntry < Total \/ pc = "next"
             /\ Done = currentEntry - Lo
  <2>1. fileIndex < job.files
    BY <1>1, <1>3 DEF TypeInv
  <2>2. /\ reader.entry \in 0 .. Entries(fileIndex) - 1 /\ currentEntry >= Lo
        /\ pc # "next" => currentEntry = job.base[fileIndex] + reader.entry
    BY <1>1, <1>3, <2>1, FileFacts DEF Place
  <2>3. QED
    BY <1>1, <1>2, <2>1, <2>2, FileFacts, RangeFacts DEF Done
<1>4. QED
  BY <1>1, <1>2, <1>3

\* A step that neither writes nor ends.
LEMMA OutputKept ==
  ASSUME OutputInv, UNCHANGED <<job, stdout, block>>, pc # "exit", pc' # "exit",
         Done' = Done, currentEntry' > Lo => currentEntry' <= Hi
  PROVE  OutputInv'
BY JobKept DEF OutputInv, Ordered, Item

LEMMA FileFailsCore ==
  ASSUME IInv, BlockInv', FileFails \/ PrintOnce \/ RecordThrows
  PROVE  Core'
<1>1. /\ pc # "exit" /\ pc' = "exit" /\ UNCHANGED <<job, stdout, block>>
      /\ code' # 0 \/ job.mode \notin EntryModes
  BY DEF FileFails, PrintOnce, RecordThrows, AtFile, AtRecord, Exit, Aborted, walkerVars
<1>2. Converted' = stdout \o block
  BY <1>1, PlaceFacts, OutputFacts DEF Converted, Unmarked
<1>3. QED
  BY <1>1, <1>2, ExitCore

LEMMA SkipFileCore ==
  ASSUME IInv, BlockInv', SkipFile
  PROVE  Core'
<1> USE PlaceFacts
<1>1. /\ pc = "file" /\ pc' = "file" /\ UNCHANGED <<job, stdout, block>>
      /\ fileIndex < job.files /\ fileIndex' = fileIndex + 1
      /\ currentEntry' = currentEntry + Entries(fileIndex)
      /\ job.start # NA /\ job.start >= currentEntry + Entries(fileIndex)
  BY DEF SkipFile, AtFile, ComesAfter
<1>2. currentEntry = job.base[fileIndex]
  BY <1>1 DEF Place
<1>3. Entries(fileIndex) \in Nat /\ currentEntry' = job.base[fileIndex + 1]
  BY <1>1, <1>2, FileFacts
<1>4. /\ currentEntry' <= Lo /\ currentEntry <= Lo
  BY <1>1, <1>3, RangeFacts
<1>5. Lo' = Lo /\ Regular'
  BY <1>1, JobKept
<1>6. Done' = Done /\ ~(currentEntry' > Lo)
  BY <1>1, <1>3, <1>4, <1>5, RangeFacts DEF Done
<1>7. OutputInv'
  BY <1>1, <1>6, OutputKept
<1>8. Place' /\ DumpInv'
  BY <1>1, <1>3 DEF Place, DumpInv, InLoops
<1>9. QED
  BY <1>5, <1>7, <1>8 DEF Core

LEMMA EnterFileCore ==
  ASSUME IInv, BlockInv', EnterFile
  PROVE  Core'
<1> USE PlaceFacts
<1>1. /\ pc = "file" /\ fileIndex < job.files /\ ~ComesAfter /\ SetFirstEntry
      /\ UNCHANGED <<job, stdout, block, fileIndex>>
      /\ (pc' = "exit" /\ code' # 0) \/ pc' = "entry"
  BY DEF EnterFile, AtFile, Exit, Aborted
<1>2. currentEntry = job.base[fileIndex]
  BY <1>1 DEF Place
<1>3. /\ Entries(fileIndex) \in Nat \ {0} /\ fileIndex \in Files
  BY <1>1, FileFacts
<1>4. CASE pc' = "exit"
  <2>1. Converted' = stdout \o block /\ code' # 0
    BY <1>1, <1>4, OutputFacts DEF Converted, Unmarked
  <2>2. QED
    BY <1>1, <1>4, <2>1, ExitCore
<1>5. CASE pc' = "entry"
  <2>1. Lo' = Lo /\ Regular' /\ Entries(fileIndex)' = Entries(fileIndex)
    BY <1>1, JobKept
  <2>2. job.start = NA \/ job.start \in Nat
    BY TypeFacts DEF ParametersOK
  <2>3. /\ reader'.file = fileIndex /\ reader'.entry \in 0 .. Entries(fileIndex) - 1
        /\ currentEntry' = currentEntry + reader'.entry
        /\ currentEntry' >= Lo
        /\ currentEntry' = currentEntry \/ (currentEntry' = Lo /\ currentEntry < Lo)
    <3>1. CASE job.start # NA /\ job.start > currentEntry
      <4>1. reader' = [file |-> fileIndex, entry |-> job.start - currentEntry] /\ currentEntry' = job.start
        BY <1>1, <3>1 DEF SetFirstEntry
      <4>2. job.start < currentEntry + Entries(fileIndex) /\ Lo = job.start
        BY <1>1, <1>3, <2>2, <3>1, RangeFacts DEF ComesAfter, NA
      <4>3. QED
        BY <1>3, <2>2, <3>1, <4>1, <4>2 DEF NA
    <3>2. CASE ~(job.start # NA /\ job.start > currentEntry)
      <4>1. reader' = [file |-> fileIndex, entry |-> 0] /\ currentEntry' = currentEntry
        BY <1>1, <3>2 DEF SetFirstEntry
      <4>2. currentEntry >= Lo
        BY <2>2, <3>2, RangeFacts DEF NA
      <4>3. QED
        BY <1>3, <4>1, <4>2
    <3>3. QED
      BY <3>1, <3>2
  <2>4. Done' = Done /\ (currentEntry' > Lo => currentEntry' <= Hi)
    <3>1. PICK lo \in Nat, hi \in Nat, e \in Nat : lo = Lo /\ hi = Hi /\ e = currentEntry
      BY RangeFacts, TypeFacts
    <3>2. e > lo => e <= hi
      BY <1>1, <3>1 DEF OutputInv
    <3>3. Lo' = lo /\ (currentEntry' = e \/ (currentEntry' = lo /\ e < lo))
      BY <2>1, <2>3, <3>1
    <3>4. PICK f \in Nat : f = currentEntry' /\ (f = e \/ (f = lo /\ e < lo))
      BY <3>1, <3>3
    <3>5. Done = (IF e > lo THEN e - lo ELSE 0) /\ Done' = (IF f > lo THEN f - lo ELSE 0)
      BY <3>1, <3>3, <3>4 DEF Done
    <3> HIDE PlaceFacts
    <3>6. (f > lo <=> e > lo) /\ (f > lo => f = e)
      BY <3>4
    <3>7. Done' = Done
      BY <3>5, <3>6, Zenon
    <3>8. currentEntry' > Lo => currentEntry' <= Hi
      BY <3>1, <3>2, <3>4, <3>6
    <3>9. QED
      BY <3>7, <3>8
  <2>5. OutputInv'
    BY <1>1, <1>5, <2>4, OutputKept
  <2>6. Place' /\ DumpInv'
    BY <1>1, <1>2, <1>5, <2>1, <2>3 DEF Place, DumpInv, InLoops
  <2>7. QED
    BY <2>1, <2>5, <2>6 DEF Core
<1>6. QED
  BY <1>1, <1>4, <1>5

\* The loops are left well when nothing of the range is left.
LEMMA RangeComplete ==
  ASSUME IInv, AllFilesDone \/ ReachEnd, Lo < Hi
  PROVE  Done = Hi - Lo
<1> USE PlaceFacts
<1>1. CASE AllFilesDone
  <2>1. fileIndex = job.files /\ pc = "file"
    BY <1>1, TypeFacts DEF AllFilesDone
  <2>2. currentEntry = Total
    BY <2>1 DEF Place, Total
  <2>3. QED
    BY <2>1, <2>2, RangeFacts DEF Done, OutputInv
<1>2. CASE ReachEnd
  <2>1. pc = "entry" /\ EndReached /\ InLoops
    BY <1>2 DEF ReachEnd, InLoops
  <2>2. Hi <= currentEntry /\ currentEntry >= Lo
    <3>1. job.end # NA /\ currentEntry >= job.end /\ job.end \in Nat \cup {NA}
      BY <2>1, TypeFacts DEF EndReached, ParametersOK
    <3>2. QED
      BY <2>1, <3>1, RangeFacts DEF Place, NA
  <2>3. QED
    BY <2>1, <2>2, RangeFacts DEF Done, OutputInv
<1>3. QED
  BY <1>1, <1>2

LEMMA EndCore ==
  ASSUME IInv, BlockInv', AllFilesDone \/ ReachEnd
  PROVE  Core'
<1> USE PlaceFacts
<1>1. /\ pc # "exit" /\ pc' = "exit" /\ job' = job
      /\ IF job.mode = "dump"
         THEN stdout' = Append(stdout, EndMarker) /\ UNCHANGED block
         ELSE CloseAvro
  BY DEF AllFilesDone, ReachEnd, Exit, walkerVars
<1>2. block' = << >> /\ Converted' = stdout \o block
  BY <1>1, Closed
<1>3. Lo < Hi => Done = Hi - Lo
  BY RangeComplete
<1>4. QED
  BY <1>1, <1>2, <1>3, ExitCore

LEMMA PrintFailsCore ==
  ASSUME IInv, BlockInv', PrintFails
  PROVE  Core'
<1>1. /\ pc = "entry" /\ pc' = "exit" /\ code' = -1 /\ job' = job /\ CloseAvro
      /\ job.mode \in AvroModes
  BY DEF PrintFails, AtRecord, Exit, walkerVars, Refuses
<1>2. job.mode # "dump"
  BY <1>1 DEF AvroModes
<1>3. Converted' = stdout \o block
  BY <1>1, <1>2, PlaceFacts, Closed
<1>4. QED
  BY <1>1, <1>3, ExitCore

\* The record of the current entry is the one the reader stands on.
LEMMA CurrentFacts ==
  ASSUME IInv, pc \in {"entry", "copy"}
  PROVE  /\ RecordAt(reader.file, reader.entry) = currentEntry
         /\ currentEntry = job.base[fileIndex] + reader.entry /\ reader.file = fileIndex
<1>1. InLoops /\ fileIndex < job.files /\ reader.entry \in 0 .. Entries(fileIndex) - 1
  BY PlaceFacts DEF InLoops
<1>2. job.base[fileIndex] \in Nat /\ Entries(fileIndex) \in Nat
  BY <1>1, PlaceFacts, FileFacts
<1>3. currentEntry = job.base[fileIndex] + reader.entry /\ reader.file = fileIndex
  BY <1>1, <1>2, PlaceFacts DEF Place
<1>4. QED
  BY <1>1, <1>3 DEF RecordAt

\* Before the end there is room in the range for the current entry.
LEMMA RoomForOne ==
  ASSUME IInv, pc \in {"entry", "copy"}, ~EndReached
  PROVE  currentEntry + 1 <= Hi
<1>1. currentEntry < Total /\ currentEntry \in Nat
  BY PlaceFacts DEF InLoops
<1>2. job.end = NA \/ (job.end \in Nat /\ currentEntry < job.end)
  BY <1>1, PlaceFacts, TypeFacts DEF EndReached, ParametersOK
<1>3. QED
  BY <1>1, <1>2, PlaceFacts, RangeFacts DEF NA

\* One more record, written in its place.
LEMMA WrittenCore ==
  ASSUME IInv, pc \in {"entry", "copy"}, ~EndReached, pc' = "next", UNCHANGED <<job, reader, fileIndex>>,
         currentEntry' = currentEntry + 1, BlockInv',
         Write(Item(currentEntry, currentEntry))
  PROVE  Core'
<1> DEFINE item == Item(currentEntry, currentEntry)
<1> USE PlaceFacts
<1>1. InLoops /\ pc # "exit" /\ pc' # "exit"
  BY DEF InLoops
<1>2. /\ Lo \in Nat /\ currentEntry >= Lo /\ Done = currentEntry - Lo
      /\ stdout \in Seq(Items) /\ block \in Seq(Items)
      /\ Len(stdout) \in Nat /\ Len(block) \in Nat
      /\ Ordered(stdout, Lo) /\ Ordered(block, Lo + Len(stdout))
      /\ Len(stdout) + Len(block) = currentEntry - Lo
      /\ item \in Items
  BY <1>1, RangeFacts, TypeFacts, ItemType, LenProperties DEF Place, OutputInv
<1>3. Ordered(stdout', Lo) /\ Ordered(block', Lo + Len(stdout'))
      /\ Len(stdout') + Len(block') = currentEntry + 1 - Lo
  <2>1. CASE job.mode # "avro"
    <3>1. stdout' = Append(stdout, item) /\ block' = block /\ block = << >>
      BY <2>1 DEF Write, BlockInv
    <3>2. Len(block) = 0 /\ item = Item(Lo + Len(stdout), Lo + Len(stdout))
      <4>1. Len(block) = 0
        BY <3>1, EmptySeq
      <4>2. currentEntry \in Nat /\ Lo \in Nat /\ Len(stdout) \in Nat
        BY <1>2
      <4>3. currentEntry = Lo + Len(stdout)
        BY <1>2, <4>1, <4>2
      <4>4. QED
        BY <4>1, <4>3, Zenon
    <3>3. Ordered(stdout', Lo) /\ Len(stdout') = Len(stdout) + 1
      <4>1. Ordered(Append(stdout, item), Lo) /\ Len(Append(stdout, item)) = Len(stdout) + 1
        <5> HIDE PlaceFacts DEF item
        <5>1. QED
          BY <1>2, <3>2, Appended
      <4> HIDE PlaceFacts DEF item
      <4>2. PICK s : s = Append(stdout, item)
        OBVIOUS
      <4>3. Ordered(s, Lo) /\ Len(s) = Len(stdout) + 1 /\ stdout' = s
        BY <3>1, <4>1, <4>2, Zenon
      <4>4. QED
        BY <4>3 DEF Ordered
    <3>4. Ordered(block', Lo + Len(stdout'))
      BY <3>1, <3>2 DEF Ordered
    <3>5. QED
      BY <1>2, <3>1, <3>2, <3>3, <3>4
  <2>2. CASE job.mode = "avro" /\ Len(block) < BlockRecords
    <3>1. block' = Append(block, item) /\ stdout' = stdout
      BY <2>2 DEF Write
    <3>2. item = Item((Lo + Len(stdout)) + Len(block), (Lo + Len(stdout)) + Len(block))
          /\ Lo + Len(stdout) \in Nat
      BY <1>2
    <3>3. Ordered(block', Lo + Len(stdout)) /\ Len(block') = Len(block) + 1
      <4>1. Ordered(Append(block, item), Lo + Len(stdout)) /\ Len(Append(block, item)) = Len(block) + 1
        <5> HIDE PlaceFacts DEF item
        <5>1. QED
          BY <1>2, <3>2, Appended
      <4> HIDE PlaceFacts DEF item
      <4>2. PICK s : s = Append(block, item)
        OBVIOUS
      <4>3. Ordered(s, Lo + Len(stdout)) /\ Len(s) = Len(block) + 1 /\ block' = s
        BY <3>1, <4>1, <4>2, Zenon
      <4>4. QED
        BY <4>3 DEF Ordered
    <3>4. Ordered(stdout', Lo) /\ Ordered(block', Lo + Len(stdout'))
      BY <1>2, <3>1, <3>3
    <3>5. Len(stdout') = Len(stdout) /\ Len(block') = Len(block) + 1 /\ currentEntry \in Nat
      BY <3>1, <3>3
    <3>6. Len(stdout') + Len(block') = currentEntry + 1 - Lo
      <4>1. Len(stdout) \in Nat /\ Len(block) \in Nat /\ Lo \in Nat
            /\ Len(stdout) + Len(block) = currentEntry - Lo
        BY <1>2
      <4> HIDE PlaceFacts
      <4>2. QED
        BY <3>5, <4>1
    <3>7. QED
      BY <3>4, <3>6
  <2>3. CASE job.mode = "avro" /\ ~(Len(block) < BlockRecords)
    <3>1. stdout' = stdout \o block /\ block' = << item >>
      BY <2>3 DEF Write
    <3>2. Ordered(stdout', Lo) /\ Len(stdout') = Len(stdout) + Len(block)
      BY <1>2, <3>1, Concatenated
    <3>3. Len(block') = 1 /\ block'[1] = item
      BY <3>1
    <3>4. Ordered(block', currentEntry)
      BY <1>2, <3>3 DEF Ordered
    <3>5. Lo + Len(stdout') = currentEntry
      BY <1>2, <3>2
    <3>6. QED
      BY <1>2, <3>2, <3>3, <3>4, <3>5
  <2>4. QED
    BY <2>1, <2>2, <2>3
<1>4. Lo' = Lo /\ Hi' = Hi /\ Regular' /\ Entries(fileIndex)' = Entries(fileIndex)
  BY JobKept
<1>5. Done' = currentEntry + 1 - Lo /\ currentEntry' <= Hi
  BY <1>2, <1>4, RoomForOne DEF Done
<1>6. OutputInv'
  BY <1>1, <1>3, <1>4, <1>5 DEF OutputInv, Ordered, Item
<1>7. Place'
  <2>1. /\ reader.file = fileIndex /\ reader.entry \in 0 .. Entries(fileIndex) - 1
        /\ currentEntry = job.base[fileIndex] + reader.entry
    BY <1>1, CurrentFacts
  <2>2. QED
    BY <1>2, <1>4, <2>1 DEF Place, InLoops
<1>8. DumpInv'
  BY DEF DumpInv
<1>9. QED
  BY <1>4, <1>6, <1>7, <1>8 DEF Core

LEMMA PrintRecordCore ==
  ASSUME IInv, BlockInv', PrintRecord
  PROVE  Core'
<1>1. /\ pc = "entry" /\ ~EndReached /\ pc' = "next" /\ UNCHANGED <<job, reader, fileIndex>>
      /\ currentEntry' = currentEntry + 1 /\ Write(Item(currentEntry, Current))
  BY DEF PrintRecord, AtRecord, walkerVars
<1>2. Current = currentEntry
  BY <1>1, CurrentFacts DEF Current
<1>3. QED
  BY <1>1, <1>2, WrittenCore

LEMMA NextEntryCore ==
  ASSUME IInv, BlockInv', NextEntry \/ NextFile
  PROVE  Core'
<1> USE PlaceFacts
<1>1. /\ pc = "next" /\ pc' \in {"entry", "file"} /\ UNCHANGED <<job, stdout, block, currentEntry>>
  BY DEF NextEntry, NextFile, walkerVars
<1>2. /\ Lo' = Lo /\ Hi' = Hi /\ Regular'
  BY <1>1, JobKept
<1>3. /\ InLoops /\ fileIndex < job.files /\ reader.file = fileIndex
      /\ reader.entry \in 0 .. Entries(fileIndex) - 1
      /\ currentEntry = job.base[fileIndex] + reader.entry + 1 /\ currentEntry >= Lo
  BY <1>1, FileFacts DEF InLoops, Place
<1>4. OutputInv'
  BY <1>1, <1>2, OutputKept DEF Done, OutputInv
<1>5. DumpInv'
  BY <1>1 DEF DumpInv
<1>6. Place'
  <2>1. CASE NextEntry
    <3>1. /\ reader'.file = reader.file /\ reader'.entry = reader.entry + 1 /\ pc' = "entry"
          /\ fileIndex' = fileIndex /\ reader.entry + 1 < Entries(fileIndex)
      BY <1>3, <2>1 DEF NextEntry, TypeInv, TypeOK, WalkerTypeOK, Readers
    <3>2. job.base[fileIndex] \in Nat /\ Entries(fileIndex) \in Nat
          /\ Entries(fileIndex)' = Entries(fileIndex)
      BY <1>1, <1>3, <3>1, FileFacts, JobKept
    <3>3. reader'.entry \in 0 .. Entries(fileIndex) - 1
          /\ currentEntry = job.base[fileIndex] + reader'.entry
      BY <1>3, <3>1, <3>2
    <3>4. QED
      BY <1>1, <1>2, <1>3, <3>1, <3>2, <3>3 DEF Place, InLoops
  <2>2. CASE NextFile
    <3>1. fileIndex' = fileIndex + 1 /\ pc' = "file" /\ reader.entry + 1 >= Entries(fileIndex)
      BY <1>3, <2>2 DEF NextFile
    <3>2. currentEntry = job.base[fileIndex + 1]
      BY <1>3, <3>1, FileFacts
    <3>3. QED
      BY <1>1, <3>1, <3>2 DEF Place, InLoops
  <2>3. QED
    BY <2>1, <2>2
<1>7. QED
  BY <1>2, <1>4, <1>5, <1>6 DEF Core

\* dumpRaw hands C++ a buffer for the one entry.
LEMMA HandedCore ==
  ASSUME IInv, pc \in {"entry", "copy"}, ~EndReached, job.mode = "dump",
         NEW cap \in Nat \ {0}, buffer' = Writable(cap), copying' = Call(currentEntry, 1), pc' = "copy",
         UNCHANGED <<job, reader, fileIndex, currentEntry, walker, header, block, stdout, lost, code>>
  PROVE  BlockInv' => Core'
<1> USE PlaceFacts
<1>1. InLoops /\ fileIndex < job.files /\ pc # "exit" /\ pc' # "exit"
  BY DEF InLoops
<1>2. Lo' = Lo /\ Hi' = Hi /\ Regular' /\ Entries(fileIndex)' = Entries(fileIndex)
  BY JobKept
<1>3. Place'
  BY <1>1, <1>2, FileFacts, CurrentFacts DEF Place, InLoops
<1>4. OutputInv'
  BY <1>1, <1>2, OutputKept DEF Done, OutputInv
<1>5. fileIndex = 0
  BY <1>1 DEF Regular, OneForDump
<1>6. Unread' /\ copying'.entry = currentEntry
  BY DEF Unread, Call, Writable
<1>7. DumpInv'
  BY <1>5, <1>6 DEF DumpInv, EndReached
<1>8. QED
  BY <1>2, <1>3, <1>4, <1>7 DEF Core

LEMMA CopiesCore ==
  ASSUME IInv, BlockInv', DumpCopies
  PROVE  Core'
<1> USE PlaceFacts
<1>1. pc = "copy" /\ pc' = "copy" /\ UNCHANGED mainVars /\ UNCHANGED job /\ InLoops
  BY DEF DumpCopies, mainVars, Poll, CopyFits, CopyTooSmall, InLoops
<1>2. /\ job.mode = "dump" /\ ~EndReached /\ fileIndex = 0 /\ copying.entry = currentEntry
      /\ Unread \/ ReadNow \/ NoRoom
  BY <1>1 DEF DumpInv
<1>3. /\ copying \in Copyings /\ buffer \in Buffers /\ reader \in Readers
  BY DEF TypeInv, TypeOK, WalkerTypeOK
<1>4. /\ job.base[fileIndex] = 0 /\ reader.file = fileIndex /\ reader.entry = currentEntry
      /\ RecordAt(reader.file, currentEntry) = currentEntry
  BY <1>1, <1>2, CurrentFacts, TypeFacts DEF LayoutOK
<1>5. Lo' = Lo /\ Hi' = Hi /\ Regular' /\ Entries(fileIndex)' = Entries(fileIndex)
  BY <1>1, JobKept DEF mainVars
<1>6. OutputInv'
  BY <1>1, <1>5, OutputKept DEF mainVars, Done, OutputInv
<1>7. ASSUME InLoop
      PROVE  /\ Unread /\ Written = << >> /\ Source = currentEntry
             /\ SetEntry => reader' = reader
  <2>1. Unread
    BY <1>2, <1>7 DEF InLoop, Unread, ReadNow, NoRoom
  <2>2. copying.entry + copying.i = currentEntry
    BY <1>2, <2>1 DEF Unread
  <2>3. SetEntry => reader' = reader
    BY <1>3, <1>4, <2>2 DEF SetEntry, Readers
  <2>4. QED
    BY <1>4, <2>1, <2>2, <2>3 DEF Written, Source, Unread
<1>8. reader' = reader /\ copying'.entry = copying.entry /\ (Unread' \/ ReadNow' \/ NoRoom')
  <2>1. CASE Poll
    <3>1. reader' = reader /\ buffer' = buffer /\ copying' = [copying EXCEPT !.phase = "loop"]
      BY <2>1 DEF Poll
    <3>2. copying'.n = copying.n /\ copying'.i = copying.i /\ copying'.entry = copying.entry
      BY <1>3, <3>1 DEF Copyings
    <3>3. QED
      BY <1>1, <1>2, <3>1, <3>2 DEF Unread, ReadNow, NoRoom, Status, mainVars
  <2>2. CASE CopyFits
    <3>1. InLoop /\ SetEntry /\ copying' = [copying EXCEPT !.i = @ + 1]
          /\ buffer'.slots = Append(Written, [status |-> StatusReading, rec |-> Source])
      BY <1>3, <2>2 DEF CopyFits, Buffers
    <3>2. copying'.n = 1 /\ copying'.i = 1 /\ copying'.entry = copying.entry
      BY <1>3, <1>7, <3>1 DEF Copyings, Unread
    <3>3. buffer'.slots[1] = [status |-> StatusReading, rec |-> currentEntry]
      BY <1>7, <3>1
    <3>4. QED
      BY <1>1, <1>7, <3>1, <3>2, <3>3 DEF ReadNow, mainVars
  <2>3. CASE CopyTooSmall
    <3>1. InLoop /\ SetEntry /\ copying' = [copying EXCEPT !.n = copying.i]
          /\ buffer'.slots = Append(Written, [status |-> StatusTooSmall, rec |-> Garbage])
      BY <1>3, <2>3 DEF CopyTooSmall, Buffers
    <3>2. copying'.n = 0 /\ copying'.i = 0 /\ copying'.entry = copying.entry
      BY <1>3, <1>7, <3>1 DEF Copyings, Unread
    <3>3. buffer'.slots[1].status = StatusTooSmall
      BY <1>7, <3>1
    <3>4. QED
      BY <1>7, <3>1, <3>2, <3>3 DEF NoRoom, Status
  <2>4. QED
    BY <2>1, <2>2, <2>3 DEF DumpCopies
<1>9. DumpInv'
  BY <1>1, <1>2, <1>8 DEF DumpInv, EndReached, mainVars
<1>10. Place'
  <2>1. reader'.file = fileIndex' /\ reader'.entry = reader.entry /\ reader.entry \in 0 .. Entries(fileIndex) - 1
    BY <1>1, <1>4, <1>8 DEF mainVars
  <2>2. currentEntry' = currentEntry /\ fileIndex' = fileIndex /\ job' = job /\ pc' = "copy"
    BY <1>1 DEF mainVars
  <2>3. currentEntry >= Lo /\ currentEntry = job.base[fileIndex] + reader.entry
    BY <1>1, CurrentFacts DEF Place
  <2>4. currentEntry = job.base[fileIndex] + reader.entry + 0
    BY <1>4
  <2>5. QED
    BY <1>5, <2>1, <2>2, <2>3, <2>4 DEF Place, InLoops
<1>11. QED
  BY <1>5, <1>6, <1>9, <1>10 DEF Core

LEMMA DumpCore ==
  ASSUME IInv, BlockInv', Dump
  PROVE  Core'
<1> USE PlaceFacts
<1>1. CASE StartDump
  <2>1. buffer.cap \in Nat \ {0}
    BY TypeFacts
  <2>2. QED
    BY <1>1, <2>1, HandedCore DEF StartDump, AtRecord
<1>2. CASE DumpCopies
  BY <1>2, CopiesCore
<1>3. CASE DumpGrows
  <2>1. 2 * buffer.cap \in Nat \ {0}
    <3>1. buffer.cap \in Nat \ {0}
      BY TypeFacts
    <3> HIDE PlaceFacts
    <3>2. QED
      BY <3>1
  <2>2. pc = "copy" /\ job.mode = "dump" /\ ~EndReached
    BY <1>3 DEF DumpGrows, DumpInv
  <2>3. QED
    BY <1>3, <2>1, <2>2, HandedCore DEF DumpGrows, mainVars
<1>4. CASE DumpWrites
  <2>1. /\ pc = "copy" /\ pc' = "next" /\ UNCHANGED <<job, reader, fileIndex>>
        /\ currentEntry' = currentEntry + 1 /\ block' = block
        /\ copying.i >= copying.n /\ Status = StatusReading
        /\ stdout' = Append(stdout, Item(currentEntry, buffer.slots[1].rec))
    BY <1>4 DEF DumpWrites, CopyReturns, walkerVars
  <2>2. ReadNow /\ job.mode = "dump" /\ ~EndReached
    BY <2>1 DEF DumpInv, Unread, NoRoom, StatusReading, StatusTooSmall
  <2>3. Write(Item(currentEntry, currentEntry))
    BY <2>1, <2>2 DEF ReadNow, Write
  <2>4. QED
    BY <2>1, <2>2, <2>3, WrittenCore
<1>5. QED
  BY <1>1, <1>2, <1>3, <1>4 DEF Dump

LEMMA InitCore == Init /\ Regular => IInv
<1> SUFFICES ASSUME Init, Regular PROVE IInv
  OBVIOUS
<1>1. TypeInv
  BY InitType
<1>2. BlockInv /\ DumpInv
  BY DEF Init, BlockInv, DumpInv, InLoops
<1>3. pc = "file" /\ currentEntry = 0 /\ fileIndex = 0 /\ stdout = << >> /\ block = << >>
  BY DEF Init
<1>4. Place
  BY <1>1, <1>3, TypeFacts DEF Place, InLoops, LayoutOK
<1>5. Done = 0 /\ ~(currentEntry > Lo)
  BY <1>1, <1>3, RangeFacts DEF Done
<1>6. Len(stdout) = 0 /\ Len(block) = 0
  BY <1>3
<1>7. OutputInv
  BY <1>3, <1>5, <1>6 DEF OutputInv, Ordered
<1>8. QED
  BY <1>1, <1>2, <1>4, <1>7 DEF IInv, Core

LEMMA StutterCore ==
  ASSUME IInv, UNCHANGED vars
  PROVE  Core'
<1>1. UNCHANGED <<job, reader, buffer, copying>> /\ UNCHANGED mainVars
  BY DEF vars, walkerVars
<1>2. Lo' = Lo /\ Hi' = Hi /\ Regular' = Regular /\ Entries(fileIndex)' = Entries(fileIndex)
  BY <1>1, JobKept DEF mainVars
<1>3. BlockInv' /\ Place' /\ DumpInv'
  BY <1>1, <1>2 DEF IInv, Core, mainVars, BlockInv, Place, DumpInv, InLoops, EndReached, Unread, ReadNow,
                    NoRoom, Status
<1>4. OutputInv'
  BY <1>1, <1>2 DEF IInv, Core, mainVars, OutputInv, Ordered, Done, ConvertsTheRange, SuccessIsComplete,
                    Converted, Unmarked
<1>5. QED
  BY <1>2, <1>3, <1>4 DEF IInv, Core

LEMMA NextCore == IInv /\ [Next]_vars => IInv'
<1> SUFFICES ASSUME IInv, [Next]_vars PROVE Core'
  BY NextType DEF IInv
<1>1. BlockInv'
  BY BlockStep DEF IInv, Core
<1>2. CASE OverFiles
  BY <1>1, <1>2, FileFailsCore, SkipFileCore, EnterFileCore, EndCore DEF OverFiles
<1>3. CASE OverEntries
  BY <1>1, <1>3, EndCore, PrintRecordCore, PrintFailsCore, NextEntryCore DEF OverEntries
<1>4. CASE Dump
  BY <1>1, <1>4, DumpCore
<1>5. CASE RecordThrows
  BY <1>1, <1>5, FileFailsCore
<1>6. CASE UNCHANGED vars
  BY <1>6, StutterCore
<1>7. QED
  BY <1>2, <1>3, <1>4, <1>5, <1>6 DEF Next

LEMMA Invariance == RegularSpec => []IInv
<1>1. RegularInit => IInv
  BY InitCore DEF RegularInit
<1>2. QED
  BY <1>1, NextCore, PTL DEF RegularSpec

(***************************************************************************)
(* For regular data of any size and every command line, also with broken   *)
(* files: the reader stands on the entry that currentEntry counts, through *)
(* skipped files, a start in the middle of one and the jumps of a dump     *)
(* (214-259, 2854-2874).                                                   *)
(***************************************************************************)
THEOREM ReaderCorrect == RegularSpec => []ReaderAtCurrentEntry
<1>1. IInv => ReaderAtCurrentEntry
  <2> SUFFICES ASSUME IInv PROVE ReaderAtCurrentEntry
    OBVIOUS
  <2>1. pc = "entry" => currentEntry = job.base[fileIndex] + reader.entry /\ reader.file = fileIndex
    BY CurrentFacts
  <2>2. QED
    BY <2>1 DEF IInv, Core, Place, InLoops, ReaderAtCurrentEntry
<1>2. QED
  BY <1>1, Invariance, PTL

(***************************************************************************)
(* For the same data: what has been converted are the first records of the *)
(* range --start .. --end, in order, none twice and none left out, at any  *)
(* time and in every mode (253-339).                                       *)
(***************************************************************************)
THEOREM RangeCorrect == RegularSpec => []ConvertsTheRange
<1>1. IInv => ConvertsTheRange
  <2> SUFFICES ASSUME IInv, pc # "exit" PROVE ConvertsTheRange
    BY DEF IInv, Core, OutputInv
  <2>1. /\ TypeInv /\ BlockInv /\ OutputInv
    BY PlaceFacts
  <2>2. /\ Converted \in Seq(Items) /\ Len(Converted) = Done /\ Ordered(Converted, Lo) /\ Done \in Nat
    BY <2>1, OutputFacts
  <2>3. Done > 0 => Lo + Done <= Hi
    BY <2>1, RangeFacts, TypeFacts DEF OutputInv, Done
  <2>4. Done = 0 => Converted = << >>
    BY <2>2, EmptySeq
  <2>5. DOMAIN Converted = 1 .. Len(Converted)
    BY <2>2, LenProperties
  <2>6. QED
    BY <2>2, <2>3, <2>4, <2>5 DEF ConvertsTheRange, Ordered
<1>2. QED
  BY <1>1, Invariance, PTL

(***************************************************************************)
(* For the same data: exit code 0 means that the range is complete on      *)
(* standard output, the last block of the Avro writer included (219-236,   *)
(* 274-277, 354-362).                                                      *)
(***************************************************************************)
THEOREM SuccessCorrect == RegularSpec => []SuccessIsComplete
<1>1. IInv => SuccessIsComplete
  BY DEF IInv, Core, OutputInv, SuccessIsComplete
<1>2. QED
  BY <1>1, Invariance, PTL

-----------------------------------------------------------------------------
(***************************************************************************)
(* The refinement: what a dump writes is the stream external.scala reads.  *)
(***************************************************************************)
LEMMA StreamInit == IInv /\ Init => StreamOf!Init
<1> SUFFICES ASSUME IInv, Init PROVE StreamOf!Init
  OBVIOUS
<1>1. Lo \in Nat /\ Hi \in Nat
  BY PlaceFacts, RangeFacts
<1>2. stdout = << >> /\ StreamStatus = "running"
  BY DEF Init, StreamStatus
<1>3. QED
  BY <1>1, <1>2 DEF StreamOf!Init

\* A step that writes nothing, or not in a dump, is none of the stream.
LEMMA NoStreamStep ==
  ASSUME job' = job, StreamStatus' = StreamStatus, job.mode = "dump" => stdout' = stdout
  PROVE  UNCHANGED StreamOf!streamVars
BY JobKept DEF StreamOf!streamVars

LEMMA DiesStep ==
  ASSUME job' = job, pc # "exit", pc' = "exit", code' # 0, stdout' = stdout
  PROVE  StreamOf!Die \/ UNCHANGED StreamOf!streamVars
<1>1. CASE job.mode = "dump"
  BY <1>1, JobKept DEF StreamOf!Die, StreamStatus
<1>2. CASE job.mode # "dump"
  BY <1>2, NoStreamStep DEF StreamStatus
<1>3. QED
  BY <1>1, <1>2

LEMMA StreamStep ==
  ASSUME IInv, [Next]_vars
  PROVE  [StreamOf!Next]_(StreamOf!streamVars)
<1> USE PlaceFacts
<1>1. CASE FileFails \/ RecordThrows
  <2>1. job' = job /\ pc # "exit" /\ pc' = "exit" /\ code' # 0 /\ stdout' = stdout
    BY <1>1 DEF FileFails, RecordThrows, AtFile, AtRecord, Exit, Aborted, walkerVars
  <2>2. QED
    BY <2>1, DiesStep DEF StreamOf!Next
<1>2. CASE PrintOnce
  <2>1. job' = job /\ job.mode # "dump"
    BY <1>2 DEF PrintOnce, walkerVars, EntryModes
  <2>2. QED
    BY <2>1, NoStreamStep DEF StreamStatus
<1>3. CASE SkipFile \/ NextEntry \/ NextFile \/ StartDump \/ DumpCopies \/ DumpGrows
  <2>1. job' = job /\ pc # "exit" /\ pc' # "exit" /\ stdout' = stdout
    BY <1>3 DEF SkipFile, AtFile, NextEntry, NextFile, StartDump, AtRecord, DumpCopies, DumpGrows,
                Poll, CopyFits, CopyTooSmall, mainVars, walkerVars
  <2>2. QED
    BY <2>1, NoStreamStep DEF StreamStatus
<1>4. CASE EnterFile
  <2>1. job' = job /\ pc # "exit" /\ stdout' = stdout /\ (pc' = "exit" => job.mode # "dump")
    BY <1>4 DEF EnterFile, AtFile, HeaderFails, Exit, AvroModes
  <2>2. QED
    BY <2>1, NoStreamStep DEF StreamStatus
<1>5. CASE AllFilesDone \/ ReachEnd
  <2>1. job' = job /\ pc # "exit" /\ pc' = "exit" /\ code' = 0
    BY <1>5 DEF AllFilesDone, ReachEnd, Exit, walkerVars
  <2>2. CASE job.mode # "dump"
    BY <2>1, <2>2, NoStreamStep DEF StreamStatus
  <2>3. CASE job.mode = "dump"
    <3>1. stdout' = Append(stdout, StreamOf!EndMarker)
      BY <1>5, <2>3 DEF AllFilesDone, ReachEnd, EndMarker, Item, StreamOf!EndMarker, StreamOf!Item
    <3>2. Len(stdout) = Done
      <4>1. block = << >>
        BY <2>3 DEF BlockInv
      <4>2. Len(block) = 0 /\ Len(stdout) \in Nat
        BY <4>1, TypeFacts, LenProperties
      <4>3. QED
        BY <2>1, <4>2 DEF OutputInv
    <3>3. Lo < Hi => Done = Hi - Lo
      BY <1>5, RangeComplete
    <3>4. Lo + Len(stdout) >= Hi
      BY <3>2, <3>3, RangeFacts DEF Done
    <3>5. StreamOf!Finish
      BY <2>1, <2>3, <3>1, <3>4, JobKept DEF StreamOf!Finish, StreamStatus
    <3>6. QED
      BY <3>5 DEF StreamOf!Next
  <2>4. QED
    BY <2>2, <2>3
<1>6. CASE PrintRecord \/ PrintFails
  <2>1. job' = job /\ job.mode # "dump"
    BY <1>6 DEF PrintRecord, PrintFails, Refuses, AvroModes, walkerVars
  <2>2. QED
    BY <2>1, NoStreamStep DEF StreamStatus
<1>7. CASE DumpWrites
  <2>1. /\ job' = job /\ pc = "copy" /\ pc' = "next"
        /\ copying.i >= copying.n /\ Status = StatusReading
        /\ stdout' = Append(stdout, Item(currentEntry, buffer.slots[1].rec))
    BY <1>7 DEF DumpWrites, CopyReturns, walkerVars
  <2>2. ReadNow /\ job.mode = "dump" /\ ~EndReached
    BY <2>1 DEF DumpInv, Unread, NoRoom, StatusReading, StatusTooSmall
  <2>3. Lo + Len(stdout) = currentEntry
    <3>1. block = << >>
      BY <2>2 DEF BlockInv
    <3>2. Len(block) = 0 /\ Len(stdout) \in Nat
      BY <3>1, TypeFacts, LenProperties
    <3>3. QED
      BY <2>1, <3>2, RangeFacts DEF OutputInv, InLoops
  <2>4. currentEntry + 1 <= Hi
    BY <2>1, <2>2, RoomForOne
  <2>5. stdout' = Append(stdout, StreamOf!Item(currentEntry, currentEntry))
    BY <2>1, <2>2 DEF ReadNow, Item, StreamOf!Item
  <2>6. StreamOf!Send
    BY <2>1, <2>2, <2>3, <2>4, <2>5, RangeFacts, JobKept DEF StreamOf!Send, StreamStatus
  <2>7. QED
    BY <2>6 DEF StreamOf!Next
<1>8. CASE UNCHANGED vars
  <2>1. job' = job /\ pc' = pc /\ code' = code /\ stdout' = stdout
    BY <1>8 DEF vars, walkerVars, mainVars
  <2>2. StreamStatus' = StreamStatus
    BY <2>1 DEF StreamStatus
  <2>3. QED
    BY <2>1, <2>2, NoStreamStep
<1>9. QED
  BY <1>1, <1>2, <1>3, <1>4, <1>5, <1>6, <1>7, <1>8
  DEF Next, OverFiles, OverEntries, Dump, StreamOf!Next

(***************************************************************************)
(* For one file of any size and every command line, a dump writes to its   *)
(* standard output what ExternalIterator takes a process to write: the     *)
(* records of the range in order under their numbers and then the end      *)
(* marker, or less of it when it fails (321-340, 2854-2874).               *)
(***************************************************************************)
THEOREM StreamCorrect == RegularSpec => ImplementsStream
<1>1. RegularInit => StreamOf!Init
  BY InitCore, StreamInit DEF RegularInit
<1>2. IInv /\ [Next]_vars => [StreamOf!Next]_(StreamOf!streamVars)
  BY StreamStep
<1>3. QED
  BY <1>1, <1>2, Invariance, PTL DEF RegularSpec, ImplementsStream, StreamOf!Stream

-----------------------------------------------------------------------------
(***************************************************************************)
(* Why the program ends: the number of steps left falls with every step.   *)
(***************************************************************************)
Nearer == StepsLeft' < StepsLeft /\ StepsLeft \in Nat

\* A call of copyToBuffer that found too little room tells the truth.
RoomInv == pc = "copy" /\ copying.n = 0 => Width(currentEntry) > buffer.cap

LEMMA EntryInside ==
  ASSUME IInv, pc # "exit"
  PROVE  /\ Total \in Nat /\ currentEntry \in 0 .. Total
         /\ pc \in {"entry", "copy"} => currentEntry + 1 \in 0 .. Total
<1> USE PlaceFacts
<1>1. Total \in Nat /\ currentEntry \in Nat
  BY RangeFacts
<1>2. CASE pc = "file"
  <2>1. currentEntry = job.base[fileIndex] /\ LayoutOK(job)
    BY <1>2, TypeFacts DEF Place
  <2>2. job.base[fileIndex] <= job.base[job.files]
    BY <2>1, TypeFacts DEF LayoutOK
  <2>3. QED
    BY <1>1, <1>2, <2>1, <2>2 DEF Total
<1>3. CASE InLoops
  <2>1. /\ job.base[fileIndex] \in Nat /\ Entries(fileIndex) \in Nat
        /\ job.base[fileIndex] + Entries(fileIndex) <= Total
    BY <1>3, FileFacts
  <2>2. /\ reader.entry \in 0 .. Entries(fileIndex) - 1
        /\ currentEntry = job.base[fileIndex] + reader.entry + (IF pc = "next" THEN 1 ELSE 0)
    BY <1>3 DEF Place
  <2> HIDE PlaceFacts
  <2>3. QED
    BY <1>1, <2>1, <2>2
<1>4. QED
  BY <1>2, <1>3 DEF IInv, TypeInv, TypeOK, InLoops

LEMMA Offsets ==
  ASSUME TypeInv, NEW c \in 0 .. Total, NEW d \in 0 .. Total, c <= d
  PROVE  /\ job.off[c] \in Nat /\ job.off[d] \in Nat /\ job.off[c] <= job.off[d]
         /\ c < d => job.off[c] < job.off[d]
<1>1. LayoutOK(job) /\ Total \in Nat
  BY TypeFacts, RangeFacts
<1>2. /\ job.off[c] \in Nat /\ job.off[d] \in Nat
      /\ c < d => job.off[c] < job.off[d]
  BY <1>1 DEF LayoutOK, Total
<1>3. QED
  BY <1>1, <1>2

LEMMA StepsNat ==
  ASSUME TypeInv, NEW c \in 0 .. Total
  PROVE  /\ StepsFrom(c) \in Nat
         /\ c < Total => StepsFrom(c) > 0
<1>1. Total \in Nat /\ Total \in 0 .. Total /\ c <= Total
  BY RangeFacts
<1>2. job.off[c] \in Nat /\ job.off[Total] \in Nat /\ job.off[c] <= job.off[Total]
  BY <1>1, Offsets
<1>3. job.files \in Nat /\ fileIndex \in 0 .. job.files
  BY TypeFacts
<1>4. PICK bytes \in Nat, entries \in Nat, files \in Nat :
        /\ bytes = job.off[Total] - job.off[c] /\ entries = Total - c /\ files = job.files - fileIndex
  <2>1. job.off[Total] - job.off[c] \in Nat
    BY <1>2
  <2>2. Total - c \in Nat /\ job.files - fileIndex \in Nat
    BY <1>1, <1>3
  <2>3. QED
    BY <2>1, <2>2
<1>5. StepsFrom(c) = 3 * bytes + 2 * entries + 2 * files
  BY <1>4 DEF StepsFrom
<1>6. c < Total => entries > 0
  BY <1>1, <1>4
<1>7. QED
  BY <1>5, <1>6

\* The byte for the status makes every record longer than nothing.
LEMMA ShortFacts ==
  ASSUME IInv, pc \in {"entry", "copy"}
  PROVE  /\ Width(currentEntry) = job.off[currentEntry + 1] - job.off[currentEntry]
         /\ Width(currentEntry) \in Nat \ {0}
         /\ Shortage(currentEntry) \in 0 .. Width(currentEntry) - 1
         /\ CallSteps \in 0 .. 2
<1>1. /\ Total \in Nat /\ currentEntry \in 0 .. Total /\ currentEntry + 1 \in 0 .. Total
  BY EntryInside
<1>2. TypeInv /\ LayoutOK(job) /\ buffer.cap \in Nat \ {0}
  BY TypeFacts DEF IInv
<1>3. currentEntry \in Records /\ currentEntry # Garbage
  BY <1>1, GarbageAssumption DEF Records
<1>4. Width(currentEntry) \in Nat \ {0}
  BY <1>2, <1>3, WidthType
<1>5. Shortage(currentEntry) \in 0 .. Width(currentEntry) - 1
  BY <1>2, <1>4 DEF Shortage
<1>6. QED
  BY <1>3, <1>4, <1>5 DEF Width, CallSteps

LEMMA LeftNat ==
  ASSUME IInv, pc # "exit"
  PROVE  StepsLeft \in Nat \ {0}
<1>1. /\ TypeInv /\ Total \in Nat /\ currentEntry \in 0 .. Total
      /\ pc \in {"entry", "copy"} => currentEntry + 1 \in 0 .. Total
  BY EntryInside DEF IInv
<1>2. CASE pc = "copy"
  <2>1. StepsFrom(currentEntry + 1) \in Nat
    BY <1>1, <1>2, StepsNat
  <2>2. Shortage(currentEntry) \in Nat /\ CallSteps \in Nat
    BY <1>2, ShortFacts
  <2>3. QED
    BY <1>2, <2>1, <2>2 DEF StepsLeft
<1>3. CASE pc # "copy"
  <2>1. StepsFrom(currentEntry) \in Nat /\ (pc = "entry" => StepsFrom(currentEntry) > 0)
    BY <1>1, StepsNat
  <2>2. QED
    BY <1>3, <2>1 DEF StepsLeft
<1>4. QED
  BY <1>2, <1>3

LEMMA ExitNearer ==
  ASSUME IInv, pc # "exit", pc' = "exit"
  PROVE  Nearer
<1>1. StepsLeft \in Nat \ {0}
  BY LeftNat
<1>2. StepsLeft' = 0
  BY DEF StepsLeft
<1>3. QED
  BY <1>1, <1>2 DEF Nearer

\* The steps between records: files and entries are passed, or a loop is entered.
LEMMA MoveNearer ==
  ASSUME IInv, pc \in {"file", "entry", "next"}, pc' \in {"file", "entry", "next"}, job' = job,
         fileIndex' \in fileIndex .. job.files, currentEntry' \in currentEntry .. Total,
         pc = "entry" => currentEntry' > currentEntry,
         pc # "entry" => pc' = "entry" \/ fileIndex' > fileIndex
  PROVE  Nearer
<1>1. /\ TypeInv /\ Total \in Nat /\ currentEntry \in 0 .. Total /\ currentEntry' \in 0 .. Total
      /\ Total' = Total /\ Total \in 0 .. Total /\ currentEntry' <= Total
      /\ currentEntry <= currentEntry'
  BY EntryInside, JobKept DEF IInv
<1>2. /\ job.off[currentEntry] \in Nat /\ job.off[currentEntry'] \in Nat /\ job.off[Total] \in Nat
      /\ job.off[currentEntry] <= job.off[currentEntry'] /\ job.off[currentEntry'] <= job.off[Total]
  BY <1>1, Offsets
<1>3. job.files \in Nat /\ fileIndex \in 0 .. job.files
  BY <1>1, TypeFacts
<1>4. /\ StepsLeft = IF pc = "entry" THEN StepsFrom(currentEntry) ELSE StepsFrom(currentEntry) + 1
      /\ StepsLeft' = IF pc' = "entry" THEN StepsFrom(currentEntry)' ELSE StepsFrom(currentEntry)' + 1
  BY DEF StepsLeft
<1>5. StepsLeft \in Nat
  BY LeftNat
<1>6. /\ StepsFrom(currentEntry) = 3 * (job.off[Total] - job.off[currentEntry])
                                   + 2 * (Total - currentEntry) + 2 * (job.files - fileIndex)
      /\ StepsFrom(currentEntry)' = 3 * (job.off[Total] - job.off[currentEntry'])
                                   + 2 * (Total - currentEntry') + 2 * (job.files - fileIndex')
  BY <1>1 DEF StepsFrom
<1>7. StepsLeft' < StepsLeft
  BY <1>1, <1>2, <1>3, <1>4, <1>6
<1>8. QED
  BY <1>5, <1>7 DEF Nearer

\* The call of copyToBuffer for one record, from the next entry's point of view.
LEMMA CopyLeft ==
  ASSUME IInv, pc = "copy"
  PROVE  /\ StepsFrom(currentEntry + 1) \in Nat
         /\ StepsLeft = StepsFrom(currentEntry + 1) + 2 + 3 * Shortage(currentEntry) + CallSteps
         /\ Shortage(currentEntry) \in Nat /\ CallSteps \in 0 .. 2
         /\ copying \in Copyings /\ buffer \in Buffers
BY EntryInside, StepsNat, ShortFacts DEF StepsLeft, IInv, TypeInv, TypeOK, WalkerTypeOK

LEMMA StartNearer ==
  ASSUME IInv, StartDump
  PROVE  Nearer
<1>1. /\ pc = "entry" /\ pc' = "copy" /\ UNCHANGED <<job, fileIndex, currentEntry>>
      /\ buffer' = Writable(buffer.cap) /\ copying' = Call(currentEntry, 1)
  BY DEF StartDump, AtRecord
<1>2. /\ TypeInv /\ Total \in Nat /\ currentEntry \in 0 .. Total /\ currentEntry + 1 \in 0 .. Total
      /\ Total \in 0 .. Total /\ currentEntry + 1 <= Total /\ currentEntry <= currentEntry + 1
  BY <1>1, EntryInside DEF IInv
<1>3. PICK width \in Nat, short \in Nat, rest \in Nat :
        /\ width = job.off[currentEntry + 1] - job.off[currentEntry]
        /\ short = Shortage(currentEntry) /\ short < width
        /\ rest = StepsFrom(currentEntry + 1)
  BY <1>1, <1>2, ShortFacts, StepsNat
<1>4. Shortage(currentEntry)' = short /\ CallSteps' = 2 /\ StepsFrom(currentEntry + 1)' = rest
  BY <1>1, <1>3 DEF Shortage, CallSteps, StepsFrom, Writable, Call, Width, Total
<1>5. StepsLeft' = rest + 2 + 3 * short + 2
  BY <1>1, <1>4 DEF StepsLeft
<1>6. job.off[currentEntry] \in Nat /\ job.off[currentEntry + 1] \in Nat /\ job.off[Total] \in Nat
  BY <1>2, Offsets
<1>7. job.files \in Nat /\ fileIndex \in Nat
  BY <1>2, TypeFacts
<1>8. StepsFrom(currentEntry) = rest + 3 * width + 2
  BY <1>2, <1>3, <1>6, <1>7 DEF StepsFrom
<1>9. StepsLeft = rest + 3 * width + 2
  BY <1>1, <1>8 DEF StepsLeft
<1>10. QED
  BY <1>3, <1>5, <1>9 DEF Nearer

LEMMA CopyNearer ==
  ASSUME IInv, DumpCopies
  PROVE  Nearer
<1>1. pc = "copy" /\ pc' = "copy" /\ UNCHANGED <<job, fileIndex, currentEntry>>
  BY DEF DumpCopies, mainVars, Poll, CopyFits, CopyTooSmall
<1>2. copying \in Copyings /\ buffer \in Buffers
  BY <1>1, CopyLeft
<1>3. buffer'.cap = buffer.cap
  BY <1>2 DEF DumpCopies, Poll, CopyFits, CopyTooSmall, Buffers
<1>4. Unread \/ ReadNow \/ NoRoom
  BY <1>1, PlaceFacts DEF DumpInv
<1>5. CallSteps \in Nat /\ CallSteps' < CallSteps
  <2>1. CASE Poll
    BY <1>2, <2>1 DEF Poll, CallSteps, Copyings
  <2>2. CASE CopyFits \/ CopyTooSmall
    <3>1. copying.phase = "loop" /\ copying.i < copying.n /\ copying.n = 1 /\ copying.i = 0
      BY <1>4, <2>2 DEF CopyFits, CopyTooSmall, InLoop, Unread, ReadNow, NoRoom
    <3>2. copying'.phase = "loop" /\ copying'.i >= copying'.n
      BY <1>2, <2>2, <3>1 DEF CopyFits, CopyTooSmall, Copyings
    <3>3. copying'.i \in Nat /\ copying'.n \in Nat
      BY <1>2, <2>2, <3>1 DEF CopyFits, CopyTooSmall, Copyings
    <3>4. QED
      BY <3>1, <3>2, <3>3 DEF CallSteps
  <2>3. QED
    BY <2>1, <2>2 DEF DumpCopies
<1>6. Shortage(currentEntry)' = Shortage(currentEntry) /\ StepsFrom(currentEntry + 1)' = StepsFrom(currentEntry + 1)
  BY <1>1, <1>3 DEF Shortage, StepsFrom, Width, Total
<1>7. StepsLeft' = StepsFrom(currentEntry + 1) + 2 + 3 * Shortage(currentEntry) + CallSteps'
  BY <1>1, <1>6 DEF StepsLeft
<1>8. CallSteps' \in 0 .. 2
  BY DEF CallSteps
<1>9. QED
  BY <1>1, <1>5, <1>7, <1>8, CopyLeft DEF Nearer

\* The doubled buffer lacks less of a record that did not fit.
LEMMA GrowNearer ==
  ASSUME IInv, RoomInv, DumpGrows
  PROVE  Nearer
<1>1. /\ pc = "copy" /\ pc' = "copy" /\ UNCHANGED <<job, fileIndex, currentEntry>>
      /\ copying.phase = "loop" /\ copying.i >= copying.n /\ Status = StatusTooSmall
      /\ buffer' = Writable(2 * buffer.cap) /\ copying' = Call(currentEntry, 1)
  BY DEF DumpGrows, mainVars
<1>2. copying.n = 0
  BY <1>1, PlaceFacts DEF DumpInv, Unread, ReadNow, NoRoom, Status, StatusTooSmall, StatusReading
<1>3. PICK width \in Nat, cap \in Nat \ {0}, rest \in Nat, steps \in Nat :
        /\ width = Width(currentEntry) /\ cap = buffer.cap
        /\ rest = StepsFrom(currentEntry + 1) /\ steps = CallSteps
  BY <1>1, CopyLeft, ShortFacts DEF Buffers
<1>4. width > cap
  BY <1>1, <1>2, <1>3 DEF RoomInv
<1>5. /\ Width(currentEntry)' = width /\ StepsFrom(currentEntry + 1)' = rest
      /\ buffer'.cap = 2 * cap /\ CallSteps' = 2
  BY <1>1, <1>3 DEF Width, StepsFrom, Total, Writable, Call, CallSteps
<1>6. Shortage(currentEntry) = width - cap /\ Shortage(currentEntry)' = IF width > 2 * cap THEN width - 2 * cap ELSE 0
  BY <1>3, <1>4, <1>5 DEF Shortage
<1>7. PICK short \in Nat : Shortage(currentEntry)' = short /\ short <= width - cap - 1
  <2>1. (IF width > 2 * cap THEN width - 2 * cap ELSE 0) \in Nat
    BY <1>3
  <2>2. (IF width > 2 * cap THEN width - 2 * cap ELSE 0) <= width - cap - 1
    BY <1>3, <1>4
  <2>3. QED
    BY <1>6, <2>1, <2>2
<1>8. StepsLeft' = rest + 2 + 3 * short + 2
  BY <1>1, <1>5, <1>7 DEF StepsLeft
<1>9. StepsLeft = rest + 2 + 3 * (width - cap) + steps
  BY <1>1, <1>3, <1>6, CopyLeft
<1>10. QED
  BY <1>3, <1>4, <1>7, <1>8, <1>9 DEF Nearer

LEMMA DumpedNearer ==
  ASSUME IInv, DumpWrites
  PROVE  Nearer
<1>1. /\ pc = "copy" /\ pc' = "next" /\ UNCHANGED <<job, fileIndex>>
      /\ currentEntry' = currentEntry + 1
  BY DEF DumpWrites, CopyReturns, walkerVars
<1>2. StepsFrom(currentEntry)' = StepsFrom(currentEntry + 1)
  BY <1>1 DEF StepsFrom, Total
<1>3. StepsLeft' = StepsFrom(currentEntry + 1) + 1
  BY <1>1, <1>2 DEF StepsLeft
<1>4. QED
  BY <1>1, <1>3, CopyLeft DEF Nearer

LEMMA RoomStep == IInv /\ RoomInv /\ [Next]_vars => RoomInv'
<1> SUFFICES ASSUME IInv, RoomInv, [Next]_vars, pc' = "copy", copying'.n = 0
             PROVE  (Width(currentEntry) > buffer.cap)'
  BY DEF RoomInv
<1>1. DumpCopies \/ UNCHANGED vars
  BY DEF Next, OverFiles, OverEntries, Dump, RecordThrows, FileFails, SkipFile, PrintOnce, EnterFile, AllFilesDone,
         ReachEnd, PrintRecord, PrintFails, NextEntry, NextFile, StartDump, DumpGrows, DumpWrites, Exit,
         AtFile, AtRecord, Call, mainVars
<1>2. pc = "copy" /\ UNCHANGED <<job, currentEntry>>
  BY <1>1 DEF DumpCopies, vars, mainVars, walkerVars, Poll, CopyFits, CopyTooSmall
<1>3. Width(currentEntry)' = Width(currentEntry)
  BY <1>2 DEF Width
<1>4. copying \in Copyings /\ buffer \in Buffers
  BY <1>2, CopyLeft
<1>5. buffer'.cap = buffer.cap
  BY <1>1, <1>4 DEF DumpCopies, vars, walkerVars, Poll, CopyFits, CopyTooSmall, Buffers
<1>6. CASE copying.n = 0
  BY <1>2, <1>3, <1>5, <1>6 DEF RoomInv
<1>7. CASE copying.n # 0
  <2>1. CopyTooSmall
    BY <1>1, <1>4, <1>7 DEF DumpCopies, vars, walkerVars, Poll, CopyFits, Copyings
  <2>2. Unread
    BY <1>2, <1>7, <2>1, PlaceFacts DEF DumpInv, ReadNow, NoRoom, CopyTooSmall, InLoop
  <2>3. /\ fileIndex = 0 /\ copying.entry = currentEntry /\ copying.i = 0 /\ buffer.ptr = 0
    BY <1>2, <2>2, PlaceFacts DEF DumpInv, Unread
  <2>4. /\ currentEntry = job.base[fileIndex] + reader.entry /\ reader.file = fileIndex
        /\ RecordAt(reader.file, reader.entry) = currentEntry
    BY <1>2, CurrentFacts
  <2>5. job.base[0] = 0 /\ currentEntry \in Nat /\ reader.entry \in Int
    BY PlaceFacts, TypeFacts DEF LayoutOK
  <2>6. Source = currentEntry
    BY <2>3, <2>4, <2>5 DEF Source
  <2>7. ~(buffer.ptr + Width(currentEntry) <= buffer.cap)
    BY <2>1, <2>6 DEF CopyTooSmall, Fits
  <2>8. Width(currentEntry) \in Nat /\ buffer.cap \in Nat
    BY <1>2, <1>4, ShortFacts DEF Buffers
  <2>9. Width(currentEntry) > buffer.cap
    BY <2>3, <2>7, <2>8
  <2>10. QED
    BY <1>3, <1>5, <2>9
<1>8. QED
  BY <1>6, <1>7

LEMMA StepNearer ==
  ASSUME IInv, RoomInv, Next
  PROVE  Nearer
<1>1. CASE FileFails \/ PrintOnce \/ AllFilesDone \/ ReachEnd \/ PrintFails \/ RecordThrows
  BY <1>1, ExitNearer DEF FileFails, PrintOnce, AllFilesDone, ReachEnd, PrintFails, RecordThrows, Exit,
     AtFile, AtRecord
<1>2. CASE SkipFile
  <2>1. /\ pc = "file" /\ pc' = "file" /\ job' = job /\ fileIndex < job.files
        /\ fileIndex' = fileIndex + 1 /\ currentEntry' = currentEntry + Entries(fileIndex)
    BY <1>2 DEF SkipFile, AtFile
  <2>2. /\ Entries(fileIndex) \in Nat /\ currentEntry = job.base[fileIndex]
        /\ job.base[fileIndex + 1] = job.base[fileIndex] + Entries(fileIndex)
        /\ job.base[fileIndex + 1] <= Total /\ currentEntry \in Nat
    BY <2>1, PlaceFacts, FileFacts DEF Place
  <2>3. Total \in Nat /\ fileIndex \in Nat /\ job.files \in Nat
    BY PlaceFacts, RangeFacts, TypeFacts
  <2>4. fileIndex' \in fileIndex .. job.files /\ currentEntry' \in currentEntry .. Total /\ fileIndex' > fileIndex
    BY <2>1, <2>2, <2>3
  <2>5. QED
    BY <2>1, <2>4, MoveNearer
<1>3. CASE EnterFile
  <2>1. /\ pc = "file" /\ (pc' = "exit" \/ pc' = "entry") /\ UNCHANGED <<job, fileIndex>>
        /\ fileIndex < job.files /\ SetFirstEntry
    BY <1>3 DEF EnterFile, AtFile, Exit
  <2>2. currentEntry' \in currentEntry .. Total
    <3>1. job.start \in Nat \cup {NA} /\ currentEntry \in 0 .. Total /\ Total \in Nat
      BY <2>1, PlaceFacts, TypeFacts, EntryInside DEF ParametersOK
    <3>2. CASE job.start # NA /\ job.start > currentEntry
      <4>1. currentEntry' = job.start /\ job.start < currentEntry + Entries(fileIndex) /\ job.start \in Nat
        <5>1. currentEntry' = job.start /\ job.start \in Nat
          BY <2>1, <3>1, <3>2 DEF SetFirstEntry
        <5>2. Entries(fileIndex) \in Nat
          BY <2>1, PlaceFacts, FileFacts
        <5>3. ~(job.start >= currentEntry + Entries(fileIndex))
          BY <1>3, <3>2 DEF EnterFile, ComesAfter
        <5>4. QED
          BY <3>1, <5>1, <5>2, <5>3
      <4>2. currentEntry + Entries(fileIndex) <= Total /\ Entries(fileIndex) \in Nat
        BY <2>1, PlaceFacts, FileFacts DEF Place
      <4>3. QED
        BY <3>1, <3>2, <4>1, <4>2
    <3>3. CASE ~(job.start # NA /\ job.start > currentEntry)
      BY <2>1, <3>1, <3>3 DEF SetFirstEntry
    <3>4. QED
      BY <3>2, <3>3
  <2>3. fileIndex' \in fileIndex .. job.files
    BY <2>1, PlaceFacts, TypeFacts
  <2>4. QED
    BY <2>1, <2>2, <2>3, ExitNearer, MoveNearer
<1>4. CASE PrintRecord
  <2>1. /\ pc = "entry" /\ pc' = "next" /\ UNCHANGED <<job, fileIndex>> /\ currentEntry' = currentEntry + 1
    BY <1>4 DEF PrintRecord, AtRecord, walkerVars
  <2>2. /\ currentEntry \in 0 .. Total /\ currentEntry + 1 \in 0 .. Total /\ Total \in Nat
    BY <2>1, EntryInside
  <2>3. currentEntry' \in currentEntry .. Total /\ currentEntry' > currentEntry
    BY <2>1, <2>2
  <2>4. fileIndex' \in fileIndex .. job.files
    BY <2>1, PlaceFacts, TypeFacts
  <2>5. QED
    BY <2>1, <2>3, <2>4, MoveNearer
<1>5. CASE NextEntry \/ NextFile
  <2>1. /\ pc = "next" /\ UNCHANGED <<job, currentEntry>>
        /\ (pc' = "entry" /\ fileIndex' = fileIndex) \/ (pc' = "file" /\ fileIndex' = fileIndex + 1)
    BY <1>5 DEF NextEntry, NextFile, walkerVars
  <2>2. fileIndex < job.files /\ fileIndex \in Nat /\ job.files \in Nat
    BY <2>1, PlaceFacts, TypeFacts DEF InLoops
  <2>3. fileIndex' \in fileIndex .. job.files /\ (pc' = "entry" \/ fileIndex' > fileIndex)
    BY <2>1, <2>2
  <2>4. currentEntry' \in currentEntry .. Total
    BY <2>1, EntryInside
  <2>5. QED
    BY <2>1, <2>3, <2>4, MoveNearer
<1>6. CASE Dump
  BY <1>6, StartNearer, CopyNearer, GrowNearer, DumpedNearer DEF Dump
<1>7. QED
  BY <1>1, <1>2, <1>3, <1>4, <1>5, <1>6 DEF Next, OverFiles, OverEntries

(***************************************************************************)
(* For regular data, every command line and every first size of the raw    *)
(* buffer: each step leaves fewer steps, so the program ends after at most *)
(* StepsLeft of its first state (214-363, 2854-2874).                      *)
(***************************************************************************)
THEOREM EndComesNearer == RegularSpec => NearerTheEnd
<1>1. RegularInit => RoomInv
  BY DEF RegularInit, Init, RoomInv
<1>2. IInv /\ RoomInv /\ [Next]_vars => [StepsLeft' < StepsLeft /\ StepsLeft \in Nat]_vars
  BY StepNearer DEF Nearer
<1>3. QED
  BY <1>1, <1>2, RoomStep, Invariance, PTL DEF RegularSpec, NearerTheEnd

-----------------------------------------------------------------------------
(***************************************************************************)
(* Why it does not stand still in dumpRaw: the byte that copyToBuffer polls*)
(* is the one it waits for (2821), the record begins before the buffer ends*)
(* (2834), so that no action is missing in DumpCopies, and what dumpRaw    *)
(* finds behind the call is an answer, not the byte it had set (2861).     *)
(***************************************************************************)
DumpGoesOn ==
  pc = "copy" =>
    /\ copying.phase = "poll" => Status = StatusWriting
    /\ InLoop => buffer.ptr < buffer.cap
    /\ copying.phase = "loop" /\ ~InLoop => Status \in {StatusTooSmall, StatusReading}

Polls == pc = "copy" /\ copying.phase = "poll"

PollInv == Polls => Status = StatusWriting

LEMMA PollStep == IInv /\ PollInv /\ [Next]_vars => PollInv'
<1> SUFFICES ASSUME IInv, PollInv, [Next]_vars, Polls'
             PROVE  Status' = StatusWriting
  BY DEF PollInv
<1>1. pc' = "copy" /\ copying'.phase = "poll"
  BY DEF Polls
<1>2. CASE StartDump \/ DumpGrows
  <2>1. PICK cap \in {buffer.cap, 2 * buffer.cap} : buffer' = Writable(cap)
    BY <1>2 DEF StartDump, DumpGrows
  <2>2. copying' = Call(currentEntry, 1)
    BY <1>2 DEF StartDump, DumpGrows
  <2>3. QED
    BY <2>1, <2>2 DEF Call, Writable, Status
<1>3. CASE DumpCopies
  <2>1. copying \in Copyings
    BY PlaceFacts DEF TypeInv, TypeOK, WalkerTypeOK
  <2>2. copying'.phase = "loop"
    BY <1>3, <2>1 DEF DumpCopies, Poll, CopyFits, CopyTooSmall, InLoop, Copyings
  <2>3. QED
    BY <1>1, <2>2
<1>4. CASE UNCHANGED vars
  <2>1. pc' = pc /\ copying' = copying /\ Status' = Status
    BY <1>4 DEF vars, mainVars, walkerVars, Status
  <2>2. QED
    BY <1>1, <2>1 DEF Polls, PollInv
<1>5. CASE OverFiles \/ OverEntries \/ DumpWrites \/ RecordThrows
  BY <1>1, <1>5 DEF OverFiles, OverEntries, RecordThrows, FileFails, SkipFile, PrintOnce, EnterFile, AllFilesDone,
     ReachEnd, PrintRecord, PrintFails, NextEntry, NextFile, DumpWrites, Exit, AtFile, AtRecord
<1>6. QED
  BY <1>2, <1>3, <1>4, <1>5 DEF Next, Dump

LEMMA GoesOn ==
  ASSUME IInv, PollInv
  PROVE  DumpGoesOn
<1> SUFFICES ASSUME pc = "copy" PROVE DumpGoesOn
  BY DEF DumpGoesOn
<1>1. copying \in Copyings /\ buffer \in Buffers
  BY PlaceFacts DEF TypeInv, TypeOK, WalkerTypeOK
<1>2. Unread \/ ReadNow \/ NoRoom
  BY PlaceFacts DEF DumpInv
<1>3. copying.phase = "poll" => Status = StatusWriting
  BY DEF PollInv, Polls
<1>4. InLoop => buffer.ptr < buffer.cap
  BY <1>1, <1>2 DEF InLoop, Unread, ReadNow, NoRoom, Buffers
<1>5. copying.phase = "loop" /\ ~InLoop => Status \in {StatusTooSmall, StatusReading}
  BY <1>2 DEF InLoop, Unread, ReadNow, NoRoom, Status
<1>6. QED
  BY <1>3, <1>4, <1>5 DEF DumpGoesOn

(***************************************************************************)
(* For regular data, every command line and every first size of the raw    *)
(* buffer, a dump never waits for a status byte that nobody sets, nor takes*)
(* the one it has set for an answer (2821, 2861-2870).  With EndComesNearer*)
(* this is why the process exits.                                          *)
(***************************************************************************)
THEOREM DumpNeverStands == RegularSpec => []DumpGoesOn
<1>1. RegularInit => PollInv
  BY DEF RegularInit, Init, PollInv, Polls
<1>2. IInv /\ PollInv => DumpGoesOn
  BY GoesOn
<1>3. QED
  BY <1>1, <1>2, PollStep, Invariance, PTL DEF RegularSpec
=============================================================================
