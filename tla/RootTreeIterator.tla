--------------------------- MODULE RootTreeIterator ---------------------------
(***************************************************************************)
(* RootTreeIterator of scaroot-reader's reader.scala: a Scala iterator over*)
(* the entries of a list of ROOT files.  A call of next() decodes one      *)
(* record from a buffer that C++ fills with a micro-batch of records; a    *)
(* buffer that turns out too small is doubled and filled again.  The       *)
(* position is kept in four numbers ("Pack of state variables that all     *)
(* have to be kept in sync!") and in two places the numbers do not show:   *)
(* the file the C++ TreeWalker has open and the read position of the       *)
(* byte buffer.                                                            *)
(*                                                                         *)
(* JVM and C++ run in one thread: a call is a sequence of steps with       *)
(* pc # "idle", and the client acts when pc = "idle".                      *)
(***************************************************************************)
EXTENDS TreeWalker

CONSTANTS
  Client,       \* the public methods the client calls besides hasNext and next
  InitialCap,   \* the size of the first buffer, 64*1024 in the code
  SeekTargets,  \* bound: the indexes the client seeks
  MaxPastEnd,   \* bound: how far beyond Total the index is incremented
  MaxCap        \* bound: up to here old bytes may look like "too small"

VARIABLES
  pc,                 \* where the iterator's thread is
  built,              \* the constructor has returned
  target,             \* the argument of the running setIndex
  done,
  entryIndex,
  fileIndex,
  entryInFileIndex,
  microBatchIndex,
  counted,            \* the files whose entriesInFileArray is set
  rd,                 \* the slot the byteBuffer is positioned at
  out,                \* history: the record next() returned last and the index it had
  raised              \* history: the exception the last call ended in

jvmVars == <<pc, built, target, done, entryIndex, fileIndex, entryInFileIndex,
             microBatchIndex, counted, rd, out, raised>>
vars    == <<walkerVars, jvmVars>>
numbers == <<done, entryIndex, fileIndex, entryInFileIndex, microBatchIndex>>

Methods    == {"setIndex", "reset", "incrementIndex"}
Exceptions == {"none", "RuntimeException", "IllegalArgument", "ArrayIndexOutOfBounds",
               "BufferUnderflow"}

\* The constructor's requirements (160-167); an end of -1 means no end.
ParametersOK(j) ==
  /\ j.start \in Nat
  /\ j.end \in Nat \cup {-1}
  /\ j.end >= 0 => j.start < j.end
  /\ j.batch \in Nat \ {0}

ASSUME ClientAssumption     == Client \subseteq Methods /\ SeekTargets \subseteq Nat
ASSUME ParametersAssumption == \A j \in Jobs : ParametersOK(j)
ASSUME BoundsAssumption     == InitialCap \in Nat \ {0} /\ MaxPastEnd \in Nat /\ MaxCap \in Nat

NoRecord     == [at |-> -1, rec |-> Garbage]
InBounds(i)  == i >= job.start /\ (job.end >= 0 => i < job.end)
Limit        == IF job.end >= 0 /\ job.end < Total THEN job.end ELSE Total
Lost         == fileIndex >= job.files    \* indexing the per-file arrays throws

FlagsTypeOK == built \in BOOLEAN /\ done \in BOOLEAN

TypeOK ==
  /\ WalkerTypeOK
  /\ ParametersOK(job)
  /\ FlagsTypeOK
  /\ pc \in {"idle", "seek", "copy", "decode", "crashed", "unbuilt"}
  /\ target \in Nat
  /\ entryIndex \in Nat
  /\ fileIndex \in 0 .. job.files
  /\ entryInFileIndex \in Nat
  /\ microBatchIndex \in Nat
  /\ counted \subseteq Files
  /\ rd \in Nat \ {0}
  /\ out \in [at : Nat \cup {-1}, rec : Nat \cup {Garbage}]
  /\ raised \in Exceptions

(***************************************************************************)
(* The constructor has opened the first file and built the schema, which   *)
(* leaves done at whatever the last next(treeWalker) made of it; it is     *)
(* about to call setIndex(start).                                          *)
(***************************************************************************)
Init ==
  /\ job \in Jobs
  /\ reader = Opened(0)
  /\ buffer = [Writable(InitialCap) EXCEPT !.slots = << >>]
  /\ copying = Call(0, 0)
  /\ pc = "seek" /\ built = FALSE /\ target = job.start
  /\ done \in BOOLEAN
  /\ entryIndex = 0 /\ fileIndex = 0 /\ entryInFileIndex = 0 /\ microBatchIndex = 0
  /\ counted = {}
  /\ rd = 1
  /\ out = NoRecord
  /\ raised = "none"

(***************************************************************************)
(* entriesInFile(i): the first time, it opens file i to count its entries. *)
(***************************************************************************)
CountEntries(f) ==
  /\ counted' = counted \cup {f}
  /\ reader' = IF f \in counted THEN reader ELSE Opened(f)

Fails(exception) == raised' = exception /\ UNCHANGED out
Moved            == raised' = "none" /\ out' = NoRecord

-----------------------------------------------------------------------------
(***************************************************************************)
(* setIndex(index) and reset(), which is setIndex(0).                      *)
(***************************************************************************)

\* Mutant: the rest of the old micro-batch is not given up.
ZeroedButMicroBatch ==
  entryIndex' = 0 /\ fileIndex' = 0 /\ entryInFileIndex' = 0 /\ UNCHANGED microBatchIndex

Zeroed == entryIndex' = 0 /\ fileIndex' = 0 /\ entryInFileIndex' = 0 /\ microBatchIndex' = 0

SetIndex(index) ==
  /\ pc = "idle"
  /\ IF InBounds(index)
     THEN /\ Zeroed
          /\ pc' = "seek" /\ target' = index
          /\ Moved
          /\ UNCHANGED done
     ELSE Fails("IllegalArgument") /\ UNCHANGED <<pc, target, numbers>>
  /\ UNCHANGED <<walkerVars, built, counted, rd>>

Seek  == "setIndex" \in Client /\ \E i \in SeekTargets : SetIndex(i)
Reset == "reset" \in Client /\ SetIndex(0)

\* An exception in setIndex ends the constructor too, if that is the caller.
SeekFails ==
  /\ Fails("ArrayIndexOutOfBounds")
  /\ pc' = IF built THEN "idle" ELSE "unbuilt"
  /\ UNCHANGED built

(***************************************************************************)
(* The loop of setIndex while entryIndex < index.  Passing file f adds the *)
(* number of entries of file f + 1.  The test for fileIndex being past the *)
(* last file, at its top, is never true: entriesInFile(f + 1) has thrown.  *)
(***************************************************************************)
SeekPassesFile ==
  /\ pc = "seek" /\ entryIndex < target
  /\ entryIndex + Entries(fileIndex) <= target
  /\ fileIndex' = fileIndex + 1
  /\ IF fileIndex' < job.files
     THEN /\ entryIndex' = entryIndex + Entries(fileIndex')
          /\ counted' = counted \cup {fileIndex, fileIndex'}
          /\ reader' = IF fileIndex' \notin counted THEN Opened(fileIndex')
                       ELSE IF fileIndex \notin counted THEN Opened(fileIndex) ELSE reader
          /\ UNCHANGED <<pc, built, out, raised>>
     ELSE /\ SeekFails
          /\ CountEntries(fileIndex)
          /\ UNCHANGED entryIndex
  /\ UNCHANGED <<job, buffer, copying, target, done, entryInFileIndex, microBatchIndex, rd>>

\* Mutant: the operands of the subtraction are swapped.
SeekLandsBackwards ==
  /\ pc = "seek" /\ entryIndex < target
  /\ entryIndex + Entries(fileIndex) > target
  /\ CountEntries(fileIndex)
  /\ entryInFileIndex' = entryIndex - target
  /\ entryIndex' = target
  /\ UNCHANGED <<job, buffer, copying, pc, built, target, done, fileIndex, microBatchIndex,
                 rd, out, raised>>

SeekLandsInFile ==
  /\ pc = "seek" /\ entryIndex < target
  /\ entryIndex + Entries(fileIndex) > target
  /\ CountEntries(fileIndex)
  /\ entryInFileIndex' = target - entryIndex
  /\ entryIndex' = target
  /\ UNCHANGED <<job, buffer, copying, pc, built, target, done, fileIndex, microBatchIndex,
                 rd, out, raised>>

\* Mutant: the file is not opened, because counting its entries has opened it.
SeekReturnsWithoutReset ==
  /\ pc = "seek" /\ entryIndex >= target
  /\ done' = FALSE
  /\ pc' = "idle" /\ built' = TRUE
  /\ UNCHANGED <<walkerVars, target, entryIndex, fileIndex, entryInFileIndex,
                 microBatchIndex, counted, rd, out, raised>>

\* The loop is left with entryIndex at or beyond the target.
SeekReturns ==
  /\ pc = "seek" /\ entryIndex >= target
  /\ reader' = Opened(fileIndex)
  /\ done' = FALSE
  /\ pc' = "idle" /\ built' = TRUE
  /\ UNCHANGED <<job, buffer, copying, target, entryIndex, fileIndex, entryInFileIndex,
                 microBatchIndex, counted, rd, out, raised>>

-----------------------------------------------------------------------------
(***************************************************************************)
(* incrementIndex, also called by the client to skip an entry.             *)
(***************************************************************************)
\* Mutant: an off-by-one at the end of a file.
LeavesFileLate == entryInFileIndex + 1 > Entries(fileIndex)

LeavesFile == entryInFileIndex + 1 >= Entries(fileIndex)

\* Mutants: the end is tested before the index moves; only the end is tested.
ExhaustsLate ==
  \/ LeavesFile /\ fileIndex + 1 >= job.files
  \/ job.end >= 0 /\ entryIndex >= job.end
ExhaustsAtEndOnly == job.end >= 0 /\ entryIndex + 1 >= job.end

Exhausts ==
  \/ LeavesFile /\ fileIndex + 1 >= job.files
  \/ job.end >= 0 /\ entryIndex + 1 >= job.end

IncrementIndex ==
  /\ entryIndex' = entryIndex + 1
  /\ fileIndex' = IF LeavesFile THEN fileIndex + 1 ELSE fileIndex
  /\ entryInFileIndex' = IF LeavesFile THEN 0 ELSE entryInFileIndex + 1
  /\ microBatchIndex' = IF LeavesFile \/ microBatchIndex + 1 >= job.batch
                        THEN 0 ELSE microBatchIndex + 1
  /\ counted' = counted \cup {fileIndex}
  /\ reader' = IF LeavesFile /\ fileIndex + 1 < job.files THEN Opened(fileIndex + 1)
               ELSE IF fileIndex \notin counted THEN Opened(fileIndex) ELSE reader
  /\ done' = (done \/ Exhausts)

\* Beyond the last file the numbers are moved before the array access throws.
IncrementPastLastFile ==
  /\ entryIndex' = entryIndex + 1
  /\ entryInFileIndex' = entryInFileIndex + 1
  /\ microBatchIndex' = IF microBatchIndex + 1 >= job.batch THEN 0 ELSE microBatchIndex + 1
  /\ Fails("ArrayIndexOutOfBounds")
  /\ UNCHANGED <<reader, done, fileIndex, counted>>

Skip ==
  /\ "incrementIndex" \in Client
  /\ pc = "idle" /\ entryIndex < Total + MaxPastEnd
  /\ IF Lost THEN IncrementPastLastFile ELSE IncrementIndex /\ Moved
  /\ UNCHANGED <<job, buffer, copying, pc, built, target, rd>>

-----------------------------------------------------------------------------
(***************************************************************************)
(* next(), up to the call of copyToBuffer.                                 *)
(***************************************************************************)
Remaining == Entries(fileIndex) - entryInFileIndex

\* Mutant: the last micro-batch of a file is not cut short.
WholeMicroBatch == job.batch

ThisMicroBatchSize == IF Remaining > job.batch THEN job.batch ELSE Remaining

\* Hand C++ a writable buffer and ask for what is left of the micro-batch.
Fill(cap) ==
  /\ CountEntries(fileIndex)
  /\ buffer' = Writable(cap)
  /\ copying' = Call(entryInFileIndex, ThisMicroBatchSize)
  /\ pc' = "copy"

\* thisMicroBatchSize throws after the status byte has been set.
FillBeyondLastFile(cap) ==
  /\ buffer' = Writable(cap)
  /\ Fails("ArrayIndexOutOfBounds")
  /\ UNCHANGED <<job, reader, copying, built, target, done, entryIndex, fileIndex,
                 entryInFileIndex, counted, rd>>

NextWhenDone ==
  /\ pc = "idle" /\ done
  /\ Fails("RuntimeException")
  /\ UNCHANGED <<walkerVars, pc, built, target, numbers, counted, rd>>

NextFills ==
  /\ pc = "idle" /\ ~done /\ microBatchIndex = 0 /\ ~Lost
  /\ Fill(buffer.cap)
  /\ UNCHANGED <<job, built, target, numbers, rd, out, raised>>

NextBeyondLastFile ==
  /\ pc = "idle" /\ ~done /\ microBatchIndex = 0 /\ Lost
  /\ FillBeyondLastFile(buffer.cap)
  /\ UNCHANGED <<pc, microBatchIndex>>

NextFromBuffer ==
  /\ pc = "idle" /\ ~done /\ microBatchIndex # 0
  /\ Lost => entryIndex < Total + MaxPastEnd
  /\ pc' = "decode"
  /\ UNCHANGED <<walkerVars, built, target, numbers, counted, rd, out, raised>>

(***************************************************************************)
(* The C++ side of the call.  A write behind the buffer's limit corrupts   *)
(* the heap: the process dies of it or goes on.                            *)
(***************************************************************************)
CopyStep ==
  /\ pc = "copy"
  /\ Poll \/ CopyFits \/ CopyTooSmall
  /\ UNCHANGED jvmVars

CopyOverruns ==
  /\ pc = "copy"
  /\ CopyPastLimit
  /\ pc' \in {"copy", "crashed"}
  /\ UNCHANGED <<built, target, numbers, counted, rd, out, raised>>

\* Mutant: the buffer is not rewound.
CopyEndsWithoutRewind ==
  /\ pc = "copy"
  /\ CopyReturns
  /\ pc' = "decode"
  /\ UNCHANGED <<built, target, numbers, counted, rd, out, raised>>

\* byteBuffer.rewind()
CopyEnds ==
  /\ pc = "copy"
  /\ CopyReturns
  /\ pc' = "decode"
  /\ rd' = 1
  /\ UNCHANGED <<built, target, numbers, counted, out, raised>>

(***************************************************************************)
(* The status byte at the read position and the record behind it.  Behind  *)
(* the written slots lie old bytes, which may say anything, or the limit of*)
(* the buffer, where there is no byte to read.                             *)
(***************************************************************************)
OnSlot     == rd \in DOMAIN buffer.slots
StatusRead == IF OnSlot THEN {buffer.slots[rd].status}
              ELSE IF buffer.overrun THEN {} ELSE BufferStatus
RecordRead == IF OnSlot THEN buffer.slots[rd].rec ELSE Garbage
Readable   == StatusRead \ {StatusTooSmall} # {}

\* Mutants: the buffer grows as if each record of the micro-batch were as large; the
\* retry uses the same buffer again.
GrownForBatch == 2 * job.batch * buffer.cap
NotGrown      == buffer.cap

Grown == 2 * buffer.cap

\* The while loop: a larger buffer, filled from the entry to be read.
Retry ==
  /\ pc = "decode"
  /\ StatusTooSmall \in StatusRead
  /\ OnSlot \/ buffer.cap < MaxCap
  /\ microBatchIndex' = 0
  /\ IF Lost
     THEN FillBeyondLastFile(Grown) /\ pc' = "idle"
     ELSE /\ Fill(Grown)
          /\ UNCHANGED <<job, built, target, done, entryIndex, fileIndex, entryInFileIndex,
                         rd, out, raised>>

\* factory(byteBufferDataStream), then incrementIndex()
Deliver ==
  /\ pc = "decode"
  /\ Readable
  /\ rd' = IF OnSlot THEN rd + 1 ELSE rd    \* where in the old bytes does not matter
  /\ IF Lost
     THEN IncrementPastLastFile
     ELSE /\ IncrementIndex
          /\ out' = [at |-> entryIndex, rec |-> RecordRead]
          /\ raised' = "none"
  /\ pc' = "idle"
  /\ UNCHANGED <<job, buffer, copying, built, target>>

\* Reading at the limit of the buffer throws, and so may decoding old bytes.
DecodeFails ==
  /\ pc = "decode"
  /\ StatusRead = {} \/ (Readable /\ RecordRead = Garbage)
  /\ Fails("BufferUnderflow")
  /\ pc' = "idle"
  /\ UNCHANGED <<walkerVars, built, target, numbers, counted, rd>>

-----------------------------------------------------------------------------
CallNext == NextWhenDone \/ NextFills \/ NextBeyondLastFile \/ NextFromBuffer

\* The steps a call takes once the client has made it.
Work ==
  \/ SeekPassesFile \/ SeekLandsInFile \/ SeekReturns
  \/ CopyStep \/ CopyOverruns \/ CopyEnds
  \/ Retry \/ Deliver \/ DecodeFails

Next == CallNext \/ Seek \/ Reset \/ Skip \/ Work

Spec == Init /\ [][Next]_vars

(***************************************************************************)
(* The data sets and clients for which the iterator keeps its promise: no  *)
(* file is empty, the start is inside the data, and either nobody moves the*)
(* cursor to another place than 0 or all files have the same size, which is*)
(* when the sum in SeekPassesFile is right.                                *)
(***************************************************************************)
NonEmpty    == \A f \in Files : Entries(f) > 0
EqualSizes  == \A f \in Files : Entries(f) = Entries(0)
OnlyForward == job.start = 0 /\ "setIndex" \notin Client
Regular     == NonEmpty /\ job.start < Total /\ (EqualSizes \/ OnlyForward)

RegularInit == Init /\ Regular
RegularSpec == RegularInit /\ [][Next]_vars

\* A call runs to its end on the thread that made it; the client may stop calling.
RegularFairSpec == RegularSpec /\ WF_vars(Work)

-----------------------------------------------------------------------------
(***************************************************************************)
(* next() returns the record whose number index had when it was called:    *)
(* through refills, retries with a larger buffer, changes of file and seeks*)
(* in the middle of a micro-batch (next, 293-330).                         *)
(***************************************************************************)
DeliversIndexed == out # NoRecord => out.rec = out.at

(***************************************************************************)
(* "All have to be kept in sync!" (180): between the steps of next() the   *)
(* position in the file and the index name the same record, and it exists. *)
(***************************************************************************)
NumbersInSync ==
  pc \in {"idle", "copy", "decode"} /\ ~Lost =>
    /\ entryInFileIndex < Entries(fileIndex)
    /\ entryIndex = job.base[fileIndex] + entryInFileIndex

(***************************************************************************)
(* Between calls the rest of the micro-batch in the buffer is what will be *)
(* asked for next, and next() will not run into old bytes (278-282, 299).  *)
(***************************************************************************)
BufferInSync ==
  pc = "idle" /\ microBatchIndex # 0 /\ ~Lost =>
    /\ OnSlot \/ buffer.overrun
    /\ \A k \in rd .. Len(buffer.slots) :
         buffer.slots[k].status = StatusReading => buffer.slots[k].rec = entryIndex + (k - rd)

(***************************************************************************)
(* copyToBuffer is asked for entries the open file has, of the right file: *)
(* the lazy count of entries re-opens files behind the numbers' back (190).*)
(***************************************************************************)
CopiesTheMicroBatch ==
  pc = "copy" /\ InLoop => Source = entryIndex + copying.i

(***************************************************************************)
(* hasNext (292) is true exactly while there is an entry before the end.   *)
(***************************************************************************)
HasNextExact == pc = "idle" => (done <=> entryIndex >= Limit)

(***************************************************************************)
(* The only exceptions are the two that the code throws on purpose         *)
(* (203, 295).                                                             *)
(***************************************************************************)
OnlyDeclaredErrors == raised \notin {"ArrayIndexOutOfBounds", "BufferUnderflow"}

(***************************************************************************)
(* "the only error we handle" (305): a record that does not fit is reported*)
(* as too small and never written behind the buffer.                       *)
(***************************************************************************)
NoOverrun == ~buffer.overrun

(***************************************************************************)
(* "buffer size is adaptive" (README): the buffer is doubled only if some  *)
(* micro-batch of one file needs more than it had.                         *)
(***************************************************************************)
BatchBytes(g, n) == job.off[g + n] - job.off[g]

BufferNoLargerThanNeeded ==
  \/ buffer.cap = InitialCap
  \/ \E f \in Files : \E e \in 0 .. Entries(f) - 1 :
       \E n \in 1 .. job.batch :
         e + n <= Entries(f) /\ 2 * BatchBytes(job.base[f] + e, n) > buffer.cap

(***************************************************************************)
(* Every call returns: the poll for the status byte in copyToBuffer ends   *)
(* and so does the doubling of the buffer.                                 *)
(***************************************************************************)
Busy        == pc \in {"seek", "copy", "decode"}
CallReturns == Busy ~> ~Busy

\* At most so many steps of the call: a buffer that the record at the position does
\* not fit is doubled once for each byte at most, in four steps, before the call
\* that copies the micro-batch.
StepsLeft ==
  LET short == Shortage(entryIndex)
      size  == ThisMicroBatchSize
  IN  CASE pc = "seek" -> (job.files - fileIndex) + (IF entryIndex < target THEN 2 ELSE 1)
        [] pc = "copy" -> 4 * short + (size - copying.i) + 2 + CallSteps
        [] pc = "decode" /\ microBatchIndex # 0 -> 4 * short + size + 5
        [] pc = "decode" /\ microBatchIndex = 0 /\ short > 0 -> 4 * short + size + 1
        [] pc = "decode" /\ microBatchIndex = 0 /\ short = 0 -> 1
        [] OTHER -> 0

(***************************************************************************)
(* Why it returns: each step of a call leaves fewer steps of it.  The loop *)
(* of setIndex passes files, that of copyToBuffer records, and each turn of*)
(* the loop in next() finds the buffer less short of the record that it is *)
(* about (208-219, 307-321).                                               *)
(***************************************************************************)
NearerTheReturn == [][Busy => StepsLeft' < StepsLeft /\ StepsLeft \in Nat]_vars

(***************************************************************************)
(* "while (iterator.hasNext)" (README) ends: a client that calls next() as *)
(* long as there is one, and rewinds only so often, comes to rest at the   *)
(* end of the data.                                                        *)
(***************************************************************************)
KeepsCalling == WF_vars(~done /\ CallNext) /\ <>[][~Reset]_vars
ReachesEnd   == KeepsCalling => <>[](pc = "idle" /\ done /\ entryIndex = Limit)

(***************************************************************************)
(* Both promises to a client: its calls return, and they get it somewhere. *)
(***************************************************************************)
Progress == CallReturns /\ ReachesEnd

(***************************************************************************)
(* The iterator is a seekable cursor over one sequence of records.  A seek *)
(* that fails beyond the last file leaves it where no record is.           *)
(***************************************************************************)
CursorPosition ==
  IF Lost THEN Limit
  ELSE IF pc # "seek" THEN entryIndex
  ELSE IF target < Limit THEN target ELSE Limit

CursorOf == INSTANCE EntryCursor
              WITH first <- job.start, limit <- Limit, last <- out.rec, Nothing <- Garbage,
                   pos <- CursorPosition
ImplementsCursor == CursorOf!Cursor
=============================================================================
