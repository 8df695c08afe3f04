------------------------------- MODULE Root2Avro -------------------------------
(***************************************************************************)
(* The main loop of root2avro (root2avro.cpp): one pass over a list of ROOT*)
(* files that writes the entries from --start up to --end to standard      *)
(* output.  The TreeWalker is made from the first file and reset to each of*)
(* the others; every mode has its own copy of the loop over the entries.   *)
(*                                                                         *)
(* job has these fields besides those of TreeWalker: mode, start and end   *)
(* (NA if not given), broken (the files that cannot be opened or have no   *)
(* such tree), resolveAfter (how many entries of the first file it takes   *)
(* until the types of every TClonesArray and TObjArray are known), badCodec*)
(* (Avro refuses the schema or the codec), refused (the records with a     *)
(* value Avro does not take), noSchema (an array inside the elements of    *)
(* another is still without a type when the schema is asked for) and       *)
(* throwing (the records with a TObjArray of several classes, or with an   *)
(* empty array whose type is still not known: to print or to copy one      *)
(* throws std::invalid_argument, which main does not catch).               *)
(***************************************************************************)
EXTENDS TreeWalker

CONSTANTS
  RawCap,         \* rawBufferSize, 1024 in the code
  BlockRecords    \* how many records an Avro block takes

VARIABLES
  pc,             \* "file", "entry", "copy", "next" or "exit"
  fileIndex,
  currentEntry,
  walker,         \* treeWalker is not null
  header,         \* avroHeaderPrinted
  block,          \* the records in the block the Avro writer has not written yet
  stdout,         \* the records written to the C library's stdout, each with its entry number
  lost,           \* how many of the last of them an abort left in the C library's buffer
  code            \* the exit code

mainVars == <<pc, fileIndex, currentEntry, walker, header, block, stdout, lost, code>>
vars     == <<walkerVars, mainVars>>

NA         == -1
Aborted    == 134    \* std::terminate calls abort
AvroModes  == {"avro", "avro-stream"}
EntryModes == AvroModes \cup {"json", "dump"}
OnceModes  == {"schema", "repr"}

\* What main accepts (173-176), and what the data may be like.
ParametersOK(j) ==
  /\ j.mode \in EntryModes \cup OnceModes \cup {"other"}
  /\ j.start \in Nat \cup {NA} /\ j.end \in Nat \cup {NA}
  /\ j.start # NA /\ j.end # NA => j.start <= j.end
  /\ j.broken \subseteq 0 .. j.files - 1
  /\ j.resolveAfter \in Nat
  /\ j.badCodec \in BOOLEAN
  /\ j.refused \subseteq Nat
  /\ j.noSchema \in BOOLEAN
  /\ j.throwing \subseteq Nat

ASSUME ParametersAssumption == \A j \in Jobs : ParametersOK(j)
ASSUME SizesAssumption      == RawCap \in Nat \ {0} /\ BlockRecords \in Nat \ {0}

Item(entry, record) == [entry |-> entry, rec |-> record]
EndMarker           == Item(-1, Garbage)
Items               == [entry : Nat \cup {-1}, rec : Nat \cup {Garbage}]

TypeOK ==
  /\ WalkerTypeOK
  /\ pc \in {"file", "entry", "copy", "next", "exit"}
  /\ fileIndex \in 0 .. job.files
  /\ currentEntry \in Nat
  /\ walker \in BOOLEAN /\ header \in BOOLEAN
  /\ block \in Seq(Items) /\ Len(block) <= BlockRecords
  /\ stdout \in Seq(Items)
  /\ lost \in 0 .. Len(stdout)
  /\ code \in {0, -1, Aborted}

Init ==
  /\ job \in Jobs
  /\ reader = Opened(0)
  /\ buffer = [Writable(RawCap) EXCEPT !.slots = << >>]
  /\ copying = Call(0, 0)
  /\ pc = "file" /\ fileIndex = 0 /\ currentEntry = 0
  /\ walker = FALSE /\ header = FALSE
  /\ block = << >> /\ stdout = << >> /\ lost = 0 /\ code = 0

\* Behind main the C library writes out what is left in its buffer.
Exit(c) == pc' = "exit" /\ code' = c /\ UNCHANGED lost

\* closeAvro writes the last block.
CloseAvro == stdout' = stdout \o block /\ block' = << >>

-----------------------------------------------------------------------------
(***************************************************************************)
(* The head of the loop over the files (214-251).                          *)
(***************************************************************************)
Unresolved == ~walker /\ Entries(fileIndex) < job.resolveAfter
Unusable   == fileIndex \in job.broken \/ Unresolved
AtFile     == pc = "file" /\ fileIndex < job.files

FileFails ==
  /\ AtFile /\ Unusable
  /\ Exit(-1)
  /\ UNCHANGED <<walkerVars, fileIndex, currentEntry, walker, header, block, stdout>>

\* Mutant: an off-by-one in the test for a start behind the file.
ComesAfterInclusive == job.start # NA /\ job.start > currentEntry + Entries(fileIndex)

ComesAfter == job.start # NA /\ job.start >= currentEntry + Entries(fileIndex)

\* "skip this file if the first requested entry comes after it"
SkipFile ==
  /\ AtFile /\ ~Unusable
  /\ ComesAfter
  /\ walker' = TRUE
  /\ reader' = Opened(fileIndex)
  /\ currentEntry' = currentEntry + Entries(fileIndex)
  /\ fileIndex' = fileIndex + 1
  /\ UNCHANGED <<job, buffer, copying, pc, header, block, stdout, lost, code>>

\* schema and repr print one document, which is no record; any other mode is an error.
PrintOnce ==
  /\ AtFile /\ ~Unusable /\ ~ComesAfter
  /\ job.mode \notin EntryModes
  /\ walker' = TRUE
  /\ Exit(IF job.mode = "schema" /\ job.noSchema THEN Aborted
          ELSE IF job.mode \in OnceModes THEN 0 ELSE -1)
  /\ UNCHANGED <<walkerVars, fileIndex, currentEntry, header, block, stdout>>

\* Mutant: the place in the file is taken from the beginning of the data.
EnterAtStart ==
  IF job.start # NA /\ job.start > currentEntry
  THEN reader' = [file |-> fileIndex, entry |-> job.start] /\ currentEntry' = job.start
  ELSE reader' = [file |-> fileIndex, entry |-> 0] /\ UNCHANGED currentEntry

SetFirstEntry ==
  IF job.start # NA /\ job.start > currentEntry
  THEN reader' = [file |-> fileIndex, entry |-> job.start - currentEntry] /\ currentEntry' = job.start
  ELSE reader' = [file |-> fileIndex, entry |-> 0] /\ UNCHANGED currentEntry

\* printAvroHeaderOnce does nothing from the second file on.
HeaderFails == job.mode \in AvroModes /\ ~header /\ (job.noSchema \/ job.badCodec)

EnterFile ==
  /\ AtFile /\ ~Unusable /\ ~ComesAfter
  /\ job.mode \in EntryModes
  /\ walker' = TRUE
  /\ SetFirstEntry
  /\ IF HeaderFails
     THEN Exit(IF job.noSchema THEN Aborted ELSE -1) /\ UNCHANGED header
     ELSE pc' = "entry" /\ header' = (header \/ job.mode \in AvroModes) /\ UNCHANGED <<lost, code>>
  /\ UNCHANGED <<job, buffer, copying, fileIndex, block, stdout>>

\* Behind the loop (354-362).
AllFilesDone ==
  /\ pc = "file" /\ fileIndex >= job.files
  /\ IF job.mode = "dump"
     THEN stdout' = Append(stdout, EndMarker) /\ UNCHANGED block
     ELSE CloseAvro
  /\ Exit(0)
  /\ UNCHANGED <<walkerVars, fileIndex, currentEntry, walker, header>>

-----------------------------------------------------------------------------
(***************************************************************************)
(* The loops over the entries, one per mode (253-259, 273-285, 298-310,    *)
(* 329-339): test the end, write the entry, go to the next.                *)
(***************************************************************************)
\* Mutant: the end is taken as the last entry to convert.
EndReachedAfter == job.end # NA /\ currentEntry > job.end

EndReached == job.end # NA /\ currentEntry >= job.end

\* Mutant: only the loop over the files closes the Avro file.
ReachEndWithoutClose ==
  /\ pc = "entry" /\ EndReached
  /\ stdout' = IF job.mode = "dump" THEN Append(stdout, EndMarker) ELSE stdout
  /\ Exit(0)
  /\ UNCHANGED <<walkerVars, fileIndex, currentEntry, walker, header, block>>

ReachEnd ==
  /\ pc = "entry" /\ EndReached
  /\ IF job.mode = "dump"
     THEN stdout' = Append(stdout, EndMarker) /\ UNCHANGED block
     ELSE CloseAvro
  /\ Exit(0)
  /\ UNCHANGED <<walkerVars, fileIndex, currentEntry, walker, header>>

Current  == RecordAt(reader.file, reader.entry)
Refuses  == job.mode \in AvroModes /\ Current \in job.refused
AtRecord == pc = "entry" /\ ~EndReached

\* Mutant: the block is written when it no longer fits.
WriteLate(item) ==
  IF job.mode # "avro" THEN stdout' = Append(stdout, item) /\ UNCHANGED block
  ELSE IF Len(block) <= BlockRecords THEN block' = Append(block, item) /\ UNCHANGED stdout
  ELSE stdout' = stdout \o block /\ block' = << item >>

\* The Avro writer writes a block when it is full; the other modes write at once.
Write(item) ==
  IF job.mode # "avro" THEN stdout' = Append(stdout, item) /\ UNCHANGED block
  ELSE IF Len(block) < BlockRecords THEN block' = Append(block, item) /\ UNCHANGED stdout
  ELSE stdout' = stdout \o block /\ block' = << item >>

PrintRecord ==
  /\ AtRecord /\ job.mode # "dump" /\ ~Refuses /\ Current \notin job.throwing
  /\ Write(Item(currentEntry, Current))
  /\ currentEntry' = currentEntry + 1
  /\ pc' = "next"
  /\ UNCHANGED <<walkerVars, fileIndex, walker, header, lost, code>>

\* Mutant: the block is given up with the record.
PrintFailsWithoutClose ==
  /\ AtRecord /\ Refuses
  /\ Exit(-1)
  /\ UNCHANGED <<walkerVars, fileIndex, currentEntry, walker, header, block, stdout>>

PrintFails ==
  /\ AtRecord /\ Refuses
  /\ CloseAvro
  /\ Exit(-1)
  /\ UNCHANGED <<walkerVars, fileIndex, currentEntry, walker, header>>

(***************************************************************************)
(* The exception of printJSON, printAvro or copyToBuffer ends the process  *)
(* where it is: the Avro file is not closed, and of what was written       *)
(* standard output gets only what had left the C library's buffer; every   *)
(* document of json has, by std::endl.                                     *)
(***************************************************************************)
RecordThrows ==
  /\ \/ AtRecord /\ job.mode # "dump" /\ Current \in job.throwing
     \/ pc = "copy" /\ InLoop /\ Source \in job.throwing
  /\ pc' = "exit" /\ code' = Aborted
  /\ lost' \in IF job.mode = "json" THEN {0} ELSE 0 .. Len(stdout)
  /\ UNCHANGED <<walkerVars, fileIndex, currentEntry, walker, header, block, stdout>>

(***************************************************************************)
(* dumpRaw: copyToBuffer with a micro-batch of one, into a buffer that is  *)
(* doubled until the record fits.  It is given the number of the entry in  *)
(* all the data, and reads the entry of that number in the current file.   *)
(* The one record begins at the first byte, so none is written behind the  *)
(* limit (TreeWalker's CopyPastLimit).                                     *)
(***************************************************************************)
StartDump ==
  /\ AtRecord /\ job.mode = "dump"
  /\ buffer' = Writable(buffer.cap)
  /\ copying' = Call(currentEntry, 1)
  /\ pc' = "copy"
  /\ UNCHANGED <<job, reader, fileIndex, currentEntry, walker, header, block, stdout, lost, code>>

DumpCopies ==
  /\ pc = "copy"
  /\ Poll \/ (CopyFits /\ Source \notin job.throwing) \/ CopyTooSmall
  /\ UNCHANGED mainVars

Status == buffer.slots[1].status

\* Mutant: the status byte of the larger buffer is not set.
DumpGrowsNotWritable ==
  /\ pc = "copy" /\ copying.phase = "loop" /\ copying.i >= copying.n
  /\ Status = StatusTooSmall
  /\ buffer' = NotWritable(2 * buffer.cap)
  /\ copying' = Call(currentEntry, 1)
  /\ UNCHANGED <<job, reader, mainVars>>

\* Mutant: the buffer is tried again as it is.
DumpTriesAgain ==
  /\ pc = "copy" /\ copying.phase = "loop" /\ copying.i >= copying.n
  /\ Status = StatusTooSmall
  /\ buffer' = Writable(buffer.cap)
  /\ copying' = Call(currentEntry, 1)
  /\ UNCHANGED <<job, reader, mainVars>>

DumpGrows ==
  /\ pc = "copy" /\ copying.phase = "loop" /\ copying.i >= copying.n
  /\ Status = StatusTooSmall
  /\ buffer' = Writable(2 * buffer.cap)
  /\ copying' = Call(currentEntry, 1)
  /\ UNCHANGED <<job, reader, mainVars>>

DumpWrites ==
  /\ pc = "copy" /\ CopyReturns
  /\ Status = StatusReading
  /\ stdout' = Append(stdout, Item(currentEntry, buffer.slots[1].rec))
  /\ currentEntry' = currentEntry + 1
  /\ pc' = "next"
  /\ UNCHANGED <<fileIndex, walker, header, block, lost, code>>

\* while (treeWalker->next()), and from there to the next file.
NextEntry ==
  /\ pc = "next" /\ reader.entry + 1 < Entries(reader.file)
  /\ reader' = [reader EXCEPT !.entry = @ + 1]
  /\ pc' = "entry"
  /\ UNCHANGED <<job, buffer, copying, fileIndex, currentEntry, walker, header, block, stdout, lost, code>>

NextFile ==
  /\ pc = "next" /\ reader.entry + 1 >= Entries(reader.file)
  /\ fileIndex' = fileIndex + 1
  /\ pc' = "file"
  /\ UNCHANGED <<walkerVars, currentEntry, walker, header, block, stdout, lost, code>>

-----------------------------------------------------------------------------
OverFiles   == FileFails \/ SkipFile \/ PrintOnce \/ EnterFile \/ AllFilesDone
OverEntries == ReachEnd \/ PrintRecord \/ PrintFails \/ NextEntry \/ NextFile
Dump        == StartDump \/ DumpCopies \/ DumpGrows \/ DumpWrites

Next == OverFiles \/ OverEntries \/ Dump \/ RecordThrows

Spec == Init /\ [][Next]_vars

(***************************************************************************)
(* The data root2avro converts as its help says: no file is empty, and a   *)
(* dump, which external.scala asks for one file at a time, has one file.   *)
(***************************************************************************)
NonEmpty   == \A f \in Files : Entries(f) > 0
OneForDump == job.mode = "dump" => job.files = 1
Regular    == NonEmpty /\ OneForDump

RegularInit == Init /\ Regular
RegularSpec == RegularInit /\ [][Next]_vars

\* The one thread of the program runs until main returns.
FairSpec == RegularSpec /\ WF_vars(Next)

-----------------------------------------------------------------------------
Lo == IF job.start = NA THEN 0 ELSE job.start
Hi == IF job.end # NA /\ job.end < Total THEN job.end ELSE Total

\* What has been converted, written or still in the Avro writer's block.
Unmarked(s) == IF s # << >> /\ s[Len(s)] = EndMarker THEN SubSeq(s, 1, Len(s) - 1) ELSE s
Converted   == Unmarked(stdout) \o block

(***************************************************************************)
(* "First entry number to convert", "Entry number after the last to        *)
(* convert" (README): the records converted so far are the first of the    *)
(* range, in order, none twice, each with its number in all the data.      *)
(***************************************************************************)
ConvertsTheRange ==
  /\ Lo + Len(Converted) <= Hi \/ Converted = << >>
  /\ \A k \in DOMAIN Converted : Converted[k] = Item(Lo + k - 1, Lo + k - 1)

(***************************************************************************)
(* Exit code 0 says that the whole range has been written to standard      *)
(* output: nothing is left in the block, no file was left out (219-236,    *)
(* 274-277, 354-362).                                                      *)
(***************************************************************************)
SuccessIsComplete ==
  pc = "exit" /\ code = 0 /\ job.mode \in EntryModes =>
    block = << >> /\ (Lo < Hi => Len(Converted) = Hi - Lo)

(***************************************************************************)
(* What has been converted is lost for two reasons only: a later file does *)
(* not open (233-236), or the current record makes its walker throw, which *)
(* costs the block and what stdio still holds (253-259, 279, 304, 336).  A *)
(* record that Avro refuses costs none before it (279-282).                *)
(***************************************************************************)
Threw ==
  code = Aborted /\ (IF job.mode = "dump" THEN Source ELSE Current) \in job.throwing

LossNeedsCause ==
  pc = "exit" =>
    /\ block # << >> => (code = -1 /\ fileIndex \in job.broken) \/ Threw
    /\ lost > 0 => Threw /\ job.mode # "json"

(***************************************************************************)
(* In the loop over the entries the reader stands on the entry that        *)
(* currentEntry counts (246-259), through skipped files and a start in the *)
(* middle of one.                                                          *)
(***************************************************************************)
ReaderAtCurrentEntry ==
  /\ pc = "entry" => currentEntry = job.base[fileIndex] + reader.entry /\ reader.file = fileIndex
  /\ pc = "next"  => currentEntry = job.base[fileIndex] + reader.entry + 1

(***************************************************************************)
(* The process ends: the retry in dumpRaw and its poll of the status byte  *)
(* do too (2854-2874).                                                     *)
(***************************************************************************)
Exits == <>(pc = "exit")

\* At most so many steps: three for each byte (a buffer that is doubled for a
\* record takes one byte more at least), two for each entry and each file.
StepsFrom(entry) ==
  3 * (job.off[Total] - job.off[entry]) + 2 * (Total - entry) + 2 * (job.files - fileIndex)

StepsLeft ==
  CASE pc = "exit"  -> 0
    [] pc = "entry" -> StepsFrom(currentEntry)
    [] pc = "copy"  -> StepsFrom(currentEntry + 1) + 2 + 3 * Shortage(currentEntry) + CallSteps
    [] OTHER        -> StepsFrom(currentEntry) + 1

(***************************************************************************)
(* Why it ends: no step goes back, and the steps that are left can be      *)
(* counted from the start: the loops over files and entries always move on *)
(* and each turn of dumpRaw's loop lacks fewer bytes (214-339, 2861-2866). *)
(***************************************************************************)
NearerTheEnd == [][StepsLeft' < StepsLeft /\ StepsLeft \in Nat]_vars

(***************************************************************************)
(* In dump mode standard output is the stream that external.scala reads.   *)
(***************************************************************************)
StreamStatus ==
  IF pc # "exit" \/ job.mode # "dump" THEN "running" ELSE IF code = 0 THEN "done" ELSE "died"

StreamOf == INSTANCE DumpStream
              WITH first <- Lo, limit <- Hi, status <- StreamStatus, NoRecord <- Garbage,
                   log <- IF job.mode = "dump" THEN stdout ELSE << >>
ImplementsStream == StreamOf!Stream
=============================================================================
