--------------------------- MODULE ExternalIterator ---------------------------
(***************************************************************************)
(* external.RootTreeIterator of scaroot-reader (external.scala): the same  *)
(* iterator over a root2avro process in dump mode, so that ROOT cannot     *)
(* bring the JVM down.  It is always one record ahead of its client; a     *)
(* stream that does not have the expected entry number is given up for a   *)
(* new process that starts at that entry.                                  *)
(*                                                                         *)
(* The process is DumpStream, which Root2Avro implements.  Two things come *)
(* from outside the repository: the operating system may kill the process, *)
(* and the ROOT libraries may print to its standard output and error.      *)
(***************************************************************************)
EXTENDS Integers, Sequences

CONSTANTS
  Jobs,      \* the parameters a run may be started with
  NoRecord,  \* None, and what stands in the place of a record
  PipeCap,   \* how many items a pipe holds
  MaxNoise   \* bound: how often a library prints to standard output

VARIABLES
  job,
  first, limit, log, status,   \* the current process, as in DumpStream
  pipe,        \* what it has written and nobody has read
  cut,         \* it died, and the last item in the pipe is not complete
  warned,      \* lines in the pipe of its standard error, which nobody reads
  noise,
  pc,          \* "repr", "getNext", "idle" or "unbuilt"
  built,       \* the constructor has returned
  running,     \* state is Some(process, stream)
  trials,
  entryIndex,
  theNext,
  returned,    \* history: the records next() has returned
  raised       \* history: the exception the last call ended in

processVars == <<first, limit, log, status, pipe, cut, warned>>
callerVars  == <<pc, built, running, trials, entryIndex, theNext, returned, raised>>
vars        == <<job, noise, processVars, callerVars>>

Process == INSTANCE DumpStream

(***************************************************************************)
(* The constructor's requirements (40-45).  Only the first file is read;   *)
(* total counts the entries of all files and head those of the first.      *)
(* reprFits: the repr of the tree is shorter than the pipe's buffer.       *)
(***************************************************************************)
NoEnd == -1

ParametersOK(j) ==
  /\ j.head \in Nat /\ j.total \in Nat /\ j.head <= j.total
  /\ j.start \in Nat /\ j.end \in Nat \cup {NoEnd}
  /\ j.end # NoEnd => j.start < j.end
  /\ j.numberOfTrials \in Nat \ {0}
  /\ j.libs \in BOOLEAN /\ j.reprFits \in BOOLEAN
  /\ j.warnings \in Nat

ASSUME ParametersAssumption == \A j \in Jobs : ParametersOK(j)
ASSUME SizesAssumption      == PipeCap \in Nat \ {0} /\ MaxNoise \in Nat /\ NoRecord \notin Int

NoiseItem  == Process!Item(NoRecord, NoRecord)
Before(n)  == IF job.end = NoEnd \/ n < job.end THEN n ELSE job.end
Exceptions == {"none", "EOF", "RuntimeException", "NoSuchElement"}

TypeOK ==
  /\ ParametersOK(job)
  /\ first \in Nat /\ limit \in Nat
  /\ status \in {"running", "done", "died"}
  /\ log \in Seq([entry : Nat \cup {-1}, rec : Nat \cup {NoRecord}])
  /\ pipe \in Seq([entry : Nat \cup {-1, NoRecord}, rec : Nat \cup {NoRecord}])
  /\ Len(pipe) <= PipeCap
  /\ cut \in BOOLEAN /\ built \in BOOLEAN /\ running \in BOOLEAN
  /\ warned \in 0 .. PipeCap + 1 /\ noise \in 0 .. MaxNoise
  /\ pc \in {"repr", "getNext", "idle", "unbuilt"}
  /\ trials \in 0 .. job.numberOfTrials
  /\ entryIndex \in Nat
  /\ theNext \in Nat \cup {NoRecord}
  /\ returned \in Seq(Nat)
  /\ raised \in Exceptions

Init ==
  /\ job \in Jobs
  /\ noise = 0
  /\ first = 0 /\ limit = 0 /\ log = << >> /\ status = "died"
  /\ pipe = << >> /\ cut = FALSE /\ warned = 0
  /\ pc = "repr" /\ built = FALSE /\ running = FALSE
  /\ trials = job.numberOfTrials
  /\ entryIndex = job.start
  /\ theNext = NoRecord
  /\ returned = << >> /\ raised = "none"

-----------------------------------------------------------------------------
(***************************************************************************)
(* The process.  It is blocked while the pipe it writes to is full: its    *)
(* standard output is read by getLong and factory, its standard error never*)
(* is.                                                                     *)
(***************************************************************************)
Unblocked == warned <= PipeCap
CanWrite  == running /\ Unblocked /\ Len(pipe) < PipeCap
Written   == pipe' = Append(pipe, log'[Len(log')])

Dump ==
  /\ CanWrite
  /\ Process!Send \/ Process!Finish
  /\ Written
  /\ UNCHANGED <<job, noise, cut, warned, callerVars>>

\* What the process has not flushed is lost, in the middle of an item or not.
Die ==
  /\ running
  /\ Process!Die
  /\ \E k \in 0 .. Len(pipe) : pipe' = SubSeq(pipe, 1, k)
  /\ cut' \in BOOLEAN
  /\ UNCHANGED <<job, noise, warned, callerVars>>

\* A library prints between two records: before the next one is read (dumpRaw).
Noise ==
  /\ CanWrite /\ status = "running"
  /\ noise < MaxNoise
  /\ noise' = noise + 1
  /\ pipe' = Append(pipe, NoiseItem)
  /\ UNCHANGED <<job, first, limit, log, status, cut, warned, callerVars>>

Warn ==
  /\ running /\ status = "running" /\ Unblocked
  /\ warned < job.warnings
  /\ warned' = warned + 1
  /\ UNCHANGED <<job, noise, first, limit, log, status, pipe, cut, callerVars>>

-----------------------------------------------------------------------------
(***************************************************************************)
(* restartProcess(index): no process for an index at the end.              *)
(***************************************************************************)
NoProcess == /\ running' = FALSE
             /\ status' = "died" /\ log' = << >> /\ pipe' = << >> /\ cut' = FALSE /\ warned' = 0
             /\ UNCHANGED <<first, limit>>

RestartProcess(index) ==
  IF job.end = NoEnd \/ index < job.end
  THEN /\ running' = TRUE
       /\ first' = index /\ limit' = Before(job.head)
       /\ log' = << >> /\ status' = "running"
       /\ pipe' = << >> /\ cut' = FALSE /\ warned' = 0
  ELSE NoProcess

(***************************************************************************)
(* The constructor asks a first process for the repr and waits for its end *)
(* before it reads the answer (66-69).  --libs is passed without its "=",  *)
(* which root2avro refuses (85): there is no answer.                       *)
(***************************************************************************)
ReprFails ==
  /\ pc = "repr" /\ job.libs
  /\ pc' = "unbuilt" /\ raised' = "NoSuchElement"
  /\ UNCHANGED <<job, noise, processVars, built, running, trials, entryIndex, theNext, returned>>

Repr ==
  /\ pc = "repr" /\ ~job.libs /\ job.reprFits
  /\ RestartProcess(job.start)
  /\ pc' = "getNext"
  /\ UNCHANGED <<job, noise, built, trials, entryIndex, theNext, returned, raised>>

-----------------------------------------------------------------------------
(***************************************************************************)
(* getNext, called by the constructor and by next().                       *)
(***************************************************************************)
\* Mutant: the number of trials is not looked at.
ReadsAnyway == pc = "getNext" /\ running

Reads == pc = "getNext" /\ trials > 0 /\ running

\* What next() does behind getNext; a constructor just keeps the record.
Return(record) ==
  /\ theNext' = record
  /\ returned' = IF built THEN Append(returned, theNext) ELSE returned
  /\ pc' = "idle" /\ built' = TRUE
  /\ raised' = "none"

Throw(exception) ==
  /\ raised' = exception
  /\ pc' = IF built THEN "idle" ELSE "unbuilt"
  /\ UNCHANGED <<built, theNext, returned>>

Complete == pipe # << >> /\ ~(cut /\ Len(pipe) = 1)
Take     == pipe' = Tail(pipe) /\ UNCHANGED <<first, limit, log, status, cut, warned>>

\* "normal end of stream"
ReadEnd ==
  /\ Reads /\ Complete /\ Head(pipe).entry = -1
  /\ Take
  /\ Return(NoRecord)
  /\ UNCHANGED <<job, noise, running, trials, entryIndex>>

\* "wrong entry number; restart process"
ReadWrongEntry ==
  /\ Reads /\ Complete
  /\ Head(pipe).entry \notin {-1, entryIndex}
  /\ RestartProcess(entryIndex)
  /\ trials' = trials - 1
  /\ UNCHANGED <<job, noise, pc, built, entryIndex, theNext, returned, raised>>

\* Mutant: the record is taken without a look at its entry number.
ReadAnyRecord ==
  /\ Reads /\ Complete
  /\ Head(pipe).entry # -1
  /\ Take
  /\ Return(Head(pipe).rec)
  /\ entryIndex' = entryIndex + 1
  /\ UNCHANGED <<job, noise, running, trials>>

\* Mutant: entryIndex counts what has been returned, not what has been read.
ReadRecordBehind ==
  /\ Reads /\ Complete
  /\ Head(pipe).entry = entryIndex
  /\ Take
  /\ Return(Head(pipe).rec)
  /\ entryIndex' = IF built THEN entryIndex + 1 ELSE entryIndex
  /\ UNCHANGED <<job, noise, running, trials>>

ReadRecord ==
  /\ Reads /\ Complete
  /\ Head(pipe).entry = entryIndex
  /\ Take
  /\ Return(Head(pipe).rec)
  /\ entryIndex' = entryIndex + 1
  /\ UNCHANGED <<job, noise, running, trials>>

\* Mutant: the end of the stream is taken for the end of the data.
ReadEOFAsEnd ==
  /\ Reads /\ ~Complete /\ status # "running"
  /\ pipe' = << >> /\ UNCHANGED <<first, limit, log, status, cut, warned>>
  /\ Return(NoRecord)
  /\ UNCHANGED <<job, noise, running, trials, entryIndex>>

\* getLong or factory at the end of the stream: an exception nobody catches.
ReadEOF ==
  /\ Reads /\ ~Complete /\ status # "running"
  /\ pipe' = << >> /\ UNCHANGED <<first, limit, log, status, cut, warned>>
  /\ Throw("EOF")
  /\ UNCHANGED <<job, noise, running, trials, entryIndex>>

\* Mutant: a process that cannot be started costs no trial.
NoProcessFree ==
  /\ pc = "getNext" /\ trials > 0 /\ ~running
  /\ RestartProcess(entryIndex)
  /\ UNCHANGED <<job, noise, pc, built, trials, entryIndex, theNext, returned, raised>>

\* "process died on its own; restart it"
NoProcessYet ==
  /\ pc = "getNext" /\ trials > 0 /\ ~running
  /\ RestartProcess(entryIndex)
  /\ trials' = trials - 1
  /\ UNCHANGED <<job, noise, pc, built, entryIndex, theNext, returned, raised>>

GiveUp ==
  /\ pc = "getNext" /\ trials = 0
  /\ NoProcess
  /\ Throw("RuntimeException")
  /\ UNCHANGED <<job, noise, trials, entryIndex>>

GetNext == ReadEnd \/ ReadWrongEntry \/ ReadRecord \/ ReadEOF \/ NoProcessYet \/ GiveUp

CallNext ==
  /\ pc = "idle" /\ theNext # NoRecord
  /\ pc' = "getNext" /\ trials' = job.numberOfTrials
  /\ raised' = "none"
  /\ UNCHANGED <<job, noise, processVars, built, running, entryIndex, theNext, returned>>

\* theNext.get of None
CallNextAtEnd ==
  /\ pc = "idle" /\ theNext = NoRecord
  /\ raised' = "NoSuchElement"
  /\ UNCHANGED <<job, noise, processVars, pc, built, running, trials, entryIndex, theNext, returned>>

-----------------------------------------------------------------------------
Outside == Die \/ Noise \/ Warn
Client  == CallNext \/ CallNextAtEnd
Caller  == ReprFails \/ Repr \/ GetNext

Next == Outside \/ Dump \/ Client \/ Caller

Spec == Init /\ [][Next]_vars

(***************************************************************************)
(* One file, a start inside it, and a process that says less than the pipes*)
(* nobody reads hold.                                                      *)
(***************************************************************************)
OneFile == job.head = job.total
Quiet   == job.reprFits /\ job.warnings <= PipeCap
Regular == OneFile /\ Quiet /\ job.start < job.head

RegularInit == Init /\ Regular
RegularSpec == RegularInit /\ [][Next]_vars

\* The calling thread and a process that is not blocked run; nothing makes a process fail.
FairSpec == RegularSpec /\ WF_vars(Caller) /\ WF_vars(Dump)

-----------------------------------------------------------------------------
(***************************************************************************)
(* The end of the iteration is the end of the data: a process that dies,   *)
(* prints something else or is given up never looks like it (126-127), and *)
(* no entry of any file has been left out.                                 *)
(***************************************************************************)
EndIsComplete ==
  built /\ theNext = NoRecord => Len(returned) = Before(job.total) - job.start

(***************************************************************************)
(* One record ahead (143-149), and never more: entryIndex, with which a    *)
(* process is restarted, counts the records returned and the one kept, also*)
(* behind a call that ended in an exception.                               *)
(***************************************************************************)
OneAhead ==
  pc = "idle" =>
    /\ entryIndex = job.start + Len(returned) + (IF theNext = NoRecord THEN 0 ELSE 1)
    /\ theNext # NoRecord => theNext = job.start + Len(returned)

(***************************************************************************)
(* Each call gives up some time: the retries are bounded and no read waits *)
(* for a process that does not write (117-141).                            *)
(***************************************************************************)
CallReturns == pc \in {"repr", "getNext"} ~> pc \in {"idle", "unbuilt"}

(***************************************************************************)
(* The client sees the cursor that RootTreeIterator gives it, without its  *)
(* seeks, whatever happens to the processes.                               *)
(***************************************************************************)
CursorOf == INSTANCE EntryCursor
              WITH first <- job.start, limit <- Before(job.head), Nothing <- NoRecord,
                   pos   <- job.start + Len(returned),
                   last  <- IF returned = << >> THEN NoRecord ELSE returned[Len(returned)]
ImplementsCursor == CursorOf!Cursor
=============================================================================
