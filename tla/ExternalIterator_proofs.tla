------------------------ MODULE ExternalIterator_proofs ------------------------
(***************************************************************************)
(* Proofs about ExternalIterator for every number of entries, every size of*)
(* the pipes and every behaviour of the process that dies, prints something*)
(* else or is restarted: the type invariant, OneAhead and why a call ends  *)
(* for all data, and for one file EndIsComplete and the refinement of      *)
(* EntryCursor.                                                            *)
(***************************************************************************)
EXTENDS ExternalIterator, SequenceTheorems, TLAPS

StreamItem(n) == Process!Item(n, n)
EndItem       == Process!EndMarker

(***************************************************************************)
(* Types.  getNext is called by the constructor or for a client that has   *)
(* been promised a record.                                                 *)
(***************************************************************************)
TypeInv ==
  /\ TypeOK
  /\ pc = "repr" => ~built
  /\ pc = "getNext" /\ built => theNext # NoRecord

(***************************************************************************)
(* What can be in the pipe: records under their own numbers, inside the    *)
(* range the process was started for, the end marker, and noise.           *)
(***************************************************************************)
Sound(item) ==
  \/ item \in {NoiseItem, EndItem}
  \/ \E n \in Nat : n < limit /\ item = StreamItem(n)

PipeInv ==
  /\ \A k \in 1 .. Len(pipe) : Sound(pipe[k])
  /\ running => limit = Before(job.head)
  /\ ~running => pipe = << >>
  /\ cut => status = "died"

(***************************************************************************)
(* entryIndex counts the records that have been read.                      *)
(***************************************************************************)
AheadInv ==
  /\ entryIndex = job.start + Len(returned) + (IF theNext = NoRecord THEN 0 ELSE 1)
  /\ theNext # NoRecord => theNext = job.start + Len(returned) /\ theNext < Before(job.head)
  /\ ~built => returned = << >> /\ theNext = NoRecord

(***************************************************************************)
(* Up to the first noise the pipe holds what comes after the records that  *)
(* have been read, in order; nothing is missing as long as the process has *)
(* not died.  Behind an end marker that has been read nobody reads.        *)
(***************************************************************************)
Ended        == built /\ theNext = NoRecord
QuietUpTo(k) == \A j \in 1 .. k : pipe[j] # NoiseItem

InPlace(k) ==
  \/ pipe[k] = StreamItem(entryIndex + k - 1)
  \/ pipe[k] = EndItem /\ entryIndex + k - 1 >= limit

OrderInv ==
  running /\ ~Ended =>
    /\ \A k \in 1 .. Len(pipe) : QuietUpTo(k) => InPlace(k)
    /\ QuietUpTo(Len(pipe)) /\ status # "died" => entryIndex + Len(pipe) = first + Len(log)

IInv == TypeInv /\ PipeInv /\ AheadInv /\ OrderInv

-----------------------------------------------------------------------------
(***************************************************************************)
(* Types.                                                                  *)
(***************************************************************************)
LogItems  == [entry : Nat \cup {-1}, rec : Nat \cup {NoRecord}]
PipeItems == [entry : Nat \cup {-1, NoRecord}, rec : Nat \cup {NoRecord}]

LEMMA ItemTypes ==
  /\ NoiseItem \in PipeItems /\ EndItem \in LogItems
  /\ \A n \in Nat : StreamItem(n) \in LogItems
  /\ LogItems \subseteq PipeItems
BY DEF NoiseItem, EndItem, StreamItem, LogItems, PipeItems, Process!Item, Process!EndMarker

LEMMA TypeFacts ==
  ASSUME TypeInv
  PROVE  /\ ParametersOK(job) /\ job.head \in Nat /\ job.total \in Nat /\ job.start \in Nat
         /\ job.end \in Nat \cup {NoEnd} /\ job.numberOfTrials \in Nat \ {0}
         /\ first \in Nat /\ limit \in Nat /\ status \in {"running", "done", "died"}
         /\ log \in Seq(LogItems) /\ pipe \in Seq(PipeItems) /\ Len(pipe) <= PipeCap
         /\ entryIndex \in Nat /\ theNext \in Nat \cup {NoRecord} /\ returned \in Seq(Nat)
         /\ trials \in 0 .. job.numberOfTrials /\ warned \in 0 .. PipeCap + 1
         /\ cut \in BOOLEAN /\ built \in BOOLEAN /\ running \in BOOLEAN
         /\ PipeCap \in Nat \ {0} /\ NoRecord \notin Int
BY SizesAssumption DEF TypeInv, TypeOK, ParametersOK, LogItems, PipeItems

\* The process and its pipes on the one side, the caller on the other.
ProcessType ==
  /\ first \in Nat /\ limit \in Nat
  /\ status \in {"running", "done", "died"}
  /\ log \in Seq(LogItems)
  /\ pipe \in Seq(PipeItems) /\ Len(pipe) <= PipeCap
  /\ cut \in BOOLEAN /\ warned \in 0 .. PipeCap + 1 /\ noise \in 0 .. MaxNoise

CallerType ==
  /\ pc \in {"repr", "getNext", "idle", "unbuilt"}
  /\ built \in BOOLEAN /\ running \in BOOLEAN
  /\ trials \in 0 .. job.numberOfTrials
  /\ entryIndex \in Nat
  /\ theNext \in Nat \cup {NoRecord}
  /\ returned \in Seq(Nat)
  /\ raised \in Exceptions
  /\ pc = "repr" => ~built
  /\ pc = "getNext" /\ built => theNext # NoRecord

LEMMA Types == TypeInv <=> ParametersOK(job) /\ ProcessType /\ CallerType
BY DEF TypeInv, TypeOK, ProcessType, CallerType, LogItems, PipeItems

LEMMA TypesNext ==
  ASSUME ParametersOK(job)', ProcessType', CallerType'
  PROVE  TypeInv'
BY DEF TypeInv, TypeOK, ProcessType, CallerType, LogItems, PipeItems

LEMMA InitType == Init => TypeInv
<1> SUFFICES ASSUME Init PROVE TypeInv
  OBVIOUS
<1>1. ParametersOK(job)
  BY ParametersAssumption DEF Init
<1>2. ProcessType
  <2>1. /\ first = 0 /\ limit = 0 /\ log = << >> /\ status = "died" /\ pipe = << >>
        /\ cut = FALSE /\ warned = 0 /\ noise = 0
    BY DEF Init
  <2>2. << >> \in Seq(LogItems) /\ << >> \in Seq(PipeItems) /\ Len(<< >>) = 0
    OBVIOUS
  <2>3. log \in Seq(LogItems) /\ pipe \in Seq(PipeItems) /\ Len(pipe) = 0
    BY <2>1, <2>2
  <2>4. first \in Nat /\ limit \in Nat /\ status \in {"running", "done", "died"} /\ cut \in BOOLEAN
    BY <2>1
  <2>5. Len(pipe) <= PipeCap /\ warned \in 0 .. PipeCap + 1 /\ noise \in 0 .. MaxNoise
    BY <2>1, <2>3, SizesAssumption
  <2>6. QED
    BY <2>3, <2>4, <2>5 DEF ProcessType
<1>3. CallerType
  <2>1. /\ pc = "repr" /\ built = FALSE /\ running = FALSE /\ trials = job.numberOfTrials
        /\ entryIndex = job.start /\ theNext = NoRecord /\ returned = << >> /\ raised = "none"
    BY DEF Init
  <2>2. job.start \in Nat /\ job.numberOfTrials \in Nat
    BY <1>1 DEF ParametersOK
  <2>3. << >> \in Seq(Nat)
    OBVIOUS
  <2>4. returned \in Seq(Nat)
    BY <2>1, <2>3
  <2>5. trials \in 0 .. job.numberOfTrials /\ entryIndex \in Nat
    BY <2>1, <2>2
  <2>6. pc = "repr" /\ raised \in Exceptions /\ built = FALSE /\ running = FALSE /\ theNext = NoRecord
    BY <2>1 DEF Exceptions
  <2>7. QED
    BY <2>4, <2>5, <2>6 DEF CallerType
<1>4. QED
  BY <1>1, <1>2, <1>3, Types

LEMMA WriteFacts ==
  ASSUME TypeInv, Process!Send \/ Process!Finish, Written
  PROVE  /\ UNCHANGED <<first, limit>>
         /\ \/ /\ Process!Send /\ status' = status /\ first + Len(log) < limit
               /\ pipe' = Append(pipe, StreamItem(first + Len(log)))
            \/ /\ Process!Finish /\ status' = "done" /\ first + Len(log) >= limit
               /\ pipe' = Append(pipe, EndItem)
         /\ status = "running" /\ log' \in Seq(LogItems) /\ Len(log') = Len(log) + 1
<1> USE TypeFacts
<1>1. CASE Process!Send
  <2>1. StreamItem(first + Len(log)) \in LogItems
    BY ItemTypes
  <2>2. log' = Append(log, StreamItem(first + Len(log)))
    BY <1>1 DEF Process!Send, StreamItem
  <2>3. log' \in Seq(LogItems) /\ Len(log') = Len(log) + 1
        /\ log'[Len(log) + 1] = StreamItem(first + Len(log))
    BY <2>1, <2>2, AppendProperties
  <2>4. QED
    BY <1>1, <2>3 DEF Process!Send, Written
<1>2. CASE Process!Finish
  <2>1. EndItem \in LogItems
    BY ItemTypes
  <2>2. log' = Append(log, EndItem)
    BY <1>2 DEF Process!Finish, EndItem
  <2>3. log' \in Seq(LogItems) /\ Len(log') = Len(log) + 1 /\ log'[Len(log) + 1] = EndItem
    BY <2>1, <2>2, AppendProperties
  <2>4. QED
    BY <1>2, <2>3 DEF Process!Finish, Written
<1>3. QED
  BY <1>1, <1>2

\* What is left of a sequence cut off behind its k-th element.
LEMMA CutFacts ==
  ASSUME NEW S, NEW s \in Seq(S), NEW k \in 0 .. Len(s)
  PROVE  /\ SubSeq(s, 1, k) \in Seq(S) /\ Len(SubSeq(s, 1, k)) = k /\ k <= Len(s)
         /\ \A j \in 1 .. k : SubSeq(s, 1, k)[j] = s[j]
<1>1. \A j \in 1 .. k : s[j] \in S
  BY ElementOfSeq
<1>2. /\ SubSeq(s, 1, k) \in Seq(S)
      /\ Len(SubSeq(s, 1, k)) = IF 1 <= k THEN k - 1 + 1 ELSE 0
      /\ \A j \in 1 .. k - 1 + 1 : SubSeq(s, 1, k)[j] = s[1 + j - 1]
  BY <1>1, SubSeqProperties
<1>3. QED
  BY <1>2

LEMMA OutsideType ==
  ASSUME TypeInv, Dump \/ Outside
  PROVE  TypeInv'
<1> USE TypeFacts
<1>1. UNCHANGED job /\ UNCHANGED callerVars
  BY DEF Dump, Outside, Die, Noise, Warn
<1>2. ParametersOK(job') /\ CallerType'
  BY <1>1, Types DEF callerVars, CallerType
<1>3. ProcessType'
  <2>1. CASE Dump
    <3>1. /\ Process!Send \/ Process!Finish
          /\ Written /\ Len(pipe) < PipeCap /\ UNCHANGED <<noise, cut, warned>>
      BY <2>1 DEF Dump, CanWrite
    <3>2. PICK item \in PipeItems : pipe' = Append(pipe, item)
      <4>1. first + Len(log) \in Nat
        <5>1. first \in Nat /\ Len(log) \in Nat
          OBVIOUS
        <5> HIDE TypeFacts
        <5>2. QED
          BY <5>1
      <4>2. StreamItem(first + Len(log)) \in PipeItems /\ EndItem \in PipeItems
        BY <4>1, ItemTypes
      <4>3. QED
        BY <3>1, <4>2, WriteFacts
    <3>3. pipe' \in Seq(PipeItems) /\ Len(pipe') = Len(pipe) + 1
      BY <3>2, AppendProperties
    <3>4. /\ UNCHANGED <<first, limit>> /\ status' \in {"running", "done", "died"}
          /\ log' \in Seq(LogItems)
      BY <3>1, WriteFacts
    <3>5. QED
      BY <3>1, <3>3, <3>4, Types, LenProperties DEF ProcessType
  <2>2. CASE Die
    <3>1. status' = "died" /\ UNCHANGED <<first, limit, log, noise, warned>> /\ cut' \in BOOLEAN
      BY <2>2 DEF Die, Process!Die
    <3>2. PICK k \in 0 .. Len(pipe) : pipe' = SubSeq(pipe, 1, k)
      BY <2>2 DEF Die
    <3>3. pipe' \in Seq(PipeItems) /\ Len(pipe') <= Len(pipe)
      BY <3>2, CutFacts
    <3>4. QED
      BY <3>1, <3>3, Types DEF ProcessType
  <2>3. CASE Noise
    <3>1. /\ pipe' = Append(pipe, NoiseItem) /\ Len(pipe) < PipeCap /\ noise' = noise + 1 /\ noise < MaxNoise
          /\ UNCHANGED <<first, limit, log, status, cut, warned>>
      BY <2>3 DEF Noise, CanWrite
    <3>2. pipe' \in Seq(PipeItems) /\ Len(pipe') = Len(pipe) + 1
      BY <3>1, ItemTypes, AppendProperties
    <3>3. Len(pipe) \in Nat /\ PipeCap \in Nat /\ MaxNoise \in Nat /\ noise \in 0 .. MaxNoise
      BY Types, SizesAssumption, LenProperties DEF ProcessType
    <3>4. Len(pipe') <= PipeCap /\ noise' \in 0 .. MaxNoise
      BY <3>1, <3>2, <3>3
    <3>5. QED
      BY <3>1, <3>2, <3>4, Types DEF ProcessType
  <2>4. CASE Warn
    <3>1. warned' = warned + 1 /\ warned <= PipeCap /\ UNCHANGED <<noise, first, limit, log, status, pipe, cut>>
      BY <2>4 DEF Warn, Unblocked
    <3>2. warned' \in 0 .. PipeCap + 1
      <4>1. warned \in 0 .. PipeCap + 1 /\ PipeCap \in Nat
        OBVIOUS
      <4> HIDE TypeFacts
      <4>2. QED
        BY <3>1, <4>1
    <3> HIDE TypeFacts
    <3>3. QED
      BY <3>1, <3>2, Types DEF ProcessType
  <2>5. QED
    BY <2>1, <2>2, <2>3, <2>4 DEF Outside
<1>4. QED
  BY <1>2, <1>3, TypesNext

\* A process is started or not.
LEMMA RestartFacts ==
  ASSUME TypeInv, NEW index \in Nat, RestartProcess(index) \/ NoProcess
  PROVE  /\ pipe' = << >> /\ cut' = FALSE /\ warned' = 0 /\ log' = << >> /\ running' \in BOOLEAN
         /\ status' \in {"running", "died"} /\ first' \in Nat /\ limit' \in Nat
         /\ running' => RestartProcess(index) /\ first' = index /\ limit' = Before(job.head)
                        /\ (job.end # NoEnd => index < job.end)
<1> USE TypeFacts
<1>1. Before(job.head) \in Nat
  BY DEF Before
<1>2. QED
  BY <1>1 DEF RestartProcess, NoProcess

LEMMA RestartType ==
  ASSUME TypeInv, NEW index \in Nat, RestartProcess(index) \/ NoProcess, noise' = noise
  PROVE  ProcessType' /\ running' \in BOOLEAN
<1>1. << >> \in Seq(PipeItems) /\ << >> \in Seq(LogItems) /\ Len(<< >>) = 0
  OBVIOUS
<1>2. /\ pipe' = << >> /\ log' = << >> /\ cut' = FALSE /\ warned' = 0 /\ running' \in BOOLEAN
      /\ status' \in {"running", "died"} /\ first' \in Nat /\ limit' \in Nat
  BY RestartFacts
<1>3. pipe' \in Seq(PipeItems) /\ log' \in Seq(LogItems) /\ Len(pipe') = 0
  BY <1>1, <1>2
<1>4. noise \in 0 .. MaxNoise /\ PipeCap \in Nat
  BY TypeFacts, Types DEF ProcessType
<1>5. noise' \in 0 .. MaxNoise /\ Len(pipe') <= PipeCap /\ warned' \in 0 .. PipeCap + 1
  BY <1>2, <1>3, <1>4
<1>6. QED
  BY <1>2, <1>3, <1>5 DEF ProcessType

\* The head of the pipe, when it can be read.
LEMMA HeadFacts ==
  ASSUME TypeInv, Complete
  PROVE  /\ pipe # << >> /\ Head(pipe) = pipe[1] /\ Len(pipe) \in Nat \ {0} /\ pipe[1] \in PipeItems
         /\ Tail(pipe) \in Seq(PipeItems) /\ Len(Tail(pipe)) = Len(pipe) - 1
         /\ \A k \in 1 .. Len(pipe) - 1 : Tail(pipe)[k] = pipe[k + 1]
<1>1. pipe # << >> /\ pipe \in Seq(PipeItems)
  BY TypeFacts DEF Complete
<1>2. Len(pipe) \in Nat \ {0}
  BY <1>1, EmptySeq
<1>3. 1 \in 1 .. Len(pipe)
  BY <1>2
<1>4. pipe[1] \in PipeItems
  BY <1>1, <1>3, ElementOfSeq
<1>5. Head(pipe) = pipe[1]
  BY <1>1
<1>6. QED
  BY <1>1, <1>2, <1>4, <1>5, HeadTailProperties

LEMMA ReadType ==
  ASSUME TypeInv, ReadEnd \/ ReadRecord
  PROVE  TypeInv'
<1> USE TypeFacts
<1>1. /\ Complete /\ Take /\ pc = "getNext" /\ UNCHANGED <<job, noise, running, trials>>
      /\ \E r \in {NoRecord, Head(pipe).rec} : Return(r)
      /\ entryIndex' \in {entryIndex, entryIndex + 1}
  BY DEF ReadEnd, ReadRecord, Reads
<1>2. PICK r \in {NoRecord, Head(pipe).rec} : Return(r)
  BY <1>1
<1>3. r \in Nat \cup {NoRecord}
  BY <1>1, <1>2, HeadFacts DEF PipeItems
<1>4. returned' \in Seq(Nat)
  <2>1. CASE built
    <3>1. theNext \in Nat
      BY <1>1, <2>1 DEF TypeInv
    <3>2. returned' = Append(returned, theNext)
      BY <1>2, <2>1 DEF Return
    <3>3. QED
      BY <3>1, <3>2, AppendProperties
  <2>2. CASE ~built
    BY <1>2, <2>2 DEF Return
  <2>3. QED
    BY <2>1, <2>2
<1>5. CallerType'
  BY <1>1, <1>2, <1>3, <1>4, Types DEF Return, CallerType, Exceptions
<1>6. ProcessType'
  <2>1. pipe' = Tail(pipe) /\ UNCHANGED <<first, limit, log, status, cut, warned, noise>>
    BY <1>1 DEF Take
  <2>2. pipe' \in Seq(PipeItems) /\ Len(pipe') <= PipeCap
    BY <1>1, <2>1, HeadFacts
  <2>3. QED
    BY <2>1, <2>2, Types, TypesNext DEF ProcessType
<1>7. QED
  BY <1>1, <1>5, <1>6, Types, TypesNext

LEMMA CallerStepType ==
  ASSUME TypeInv, Caller \/ Client
  PROVE  TypeInv'
<1> USE TypeFacts
<1>1. CASE ReprFails
  <2>1. UNCHANGED job /\ ProcessType'
    BY <1>1, Types DEF ReprFails, processVars, ProcessType
  <2>2. CallerType'
    BY <1>1, Types DEF ReprFails, CallerType, Exceptions
  <2>3. QED
    BY <2>1, <2>2, Types, TypesNext
<1>2. CASE Repr
  <2>1. /\ RestartProcess(job.start) /\ pc = "repr" /\ pc' = "getNext"
        /\ UNCHANGED <<job, noise, built, trials, entryIndex, theNext, returned, raised>>
    BY <1>2 DEF Repr
  <2>2. ProcessType' /\ running' \in BOOLEAN
    BY <2>1, RestartType
  <2>3. CallerType'
    BY <2>1, <2>2, Types DEF CallerType
  <2>4. QED
    BY <2>1, <2>2, <2>3, Types, TypesNext
<1>3. CASE ReadEnd \/ ReadRecord
  BY <1>3, ReadType
<1>4. CASE ReadWrongEntry \/ NoProcessYet
  <2>1. /\ RestartProcess(entryIndex) /\ trials' = trials - 1 /\ trials > 0
        /\ UNCHANGED <<job, noise, pc, built, entryIndex, theNext, returned, raised>>
    BY <1>4 DEF ReadWrongEntry, NoProcessYet, Reads
  <2>2. ProcessType' /\ running' \in BOOLEAN
    BY <2>1, RestartType
  <2>3. job.numberOfTrials \in Nat /\ trials \in 0 .. job.numberOfTrials
    OBVIOUS
  <2>4. trials' \in 0 .. job'.numberOfTrials
    BY <2>1, <2>3
  <2>5. CallerType'
    BY <2>1, <2>2, <2>4, Types DEF CallerType
  <2>6. QED
    BY <2>1, <2>2, <2>5, Types, TypesNext
<1>5. CASE ReadEOF
  <2>1. /\ pipe' = << >> /\ UNCHANGED <<first, limit, log, status, cut, warned>>
        /\ Throw("EOF") /\ UNCHANGED <<job, noise, running, trials, entryIndex>>
    BY <1>5 DEF ReadEOF
  <2>2. ProcessType'
    BY <2>1, Types DEF ProcessType
  <2>3. CallerType'
    BY <2>1, Types DEF CallerType, Throw, Exceptions
  <2>4. QED
    BY <2>1, <2>2, <2>3, Types, TypesNext
<1>6. CASE GiveUp
  <2>1. NoProcess /\ Throw("RuntimeException") /\ UNCHANGED <<job, noise, trials, entryIndex>>
    BY <1>6 DEF GiveUp
  <2>2. ProcessType' /\ running' \in BOOLEAN
    BY <2>1, RestartType
  <2>3. CallerType'
    BY <2>1, <2>2, Types DEF CallerType, Throw, Exceptions
  <2>4. QED
    BY <2>1, <2>2, <2>3, Types, TypesNext
<1>7. CASE Client
  <2>1. ProcessType' /\ UNCHANGED job
    BY <1>7, Types DEF Client, CallNext, CallNextAtEnd, processVars, ProcessType
  <2>2. CallerType'
    BY <1>7, Types DEF Client, CallNext, CallNextAtEnd, CallerType, Exceptions
  <2>3. QED
    BY <2>1, <2>2, Types, TypesNext
<1>8. QED
  BY <1>1, <1>2, <1>3, <1>4, <1>5, <1>6, <1>7 DEF Caller, GetNext

LEMMA NextType == TypeInv /\ [Next]_vars => TypeInv'
<1> SUFFICES ASSUME TypeInv, [Next]_vars PROVE TypeInv'
  OBVIOUS
<1>1. CASE UNCHANGED vars
  <2>1. UNCHANGED <<job, noise>> /\ UNCHANGED processVars /\ UNCHANGED callerVars
    BY <1>1 DEF vars
  <2>2. QED
    BY <2>1, Types, TypesNext DEF processVars, callerVars, ProcessType, CallerType
<1>2. QED
  BY <1>1, OutsideType, CallerStepType DEF Next

(***************************************************************************)
(* For any data, any number of trials and whatever happens to the processes*)
(* and is printed by them: the counters stay in their ranges, no pipe holds*)
(* more than it can, and next() never returns the record of None (114-149).*)
(***************************************************************************)
THEOREM TypeCorrect == Spec => []TypeOK
<1>1. Init => TypeInv
  BY InitType
<1>2. TypeInv /\ [Next]_vars => TypeInv'
  BY NextType
<1>3. TypeInv => TypeOK
  BY DEF TypeInv
<1>4. QED
  BY <1>1, <1>2, <1>3, PTL DEF Spec

-----------------------------------------------------------------------------
(***************************************************************************)
(* The pipe, the records kept and returned, and the order of the stream.   *)
(***************************************************************************)
LEMMA ItemFacts ==
  /\ NoiseItem # EndItem /\ NoiseItem.entry = NoRecord /\ EndItem.entry = -1
  /\ \A n \in Nat : /\ StreamItem(n).entry = n /\ StreamItem(n).rec = n
                    /\ StreamItem(n) # NoiseItem /\ StreamItem(n) # EndItem
BY SizesAssumption DEF NoiseItem, EndItem, StreamItem, Process!Item, Process!EndMarker

LEMMA BeforeFacts ==
  ASSUME TypeInv, NEW n \in Nat
  PROVE  Before(n) \in Nat /\ Before(n) <= n
<1>1. job.end \in Nat \cup {NoEnd}
  BY TypeFacts
<1>2. QED
  BY <1>1 DEF Before, NoEnd

\* Nothing but a record's own number is the number of the record expected.
LEMMA HeadIsExpected ==
  ASSUME IInv, Complete, running, Head(pipe).entry = entryIndex
  PROVE  Head(pipe) = StreamItem(entryIndex) /\ entryIndex < Before(job.head)
<1>1. 1 \in 1 .. Len(pipe) /\ Head(pipe) = pipe[1]
  BY HeadFacts DEF IInv
<1>2. Sound(pipe[1]) /\ limit = Before(job.head)
  BY <1>1 DEF IInv, PipeInv
<1>3. pipe[1].entry = entryIndex /\ entryIndex \in Nat
  <2>1. entryIndex \in Nat
    BY TypeFacts DEF IInv
  <2>2. Head(pipe).entry = entryIndex /\ Head(pipe) = pipe[1]
    BY <1>1, Zenon
  <2>3. pipe[1].entry = entryIndex
    BY <2>2, Zenon
  <2>4. QED
    BY <2>1, <2>3
<1>4. pipe[1] # NoiseItem /\ pipe[1] # EndItem
  BY <1>3, ItemFacts, SizesAssumption
<1>5. PICK n \in Nat : n < limit /\ pipe[1] = StreamItem(n)
  BY <1>2, <1>4 DEF Sound
<1>6. n = entryIndex
  BY <1>3, <1>5, ItemFacts
<1>7. QED
  BY <1>1, <1>2, <1>5, <1>6

LEMMA InitInv == Init => IInv
<1> SUFFICES ASSUME Init PROVE IInv
  OBVIOUS
<1>1. TypeInv
  BY InitType
<1>2. /\ running = FALSE /\ cut = FALSE /\ pipe = << >> /\ built = FALSE /\ theNext = NoRecord
      /\ returned = << >> /\ entryIndex = job.start
  BY DEF Init
<1>3. Len(<< >>) = 0
  OBVIOUS
<1>4. Len(pipe) = 0 /\ Len(returned) = 0 /\ job.start \in Nat
  BY <1>1, <1>2, <1>3, TypeFacts
<1>5. PipeInv
  BY <1>2, <1>4 DEF PipeInv
<1>6. AheadInv
  BY <1>2, <1>4 DEF AheadInv
<1>7. OrderInv
  BY <1>2 DEF OrderInv
<1>8. QED
  BY <1>1, <1>5, <1>6, <1>7 DEF IInv

\* The process writes an item that is sound and in its place, or noise.
LEMMA WriteKeeps ==
  ASSUME IInv, NEW item \in PipeItems, Sound(item), running, status = "running",
         pipe' = Append(pipe, item), UNCHANGED <<first, limit, cut>>, UNCHANGED callerVars, job' = job,
         \/ item = NoiseItem
         \/ /\ log' \in Seq(LogItems) /\ Len(log') = Len(log) + 1
            /\ \/ item = StreamItem(first + Len(log))
               \/ item = EndItem /\ first + Len(log) >= limit
  PROVE  PipeInv' /\ AheadInv' /\ OrderInv'
<1> USE TypeFacts DEF IInv
<1>1. UNCHANGED <<pc, built, running, entryIndex, theNext, returned>>
  BY DEF callerVars
<1>2. /\ pipe' \in Seq(PipeItems) /\ Len(pipe') = Len(pipe) + 1 /\ Len(pipe) \in Nat
      /\ pipe'[Len(pipe) + 1] = item /\ \A k \in 1 .. Len(pipe) : pipe'[k] = pipe[k]
  <2>1. pipe \in Seq(PipeItems)
    OBVIOUS
  <2> HIDE TypeFacts DEF IInv
  <2>2. /\ Append(pipe, item) \in Seq(PipeItems) /\ Len(Append(pipe, item)) = Len(pipe) + 1
        /\ \A k \in 1 .. Len(pipe) : Append(pipe, item)[k] = pipe[k]
        /\ Append(pipe, item)[Len(pipe) + 1] = item
    BY <2>1, AppendProperties
  <2>3. Len(pipe) \in Nat
    BY <2>1, LenProperties
  <2>4. QED
    BY <2>2, <2>3
<1>3. PipeInv'
  <2>1. ASSUME NEW k \in 1 .. Len(pipe') PROVE Sound(pipe[k])'
    <3>1. Sound(pipe'[k])
      <4>1. CASE k = Len(pipe) + 1
        BY <4>1, <1>2
      <4>2. CASE k # Len(pipe) + 1
        <5>1. k \in 1 .. Len(pipe)
          <6> HIDE TypeFacts DEF IInv
          <6>1. QED
            BY <4>2, <1>2
        <5>2. QED
          BY <5>1, <1>2 DEF PipeInv
      <4>3. QED
        BY <4>1, <4>2
    <3>2. QED
      BY <3>1 DEF Sound
  <2>2. cut = FALSE
    BY DEF PipeInv
  <2>3. Before(job.head)' = Before(job.head)
    BY DEF Before
  <2>4. QED
    BY <1>1, <2>1, <2>2, <2>3 DEF PipeInv
<1>4. AheadInv'
  BY <1>1 DEF AheadInv, Before
<1>5. OrderInv'
  <2> SUFFICES ASSUME ~Ended'
               PROVE  /\ \A k \in 1 .. Len(pipe') : QuietUpTo(k)' => InPlace(k)'
                      /\ QuietUpTo(Len(pipe))' /\ (status # "died")' =>
                           entryIndex' + Len(pipe') = first' + Len(log')
    BY DEF OrderInv
  <2>1. ~Ended
    BY <1>1 DEF Ended
  <2>2. /\ \A k \in 1 .. Len(pipe) : QuietUpTo(k) => InPlace(k)
        /\ QuietUpTo(Len(pipe)) => entryIndex + Len(pipe) = first + Len(log)
    BY <2>1 DEF OrderInv
  <2>3. \A k \in 1 .. Len(pipe) : QuietUpTo(k)' => QuietUpTo(k)
    BY <1>2 DEF QuietUpTo
  <2>4. ASSUME NEW k \in 1 .. Len(pipe), QuietUpTo(k)' PROVE InPlace(k)'
    BY <1>1, <1>2, <2>2, <2>3, <2>4 DEF InPlace
  <2>5. ASSUME NEW k \in Nat, k = Len(pipe) + 1, QuietUpTo(k)'
        PROVE  InPlace(k)' /\ entryIndex' + k = first' + Len(log')
    <3>1. item # NoiseItem
      BY <1>2, <2>5 DEF QuietUpTo
    <3>2. QuietUpTo(Len(pipe))
      BY <1>2, <2>5 DEF QuietUpTo
    <3>3. entryIndex + Len(pipe) = first + Len(log)
      BY <2>2, <3>2
    <3>4. Len(log') = Len(log) + 1
      BY <3>1
    <3>5. /\ entryIndex' + k - 1 = first + Len(log) /\ limit' = limit
          /\ entryIndex' + k = first' + Len(log')
      <4>1. entryIndex \in Nat /\ first \in Nat /\ Len(log) \in Nat /\ Len(pipe) \in Nat
        <5>1. entryIndex \in Nat /\ first \in Nat
          OBVIOUS
        <5>2. log \in Seq(LogItems)
          OBVIOUS
        <5> HIDE TypeFacts DEF IInv
        <5>3. QED
          BY <1>2, <5>1, <5>2, LenProperties
      <4>2. entryIndex' = entryIndex /\ first' = first /\ limit' = limit
        BY <1>1
      <4>3. k - 1 = Len(pipe) /\ k = Len(pipe) + 1
        BY <4>1, <2>5
      <4> HIDE TypeFacts DEF IInv
      <4>4. QED
        BY <4>1, <4>2, <4>3, <3>3, <3>4
    <3>6. pipe'[k] = item
      BY <1>2, <2>5
    <3>7. CASE item = StreamItem(first + Len(log))
      BY <3>5, <3>6, <3>7 DEF InPlace
    <3>8. CASE item = EndItem /\ first + Len(log) >= limit
      BY <3>5, <3>6, <3>8 DEF InPlace
    <3>9. QED
      BY <3>1, <3>5, <3>7, <3>8
  <2>6. Len(pipe) \in Nat /\ Len(pipe') = Len(pipe) + 1
    BY <1>2
  <2>7. PICK n \in Nat : n = Len(pipe) + 1 /\ n = Len(pipe')
    BY <2>6
  <2>8. QuietUpTo(n)' => InPlace(n)' /\ entryIndex' + n = first' + Len(log')
    BY <2>5, <2>7
  <2>9. ASSUME NEW k \in 1 .. Len(pipe'), QuietUpTo(k)' PROVE InPlace(k)'
    <3>1. k \in 1 .. Len(pipe) \/ k = n
      <4> HIDE DEF IInv
      <4>1. QED
        BY <2>6, <2>7
    <3>2. QED
      BY <2>4, <2>8, <2>9, <3>1
  <2>10. QuietUpTo(Len(pipe))' => entryIndex' + Len(pipe') = first' + Len(log')
    BY <2>7, <2>8
  <2>11. QED
    BY <2>9, <2>10
<1>6. QED
  BY <1>3, <1>4, <1>5

\* The process, its pipe and what the caller keeps are left alone.
LEMMA SameKeeps ==
  ASSUME IInv, UNCHANGED <<job, first, limit, log, status, pipe, cut>>,
         UNCHANGED <<built, running, entryIndex, theNext, returned>>
  PROVE  PipeInv' /\ AheadInv' /\ OrderInv'
BY DEF IInv, PipeInv, AheadInv, OrderInv, Ended, QuietUpTo, InPlace, Sound, Before

LEMMA DieKeeps ==
  ASSUME IInv, Die
  PROVE  PipeInv' /\ AheadInv' /\ OrderInv'
<1>1. /\ status' = "died" /\ running /\ UNCHANGED <<job, first, limit, log>> /\ cut' \in BOOLEAN
      /\ UNCHANGED <<pc, built, running, entryIndex, theNext, returned>>
  BY DEF Die, Process!Die, callerVars
<1>2. PICK n \in 0 .. Len(pipe) : pipe' = SubSeq(pipe, 1, n)
  BY DEF Die
<1>3. Len(pipe') = n /\ n <= Len(pipe) /\ \A k \in 1 .. n : pipe'[k] = pipe[k]
  <2>1. pipe \in Seq(PipeItems)
    BY TypeFacts DEF IInv
  <2>2. QED
    BY <1>2, <2>1, CutFacts
<1>4. \A k \in 1 .. n : k \in 1 .. Len(pipe) /\ k \in Nat /\ \A j \in 1 .. k : j \in 1 .. n
  <2>1. Len(pipe) \in Nat /\ n \in Nat
    BY <1>2, TypeFacts, LenProperties DEF IInv
  <2>2. QED
    BY <1>3, <2>1
<1>5. PipeInv'
  <2>1. \A k \in 1 .. n : Sound(pipe[k])
    BY <1>4 DEF IInv, PipeInv
  <2>2. ASSUME NEW k \in 1 .. n PROVE Sound(pipe[k])'
    BY <1>1, <1>3, <2>1 DEF Sound
  <2>3. running => limit = Before(job.head)
    BY DEF IInv, PipeInv
  <2>4. QED
    BY <1>1, <1>3, <2>2, <2>3 DEF PipeInv, Before
<1>6. AheadInv'
  BY <1>1 DEF IInv, AheadInv, Before
<1>7. OrderInv'
  <2>1. ASSUME ~Ended', NEW k \in 1 .. n, QuietUpTo(k)' PROVE InPlace(k)'
    <3>1. k \in 1 .. Len(pipe) /\ pipe'[k] = pipe[k]
      BY <1>3, <1>4
    <3>2. QuietUpTo(k)
      BY <1>3, <1>4, <2>1 DEF QuietUpTo
    <3>3. ~Ended
      BY <1>1, <2>1 DEF Ended
    <3>4. InPlace(k)
      BY <1>1, <3>1, <3>2, <3>3 DEF IInv, OrderInv
    <3>5. QED
      BY <1>1, <3>1, <3>4 DEF InPlace
  <2>2. QED
    BY <1>1, <1>3, <2>1 DEF OrderInv
<1>8. QED
  BY <1>5, <1>6, <1>7

LEMMA OutsideKeeps ==
  ASSUME IInv, Dump \/ Outside
  PROVE  PipeInv' /\ AheadInv' /\ OrderInv'
<1> USE TypeFacts DEF IInv
<1>1. CASE Dump
  <2>1. running /\ Written /\ UNCHANGED <<job, cut>> /\ UNCHANGED callerVars
    BY <1>1 DEF Dump, CanWrite
  <2>2. Process!Send \/ Process!Finish
    BY <1>1 DEF Dump
  <2>3. UNCHANGED <<first, limit>> /\ status = "running" /\ log' \in Seq(LogItems) /\ Len(log') = Len(log) + 1
    BY <2>1, <2>2, WriteFacts
  <2>4. first + Len(log) \in Nat
    <3>1. first \in Nat /\ log \in Seq(LogItems)
      OBVIOUS
    <3> HIDE TypeFacts DEF IInv
    <3>2. QED
      BY <3>1, LenProperties
  <2>5. CASE first + Len(log) < limit /\ pipe' = Append(pipe, StreamItem(first + Len(log)))
    <3>1. StreamItem(first + Len(log)) \in PipeItems
      BY <2>4, ItemTypes
    <3>2. Sound(StreamItem(first + Len(log)))
      BY <2>4, <2>5 DEF Sound
    <3>3. QED
      BY <2>1, <2>3, <2>5, <3>1, <3>2, WriteKeeps
  <2>6. CASE first + Len(log) >= limit /\ pipe' = Append(pipe, EndItem)
    <3>1. EndItem \in PipeItems /\ Sound(EndItem)
      BY ItemTypes DEF Sound
    <3>2. QED
      BY <2>1, <2>3, <2>6, <3>1, WriteKeeps
  <2>7. QED
    BY <2>1, <2>2, <2>5, <2>6, WriteFacts
<1>2. CASE Die
  BY <1>2, DieKeeps
<1>3. CASE Noise
  <2>1. /\ running /\ status = "running" /\ pipe' = Append(pipe, NoiseItem)
        /\ UNCHANGED <<job, first, limit, cut>> /\ UNCHANGED callerVars
    BY <1>3 DEF Noise, CanWrite
  <2>2. NoiseItem \in PipeItems /\ Sound(NoiseItem)
    BY ItemTypes DEF Sound
  <2>3. QED
    BY <2>1, <2>2, WriteKeeps
<1>4. CASE Warn
  <2>1. /\ UNCHANGED <<job, first, limit, log, status, pipe, cut>>
        /\ UNCHANGED <<built, running, entryIndex, theNext, returned>>
    BY <1>4 DEF Warn, callerVars
  <2>2. QED
    BY <2>1, SameKeeps
<1>5. QED
  BY <1>1, <1>2, <1>3, <1>4 DEF Outside

\* A new process starts at entryIndex with an empty pipe.
LEMMA RestartKeeps ==
  ASSUME IInv, RestartProcess(entryIndex) \/ NoProcess,
         UNCHANGED <<job, built, entryIndex, theNext, returned>>
  PROVE  PipeInv' /\ AheadInv' /\ OrderInv'
<1> USE TypeFacts DEF IInv
<1>1. Len(<< >>) = 0
  OBVIOUS
<1>2. /\ pipe' = << >> /\ cut' = FALSE /\ log' = << >>
      /\ running' => first' = entryIndex /\ limit' = Before(job.head)
  BY RestartFacts
<1>3. Len(pipe') = 0 /\ Len(log') = 0
  BY <1>1, <1>2
<1>4. PipeInv'
  BY <1>2, <1>3 DEF PipeInv, Before
<1>5. AheadInv'
  BY DEF AheadInv, Before
<1>6. OrderInv'
  BY <1>2, <1>3 DEF OrderInv
<1>7. QED
  BY <1>4, <1>5, <1>6

\* What next() returns, and what it keeps instead.
LEMMA ReturnFacts ==
  ASSUME TypeInv, AheadInv, pc = "getNext", NEW record, Return(record), job' = job
  PROVE  /\ built' = TRUE /\ theNext' = record /\ returned' \in Seq(Nat) /\ entryIndex \in Nat
         /\ entryIndex = job.start + Len(returned')
         /\ built => /\ returned' = Append(returned, theNext) /\ theNext = job.start + Len(returned)
                     /\ theNext < Before(job.head) /\ entryIndex = theNext + 1
         /\ ~built => returned' = << >> /\ returned = << >> /\ entryIndex = job.start
<1> USE TypeFacts
<1>1. built' = TRUE /\ theNext' = record
  BY DEF Return
<1>2. CASE built
  <2>1. theNext # NoRecord /\ returned' = Append(returned, theNext)
    BY <1>2 DEF TypeInv, Return
  <2>2. /\ entryIndex = job.start + Len(returned) + 1 /\ theNext = job.start + Len(returned)
        /\ theNext < Before(job.head) /\ theNext \in Nat /\ Len(returned) \in Nat
    BY <2>1 DEF AheadInv
  <2>3. returned' \in Seq(Nat) /\ Len(returned') = Len(returned) + 1
    BY <2>1, <2>2, AppendProperties
  <2>4. entryIndex = job.start + Len(returned') /\ entryIndex = theNext + 1 /\ entryIndex \in Nat
    <3>1. job.start \in Nat /\ entryIndex \in Nat
      OBVIOUS
    <3>2. PICK l \in Nat : l = Len(returned) /\ l + 1 = Len(returned')
      BY <2>2, <2>3
    <3> HIDE TypeFacts
    <3>3. entryIndex = job.start + l + 1 /\ theNext = job.start + l /\ l + 1 = Len(returned')
      BY <2>2, <3>2
    <3>4. QED
      BY <3>1, <3>2, <3>3
  <2>5. QED
    BY <1>1, <1>2, <2>1, <2>2, <2>3, <2>4
<1>3. CASE ~built
  <2>1. returned' = returned /\ returned = << >> /\ theNext = NoRecord /\ Len(<< >>) = 0
    BY <1>3 DEF Return, AheadInv
  <2>2. Len(returned') = 0 /\ entryIndex = job.start + Len(returned)
    BY <2>1 DEF AheadInv
  <2>3. QED
    BY <1>1, <1>3, <2>1, <2>2
<1>4. QED
  BY <1>2, <1>3

LEMMA RecordKeeps ==
  ASSUME IInv, ReadRecord
  PROVE  PipeInv' /\ AheadInv' /\ OrderInv'
<1> USE TypeFacts DEF IInv
<1>1. /\ pc = "getNext" /\ running /\ Complete /\ Head(pipe).entry = entryIndex /\ pipe' = Tail(pipe)
      /\ UNCHANGED <<job, first, limit, log, status, cut, running>>
      /\ Return(Head(pipe).rec) /\ entryIndex' = entryIndex + 1
  BY DEF ReadRecord, Reads, Take
<1>2. Head(pipe) = StreamItem(entryIndex) /\ entryIndex < Before(job.head)
  BY <1>1, HeadIsExpected
<1>3. Head(pipe).rec = entryIndex /\ pipe[1] = StreamItem(entryIndex)
  BY <1>1, <1>2, ItemFacts, HeadFacts
<1>4. /\ theNext' = entryIndex /\ built' = TRUE /\ entryIndex = job.start + Len(returned')
      /\ returned' \in Seq(Nat)
  BY <1>1, <1>3, ReturnFacts
<1>5. /\ Len(pipe) \in Nat \ {0} /\ Len(pipe') = Len(pipe) - 1
      /\ \A k \in 1 .. Len(pipe) - 1 : pipe'[k] = pipe[k + 1]
  BY <1>1, HeadFacts
<1>6. ASSUME NEW k \in 1 .. Len(pipe') PROVE k + 1 \in 1 .. Len(pipe) /\ pipe'[k] = pipe[k + 1]
  <2>1. k \in 1 .. Len(pipe) - 1
    BY <1>5
  <2>2. k + 1 \in 1 .. Len(pipe)
    <3> HIDE TypeFacts DEF IInv
    <3>1. Len(pipe) \in Nat
      BY <1>5
    <3>2. QED
      BY <3>1, <2>1
  <2>3. QED
    BY <1>5, <2>1, <2>2
<1>7. PipeInv'
  <2>1. ASSUME NEW k \in 1 .. Len(pipe') PROVE Sound(pipe[k])'
    BY <1>1, <1>6 DEF PipeInv, Sound
  <2>2. QED
    BY <1>1, <2>1 DEF PipeInv, Before
<1>8. AheadInv'
  <2>1. theNext' # NoRecord /\ Before(job.head)' = Before(job.head)
    BY <1>1, <1>4 DEF Before
  <2>2. Len(returned') \in Nat
    BY <1>4
  <2>3. QED
    BY <1>1, <1>2, <1>4, <2>1, <2>2 DEF AheadInv
<1>9. OrderInv'
  <2>1. running /\ ~Ended
    BY <1>1 DEF TypeInv, Ended
  <2>2. pipe[1] # NoiseItem
    BY <1>3, ItemFacts
  <2>3. ASSUME NEW k \in 0 .. Len(pipe'), QuietUpTo(k)' PROVE QuietUpTo(k + 1) /\ k + 1 \in 1 .. Len(pipe)
    <3>1. k + 1 \in 1 .. Len(pipe)
      BY <1>5
    <3>2. ASSUME NEW j \in 1 .. k + 1 PROVE pipe[j] # NoiseItem
      <4>1. CASE j = 1
        BY <4>1, <2>2
      <4>2. CASE j # 1
        <5>1. j - 1 \in 1 .. k /\ j - 1 \in 1 .. Len(pipe) - 1 /\ (j - 1) + 1 = j
          BY <4>2, <3>1
        <5>2. pipe'[j - 1] # NoiseItem
          BY <5>1, <2>3 DEF QuietUpTo
        <5>3. pipe'[j - 1] = pipe[(j - 1) + 1]
          BY <5>1, <1>5
        <5>4. QED
          BY <5>1, <5>2, <5>3
      <4>3. QED
        BY <4>1, <4>2
    <3>3. QED
      BY <3>1, <3>2 DEF QuietUpTo
  <2>4. ASSUME NEW k \in 1 .. Len(pipe'), QuietUpTo(k)' PROVE InPlace(k)'
    <3>1. k \in 0 .. Len(pipe') /\ k + 1 \in 1 .. Len(pipe) /\ pipe'[k] = pipe[k + 1]
      BY <1>6
    <3>2. InPlace(k + 1)
      BY <2>1, <2>3, <2>4, <3>1 DEF OrderInv
    <3>3. entryIndex' + k - 1 = entryIndex + (k + 1) - 1 /\ limit' = limit
      BY <1>1
    <3>4. QED
      BY <3>1, <3>2, <3>3 DEF InPlace
  <2>5. ASSUME NEW k, k = Len(pipe'), QuietUpTo(k)', status' # "died"
        PROVE  entryIndex' + k = first' + Len(log')
    <3>1. k \in 0 .. Len(pipe') /\ k + 1 = Len(pipe)
      BY <1>5, <2>5
    <3>2. QuietUpTo(Len(pipe))
      BY <2>3, <2>5, <3>1
    <3>3. entryIndex + Len(pipe) = first + Len(log)
      BY <1>1, <2>1, <2>5, <3>2 DEF OrderInv
    <3>4. /\ entryIndex' = entryIndex + 1 /\ first' = first /\ log' = log
          /\ entryIndex \in Nat /\ Len(pipe) \in Nat
      BY <1>1
    <3>5. k = Len(pipe) - 1
      BY <1>5, <2>5
    <3>6. QED
      BY <3>3, <3>4, <3>5
  <2>6. QED
    BY <2>4, <2>5 DEF OrderInv
<1>10. QED
  BY <1>7, <1>8, <1>9

\* The rest of what was in the pipe does not matter any more.
LEMMA EndKeeps ==
  ASSUME IInv, ReadEnd
  PROVE  PipeInv' /\ AheadInv' /\ OrderInv'
<1> USE TypeFacts DEF IInv
<1>1. /\ pc = "getNext" /\ running /\ Complete /\ pipe' = Tail(pipe)
      /\ UNCHANGED <<job, first, limit, log, status, cut, running>>
      /\ Return(NoRecord) /\ entryIndex' = entryIndex
  BY DEF ReadEnd, Reads, Take
<1>2. /\ theNext' = NoRecord /\ built' = TRUE /\ entryIndex = job.start + Len(returned')
      /\ returned' \in Seq(Nat)
  BY <1>1, ReturnFacts
<1>3. /\ Len(pipe) \in Nat \ {0} /\ Len(pipe') = Len(pipe) - 1
      /\ \A k \in 1 .. Len(pipe) - 1 : pipe'[k] = pipe[k + 1]
  BY <1>1, HeadFacts
<1>4. PipeInv'
  <2>1. ASSUME NEW k \in 1 .. Len(pipe') PROVE Sound(pipe[k])'
    <3>1. k \in 1 .. Len(pipe) - 1 /\ Len(pipe) \in Nat
      BY <1>3
    <3>2. k + 1 \in 1 .. Len(pipe)
      <4> HIDE TypeFacts DEF IInv
      <4>1. QED
        BY <3>1
    <3>3. QED
      BY <1>1, <1>3, <3>1, <3>2 DEF PipeInv, Sound
  <2>2. QED
    BY <1>1, <2>1 DEF PipeInv, Before
<1>5. AheadInv'
  <2>1. Len(returned') \in Nat /\ job.start \in Nat
    BY <1>2
  <2>2. entryIndex' = job'.start + Len(returned') + 0
    <3>1. job' = job /\ entryIndex' = entryIndex
      BY <1>1
    <3> HIDE TypeFacts DEF IInv
    <3>2. QED
      BY <1>2, <2>1, <3>1
  <2>3. QED
    BY <1>2, <2>2 DEF AheadInv
<1>6. OrderInv'
  BY <1>2 DEF OrderInv, Ended
<1>7. QED
  BY <1>4, <1>5, <1>6

LEMMA EOFKeeps ==
  ASSUME IInv, ReadEOF
  PROVE  PipeInv' /\ AheadInv' /\ OrderInv'
<1> USE TypeFacts DEF IInv
<1>1. /\ running /\ ~Complete /\ status # "running" /\ pipe' = << >>
      /\ UNCHANGED <<job, first, limit, log, status, cut, running>>
      /\ UNCHANGED <<built, entryIndex, theNext, returned>>
  BY DEF ReadEOF, Reads, Throw
<1>2. Len(<< >>) = 0
  OBVIOUS
<1>3. Len(pipe') = 0
  BY <1>1, <1>2
<1>4. PipeInv'
  BY <1>1, <1>3 DEF PipeInv, Before
<1>5. AheadInv'
  BY <1>1 DEF AheadInv, Before
<1>6. OrderInv'
  <2>1. ASSUME ~Ended', status' # "died" PROVE entryIndex' + Len(pipe') = first' + Len(log')
    <3>1. ~Ended /\ cut = FALSE
      BY <1>1, <2>1 DEF Ended, PipeInv
    <3>2. pipe = << >> /\ Len(pipe) = 0
      BY <1>1, <1>2, <3>1 DEF Complete
    <3>3. QuietUpTo(Len(pipe))
      BY <3>2 DEF QuietUpTo
    <3>4. entryIndex + Len(pipe) = first + Len(log)
      BY <1>1, <2>1, <3>1, <3>3 DEF OrderInv
    <3>5. QED
      BY <1>1, <1>3, <3>2, <3>4
  <2>2. QED
    BY <1>3, <2>1 DEF OrderInv
<1>7. QED
  BY <1>4, <1>5, <1>6

LEMMA CallerKeeps ==
  ASSUME IInv, Caller \/ Client
  PROVE  PipeInv' /\ AheadInv' /\ OrderInv'
<1>1. CASE ReprFails \/ CallNext \/ CallNextAtEnd
  <2>1. /\ UNCHANGED <<job, first, limit, log, status, pipe, cut>>
        /\ UNCHANGED <<built, running, entryIndex, theNext, returned>>
    BY <1>1 DEF ReprFails, CallNext, CallNextAtEnd, processVars
  <2>2. QED
    BY <2>1, SameKeeps
<1>2. CASE Repr
  <2>1. pc = "repr" /\ RestartProcess(job.start) /\ UNCHANGED <<job, built, entryIndex, theNext, returned>>
    BY <1>2 DEF Repr
  <2>2. returned = << >> /\ theNext = NoRecord /\ Len(<< >>) = 0
    BY <2>1 DEF IInv, TypeInv, AheadInv
  <2>3. job.start \in Nat
    BY TypeFacts DEF IInv
  <2>4. entryIndex = job.start
    BY <2>2, <2>3 DEF IInv, AheadInv
  <2>5. QED
    BY <2>1, <2>4, RestartKeeps
<1>3. CASE ReadWrongEntry \/ NoProcessYet
  <2>1. RestartProcess(entryIndex) /\ UNCHANGED <<job, built, entryIndex, theNext, returned>>
    BY <1>3 DEF ReadWrongEntry, NoProcessYet
  <2>2. QED
    BY <2>1, RestartKeeps
<1>4. CASE GiveUp
  <2>1. NoProcess /\ UNCHANGED <<job, built, entryIndex, theNext, returned>>
    BY <1>4 DEF GiveUp, Throw
  <2>2. QED
    BY <2>1, RestartKeeps
<1>5. QED
  BY <1>1, <1>2, <1>3, <1>4, EndKeeps, RecordKeeps, EOFKeeps DEF Caller, Client, GetNext

LEMMA NextInv == IInv /\ [Next]_vars => IInv'
<1> SUFFICES ASSUME IInv, [Next]_vars PROVE IInv'
  OBVIOUS
<1>1. TypeInv'
  BY NextType DEF IInv
<1>2. PipeInv' /\ AheadInv' /\ OrderInv'
  <2>1. CASE UNCHANGED vars
    <3>1. /\ UNCHANGED <<job, first, limit, log, status, pipe, cut>>
          /\ UNCHANGED <<built, running, entryIndex, theNext, returned>>
      BY <2>1 DEF vars, processVars, callerVars
    <3>2. QED
      BY <3>1, SameKeeps
  <2>2. QED
    BY <2>1, OutsideKeeps, CallerKeeps DEF Next
<1>3. QED
  BY <1>1, <1>2 DEF IInv

(***************************************************************************)
(* For any data, any number of trials and whatever happens to the processes*)
(* the iterator is exactly one record ahead between two calls, also behind *)
(* a call that ended in an exception: entryIndex counts the records        *)
(* returned and the one kept, which is the next of them (143-149).         *)
(***************************************************************************)
THEOREM AheadCorrect == Spec => []OneAhead
<1>1. Init => IInv
  BY InitInv
<1>2. IInv /\ [Next]_vars => IInv'
  BY NextInv
<1>3. IInv => OneAhead
  BY DEF IInv, AheadInv, OneAhead
<1>4. QED
  BY <1>1, <1>2, <1>3, PTL DEF Spec

-----------------------------------------------------------------------------
(***************************************************************************)
(* One file and a start inside it.                                         *)
(***************************************************************************)
EndInv == IInv /\ Regular /\ EndIsComplete

LEMMA RangeFacts ==
  ASSUME TypeInv, Regular
  PROVE  /\ Before(job.total) = Before(job.head) /\ Before(job.head) \in Nat
         /\ job.start \in Nat /\ job.start < Before(job.head)
<1>1. /\ job.head \in Nat /\ job.start \in Nat /\ job.end \in Nat \cup {NoEnd}
      /\ job.end # NoEnd => job.start < job.end
  BY TypeFacts DEF ParametersOK
<1>2. job.total = job.head /\ job.start < job.head
  BY DEF Regular, OneFile
<1>3. QED
  BY <1>1, <1>2 DEF Before, NoEnd

LEMMA JobKept ==
  ASSUME [Next]_vars
  PROVE  job' = job
BY DEF Next, Outside, Die, Noise, Warn, Dump, Client, CallNext, CallNextAtEnd, Caller, ReprFails, Repr,
       GetNext, ReadEnd, ReadWrongEntry, ReadRecord, ReadEOF, NoProcessYet, GiveUp, vars

\* Only two steps end a call with a record or with None.
LEMMA NothingReturned ==
  ASSUME [Next]_vars, ~ReadEnd, ~ReadRecord
  PROVE  UNCHANGED <<built, theNext, returned>>
BY DEF Next, Outside, Die, Noise, Warn, Dump, Client, CallNext, CallNextAtEnd, Caller, ReprFails, Repr,
       GetNext, ReadWrongEntry, ReadEOF, NoProcessYet, GiveUp, Throw, vars, callerVars

\* The end marker is read when there is nothing left to read.
LEMMA EndIsRead ==
  ASSUME IInv, Regular, ReadEnd
  PROVE  built /\ entryIndex = Before(job.head)
<1> USE TypeFacts DEF IInv
<1>1. /\ pc = "getNext" /\ running /\ Complete /\ Head(pipe).entry = -1 /\ Return(NoRecord) /\ job' = job
  BY DEF ReadEnd, Reads
<1>2. 1 \in 1 .. Len(pipe) /\ pipe[1].entry = -1
  BY <1>1, HeadFacts
<1>3. ~Ended
  BY <1>1 DEF TypeInv, Ended
<1>4. QuietUpTo(1)
  BY <1>2, ItemFacts, SizesAssumption DEF QuietUpTo
<1>5. InPlace(1)
  BY <1>1, <1>2, <1>3, <1>4 DEF OrderInv
<1>6. entryIndex \in Nat /\ entryIndex + 1 - 1 = entryIndex /\ entryIndex # -1
  <2>1. entryIndex \in Nat
    OBVIOUS
  <2> HIDE TypeFacts DEF IInv
  <2>2. QED
    BY <2>1
<1>7. pipe[1] # StreamItem(entryIndex)
  BY <1>2, <1>6, ItemFacts
<1>8. entryIndex >= limit /\ limit = Before(job.head)
  BY <1>1, <1>5, <1>6, <1>7 DEF InPlace, PipeInv
<1>9. built
  <2>1. ~built => entryIndex = job.start
    BY <1>1, ReturnFacts DEF TypeInv
  <2>2. job.start < Before(job.head) /\ job.start \in Nat /\ Before(job.head) \in Nat
    BY RangeFacts
  <2> HIDE TypeFacts DEF IInv
  <2>3. QED
    BY <1>8, <2>1, <2>2
<1>10. entryIndex = theNext + 1 /\ theNext < Before(job.head) /\ theNext \in Nat
  BY <1>1, <1>9, ReturnFacts DEF TypeInv
<1>11. QED
  BY <1>6, <1>8, <1>9, <1>10, RangeFacts

LEMMA EndStep == EndInv /\ [Next]_vars => EndInv'
<1> SUFFICES ASSUME EndInv, [Next]_vars PROVE EndInv'
  OBVIOUS
<1>1. IInv' /\ job' = job
  BY NextInv, JobKept DEF EndInv
<1>2. Regular'
  BY <1>1 DEF EndInv, Regular, OneFile, Quiet
<1>3. EndIsComplete'
  <2>1. CASE ReadEnd
    <3>1. entryIndex = Before(job.head) /\ built
      BY <2>1, EndIsRead DEF EndInv
    <3>2. entryIndex = job.start + Len(returned') /\ returned' \in Seq(Nat)
      BY <2>1, ReturnFacts DEF ReadEnd, Reads, EndInv, IInv
    <3>3. /\ Before(job.total) = Before(job.head) /\ Before(job.head) \in Nat /\ job.start \in Nat
      BY RangeFacts DEF EndInv, IInv
    <3>4. Len(returned') \in Nat
      BY <3>2
    <3>5. Len(returned') = Before(job.total) - job.start
      <4>1. Before(job.total) = job.start + Len(returned')
        BY <3>1, <3>2, <3>3
      <4>2. QED
        BY <4>1, <3>3, <3>4
    <3>6. QED
      BY <1>1, <3>5 DEF EndIsComplete, Before
  <2>2. CASE ReadRecord
    <3>1. Head(pipe).rec = entryIndex /\ entryIndex \in Nat
      <4>1. Head(pipe) = StreamItem(entryIndex)
        BY <2>2, HeadIsExpected DEF ReadRecord, Reads, EndInv
      <4>2. QED
        BY <4>1, ItemFacts, TypeFacts DEF EndInv, IInv
    <3>2. theNext' # NoRecord
      BY <2>2, <3>1, SizesAssumption DEF ReadRecord, Return
    <3>3. QED
      BY <3>2 DEF EndIsComplete
  <2>3. CASE ~ReadEnd /\ ~ReadRecord
    <3>1. UNCHANGED <<built, theNext, returned>>
      BY <2>3, NothingReturned
    <3>2. QED
      BY <1>1, <3>1 DEF EndInv, EndIsComplete, Before
  <2>4. QED
    BY <2>1, <2>2, <2>3
<1>4. QED
  BY <1>1, <1>2, <1>3 DEF EndInv

LEMMA EndInvariance == RegularSpec => []EndInv
<1>1. RegularInit => EndInv
  <2>1. RegularInit => IInv /\ Regular
    BY InitInv DEF RegularInit
  <2>2. RegularInit => EndIsComplete
    BY DEF RegularInit, Init, EndIsComplete
  <2>3. QED
    BY <2>1, <2>2 DEF EndInv
<1>2. EndInv /\ [Next]_vars => EndInv'
  BY EndStep
<1>3. QED
  BY <1>1, <1>2, PTL DEF RegularSpec

(***************************************************************************)
(* For one file of any size and every way in which the processes are killed*)
(* and disturbed: next() finds the end only behind the last entry of the   *)
(* range (126-127).  A stream that stops early is never taken for its end. *)
(***************************************************************************)
THEOREM EndCorrect == RegularSpec => []EndIsComplete
<1>1. EndInv => EndIsComplete
  BY DEF EndInv
<1>2. QED
  BY <1>1, EndInvariance, PTL

-----------------------------------------------------------------------------
(***************************************************************************)
(* The cursor: next() returns theNext, which is the record under it, and   *)
(* everything else is a stutter.                                           *)
(***************************************************************************)
LEMMA CursorInit == RegularInit => CursorOf!Init
<1> SUFFICES ASSUME RegularInit PROVE CursorOf!Init
  OBVIOUS
<1>1. TypeInv /\ Regular /\ returned = << >>
  BY InitInv DEF RegularInit, Init, IInv
<1>2. Len(returned) = 0
  <2>1. Len(<< >>) = 0
    OBVIOUS
  <2>2. QED
    BY <1>1, <2>1
<1>3. QED
  BY <1>1, <1>2, RangeFacts DEF CursorOf!Init

LEMMA CursorStep == EndInv /\ [Next]_vars => [CursorOf!Next]_(CursorOf!cursorVars)
<1> SUFFICES ASSUME EndInv, [Next]_vars PROVE [CursorOf!Next]_(CursorOf!cursorVars)
  OBVIOUS
<1>1. job' = job /\ Before(job.head)' = Before(job.head)
  BY JobKept DEF Before
<1>2. CASE (ReadEnd \/ ReadRecord) /\ built
  <2>1. \E record : Return(record)
    BY <1>2 DEF ReadEnd, ReadRecord
  <2>2. /\ returned' = Append(returned, theNext) /\ theNext = job.start + Len(returned)
        /\ theNext < Before(job.head)
    BY <1>1, <1>2, <2>1, ReturnFacts DEF EndInv, IInv, ReadEnd, ReadRecord, Reads
  <2>3. returned \in Seq(Nat) /\ theNext \in Nat /\ job.start \in Nat
    BY <1>2, TypeFacts DEF EndInv, IInv, TypeInv, ReadEnd, ReadRecord, Reads
  <2>4. Len(returned') = Len(returned) + 1 /\ returned'[Len(returned')] = theNext /\ returned' # << >>
    BY <2>2, <2>3, AppendProperties
  <2>5. job'.start + Len(returned') = job.start + Len(returned) + 1
    BY <1>1, <2>3, <2>4
  <2>6. CursorOf!NextRecord
    BY <1>1, <2>2, <2>4, <2>5 DEF CursorOf!NextRecord
  <2>7. QED
    BY <2>6 DEF CursorOf!Next
<1>3. CASE UNCHANGED returned
  BY <1>1, <1>3 DEF CursorOf!cursorVars
<1>4. CASE (ReadEnd \/ ReadRecord) /\ ~built
  BY <1>3, <1>4 DEF ReadEnd, ReadRecord, Return
<1>5. QED
  BY <1>2, <1>3, <1>4, NothingReturned

(***************************************************************************)
(* For one file of any size: the client of the external iterator sees the  *)
(* same cursor as the client of RootTreeIterator, every record of the range*)
(* once and in order, whatever happens to the processes (114-149).         *)
(***************************************************************************)
THEOREM CursorCorrect == RegularSpec => ImplementsCursor
<1>1. RegularInit => CursorOf!Init
  BY CursorInit
<1>2. EndInv /\ [Next]_vars => [CursorOf!Next]_(CursorOf!cursorVars)
  BY CursorStep
<1>3. QED
  BY <1>1, <1>2, EndInvariance, PTL DEF RegularSpec, ImplementsCursor, CursorOf!Cursor

-----------------------------------------------------------------------------
(***************************************************************************)
(* Why a call returns: who waits is served, and the retries run out.       *)
(***************************************************************************)
Waits == Reads /\ ~Complete /\ status = "running"

\* For a read that waits the process can write its next item or its end marker.
ReaderServed == Waits => CanWrite

\* What the process has said on the pipe that nobody reads.
SaidInv == warned <= job.warnings /\ Quiet

LEMMA SaidStep == SaidInv /\ TypeInv /\ [Next]_vars => SaidInv'
<1> SUFFICES ASSUME SaidInv, TypeInv, [Next]_vars PROVE SaidInv'
  OBVIOUS
<1>1. job' = job /\ job.warnings \in Nat /\ warned \in Nat
  BY JobKept, TypeFacts DEF ParametersOK
<1>2. Quiet'
  BY <1>1 DEF SaidInv, Quiet
<1>3. warned' = warned \/ warned' = 0 \/ (warned < job.warnings /\ warned' = warned + 1)
  <2>1. CASE Outside \/ Dump
    BY <2>1 DEF Outside, Dump, Die, Noise, Warn
  <2>2. CASE Client
    BY <2>2 DEF Client, CallNext, CallNextAtEnd, processVars
  <2>3. CASE Caller
    BY <2>3 DEF Caller, ReprFails, Repr, GetNext, ReadEnd, ReadWrongEntry, ReadRecord, ReadEOF, NoProcessYet,
                GiveUp, RestartProcess, NoProcess, Take, processVars
  <2>4. CASE UNCHANGED vars
    BY <2>4 DEF vars, processVars
  <2>5. QED
    BY <2>1, <2>2, <2>3, <2>4 DEF Next
<1>4. warned' <= job.warnings
  BY <1>1, <1>3 DEF SaidInv
<1>5. QED
  BY <1>1, <1>2, <1>4 DEF SaidInv

LEMMA ServedAlways ==
  ASSUME IInv, SaidInv
  PROVE  ReaderServed
<1> SUFFICES ASSUME Waits PROVE CanWrite
  BY DEF ReaderServed
<1>1. running /\ ~Complete /\ status = "running"
  BY DEF Waits, Reads
<1>2. ~cut
  BY <1>1 DEF IInv, PipeInv
<1>3. pipe = << >>
  BY <1>1, <1>2 DEF Complete
<1>4. PipeCap \in Nat \ {0} /\ warned \in Nat /\ job.warnings \in Nat
  BY TypeFacts DEF IInv, ParametersOK
<1>5. warned <= job.warnings /\ job.warnings <= PipeCap
  BY DEF SaidInv, Quiet
<1>6. Unblocked
  BY <1>4, <1>5 DEF Unblocked
<1>7. Len(pipe) < PipeCap
  BY <1>3, <1>4
<1>8. QED
  BY <1>1, <1>6, <1>7 DEF CanWrite

(***************************************************************************)
(* For all data, pipes of any size and every way in which the processes are*)
(* killed and disturbed: while getLong or factory waits for bytes (125,    *)
(* 133), the process that should write them can, if it says on the pipe of *)
(* its standard error, which nobody reads (105), no more than that holds.  *)
(***************************************************************************)
THEOREM NeverWaitsInVain == Spec /\ Quiet => []ReaderServed
<1>1. Init /\ Quiet => IInv /\ SaidInv
  <2> SUFFICES ASSUME Init, Quiet PROVE IInv /\ SaidInv
    OBVIOUS
  <2>1. IInv
    BY InitInv
  <2>2. warned = 0
    BY DEF Init
  <2>3. job.warnings \in Nat
    BY <2>1, TypeFacts DEF IInv, ParametersOK
  <2>4. QED
    BY <2>1, <2>2, <2>3 DEF SaidInv
<1>2. IInv /\ SaidInv /\ [Next]_vars => IInv' /\ SaidInv'
  BY NextInv, SaidStep DEF IInv
<1>3. IInv /\ SaidInv => ReaderServed
  BY ServedAlways
<1>4. QED
  BY <1>1, <1>2, <1>3, PTL DEF Spec

\* Each step of getNext ends the call or costs a trial, and nothing gives one back.
TrialsFall ==
  pc = "getNext" =>
    /\ trials' <= trials \/ pc' # "getNext"
    /\ GetNext => pc' # "getNext" \/ (trials' = trials - 1 /\ trials > 0)

LEMMA TrialStep ==
  ASSUME TypeInv, [Next]_vars
  PROVE  TrialsFall
<1> SUFFICES ASSUME pc = "getNext" PROVE TrialsFall
  BY DEF TrialsFall
<1>1. trials \in Nat
  BY TypeFacts DEF ParametersOK
<1>2. CASE GetNext
  <2>1. \/ pc' \in {"idle", "unbuilt"}
        \/ trials > 0 /\ trials' = trials - 1
    BY <1>2 DEF GetNext, ReadEnd, ReadWrongEntry, ReadRecord, ReadEOF, NoProcessYet, GiveUp, Return, Throw, Reads
  <2>2. QED
    BY <1>1, <2>1 DEF TrialsFall
<1>3. CASE ~GetNext
  <2>1. trials' = trials
    BY <1>3 DEF Next, Outside, Dump, Die, Noise, Warn, Client, CallNext, CallNextAtEnd, Caller, ReprFails, Repr,
                callerVars, vars
  <2>2. QED
    BY <1>1, <1>3, <2>1 DEF TrialsFall
<1>4. QED
  BY <1>2, <1>3

(***************************************************************************)
(* For any data and whatever happens to the processes: a call makes at most*)
(* numberOfTrials new processes; each step of getNext ends it or costs one *)
(* trial, also where the index is at the end and restartProcess starts     *)
(* nothing (117-141).                                                      *)
(***************************************************************************)
THEOREM RetriesRunOut == Spec => [][TrialsFall]_vars
<1>1. Init => TypeInv
  BY InitType
<1>2. TypeInv /\ [Next]_vars => TypeInv'
  BY NextType
<1>3. TypeInv /\ [Next]_vars => [TrialsFall]_vars
  BY TrialStep
<1>4. QED
  BY <1>1, <1>2, <1>3, PTL DEF Spec
=============================================================================
