--------------------------------- MODULE Transfer ---------------------------------
(***************************************************************************)
(* The contents of a tree on their way out of a TreeWalker: construction   *)
(* of the walkers, resolving of the types of dynamic arrays, description   *)
(* of the tree and conversion of its entries.                              *)
(*                                                                         *)
(*   scala  RootTreeIterator (reader.scala): buildSchema calls back into   *)
(*          the automaton of schema.scala, copyToBuffer fills the buffer   *)
(*          and the Factory decodes it;                                    *)
(*   dump   root2avro's mode for external.RootTreeIterator: the schema is  *)
(*          made from the repr, the records come from dumpRaw;             *)
(*   avro   root2avro's modes avro and avro-stream;                        *)
(*   json   root2avro's mode json.                                         *)
(*                                                                         *)
(* Which entry comes when is the subject of RootTreeIterator and Root2Avro;*)
(* here it is one file, read from its first entry to its last.             *)
(***************************************************************************)
EXTENDS Fields, Schemas

CONSTANTS
  Jobs,      \* [branches, entries, mode, kept, old]: kept is CopyField's, old what
             \* a new buffer has in it
  InitialCap

Modes == {"scala", "dump", "avro", "json"}
ASSUME JobsAssumption == \A j \in Jobs : j.mode \in Modes /\ j.entries # <<>> /\ j.branches # <<>>
ASSUME CapAssumption  == InitialCap \in Nat \ {0}

VARIABLES
  job,      \* the element of Jobs this behaviour is about
  pc,       \* "construct", "resolve", "describe", "tell", "write"; at the end "done",
            \* "failed" (an exception or a crash) or "endless" (a loop that never ends)
  fields,   \* TreeWalker::fields
  s,        \* the walkers with a state
  entry,    \* the entry the reader stands on, from 1; 0 is before the first
  calls,    \* the calls of buildSchema that are still to be made
  reader,   \* the automaton that is called
  schema,   \* what the description has come to
  buf,      \* [cap, used, null, bytes] of the record that is copied
  row,      \* the fields of the entry that are converted already
  out,      \* the entries that have arrived
  turn      \* flips with every step; fairness is stated by it

vars == <<job, pc, fields, s, entry, calls, reader, schema, buf, row, out, turn>>

TreeName == "tree"
Binary   == job.mode \in {"scala", "dump"}
Read     == job.entries[entry]
Fresh(cap) == [cap |-> cap, used |-> 1, null |-> FALSE, bytes |-> <<>>]

Unless(state, there) ==
  CASE state.error = ""        -> there
    [] state.error = "endless" -> "endless"
    [] OTHER                   -> "failed"

Ended == pc \in {"done", "failed", "endless"}
Tick  == turn' = ~turn

Init ==
  /\ job \in Jobs
  /\ pc = "construct"
  /\ fields = <<>> /\ s = NoWalkers
  /\ entry = 0
  /\ calls = <<>> /\ reader = NewReader /\ schema = NoSchema
  /\ buf = Fresh(InitialCap)
  /\ row = <<>> /\ out = <<>>
  /\ turn = FALSE

Construct ==
  /\ pc = "construct"
  /\ LET b == job.branches[Len(fields) + 1]
         r == AddField(fields, b, <<>>, s)
     IN  /\ fields' = r.fields
         /\ s' = r.s
         /\ pc' = Unless(r.s, IF Len(r.fields) = Len(job.branches) THEN "resolve" ELSE "construct")
  /\ Tick
  /\ UNCHANGED <<job, entry, calls, reader, schema, buf, row, out>>

(***************************************************************************)
(* while (!resolved() && next()) resolve(), in root2avro and, with next()  *)
(* in another place, in the iterator.  Only root2avro looks whether it has *)
(* come to a result.                                                       *)
(***************************************************************************)
Answer == FieldsResolved(fields, s)

ResolveEntry ==
  /\ pc = "resolve" /\ Answer = "no"
  /\ entry < Len(job.entries)
  /\ entry' = entry + 1
  /\ s' = ResolveFields(fields, job.entries[entry'], s)
  /\ pc' = Unless(s', "resolve")
  /\ Tick
  /\ UNCHANGED <<job, fields, calls, reader, schema, buf, row, out>>

ResolveEnds ==
  /\ pc = "resolve"
  /\ Answer = "yes" \/ (Answer = "no" /\ entry = Len(job.entries))
  /\ IF Answer = "no" /\ job.mode # "scala"
     THEN s' = Fail(s, "could not resolve") /\ pc' = "failed"
     ELSE s' = s /\ pc' = "describe"
  /\ Tick
  /\ UNCHANGED <<job, fields, entry, calls, reader, schema, buf, row, out>>

\* resolved() of a class that contains itself calls itself for ever.
ResolveOverflows ==
  /\ pc = "resolve" /\ Answer = "stack overflow"
  /\ s' = Fail(s, Answer) /\ pc' = "failed"
  /\ Tick
  /\ UNCHANGED <<job, fields, entry, calls, reader, schema, buf, row, out>>

(***************************************************************************)
(* The description.                                                        *)
(***************************************************************************)
StartToTell ==
  /\ pc = "describe" /\ job.mode = "scala"
  /\ LET r == TreeSchema(fields, TreeName, s)
     IN  calls' = r.out /\ s' = [s EXCEPT !.error = r.s.error] /\ pc' = Unless(r.s, "tell")
  /\ Tick
  /\ UNCHANGED <<job, fields, entry, reader, schema, buf, row, out>>

Tell ==
  /\ pc = "tell" /\ calls # <<>>
  /\ reader' = Instructed(reader, Head(calls))
  /\ calls' = Tail(calls)
  /\ pc' = Unless(reader', "tell")
  /\ Tick
  /\ UNCHANGED <<job, fields, s, entry, schema, buf, row, out>>

Begins == entry' = 1

EndOfTelling ==
  /\ pc = "tell" /\ calls = <<>>
  /\ IF IsComplete(reader) THEN schema' = reader.stack[1].schema /\ pc' = "write"
     ELSE UNCHANGED schema /\ pc' = "failed"
  /\ Begins
  /\ Tick
  /\ UNCHANGED <<job, fields, s, calls, reader, buf, row, out>>

TellRepr ==
  /\ pc = "describe" /\ job.mode = "dump"
  /\ LET r == ReprToSchema(TreeRepr(fields, s), TreeName)
     IN  schema' = r.out /\ pc' = Unless(r, "write")
  /\ Begins
  /\ Tick
  /\ UNCHANGED <<job, fields, s, calls, reader, buf, row, out>>

AvroHeader ==
  /\ pc = "describe" /\ job.mode = "avro"
  /\ LET r == TreeAvroSchema(fields, TreeName, s)
     IN  schema' = r.out /\ s' = [s EXCEPT !.error = r.s.error] /\ pc' = Unless(r.s, "write")
  /\ Begins
  /\ Tick
  /\ UNCHANGED <<job, fields, calls, reader, buf, row, out>>

NoHeader ==
  /\ pc = "describe" /\ job.mode = "json"
  /\ pc' = "write"
  /\ Begins
  /\ Tick
  /\ UNCHANGED <<job, fields, s, calls, reader, schema, buf, row, out>>

(***************************************************************************)
(* The entries, field by field.  For scala and dump row counts the fields  *)
(* in the buffer; their values are in its bytes.                           *)
(***************************************************************************)
NextField == fields[Len(row) + 1]
RowIsFull == Len(row) = Len(fields)

CopyToBuffer ==
  /\ pc = "write" /\ Binary /\ ~RowIsFull
  /\ LET r == CopyField(NextField, Read, job.kept, s @@ buf @@ [old |-> job.old])
     IN  /\ s' = [cls |-> r.cls, arr |-> r.arr, defs |-> r.defs, error |-> r.error]
         /\ buf' = [cap |-> r.cap, used |-> r.used, null |-> r.null, bytes |-> r.bytes]
         /\ pc' = Unless(r, "write")
  /\ row' = Append(row, "copied")
  /\ Tick
  /\ UNCHANGED <<job, fields, entry, calls, reader, schema, out>>

\* StatusTooSmall: RootTreeIterator.next and dumpRaw start again with twice the room.
\* Mutant: the same room again.
TooSmallAgain ==
  /\ pc = "write" /\ Binary /\ RowIsFull /\ buf.null
  /\ buf' = Fresh(buf.cap)
  /\ row' = <<>>
  /\ Tick
  /\ UNCHANGED <<job, pc, fields, s, entry, calls, reader, schema, out>>

TooSmall ==
  /\ pc = "write" /\ Binary /\ RowIsFull /\ buf.null
  /\ buf' = Fresh(2 * buf.cap)
  /\ row' = <<>>
  /\ Tick
  /\ UNCHANGED <<job, pc, fields, s, entry, calls, reader, schema, out>>

Decoded == Received(schema, buf.bytes)

Arrives(datum) ==
  /\ out' = Append(out, datum)
  /\ row' = <<>>
  /\ entry' = entry + 1
  /\ pc' = IF entry = Len(job.entries) THEN "done" ELSE "write"

CopyEnds ==
  /\ pc = "write" /\ Binary /\ RowIsFull /\ ~buf.null
  /\ Arrives(Decoded)
  /\ buf' = Fresh(buf.cap)
  /\ Tick
  /\ UNCHANGED <<job, fields, s, calls, reader, schema>>

PrintNextField ==
  /\ pc = "write" /\ ~Binary /\ ~RowIsFull
  /\ LET r == PrintField(job.mode, NextField, Read, s)
     IN  /\ row' = Append(row, r.out)
         /\ s' = r.s
         /\ pc' = Unless(r.s, "write")
  /\ Tick
  /\ UNCHANGED <<job, fields, entry, calls, reader, schema, buf, out>>

PrintEnds ==
  /\ pc = "write" /\ ~Binary /\ RowIsFull
  /\ Arrives(Object(fields, row))
  /\ Tick
  /\ UNCHANGED <<job, fields, s, calls, reader, schema, buf>>

\* The program has come to its end, or hangs; a state that is not one of these
\* and has no step would be a deadlock.
Terminated == Ended /\ UNCHANGED vars

Next ==
  \/ Construct
  \/ ResolveEntry \/ ResolveEnds \/ ResolveOverflows
  \/ StartToTell \/ Tell \/ EndOfTelling \/ TellRepr \/ AvroHeader \/ NoHeader
  \/ CopyToBuffer \/ TooSmall \/ CopyEnds \/ PrintNextField \/ PrintEnds
  \/ Terminated

Spec == Init /\ [][Next]_vars
-----------------------------------------------------------------------------
(***************************************************************************)
(* Regular trees, for each way out.                                        *)
(***************************************************************************)
HasDims(j) == \E b \in ToSet(j.branches) : b.dims # <<>>

\* UIntWalker writes nothing, LeafWalker returns nothing.
SafeToCopy(j) ==
  /\ \A b \in ToSet(j.branches) :
       b.dims = <<>> => [t |-> "unsigned int"] \notin TypesUnder(b.type, {})
  /\ \A p \in Places(j) : p.type.t = "unsigned int" => p.leaf /\ p.dims # <<>>
  /\ HasDims(j) => j.kept

\* The repr does not tell of the dimensions of leaves, and reprToSchema knows
\* only one kind of string.
SafeToTellByRepr(j) ==
  ~HasDims(j) /\ \A type \in AllTypes(j) : type.t \notin {"string", "TString"}

\* PointerWalker::printJSON closes a string it has not opened.
SafeAsJSON(j) == \A p \in Places(j) : p.type.t = "*" => p.value = <<>>

\* The numbers that a double, or six digits where they are printed, can tell apart.
SafeToPrint(j) ==
  \A p \in Places(j) : Scalar(p.type) =>
    \A n \in IF p.dims = <<>> THEN {p.value} ELSE ToSet(p.value) :
      /\ p.type.t = "unsigned long" /\ j.mode # "json" => Rounded(n, Mantissa) = n
      /\ p.type.t \in {"float", "double"} /\ j.mode = "json" => Rounded(n, SixDigits) = n

Regular(j) ==
  /\ RegularTree(j)
  /\ j.mode \in {"scala", "dump"} => SafeToCopy(j)
  /\ j.mode = "dump" => SafeToTellByRepr(j)
  /\ j.mode = "json" => SafeAsJSON(j)
  /\ SafeToPrint(j)

RegularInit == Init /\ Regular(job)
RegularSpec == RegularInit /\ [][Next]_vars

\* The one thread runs on: weak fairness of Next.  A step is possible until the
\* conversion has ended, which the search for deadlocks checks, and each flips turn.
Step == ~Ended /\ Tick
RegularFairSpec == RegularSpec /\ WF_turn(Step)

(***************************************************************************)
(* Properties.                                                             *)
(***************************************************************************)
WalkerOK(w) ==
  /\ w.kind = "class" => w.id \in DOMAIN s.cls
  /\ w.kind \in Dynamic => w.id \in DOMAIN s.arr

TypeOK ==
  /\ pc \in {"construct", "resolve", "describe", "tell", "write", "done", "failed", "endless"}
  /\ entry \in 0 .. Len(job.entries) + 1
  /\ \A i \in DOMAIN fields : fields[i].name = job.branches[i].name /\ WalkerOK(fields[i].walker)
  /\ \A id \in DOMAIN s.cls : \A i \in DOMAIN s.cls[id].members : WalkerOK(s.cls[id].members[i].walker)
  /\ \A id \in DOMAIN s.arr : s.arr[id].of \in 0 .. Len(s.cls)
  /\ buf.used \in 1 .. buf.cap
  /\ Len(row) <= Len(fields)
  /\ turn \in BOOLEAN

\* The same value with its strings as FactoryString decodes them.
RECURSIVE AsRead(_)
AsRead(d) ==
  CASE "str" \in DOMAIN d -> [str |-> AsciiDecoded(d.str)]
    [] "opt" \in DOMAIN d -> [opt |-> [i \in DOMAIN d.opt |-> AsRead(d.opt[i])]]
    [] "seq" \in DOMAIN d -> [seq |-> [i \in DOMAIN d.seq |-> AsRead(d.seq[i])]]
    [] "obj" \in DOMAIN d -> [obj |-> [n \in DOMAIN d.obj |-> AsRead(d.obj[n])]]
    [] OTHER              -> d

\* What arrives is what ROOT has, entry by entry, without the references that
\* are not supported, and it is all of it in the end: walkers, schema and
\* factories, or walkers and printing, fit together.  All that is lost are, on
\* the way through the factories, the bytes of strings that are not ASCII.
ValuesArrive ==
  /\ \A i \in DOMAIN out :
       LET d == EntryMeaning(job.branches, job.entries[i])
       IN  out[i] = IF Binary THEN AsRead(d) ELSE d
  /\ pc = "done" => Len(out) = Len(job.entries)

\* What the walkers leave in the buffer is the entry in the format of the schema
\* that the reader has been told, piece by piece, and only strings will be seen as
\* something else.  RecordArrives in Factory_proofs is about the rest of the way, from
\* the format to what is seen.
RecordIsLaid ==
  pc = "write" /\ Binary /\ RowIsFull /\ ~buf.null =>
    LET d == EntryMeaning(job.branches, Read)
    IN  /\ d \in DataOf[Depth][schema]
        /\ buf.bytes = Laid(schema, d) /\ Seen(schema, d) = AsRead(d)

\* A place that does not tell the types of the dynamic arrays at it or below it.
LeadsToArrays(type) == \E x \in TypesUnder(type, {}) : x.t \in Arrays
Untold(p) ==
  CASE p.type.t = "TObjArray"    -> p.value = <<>>
    [] p.type.t = "TClonesArray" ->
         p.value.items = <<>> /\ LeadsToArrays([t |-> "class", name |-> p.value.class])
    [] p.type.t \in {"*", "vector"} -> p.value = <<>> /\ LeadsToArrays(p.type.of)
    [] OTHER                     -> FALSE

\* The entries that are to blame for a failure: the one that is written or, before
\* the first is, all that have been read to learn the types.
Blamed == IF row # <<>> THEN {entry} ELSE 1 .. entry

\* A conversion is refused, or ends in a crash, only if a class contains itself
\* or each of the entries that are to blame has an array, or something else that
\* leads to one, that is empty.
RefusedForAReason ==
  pc = "failed" =>
    \/ ~NoRecursion(AllTypes(job))
    \/ /\ Blamed # {}
       /\ \A i \in Blamed :
            \E p \in Places([job EXCEPT !.entries = <<job.entries[i]>>]) : Untold(p)

\* The two descriptions of a tree that a Scala program may get, by callbacks
\* into the automaton and from the text of the repr, are of the same schema up
\* to the names of classes.
BothSchemasAgree ==
  pc = "write" /\ job.mode = "scala" /\ SafeToTellByRepr(job) =>
    LET r == ReprToSchema(TreeRepr(fields, s), TreeName)
    IN  r.error = "" /\ Shape(r.out) = Shape(schema)

RECURSIVE Records(_), Conforms(_, _, _)
Records(a) ==
  IF a.a = "record"
  THEN {a} \cup UNION {Records(a.fields[i].type) : i \in DOMAIN a.fields}
  ELSE IF a.a \in {"union", "array"} THEN Records(a.of) ELSE {}

\* Whether Avro accepts a datum for the schema a, given the records it defines.
Conforms(d, a, records) ==
  CASE a.a = "union"     -> "opt" \in DOMAIN d /\ \A i \in DOMAIN d.opt : Conforms(d.opt[i], a.of, records)
    [] a.a = "array"     -> "seq" \in DOMAIN d /\ \A i \in DOMAIN d.seq : Conforms(d.seq[i], a.of, records)
    [] a.a = "string"    -> "str" \in DOMAIN d
    [] a.a = "record"    ->
         /\ "obj" \in DOMAIN d
         /\ DOMAIN d.obj = {a.fields[i].name : i \in DOMAIN a.fields}
         /\ \A i \in DOMAIN a.fields : Conforms(d.obj[a.fields[i].name], a.fields[i].type, records)
    [] a.a = "reference" -> \E r \in records : r.name = a.name /\ Conforms(d, r, records)
    [] OTHER             -> "num" \in DOMAIN d

\* The records a schema defines and refers to, in the order of the text.
RECURSIVE Mentions(_)
Mentions(a) ==
  CASE a.a = "record"             ->
         <<[name |-> a.name, defines |-> TRUE]>>
           \o FlattenSeq([i \in DOMAIN a.fields |-> Mentions(a.fields[i].type)])
    [] a.a = "reference"          -> <<[name |-> a.name, defines |-> FALSE]>>
    [] a.a \in {"union", "array"} -> Mentions(a.of)
    [] OTHER                      -> <<>>

\* A record is defined where its name occurs first, and only there.
DefinedAtFirst(a) ==
  LET ms == Mentions(a)
  IN  \A i \in DOMAIN ms : ms[i].defines <=> \A k \in 1 .. i - 1 : ms[k].name # ms[i].name

\* An Avro file can be read: its header defines each class before it refers to it and
\* never again, and every record behind it is of the schema, the classes that are
\* referred to by name included.
HeaderDescribes ==
  job.mode = "avro" /\ pc \in {"write", "done"} =>
    /\ DefinedAtFirst(schema)
    /\ \A i \in DOMAIN out : Conforms(out[i], schema, Records(schema))

\* Every conversion comes to an end: no loop over types, no buffer that is
\* doubled for ever.
Finishes == <>(pc \in {"done", "failed"})
=============================================================================
