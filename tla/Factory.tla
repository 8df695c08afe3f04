--------------------------------- MODULE Factory ---------------------------------
(***************************************************************************)
(* Records as Scala programs read them: the factories of scaroot-reader's  *)
(* factory.scala, and the format of a record that they rely on.            *)
(*                                                                         *)
(* A Schema is [s |-> "SchemaInt"], [s |-> "SchemaPointer", of |-> Schema] *)
(* or [s |-> "SchemaClass", name, fields].  The bytes of a record are in   *)
(* pieces: [n, bits] for a number of n bytes, [n, text] for the characters *)
(* of a string.  A value is [num], [str], [opt], [seq] or [obj], of what   *)
(* is inside.                                                              *)
(***************************************************************************)
EXTENDS Primitives, SequencesExt, Folding

CONSTANTS
  Depth,   \* bound: the levels of a schema
  Data,    \* the values that are members of objects
  Chars    \* the bytes that occur in strings

ASSUME DepthAssumption == Depth \in Nat
ASSUME CharsAssumption == Chars \subseteq 0 .. All(1) - 1

PrimitiveSchemas ==
  {"SchemaBool", "SchemaChar", "SchemaUChar", "SchemaShort", "SchemaUShort", "SchemaInt",
   "SchemaUInt", "SchemaLong", "SchemaULong", "SchemaFloat", "SchemaDouble", "SchemaString"}

\* The schemas of at most n levels.  A class is named in C++ or, by the repr,
\* with all the namespaces it is in.
SchemasOver(within) ==
  [s : PrimitiveSchemas]
  \cup [s : {"SchemaPointer", "SchemaSequence"}, of : within]
  \cup [s : {"SchemaClass"}, name : Seq(STRING) \cup STRING,
        fields : Seq([name : STRING, schema : within])]

SchemasTo[n \in Nat] == IF n = 0 THEN {} ELSE SchemasOver(SchemasTo[n - 1])

(***************************************************************************)
(* The factories.  Each reads from the place at of the stream and tells    *)
(* what it has made and where it leaves the stream.  A read of other bytes *)
(* than were written is Garbled, and so is all behind it.  factory has the *)
(* factories of the schemas within the schema.                             *)
(***************************************************************************)
Garbled == [out |-> [bad |-> ""], at |-> 0, ok |-> FALSE]
Got(out, at) == [out |-> out, at |-> at, ok |-> TRUE]

IsNumber(bytes, at, n) ==
  at \in DOMAIN bytes /\ bytes[at].n = n /\ "bits" \in DOMAIN bytes[at]

FactoryNumber(schema, bytes, at) ==
  IF IsNumber(bytes, at, Taken(schema.s))
  THEN Got([num |-> Made(bytes[at].bits)[schema.s]], at + 1) ELSE Garbled

FactoryString(bytes, at) ==
  LET size == Get(4, bytes[at].bits)
  IN  IF ~IsNumber(bytes, at, 4) THEN Garbled
      ELSE IF size <= 0 THEN Got([str |-> <<>>], at + 1)
      ELSE IF at + 1 \in DOMAIN bytes /\ bytes[at + 1].n = size /\ "text" \in DOMAIN bytes[at + 1]
      THEN Got([str |-> AsciiDecoded(bytes[at + 1].text)], at + 2)
      ELSE Garbled

FactoryOption(factory, schema, bytes, at) ==
  IF ~IsNumber(bytes, at, 1) THEN Garbled
  ELSE IF bytes[at].bits = 0 THEN Got([opt |-> <<>>], at + 1)
  ELSE [factory[schema.of][at + 1] EXCEPT !.out = [opt |-> <<@>>]]

\* The factories of some schemas, each from where the one before has come to.
Turn(factory, before, schema) ==
  IF ~before.ok THEN before
  ELSE LET r == factory[schema][before.at]
       IN  [out |-> Append(before.out, r.out), at |-> r.at, ok |-> r.ok]

InTurn(factory, schemas, at) ==
  Fold(LAMBDA before, schema : Turn(factory, before, schema), Got(<<>>, at), schemas)

FactoryWrappedArray(factory, schema, bytes, at) ==
  IF ~IsNumber(bytes, at, 4) THEN Garbled
  ELSE [InTurn(factory, [i \in 1 .. Get(4, bytes[at].bits) |-> schema.of], at + 1)
          EXCEPT !.out = [seq |-> @]]

FactoryGeneric(factory, schema, at) ==
  LET fs == schema.fields
      r  == InTurn(factory, [i \in DOMAIN fs |-> fs[i].schema], at)
  IN  IF ~r.ok THEN Garbled
      ELSE [r EXCEPT !.out = [obj |-> [n \in {fs[i].name : i \in DOMAIN fs} |->
                                         @[CHOOSE i \in DOMAIN fs : fs[i].name = n]]]]

FactoryOf(schema, factory, bytes, at) ==
  CASE schema.s = "SchemaString"   -> FactoryString(bytes, at)
    [] schema.s = "SchemaPointer"  -> FactoryOption(factory, schema, bytes, at)
    [] schema.s = "SchemaSequence" -> FactoryWrappedArray(factory, schema, bytes, at)
    [] schema.s = "SchemaClass"    -> FactoryGeneric(factory, schema, at)
    [] OTHER                       -> FactoryNumber(schema, bytes, at)

\* The factories of the schemas of n levels.
Factories(bytes) ==
  LET factory[n \in Nat] ==
        IF n = 0 THEN <<>>
        ELSE [schema \in SchemasTo[n] |->
                [at \in 1 .. Len(bytes) + 1 |-> FactoryOf(schema, factory[n - 1], bytes, at)]]
  IN  factory

\* A record that begins at a place of the stream.
Decode(schema, bytes, at) ==
  IF schema \in SchemasTo[Depth] THEN Factories(bytes)[Depth][schema][at] ELSE Garbled

\* What a program gets from a buffer that is to hold one record and no more.
Received(schema, bytes) ==
  LET r == Decode(schema, bytes, 1)
  IN  IF r.ok /\ r.at = Len(bytes) + 1 THEN r.out ELSE [bad |-> ""]

(***************************************************************************)
(* The format: the pieces that stand for a value of a schema.              *)
(***************************************************************************)
WalkerOf(instruction) == CHOOSE w \in Numbers : w.schema = instruction

\* The numbers that keep their value: an unsigned long is read as a double.
Exact(instruction) ==
  {n \in Values(WalkerOf(instruction)) : instruction = "SchemaULong" => Rounded(n, Mantissa) = n}

\* Sequences whose length can be counted with a signed int.
Counted(S) == {q \in Seq(S) : Len(q) < Half[4]}

\* The values of a schema, if values has those of the schemas within it.
ValuesOf(schema, values) ==
  CASE schema.s = "SchemaString"   -> [str : Counted(Chars)]
    [] schema.s = "SchemaPointer"  -> [opt : {o \in Seq(values[schema.of]) : Len(o) <= 1}]
    [] schema.s = "SchemaSequence" -> [seq : Counted(values[schema.of])]
    [] schema.s = "SchemaClass"    ->
         LET fs == schema.fields
         IN  {d \in [obj : [{fs[i].name : i \in DOMAIN fs} -> Data]] :
                \A i \in DOMAIN fs : d.obj[fs[i].name] \in values[fs[i].schema]}
    [] OTHER                       -> [num : Exact(schema.s)]

DataOf[n \in Nat] ==
  IF n = 0 THEN <<>> ELSE [schema \in SchemasTo[n] |-> ValuesOf(schema, DataOf[n - 1])]

Pieces == [n : Nat, bits : Nat] \cup [n : Nat, text : Seq(Nat)]

Number(n, value) == [n |-> n, bits |-> Stored(n, value)]
Text(chars)      == [n |-> Len(chars), text |-> chars]

\* The pieces of a value, if layout has those of the values within it.
PiecesOf(schema, d, layout) ==
  CASE schema.s = "SchemaString"   ->
         IF d.str = <<>> THEN <<Number(4, 0)>> ELSE <<Number(4, Len(d.str)), Text(d.str)>>
    [] schema.s = "SchemaPointer"  ->
         <<Number(1, Len(d.opt))>>
           \o FlattenSeq([i \in DOMAIN d.opt |-> layout[schema.of][d.opt[i]]])
    [] schema.s = "SchemaSequence" ->
         <<Number(4, Len(d.seq))>>
           \o FlattenSeq([i \in DOMAIN d.seq |-> layout[schema.of][d.seq[i]]])
    [] schema.s = "SchemaClass"    ->
         LET fs == schema.fields
         IN  FlattenSeq([i \in DOMAIN fs |-> layout[fs[i].schema][d.obj[fs[i].name]]])
    [] OTHER                       -> <<Number(Taken(schema.s), d.num)>>

Layout[n \in Nat] ==
  IF n = 0 THEN <<>>
  ELSE [schema \in SchemasTo[n] |->
          [d \in DataOf[n][schema] |-> PiecesOf(schema, d, Layout[n - 1])]]

Laid(schema, d) == Layout[Depth][schema][d]

(***************************************************************************)
(* What a program sees of a value: the strings in it as FactoryString      *)
(* decodes them, and nothing else changed.                                 *)
(***************************************************************************)
\* seen has it of the values within.
SeenOver(schema, d, seen) ==
  CASE schema.s = "SchemaString"   -> [str |-> AsciiDecoded(d.str)]
    [] schema.s = "SchemaPointer"  ->
         [opt |-> [i \in DOMAIN d.opt |-> seen[schema.of][d.opt[i]]]]
    [] schema.s = "SchemaSequence" ->
         [seq |-> [i \in DOMAIN d.seq |-> seen[schema.of][d.seq[i]]]]
    [] schema.s = "SchemaClass"    ->
         LET fs == schema.fields
         IN  [obj |-> [n \in {fs[i].name : i \in DOMAIN fs} |->
                         LET i == CHOOSE i \in DOMAIN fs : fs[i].name = n
                         IN  seen[fs[i].schema][d.obj[n]]]]
    [] OTHER                       -> d

SeenOf[n \in Nat] ==
  IF n = 0 THEN <<>>
  ELSE [schema \in SchemasTo[n] |->
          [d \in DataOf[n][schema] |-> SeenOver(schema, d, SeenOf[n - 1])]]

Seen(schema, d) == SeenOf[Depth][schema][d]
=============================================================================
