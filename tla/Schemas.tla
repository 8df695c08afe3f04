--------------------------------- MODULE Schemas ---------------------------------
(***************************************************************************)
(* The reader's side in Scala: the pushdown automaton of schema.scala that *)
(* turns the calls of buildSchema into a Schema, and the translation of a  *)
(* repr into a Schema.                                                     *)
(*                                                                         *)
(* The stack of the automaton has its head first.  Its elements are        *)
(* I(instruction, data) and S(schema).                                     *)
(***************************************************************************)
EXTENDS Factory

S(schema) == [schema |-> schema]
IsS(x) == "schema" \in DOMAIN x
IsI(x, instruction) == "i" \in DOMAIN x /\ x.i = instruction

\* A reader between two calls: its stack, its map of classes, its exception.
NewReader == [stack |-> <<>>, classes |-> [n \in {} |-> 0], error |-> ""]

Pop(r, n, x) == [r EXCEPT !.stack = <<x>> \o SubSeq(@, n + 1, Len(@))]

IsField(stack, i) ==
  /\ Len(stack) >= i + 2
  /\ IsS(stack[i])
  /\ IsI(stack[i + 1], "SchemaClassFieldDoc")
  /\ IsI(stack[i + 2], "SchemaClassFieldName")

\* SchemaClassEnd is at the head: collects the fields below it.
RECURSIVE FieldsFrom(_, _)
FieldsFrom(stack, i) ==
  IF IsField(stack, i)
  THEN Append(FieldsFrom(stack, i + 3), [name |-> stack[i + 2].data, schema |-> stack[i].schema])
  ELSE <<>>

EndClass(r) ==
  LET fields == FieldsFrom(r.stack, 2)
      i      == 2 + 3 * Len(fields)
      class  == [s |-> "SchemaClass", name |-> r.stack[i + 1].data, fields |-> fields]
  IN  IF /\ Len(r.stack) > i
         /\ IsI(r.stack[i], "SchemaClassPointer")
         /\ IsI(r.stack[i + 1], "SchemaClassName")
      THEN Pop([r EXCEPT !.classes = (class.name :> class) @@ @], i + 1, S(class))
      ELSE [r EXCEPT !.error = "MatchError"]

\* One turn of the inner loop; a reader that stays as it is has ended it.
Collapse(r) ==
  LET head == r.stack[1]
      below == Len(r.stack) > 1
  IN  IF ~IsS(head)
      THEN IF head.i \in PrimitiveSchemas THEN Pop(r, 1, S([s |-> head.i]))
           ELSE IF head.i = "SchemaClassEnd" THEN EndClass(r)
           ELSE IF head.i = "SchemaClassReference"
           THEN IF head.data \in DOMAIN r.classes THEN Pop(r, 1, S(r.classes[head.data]))
                ELSE [r EXCEPT !.error = "NoSuchElement"]
           ELSE r
      ELSE IF below /\ (IsI(r.stack[2], "SchemaPointer") \/ IsI(r.stack[2], "SchemaSequence"))
      THEN Pop(r, 2, S([s |-> r.stack[2].i, of |-> head.schema]))
      ELSE r

RECURSIVE CollapseAll(_)
CollapseAll(r) ==
  IF r.error # "" \/ Collapse(r) = r THEN r ELSE CollapseAll(Collapse(r))

\* SchemaBuilder.apply.
Instructed(r, call) == CollapseAll([r EXCEPT !.stack = <<call>> \o @])

\* What Schema(treeWalker) returns: its last match is on a stack of one class.
IsComplete(r) == Len(r.stack) = 1 /\ IsS(r.stack[1]) /\ r.stack[1].schema.s = "SchemaClass"

(***************************************************************************)
(* reprToSchema.  The names of strings other than char* are not known to   *)
(* it, and are looked up as those of classes.                              *)
(***************************************************************************)
NamedSchemas ==
  <<"bool">> :> "SchemaBool" @@ <<"char">> :> "SchemaChar" @@
  <<"unsigned char">> :> "SchemaUChar" @@ <<"short">> :> "SchemaShort" @@
  <<"unsigned short">> :> "SchemaUShort" @@ <<"int">> :> "SchemaInt" @@
  <<"unsigned int">> :> "SchemaUInt" @@ <<"Long64_t">> :> "SchemaLong" @@
  <<"ULong64_t">> :> "SchemaULong" @@ <<"float">> :> "SchemaFloat" @@
  <<"double">> :> "SchemaDouble" @@ <<"char*">> :> "SchemaString"

NoSchema == [s |-> "none"]

RECURSIVE ReprToSchemaRecursive(_, _)
\* Mutant: each field begins with the classes known before the first one.
ReprFieldsApart(fields, t) ==
  [out |-> [i \in DOMAIN fields |->
              [name |-> fields[i].name, schema |-> ReprToSchemaRecursive(fields[i].repr, t).out]],
   t |-> IF \E i \in DOMAIN fields : ReprToSchemaRecursive(fields[i].repr, t).t.error # ""
         THEN [t EXCEPT !.error = "NoSuchElement"] ELSE t]

ReprFields(fields, t) ==
  Fold(LAMBDA acc, f : LET x == ReprToSchemaRecursive(f.repr, acc.t)
                           IN  [out |-> Append(acc.out, [name |-> f.name, schema |-> x.out]), t |-> x.t],
           [out |-> <<>>, t |-> t], fields)

\* t has the memo and the exception.  A class is in the memo before its fields, which
\* are evaluated when they are asked for: what it is within itself is this object again.
Itself(name) == [s |-> "SchemaClass", name |-> name, fields |-> <<>>]

ReprToSchemaRecursive(json, t) ==
  IF "holder" \in DOMAIN json
  THEN LET x == ReprToSchemaRecursive(json.of, t)
       IN  [x EXCEPT !.out = [s |-> IF json.holder = "*" THEN "SchemaPointer" ELSE "SchemaSequence",
                              of |-> @]]
  ELSE IF "class" \in DOMAIN json
  THEN LET x == ReprFields(json.fields, [t EXCEPT !.memo = (json.class :> Itself(json.class)) @@ @])
           class == [s |-> "SchemaClass", name |-> json.class, fields |-> x.out]
       IN  [out |-> class, t |-> [x.t EXCEPT !.memo = (json.class :> class) @@ @]]
  ELSE IF json.name \in DOMAIN NamedSchemas THEN [out |-> [s |-> NamedSchemas[json.name]], t |-> t]
  ELSE IF json.name \in DOMAIN t.memo THEN [out |-> t.memo[json.name], t |-> t]
  ELSE [out |-> NoSchema, t |-> [t EXCEPT !.error = "NoSuchElement"]]

ReprToSchema(repr, name) ==
  IF "invalid" \in DOMAIN repr THEN [out |-> NoSchema, error |-> "invalid JSON"]
  ELSE LET x == ReprFields(repr.fields, [memo |-> [n \in {} |-> 0], error |-> ""])
       IN  [out |-> [s |-> "SchemaClass", name |-> name, fields |-> x.out], error |-> x.t.error]

\* A schema without the names of its classes.
RECURSIVE Shape(_)
Shape(schema) ==
  CASE schema.s = "SchemaClass" ->
         [s |-> "SchemaClass",
          fields |-> [i \in DOMAIN schema.fields |->
                        [schema.fields[i] EXCEPT !.schema = Shape(@)]]]
    [] schema.s \in {"SchemaPointer", "SchemaSequence"} -> [schema EXCEPT !.of = Shape(@)]
    [] OTHER -> schema
=============================================================================
