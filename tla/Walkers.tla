-------------------------------- MODULE Walkers --------------------------------
(***************************************************************************)
(* The walkers of root2avro/src/datawalker.cpp: the objects a TreeWalker   *)
(* builds from the ROOT dictionary, one per branch, leaf, member or item,  *)
(* and everything they can do with a value in memory.                      *)
(*                                                                         *)
(* A walker is a record of its class and of the walkers it contains.  Two  *)
(* kinds change after their construction and are shared, so they are named *)
(* by an index into the state s: a ClassWalker (s.cls), which is entered   *)
(* in defs before its members are known, and the walker of a TObjArray or  *)
(* a TClonesArray (s.arr), whose class is known when data has been read.   *)
(*                                                                         *)
(* Types, values and the dictionary are those of TreeData.                 *)
(***************************************************************************)
EXTENDS Primitives, TreeData, Folding

(***************************************************************************)
(* The classes of walkers.  schema is the SchemaInstruction a walker calls *)
(* its reader back with, type or repr its name in the repr and avro its    *)
(* name in the Avro schema.  Of the sizes other than those of numbers it   *)
(* only matters which are 0: an array's items are sizeOf() bytes apart.    *)
(***************************************************************************)
AnyStringWalker(type) ==
  [kind |-> "string", type |-> type, size |-> IF type = "char*" THEN 0 ELSE 8,
   schema |-> "SchemaString", avro |-> "string"]
CStringWalker   == AnyStringWalker("char*")
StdStringWalker == AnyStringWalker("string")
TStringWalker   == AnyStringWalker("TString")

\* A walker of what another walker's values are held in.
Holder(kind, instruction, repr, avro, size) ==
  [kind |-> kind, schema |-> instruction, repr |-> repr, avro |-> avro, size |-> size]
Around(w) == [of |-> w]

PointerWalker(w)    == Holder("pointer", "SchemaPointer", "*", "union", 8) @@ Around(w)
StdVectorWalker(w)  == Holder("vector", "SchemaSequence", "std::vector", "array", 8) @@ Around(w)
StdVectorBoolWalker == Holder("bools", "SchemaSequence", "std::vector", "array", 8) @@ Around(BoolWalker)
ArrayWalker(w, n)   ==
  Holder("array", "SchemaSequence", "[]", "array", 0) @@ Around(w) @@ [n |-> n]
TObjArrayWalker(id) ==
  Holder("TObjArray", "SchemaSequence", "TObjArray", "array", 8) @@ [id |-> id]
TClonesArrayWalker(id) ==
  Holder("TClonesArray", "SchemaSequence", "TClonesArray", "array", 8) @@ [id |-> id]
ClassWalker(id)     == [kind |-> "class", id |-> id, size |-> 8]

\* References are not supported: their walkers say that they are empty.
TRefWalker          == [kind |-> "culled", type |-> "TREF", size |-> 8]
TRefArrayWalker     == [kind |-> "culled", type |-> "TREFARRAY", size |-> 8]

Sequenced == {"vector", "bools", "array", "dimension"}
Dynamic   == {"TObjArray", "TClonesArray"}

NoWalkers == [cls |-> <<>>, arr |-> <<>>, defs |-> [n \in {} |-> 0], error |-> ""]

Fail(s, what) == [s EXCEPT !.error = what]
Content(w, s) == ClassWalker(s.arr[w.id].of)

(***************************************************************************)
(* Construction.                                                           *)
(***************************************************************************)
SimpleWalkers ==
  "bool" :> BoolWalker @@ "char" :> CharWalker @@ "unsigned char" :> UCharWalker @@
  "short" :> ShortWalker @@ "unsigned short" :> UShortWalker @@ "int" :> IntWalker @@
  "unsigned int" :> UIntWalker @@ "long" :> LongWalker @@ "unsigned long" :> ULongWalker @@
  "float" :> FloatWalker @@ "double" :> DoubleWalker @@
  "string" :> StdStringWalker @@ "TString" :> TStringWalker @@
  "TRef" :> TRefWalker @@ "TRefArray" :> TRefArrayWalker

Empty(w, s) ==
  LET RECURSIVE E(_)
      E(x) == CASE x.kind = "culled"  -> TRUE
                [] x.kind = "pointer" -> E(x.of)
                [] x.kind = "class"   -> s.cls[x.id].members = <<>>
                [] x.kind \in Dynamic -> s.arr[x.id].of # 0 /\ E(Content(x, s))
                [] OTHER              -> FALSE
  IN  E(w)

\* Without an entry in defs; ns is the Avro namespace around it.
NewClassWalker(name, ns, s) ==
  [s EXCEPT !.cls = Append(@, [class |-> name, ns |-> ns \o Classes[name].path, members |-> <<>>])]

NewArrayWalker(ns, s) == [s EXCEPT !.arr = Append(@, [ns |-> ns, of |-> 0])]

RECURSIVE SpecializedWalker(_, _, _), Fill(_, _)

\* MemberWalker's constructor: an array of characters is a string, any other
\* array is wrapped once for each dimension, the last one innermost.
MemberWalker(m, ns, s) ==
  IF m.dims # <<>> /\ m.type = [t |-> "char"]
  THEN [out |-> CStringWalker, s |-> s]
  ELSE [SpecializedWalker(m.type, ns, s) EXCEPT
          !.out = FoldRight(LAMBDA n, w : ArrayWalker(w, n), m.dims, @)]

SpecializedWalker(type, ns, s) ==
  CASE type.t = "*" /\ type.of = [t |-> "char"] -> [out |-> PointerWalker(CStringWalker), s |-> s]
    [] type.t = "*" /\ type.of # [t |-> "char"] ->
         [SpecializedWalker(type.of, ns, s) EXCEPT !.out = PointerWalker(@)]
    [] type.t = "vector" /\ type.of = [t |-> "bool"] -> [out |-> StdVectorBoolWalker, s |-> s]
    [] type.t = "vector" /\ type.of # [t |-> "bool"] ->
         [SpecializedWalker(type.of, ns, s) EXCEPT !.out = StdVectorWalker(@)]
    [] type.t = "TObjArray" ->
         [out |-> TObjArrayWalker(Len(s.arr) + 1), s |-> NewArrayWalker(ns, s)]
    [] type.t = "TClonesArray" ->
         [out |-> TClonesArrayWalker(Len(s.arr) + 1), s |-> NewArrayWalker(ns, s)]
    [] type.t \in DOMAIN SimpleWalkers -> [out |-> SimpleWalkers[type.t], s |-> s]
    [] type.t = "class" ->
         IF type.name \in DOMAIN s.defs
         THEN [out |-> ClassWalker(s.defs[type.name]), s |-> s]
         ELSE IF type.name \notin DOMAIN Classes
         THEN [out |-> TRefWalker, s |-> Fail(s, "not handled")]
         ELSE LET id == Len(s.cls) + 1
                  s1 == NewClassWalker(type.name, ns, s)
              IN  [out |-> ClassWalker(id), s |-> Fill(id, [s1 EXCEPT !.defs = @ @@ type.name :> id])]

\* ClassWalker::fill keeps the members that are neither static nor empty.
Kept(id, name, r) ==
  IF r.s.error # "" \/ Empty(r.out, r.s) THEN r.s
  ELSE [r.s EXCEPT !.cls[id].members = Append(@, [name |-> name, walker |-> r.out])]

Fill(id, s0) ==
  Fold(LAMBDA s, m : IF s.error # "" \/ m.static THEN s
                     ELSE Kept(id, m.name, MemberWalker(m, s.cls[id].ns, s)),
       s0, Classes[s0.cls[id].class].members)

(***************************************************************************)
(* resolved(): "yes", "no" or, of a class below itself, "stack overflow".   *)
(* The first member that is not resolved decides.                          *)
(***************************************************************************)
RECURSIVE ResolvedUnder(_, _, _)
ResolvedUnder(w, s, above) ==
  CASE w.kind \in {"pointer", "vector", "array"} -> ResolvedUnder(w.of, s, above)
    [] w.kind \in Dynamic -> IF s.arr[w.id].of # 0 THEN "yes" ELSE "no"
    [] w.kind = "class" ->
         IF w.id \in above THEN "stack overflow"
         ELSE LET answers == [i \in DOMAIN s.cls[w.id].members |->
                                ResolvedUnder(s.cls[w.id].members[i].walker, s, above \cup {w.id})]
                  others == SelectSeq(answers, LAMBDA a : a # "yes")
              IN  IF others = <<>> THEN "yes" ELSE others[1]
    [] OTHER -> "yes"
Resolved(w, s) == ResolvedUnder(w, s, {})

\* The items a walker finds from an address on.
Items(w, v) ==
  CASE w.kind \in {"vector", "bools", "dimension"} -> v
    [] w.kind = "array" -> [i \in 1 .. w.n |-> IF w.of.size = 0 THEN v[1] ELSE v[i]]
    [] w.kind = "TObjArray" -> [i \in DOMAIN v |-> v[i].data]
    [] w.kind = "TClonesArray" -> v.items

ClassOf(w, v) == IF w.kind = "TObjArray" THEN v[1].class ELSE v.class

(***************************************************************************)
(* resolve(address): there says that the address is not that of a null     *)
(* pointer's target; what is read from one is a segmentation fault.  The   *)
(* class of a TObjArray is that of its first object; of an array of        *)
(* objects only the first one is looked at, of a vector all.               *)
(***************************************************************************)
RECURSIVE Resolve(_, _, _, _)
ResolveFirst(w, items, s) == IF items = <<>> THEN s ELSE Resolve(w, TRUE, items[1], s)

ResolveDynamic(w, v, s) ==
  IF w.kind = "TObjArray" /\ v = <<>> THEN s
  ELSE LET id == Len(s.cls) + 1
       IN  ResolveFirst(ClassWalker(id), Items(w, v),
             [Fill(id, NewClassWalker(ClassOf(w, v), s.arr[w.id].ns, s)) EXCEPT !.arr[w.id].of = id])

Resolve(w, there, v, s) ==
  IF s.error # "" THEN s
  ELSE CASE w.kind \in {"number", "string", "culled", "bools"} -> s
         [] w.kind = "class" ->
              Fold(LAMBDA acc, m : Resolve(m.walker, there, IF there THEN v[m.name] ELSE v, acc),
                       s, s.cls[w.id].members)
         [] w.kind = "array" -> Resolve(w.of, there, IF there THEN v[1] ELSE v, s)
         [] w.kind \notin {"number", "string", "culled", "bools", "class", "array"} ->
              IF ~there THEN Fail(s, "segmentation fault")
              ELSE CASE w.kind = "pointer" -> Resolve(w.of, v # <<>>, IF v = <<>> THEN v ELSE v[1], s)
                     [] w.kind = "vector"  -> Fold(LAMBDA acc, x : Resolve(w.of, TRUE, x, acc), s, v)
                     [] w.kind \in Dynamic -> ResolveDynamic(w, v, s)

\* What the walkers of dynamic arrays do before they use one: s.error tells
\* that it has no type yet or holds objects of more than one class.
Checked(w, v, s) ==
  IF s.error # "" THEN s
  ELSE IF s.arr[w.id].of = 0 THEN Fail(s, "could not resolve")
  ELSE IF w.kind = "TObjArray" /\ \E i \in DOMAIN v : v[i].class # s.cls[s.arr[w.id].of].class
  THEN Fail(s, "not all of the same class")
  ELSE s

\* Mutant: only resolve() resolves.
ReadyOnlyIfResolved(w, v, s) == Checked(w, v, s)
Ready(w, v, s) == Checked(w, v, IF s.arr[w.id].of = 0 THEN ResolveDynamic(w, v, s) ELSE s)

(***************************************************************************)
(* copyToBuffer.  s has the capacity, how much is used, the bytes and      *)
(* whether the write pointer has become null, which it then stays.         *)
(***************************************************************************)
\* Mutant: one byte more than there is.
RoomOffByOne(s, n) == ~s.null /\ s.cap - s.used + 1 >= n
Room(s, n) == ~s.null /\ s.cap - s.used >= n

Put(s, n, piece) ==
  IF Room(s, n) THEN [s EXCEPT !.used = @ + n, !.bytes = Append(@, piece)]
  ELSE [s EXCEPT !.null = TRUE]

PutInt(s, n) == Put(s, 4, [n |-> 4, bits |-> n])

\* A C string ends at the first NUL.
CString(v) == IF 0 \in ToSet(v) THEN SubSeq(v, 1, Min({i \in DOMAIN v : v[i] = 0}) - 1) ELSE v

CopyString(v, s) ==
  LET text == CString(v)
      len  == Len(text)
  IN  IF ~Room(s, 4 + len) THEN [s EXCEPT !.null = TRUE]
      ELSE IF len = 0 THEN PutInt(s, 0)
      ELSE Put(PutInt(s, len), len, [n |-> len, text |-> text])

RECURSIVE Copy(_, _, _, _)
CopyAll(w, items, how, s) ==
  IF s.null THEN s ELSE Fold(LAMBDA acc, x : Copy(w, x, how, acc), s, items)

CopyItems(w, items, how, s) == CopyAll(w, items, how, PutInt(s, Len(items)))

\* Mutant: whether there is a target takes an int.
CopyPointerWide(w, v, s) == CopyAll(w.of, v, "address", PutInt(s, Len(v)))
CopyPointer(w, v, s) == CopyAll(w.of, v, "address", Put(s, 1, [n |-> 1, bits |-> Len(v)]))

CopyClass(w, v, s) ==
  Fold(LAMBDA acc, m : Copy(m.walker, v[m.name], "address", acc), s, s.cls[w.id].members)

\* s is Ready.
CopyDynamic(w, v, s) ==
  IF s.error # "" THEN s ELSE CopyItems(Content(w, s), Items(w, v), "address", s)

Copy(w, v, how, s) ==
  IF s.error # "" THEN s
  ELSE CASE w.kind = "number" ->
              Put(s, w.size, [n |-> w.size, bits |-> Copied(w, how, v, s.old)])
         [] w.kind = "string"  -> CopyString(v, s)
         [] w.kind = "culled"  -> [s EXCEPT !.null = TRUE]
         [] w.kind = "pointer" -> CopyPointer(w, v, s)
         [] w.kind \in Sequenced -> CopyItems(w.of, Items(w, v), how, s)
         [] w.kind = "class"   -> CopyClass(w, v, s)
         [] w.kind \in Dynamic -> CopyDynamic(w, v, Ready(w, v, s))

(***************************************************************************)
(* printJSON and printAvro, as the document or datum they make: [num],     *)
(* [str], [opt], [seq], [obj] or, of text that is no JSON, [bad].          *)
(***************************************************************************)
RECURSIVE PrintValue(_, _, _, _)
\* Mutant: the branch of the union is not chosen.
PrintPointee(mode, w, v, s) ==
  IF v = <<>> THEN [out |-> [opt |-> <<>>], s |-> s] ELSE PrintValue(mode, w.of, v[1], s)

PrintPointer(mode, w, v, s) ==
  IF v = <<>> THEN [out |-> [opt |-> <<>>], s |-> s]
  \* PointerWalker::printJSON closes with a quotation mark it did not open.
  ELSE [PrintValue(mode, w.of, v[1], s) EXCEPT
          !.out = IF mode = "json" THEN [bad |-> @] ELSE [opt |-> <<@>>]]

\* The object of these members with these values.
Object(members, values) ==
  [obj |-> [n \in {members[i].name : i \in DOMAIN members} |->
              values[CHOOSE i \in DOMAIN members : members[i].name = n]]]

PrintClass(mode, w, v, s) ==
  [Thread(LAMBDA m, acc : PrintValue(mode, m.walker, v[m.name], acc), s.cls[w.id].members, s)
     EXCEPT !.out = Object(s.cls[w.id].members, @)]

PrintItems(mode, w, items, s) ==
  [Thread(LAMBDA x, acc : PrintValue(mode, w, x, acc), items, s) EXCEPT !.out = [seq |-> @]]

\* s is Ready.
PrintDynamic(mode, w, v, s) ==
  IF s.error # "" THEN [out |-> [bad |-> ""], s |-> s]
  ELSE PrintItems(mode, Content(w, s), Items(w, v), s)

PrintValue(mode, w, v, s) ==
  IF s.error # "" THEN [out |-> [bad |-> ""], s |-> s]
  ELSE CASE w.kind = "number" ->
              [out |-> [num |-> IF mode = "json" THEN PrintedJSON(w, v) ELSE PrintedAvro(w, v)], s |-> s]
         [] w.kind = "string"  -> [out |-> [str |-> CString(v)], s |-> s]
         [] w.kind = "culled"  ->
              [out |-> [bad |-> ""], s |-> IF mode = "json" THEN s ELSE Fail(s, "TREF")]
         [] w.kind = "pointer" -> PrintPointer(mode, w, v, s)
         [] w.kind \in Sequenced -> PrintItems(mode, w.of, Items(w, v), s)
         [] w.kind = "class"   -> PrintClass(mode, w, v, s)
         [] w.kind \in Dynamic -> PrintDynamic(mode, w, v, Ready(w, v, s))

(***************************************************************************)
(* buildSchema: the calls of schemaBuilder it makes, in their order.  memo *)
(* holds the classes whose members have been told; endless and crashed     *)
(* traversals show in error.                                               *)
(***************************************************************************)
Call(instruction, data) == [i |-> instruction, data |-> data]
Told == [memo |-> {}, error |-> ""]

RECURSIVE BuildSchema(_, _, _)
\* The calls for a class and for the tree, which has fields instead of members.
BuildFields(name, fields, s, t) ==
  [Thread(LAMBDA f, acc :
            [BuildSchema(f.walker, s, acc) EXCEPT
               !.out = <<Call("SchemaClassFieldName", f.name), Call("SchemaClassFieldDoc", "")>> \o @],
          fields, t)
     EXCEPT !.out = <<Call("SchemaClassName", name), Call("SchemaClassPointer", "")>>
                    \o FlattenSeq(@) \o <<Call("SchemaClassEnd", "")>>]

BuildClass(cell, s, t) ==
  BuildFields(cell.class, cell.members, s, [t EXCEPT !.memo = @ \cup {cell.class}])

BuildSchema(w, s, t) ==
  IF t.error # "" THEN [out |-> <<>>, s |-> t]
  ELSE CASE w.kind \in {"number", "string"} -> [out |-> <<Call(w.schema, "")>>, s |-> t]
         [] w.kind = "culled" -> [out |-> <<>>, s |-> t]
         [] w.kind = "pointer" ->
              \* The loop that should follow pointers to pointers does not advance.
              IF w.of.kind = "pointer" THEN [out |-> <<>>, s |-> Fail(t, "endless")]
              ELSE [BuildSchema(w.of, s, t) EXCEPT !.out = <<Call(w.schema, "")>> \o @]
         [] w.kind \in Sequenced \cup Dynamic ->
              IF w.kind \in Dynamic /\ s.arr[w.id].of = 0
              THEN [out |-> <<>>, s |-> Fail(t, "segmentation fault")]
              ELSE [BuildSchema(IF w.kind \in Dynamic THEN Content(w, s) ELSE w.of, s, t)
                      EXCEPT !.out = <<Call(w.schema, "")>> \o @]
         [] w.kind = "class" ->
              LET cell == s.cls[w.id]
              IN  IF cell.class \in t.memo
                  THEN [out |-> <<Call("SchemaClassReference", cell.class)>>, s |-> t]
                  ELSE BuildClass(cell, s, t)

(***************************************************************************)
(* repr: the JSON document that describes the walkers.  A class is written *)
(* out where its name, made of the namespace and the short name, is not in *)
(* memo yet.                                                               *)
(***************************************************************************)
FullName(cell) == cell.ns \o <<Classes[cell.class].short>>

RECURSIVE Repr(_, _, _)
\* The members of a class, or the fields of the tree, with memo threaded through.
ReprOf(fields, s, memo) ==
  Thread(LAMBDA f, acc : [Repr(f.walker, s, acc) EXCEPT !.out = [name |-> f.name, repr |-> @]],
         fields, memo)

Repr(w, s, memo) ==
  CASE w.kind \in {"number", "string", "culled"} -> [out |-> [name |-> <<w.type>>], s |-> memo]
    [] w.kind = "dimension" -> Repr(w.of, s, memo)
    [] w.kind \in {"pointer", "vector", "bools", "array"} ->
         [Repr(w.of, s, memo) EXCEPT !.out = [holder |-> w.repr, of |-> @]]
    [] w.kind \in Dynamic ->
         [IF s.arr[w.id].of = 0 THEN [out |-> [name |-> <<"?">>], s |-> memo]
          ELSE Repr(Content(w, s), s, memo)
            EXCEPT !.out = [holder |-> w.repr, of |-> @]]
    [] w.kind = "class" ->
         LET name == FullName(s.cls[w.id])
         IN  IF name \in memo THEN [out |-> [name |-> name], s |-> memo]
             ELSE [ReprOf(s.cls[w.id].members, s, memo \cup {name})
                     EXCEPT !.out = [class |-> name, fields |-> @]]

(***************************************************************************)
(* avroSchema: the same for Avro.  t.error is the exception of an array    *)
(* without a type, or that the text is not a schema.                       *)
(***************************************************************************)
RECURSIVE AvroSchema(_, _, _)
AvroRecord(name, fields, s, t) ==
  [Thread(LAMBDA f, acc : [AvroSchema(f.walker, s, acc) EXCEPT !.out = [name |-> f.name, type |-> @]],
          fields, t)
     EXCEPT !.out = [a |-> "record", name |-> name, fields |-> @]]

\* Mutant: memo is passed by value, so what the target defines is defined again.
AvroUnionByValue(w, s, t) ==
  LET r == AvroSchema(w.of, s, t)
  IN  [out |-> [a |-> w.avro, of |-> r.out], s |-> [t EXCEPT !.error = r.s.error]]

AvroUnion(w, s, t) == [AvroSchema(w.of, s, t) EXCEPT !.out = [a |-> w.avro, of |-> @]]

AvroSchema(w, s, t) ==
  IF t.error # "" THEN [out |-> [a |-> "none"], s |-> t]
  ELSE CASE w.kind \in {"number", "string"} -> [out |-> [a |-> w.avro], s |-> t]
         [] w.kind = "culled" -> [out |-> [a |-> "none"], s |-> Fail(t, "TREF")]
         [] w.kind = "pointer" ->
              IF w.of.kind = "pointer" THEN [out |-> [a |-> "none"], s |-> Fail(t, "endless")]
              ELSE AvroUnion(w, s, t)
         [] w.kind \in Sequenced \cup Dynamic ->
              IF w.kind \in Dynamic /\ s.arr[w.id].of = 0
              THEN [out |-> [a |-> "none"], s |-> Fail(t, "resolve before")]
              ELSE [AvroSchema(IF w.kind \in Dynamic THEN Content(w, s) ELSE w.of, s, t)
                      EXCEPT !.out = [a |-> w.avro, of |-> @]]
         [] w.kind = "class" ->
              LET name == FullName(s.cls[w.id])
              IN  IF name \in t.memo THEN [out |-> [a |-> "reference", name |-> name], s |-> t]
                  ELSE AvroRecord(name, s.cls[w.id].members, s, [t EXCEPT !.memo = @ \cup {name}])
=============================================================================
