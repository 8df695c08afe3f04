--------------------------------- MODULE TreeData ---------------------------------
(***************************************************************************)
(* What is in a ROOT tree, and what a reader of it should get: types and   *)
(* values as ROOT has them, their meaning, and the trees of which the      *)
(* converters and readers are expected to deliver the meaning.             *)
(*                                                                         *)
(* A type is [t |-> "int"] or another name, [t |-> "*", of |-> type],      *)
(* [t |-> "vector", of |-> type] or [t |-> "class", name |-> n].  A value  *)
(* is a number, a sequence of characters (0 is the NUL), <<>> or <<v>> for *)
(* a pointer, a sequence, an object as a record of its members, a sequence *)
(* of [class, data] for a TObjArray and [class, items] for a TClonesArray. *)
(*                                                                         *)
(* A branch is [name, kind, type, dims].  kind is "leaf" for a leaf of a   *)
(* branch without a class, "raw" for std::string and TString, otherwise    *)
(* "object".  dims are the dimensions in the title of a leaf: [n |-> size] *)
(* or [counter |-> leaf].  The value of a leaf with dimensions is the flat *)
(* array.  An entry maps the names of the branches to values.              *)
(*                                                                         *)
(* A meaning is [num], [str], [opt], [seq] or [obj], of what is inside.    *)
(***************************************************************************)
EXTENDS Integers, SequencesExt

\* The dictionary: name -> [path, short, members], of which the members are
\* those the class itself declares: [name, type, dims, static].
CONSTANT Classes

ASSUME ClassesAssumption ==
  \A c \in DOMAIN Classes : \A i \in DOMAIN Classes[c].members :
    {"name", "type", "dims", "static"} = DOMAIN Classes[c].members[i]

Strings    == {"string", "TString", "char*"}
References == {"TRef", "TRefArray"}
Arrays     == {"TObjArray", "TClonesArray"}
Scalar(type)   == type.t \notin Strings \cup References \cup Arrays \cup {"*", "vector", "class"}
IsText(type, dims) == type.t = "char" /\ dims # <<>>

RECURSIVE Readable(_)
Readable(type) ==
  CASE type.t \in References -> FALSE
    [] type.t = "*"     -> Readable(type.of)
    [] type.t = "class" -> \E i \in DOMAIN Classes[type.name].members :
                             LET m == Classes[type.name].members[i]
                             IN  ~m.static /\ Readable(m.type)
    [] OTHER            -> TRUE

MembersOf(name) == SelectSeq(Classes[name].members, LAMBDA m : ~m.static /\ Readable(m.type))

\* What a pointer or a vector holds; a pointer to characters holds a string.
Within(type) == IF type.t = "*" /\ type.of.t = "char" THEN [t |-> "char*"] ELSE type.of

RECURSIVE Meaning(_, _), Boxed(_, _, _), LeafMeaning(_, _, _)
Boxed(type, sizes, v) ==
  IF sizes = <<>> THEN Meaning(type, v)
  ELSE [seq |-> [i \in 1 .. sizes[1] |-> Boxed(type, Tail(sizes), v[i])]]

LeafMeaning(type, sizes, flat) ==
  LET n == Len(flat) \div sizes[1]
  IN  IF sizes = <<>> THEN Meaning(type, flat[1])
      ELSE [seq |-> [i \in 1 .. sizes[1] |->
                       LeafMeaning(type, Tail(sizes), SubSeq(flat, (i - 1) * n + 1, i * n))]]

MemberMeaning(m, v) ==
  IF IsText(m.type, m.dims) THEN [str |-> v]
  ELSE Boxed(m.type, m.dims, v)

ObjectMeaning(name, v) ==
  LET ms == MembersOf(name)
  IN  [obj |-> [n \in {ms[i].name : i \in DOMAIN ms} |->
                  MemberMeaning(ms[CHOOSE i \in DOMAIN ms : ms[i].name = n], v[n])]]

Meaning(type, v) ==
  CASE type.t \in Strings -> [str |-> v]
    [] type.t = "*"       ->
         [opt |-> [i \in DOMAIN v |-> Meaning(Within(type), v[i])]]
    [] type.t = "vector"  -> [seq |-> [i \in DOMAIN v |-> Meaning(type.of, v[i])]]
    [] type.t = "class"   -> ObjectMeaning(type.name, v)
    [] type.t = "TObjArray"    -> [seq |-> [i \in DOMAIN v |-> ObjectMeaning(v[i].class, v[i].data)]]
    [] type.t = "TClonesArray" -> [seq |-> [i \in DOMAIN v.items |-> ObjectMeaning(v.class, v.items[i])]]
    [] Scalar(type)       -> [num |-> v]

SizeIn(d, entry) == IF "counter" \in DOMAIN d THEN entry[d.counter] ELSE d.n

BranchMeaning(b, entry) ==
  IF b.dims = <<>> THEN Meaning(b.type, entry[b.name])
  ELSE LeafMeaning(b.type, [i \in DOMAIN b.dims |-> SizeIn(b.dims[i], entry)], entry[b.name])

EntryMeaning(branches, entry) ==
  [obj |-> [n \in {branches[i].name : i \in DOMAIN branches} |->
              BranchMeaning(branches[CHOOSE i \in DOMAIN branches : branches[i].name = n], entry)]]

(***************************************************************************)
(* Places: the types with their values, all the way down.  A place is      *)
(* [type, dims, leaf, value, where].                                       *)
(***************************************************************************)
Place(type, dims, leaf, value, where) ==
  [type |-> type, dims |-> dims, leaf |-> leaf, value |-> value, where |-> where]

RECURSIVE PlacesUnder(_)
ObjectPlaces(name, v) ==
  UNION { PlacesUnder(Place(m.type, m.dims, FALSE, v[m.name], <<name, m.name>>)) :
            m \in {x \in ToSet(Classes[name].members) : ~x.static} }

PlacesUnder(p) ==
  {p} \cup
  CASE p.leaf \/ IsText(p.type, p.dims) -> {}
    [] p.dims # <<>> /\ ~p.leaf /\ ~IsText(p.type, p.dims) ->
         UNION {PlacesUnder(Place(p.type, Tail(p.dims), FALSE, x, p.where)) : x \in ToSet(p.value)}
    [] p.type.t \in {"*", "vector"} /\ p.dims = <<>> ->
         UNION {PlacesUnder(Place(Within(p.type), <<>>, FALSE, x, p.where)) : x \in ToSet(p.value)}
    [] p.type.t = "class"        -> ObjectPlaces(p.type.name, p.value)
    [] p.type.t = "TObjArray"    -> UNION {ObjectPlaces(x.class, x.data) : x \in ToSet(p.value)}
    [] p.type.t = "TClonesArray" -> UNION {ObjectPlaces(p.value.class, x) : x \in ToSet(p.value.items)}
    [] OTHER                     -> {}

Places(job) ==
  UNION { PlacesUnder(Place(b.type, b.dims, b.kind = "leaf", e[b.name], <<b.name>>)) :
            b \in ToSet(job.branches), e \in ToSet(job.entries) }

\* The types that can be met without reading an entry.
RECURSIVE TypesUnder(_, _)
TypesUnder(type, seen) ==
  {type} \cup
  CASE type.t \in {"*", "vector"} -> TypesUnder(type.of, seen)
    [] type.t = "class" /\ type.name \notin seen ->
         UNION { TypesUnder(m.type, seen \cup {type.name}) :
                   m \in {x \in ToSet(Classes[type.name].members) : ~x.static} }
    [] OTHER -> {}

ClassesAt(p) ==
  CASE p.type.t = "class"        -> {p.type.name}
    [] p.type.t = "TObjArray"    -> {x.class : x \in ToSet(p.value)}
    [] p.type.t = "TClonesArray" -> {p.value.class}
    [] OTHER                     -> {}

AllTypes(job) ==
  UNION {TypesUnder(b.type, {}) : b \in ToSet(job.branches)} \cup
  UNION { UNION {TypesUnder([t |-> "class", name |-> c], {}) : c \in ClassesAt(p)} : p \in Places(job) }

MembersIn(types) ==
  UNION {ToSet(Classes[type.name].members) : type \in {x \in types : x.t = "class"}}

Target(type) == IF type.t = "*" THEN type.of ELSE type

(***************************************************************************)
(* The trees that every way out of root2avro is expected to preserve, or   *)
(* to refuse, by what the code needs.                                      *)
(***************************************************************************)
IsRecursive(name) ==
  \E m \in {x \in ToSet(Classes[name].members) : ~x.static} :
    [t |-> "class", name |-> name] \in TypesUnder(m.type, {})

NoRecursion(types) == \A type \in types : type.t = "class" => ~IsRecursive(type.name)

NoPointerToPointer(types) == \A type \in types : type.t = "*" => type.of.t # "*"

NoArrayOfReferences(job, types) ==
  /\ \A b \in ToSet(job.branches) : Target(b.type).t \notin References
  /\ \A type \in types : type.t = "vector" => Target(type.of).t \notin References
  /\ \A m \in MembersIn(types) : m.dims # <<>> => Target(m.type).t \notin References

NoMatrix(types) == \A m \in MembersIn(types) : Len(m.dims) <= 1

OneClassPerPlace(places) ==
  \A p, q \in places : p.where = q.where /\ p.type.t \in Arrays /\ q.type.t \in Arrays
                         => \A c \in ClassesAt(p) \cup ClassesAt(q) : ClassesAt(p) \cup ClassesAt(q) = {c}

DifferentShortNames(types) ==
  \A x, y \in {type \in types : type.t = "class"} :
    Classes[x.name].short = Classes[y.name].short => x = y

\* Before the types of arrays are known, null pointers are followed.
NoNullBeforeArrays(places, types) ==
  (\E type \in types : type.t \in Arrays) =>
    \A p \in places : p.type.t = "*" /\ p.value = <<>> => ~(p.type.of.t \in Arrays \cup {"*", "vector", "class"})

NoNUL(places) ==
  \A p \in places : (p.type.t \in Strings \/ IsText(p.type, p.dims)) => 0 \notin ToSet(p.value)

RegularTree(job) ==
  LET types  == AllTypes(job)
      places == Places(job)
  IN  /\ NoPointerToPointer(types)
      /\ NoArrayOfReferences(job, types) /\ NoMatrix(types) /\ DifferentShortNames(types)
      /\ OneClassPerPlace(places) /\ NoNullBeforeArrays(places, types) /\ NoNUL(places)
=============================================================================
