-------------------------------- MODULE MCTransfer --------------------------------
(***************************************************************************)
(* A small dictionary, and trees over it in which each kind of walker      *)
(* occurs, alone and inside the others.                                    *)
(***************************************************************************)
EXTENDS Transfer

CONSTANT MaxEntries

T(name)      == [t |-> name]
Pointer(t)   == [t |-> "*", of |-> t]
Vector(t)    == [t |-> "vector", of |-> t]
Class(name)  == [t |-> "class", name |-> name]
Member(name, type)      == [name |-> name, type |-> type, dims |-> <<>>, static |-> FALSE]
Dims(name, type, dims)  == [name |-> name, type |-> type, dims |-> dims, static |-> FALSE]
InClass(path, short, members) == [path |-> path, short |-> short, members |-> members]

MCClasses ==
  "Point"  :> InClass(<<>>, "Point",
                <<Member("x", T("short")), [Member("n", T("int")) EXCEPT !.static = TRUE],
                  Member("ref", T("TRef"))>>) @@
  "N::Pair" :> InClass(<<"N">>, "Pair",
                <<Member("a", Pointer(Class("Point"))), Member("b", Class("Point"))>>) @@
  "Refs"   :> InClass(<<>>, "Refs", <<Member("r", T("TRef")), Member("p", Pointer(T("TRefArray")))>>) @@
  "Track"  :> InClass(<<>>, "Track",
                <<Member("refs", Class("Refs")), Member("name", T("TString")),
                  Dims("hit", T("float"), <<2>>), Member("flags", Vector(T("bool")))>>) @@
  "Event"  :> InClass(<<>>, "Event",
                <<Dims("label", T("char"), <<4>>), Member("note", Pointer(T("char"))),
                  Member("points", T("TObjArray")), Member("first", Class("Point"))>>) @@
  "Node"   :> InClass(<<>>, "Node", <<Member("v", T("int")), Member("next", Pointer(Class("Node")))>>)

P(x)     == [x |-> x, n |-> 0, ref |-> 0]
Pair(a, b) == [a |-> a, b |-> b]
Track(name, flags) == [refs |-> [r |-> 0, p |-> <<>>], name |-> name, hit |-> <<1, 2>>, flags |-> flags]
Event(note, points) == [label |-> <<3>>, note |-> note, points |-> points, first |-> P(1)]
Points(xs) == [i \in DOMAIN xs |-> [class |-> "Point", data |-> P(xs[i])]]
Clones(class, items) == [class |-> class, items |-> items]

Branch(kind, name, type, dims) == [kind |-> kind, name |-> name, type |-> type, dims |-> dims]
OfClass(name, type) == Branch("object", name, type, <<>>)

\* A branch with the values it may have, and the trees of one such branch.
Menu ==
  {<<Branch("leaf", "v", T(t), <<>>), {0, 1}>> : t \in {"bool", "long", "double", "unsigned int"}} \cup
  {<<Branch("leaf", "v", T(t), <<>>), {-1, 1}>> : t \in {"char", "short", "int"}} \cup
  {<<Branch("leaf", "v", T(t), <<>>), {1, 5}>> : t \in {"unsigned char", "float"}} \cup
  {<<Branch("leaf", "v", T("unsigned short"), <<>>), {1, 9}>>,
   <<Branch("leaf", "v", T("unsigned long"), <<>>), {3, 15, 40}>>,
   <<Branch("leaf", "v", T("char*"), <<>>), {<<>>, <<3, 6>>}>>,
   <<Branch("leaf", "v", T("unsigned int"), <<[n |-> 2]>>), {<<1, 31>>}>>,
   <<Branch("raw", "v", T("string"), <<>>), {<<>>, <<2>>, <<5>>}>>,
   <<Branch("raw", "v", T("TString"), <<>>), {<<7>>}>>,
   <<OfClass("v", Class("N::Pair")), {Pair(<<>>, P(1)), Pair(<<P(-1)>>, P(2))}>>,
   <<OfClass("v", Class("Track")), {Track(<<5>>, <<>>), Track(<<>>, <<1, 0>>)}>>,
   <<OfClass("v", Vector(Class("Track"))), {<<>>, <<Track(<<5>>, <<1>>), Track(<<6>>, <<>>)>>}>>,
   <<OfClass("v", Vector(Pointer(Class("Point")))), {<<<<>>>>, <<<<P(3)>>, <<>>>>}>>,
   <<OfClass("v", Vector(T("string"))), {<<>>, <<<<>>, <<5>>>>}>>,
   <<OfClass("v", Vector(Vector(T("short")))), {<<<<>>, <<1, 2>>>>}>>,
   <<OfClass("v", Class("Refs")), {[r |-> 0, p |-> <<>>]}>>,
   <<OfClass("v", Class("Node")), {[v |-> 1, next |-> <<>>]}>>,
   <<OfClass("v", T("TObjArray")), {<<>>, Points(<<1>>), Points(<<2, 3>>)}>>,
   <<OfClass("v", T("TClonesArray")), {Clones("Point", <<>>), Clones("Point", <<P(1), P(2)>>)}>>,
   <<OfClass("v", Class("Event")), {Event(<<>>, <<>>), Event(<<<<4>>>>, Points(<<1>>))}>>,
   <<OfClass("v", T("TClonesArray")),
     {Clones("Event", <<>>), Clones("Event", <<Event(<<>>, Points(<<1>>))>>),
      Clones("Event", <<Event(<<>>, <<>>), Event(<<>>, Points(<<1>>))>>),
      Clones("Event", <<Event(<<>>, Points(<<1, 2>>)), Event(<<>>, <<>>)>>)}>>}

Trees ==
  {[branches |-> <<m[1]>>, contents |-> {("v" :> x) : x \in m[2]}] : m \in Menu} \cup
  { \* an array whose length is another leaf
    [branches |-> <<Branch("leaf", "n", T("int"), <<>>),
                    Branch("leaf", "v", T("short"), <<[counter |-> "n"], [n |-> 2]>>)>>,
     contents |-> {[n |-> 0, v |-> <<>>], [n |-> 2, v |-> <<1, 2, 3, -1>>]}],
    \* the same class twice, first in a namespace
    [branches |-> <<OfClass("v", Class("N::Pair")), OfClass("w", Class("Point")), OfClass("x", T("TObjArray"))>>,
     contents |-> {[v |-> Pair(<<P(1)>>, P(2)), w |-> P(3), x |-> Points(<<1>>)]}],
    \* arrays whose types are learnt from different entries
    [branches |-> <<OfClass("v", T("TObjArray")), OfClass("w", T("TObjArray"))>>,
     contents |-> {[v |-> Points(<<1>>), w |-> <<>>], [v |-> <<>>, w |-> Points(<<2>>)],
                   [v |-> Points(<<3>>), w |-> Points(<<4>>)]}]}

MCJobs ==
  UNION { { [branches |-> tree.branches, entries |-> es, mode |-> m, kept |-> TRUE, old |-> 9] :
              es \in UNION {[1 .. n -> tree.contents] : n \in 1 .. MaxEntries}, m \in Modes } :
          tree \in Trees }

\* The values in the entries of all trees.
RECURSIVE Parts(_)
Parts(d) ==
  {d} \cup
  CASE "opt" \in DOMAIN d -> UNION {Parts(x) : x \in ToSet(d.opt)}
    [] "seq" \in DOMAIN d -> UNION {Parts(x) : x \in ToSet(d.seq)}
    [] "obj" \in DOMAIN d -> UNION {Parts(d.obj[n]) : n \in DOMAIN d.obj}
    [] OTHER              -> {}

MCData ==
  UNION {UNION {Parts(EntryMeaning(tree.branches, e)) : e \in tree.contents} : tree \in Trees}

MCChars == 0 .. 7

MCHalf == (1 :> 4) @@ (2 :> 8) @@ (4 :> 16) @@ (8 :> 32)
=============================================================================
