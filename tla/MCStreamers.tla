-------------------------------- MODULE MCStreamers --------------------------------
(***************************************************************************)
(* A small dictionary, and the trees with some of these branches in any    *)
(* order: an event that is split, a TClonesArray and a collection on their *)
(* own, an object and a number.                                            *)
(***************************************************************************)
EXTENDS StreamerToCode, SequencesExt, FiniteSetsExt, TLC

CONSTANT MaxTops

MCClasses ==
  {TObject, TObjArray, TClonesArray, "TRef", "TString", "Event", "Header", "Track", "Hit", "Inner",
   "vector<Hit>"}
MCHeaders == {TObject, "TRef"}
MCNames ==
  {"id", "hdr", "vtx", "tracks", "ref", "n", "in", "z", "x", "name", "hits", "event", "other", "inner"}

BaseOf(c)            == [name |-> "id", base |-> TRUE, class |-> c, contained |-> None]
NumberOf(name)       == [name |-> name, base |-> FALSE, class |-> None, contained |-> None]
ObjectOf(name, c)    == [name |-> name, base |-> FALSE, class |-> c, contained |-> None]
ClonesOf(name, c)    == [name |-> name, base |-> FALSE, class |-> TClonesArray, contained |-> c]

MCElements ==
  [c \in MCClasses |->
     CASE c = TClonesArray -> <<BaseOf(TObjArray)>>
       [] c = "Event"  -> <<BaseOf(TObject), NumberOf("id"), ObjectOf("hdr", "Header"), ObjectOf("vtx", "Hit"),
                            ClonesOf("tracks", "Track"), ObjectOf("ref", "TRef")>>
       [] c = "Header" -> <<NumberOf("n"), ObjectOf("in", "Inner")>>
       [] c = "Track"  -> <<BaseOf("Header"), NumberOf("x"), ObjectOf("name", "TString"),
                            ObjectOf("hits", "vector<Hit>")>>
       [] c \in {"Hit", "Inner"} -> <<NumberOf("z")>>
       [] OTHER -> <<>>]

MCValue == [c \in MCClasses |-> IF c = "vector<Hit>" THEN "Hit" ELSE None]
MCRank  ==
  [c \in MCClasses |->
     CASE c \in {"Event", TClonesArray} -> 3 [] c \in {"Header", "Track"} -> 2
       [] c \in {"Hit", "Inner"} -> 1 [] OTHER -> 0]

Node(path, class, subs) == [path |-> path, class |-> class, contained |-> None, subs |-> subs]
Clones(path, class, subs) == [path |-> path, class |-> TClonesArray, contained |-> class, subs |-> subs]

\* Where objects are split, the branches have the names of those above them in front.
MCBranch(subs) ==
  << Node(<<"event">>, "Event", subs),
     Node(<<"id">>, None, <<>>),
     Node(<<"hdr">>, "Header", <<7, 8>>),
     Node(<<"vtx">>, "Hit", <<9>>),
     Clones(<<"tracks">>, "Track", <<10, 11, 12>>),
     Node(<<"ref">>, "TRef", <<>>),
     Node(<<"hdr", "n">>, None, <<>>),
     Node(<<"hdr", "in">>, "Inner", <<13>>),
     Node(<<"vtx", "z">>, None, <<>>),
     Node(<<"tracks", "x">>, None, <<>>),
     Node(<<"tracks", "name">>, "TString", <<>>),
     Node(<<"tracks", "hits">>, "vector<Hit>", <<14>>),
     Node(<<"hdr", "in", "z">>, None, <<>>),
     Node(<<"tracks", "hits", "z">>, None, <<>>),
     Clones(<<"other">>, "Track", <<16, 17>>),
     Node(<<"other", "x">>, None, <<>>),
     Node(<<"other", "hits">>, "vector<Hit>", <<>>),
     Node(<<"inner">>, "Inner", <<19>>),
     Node(<<"z">>, None, <<>>),
     Node(<<"hits">>, "vector<Hit>", <<21>>),
     Node(<<"hits", "z">>, None, <<>>),
     Node(<<"x">>, None, <<>>) >>

Tops == {1, 15, 18, 20, 22}
Orders == UNION {{t \in [1 .. n -> Tops] : IsInjective(t)} : n \in 0 .. MaxTops}
Subs == {SelectSeq(<<2, 3, 4, 5, 6>>, LAMBDA b : b \in kept) : kept \in SUBSET {2, 3, 4, 5, 6}}

Job(found, tops, subs) ==
  [found |-> found, elements |-> MCElements, value |-> MCValue, ids |-> 1 .. 22,
   branch |-> MCBranch(subs), tops |-> tops, rank |-> MCRank]

MCJobs ==
  {Job(TRUE, tops, <<2, 3, 4, 5, 6>>) : tops \in Orders} \cup
  {Job(TRUE, tops, subs) : tops \in {<<1>>, <<15, 1>>, <<1, 18>>}, subs \in Subs} \cup
  {Job(FALSE, <<>>, <<>>)}
=============================================================================
