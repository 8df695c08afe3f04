------------------------------- MODULE StreamerToCode -------------------------------
(***************************************************************************)
(* root2avro --inferTypes (root2avro/src/streamerToCode.cpp): the classes  *)
(* of a tree are collected from the streamers in the file, by a recursion  *)
(* over the branches, and declared to the interpreter in the order in      *)
(* which the recursion has finished with them.                             *)
(*                                                                         *)
(* The recursion of classesFromBranch is a stack of frames.  The parts of  *)
(* a branch's name, which are separated by dots, are taken to be of one    *)
(* length, so that prefix counts parts and not characters.                 *)
(***************************************************************************)
EXTENDS Integers, Sequences

CONSTANTS
  Classes,   \* the names of classes
  Headers,   \* those which are not declared, but of which the header is included
  Names,     \* the names of members and branches
  None,      \* no class
  Jobs       \* files with a tree

TObject == "TObject"
TObjArray == "TObjArray"
TClonesArray == "TClonesArray"

ASSUME ClassesAssumption ==
  /\ {TObject, TObjArray, TClonesArray} \subseteq Classes
  /\ TObject \in Headers /\ Headers \subseteq Classes
  /\ None \notin Classes

\* An element of a streamer: a base class, a member of a class or one of a number.
\* contained is the class of the objects in a TClonesArray.
Elements ==
  [name : Names, base : BOOLEAN, class : Classes \cup {None}, contained : Classes \cup {None}]

Branches(ids) ==
  [path : Seq(Names), class : Classes \cup {None}, contained : Classes \cup {None}, subs : Seq(ids)]

\* found: the file can be opened and has the tree; value: the class of the values in
\* a collection other than a TClonesArray; tops: the branches of the tree; rank: see
\* Acyclic.
JobOK(j) ==
  /\ j.found \in BOOLEAN
  /\ j.elements \in [Classes -> Seq(Elements)]
  /\ \A c \in Classes : \A i \in DOMAIN j.elements[c] : j.elements[c][i].base => j.elements[c][i].class # None
  /\ j.value \in [Classes -> Classes \cup {None}] /\ j.value[TClonesArray] = None
  /\ j.ids \subseteq Nat
  /\ j.branch \in [j.ids -> Branches(j.ids)]
  /\ j.tops \in Seq(j.ids)
  /\ j.rank \in [Classes -> Nat]
ASSUME JobsAssumption == \A j \in Jobs : JobOK(j)

VARIABLES
  job,        \* the file
  pc,         \* "open", "collect", "done" or "failed"
  top,        \* the branch of the tree whose turn it is
  stack,      \* the calls of classesFromBranch, the innermost last
  classes,    \* what they have collected: [name, bases, members]
  includes,   \* the classes whose headers are included
  leftOut,    \* history: <<caller, class>> of the calls that came back with no member
  code        \* the names of the classes, in the order of their definitions

vars == <<job, pc, top, stack, classes, includes, leftOut, code>>

(***************************************************************************)
(* Entering classesFromBranch for a class: a frame with its streamer, or   *)
(* the header of a class of ROOT, or nothing because the class is among    *)
(* those that are finished already.                                        *)
(***************************************************************************)
\* Mutant: nothing is remembered.
NeverSeen(c) == FALSE
ClassSeen(c) == \E i \in DOMAIN classes : classes[i].name = c

Frame(b, c, prefix) ==
  [branch |-> b, class |-> c, prefix |-> prefix, next |-> 0, bases |-> <<>>, members |-> <<>>]

Entered(frames, b, c, prefix) ==
  IF c = None \/ c \in Headers \/ ClassSeen(c) THEN frames ELSE Append(frames, Frame(b, c, prefix))

Header(c) == IF c \in Headers THEN {c} ELSE {}

Current  == stack[Len(stack)]
Streamer == job.elements[Current.class]
Element  == Streamer[Current.next]
Branch   == job.branch[Current.branch]

\* The frames with the innermost one changed, and without it.
With(frame) == [stack EXCEPT ![Len(stack)] = frame]
Returned    == SubSeq(stack, 1, Len(stack) - 1)
Advanced    == [Current EXCEPT !.next = @ + 1]

(***************************************************************************)
(* generateCodeFromStreamers.                                              *)
(***************************************************************************)
Init ==
  /\ job \in Jobs
  /\ pc = "open"
  /\ top = 1
  /\ stack = <<>> /\ classes = <<>> /\ includes = {} /\ leftOut = {}
  /\ code = <<>>

Open ==
  /\ pc = "open"
  /\ pc' = IF job.found THEN "collect" ELSE "failed"
  /\ UNCHANGED <<job, top, stack, classes, includes, leftOut, code>>

\* A branch of the tree that is of a class and has branches of its own.
TopBranch ==
  /\ pc = "collect" /\ stack = <<>> /\ top <= Len(job.tops)
  /\ LET b == job.branch[job.tops[top]]
         c == IF b.subs = <<>> THEN None ELSE b.class
     IN  /\ stack' = Entered(stack, job.tops[top], c, 0)
         /\ includes' = includes \cup Header(c)
  /\ top' = top + 1
  /\ UNCHANGED <<job, pc, classes, leftOut, code>>

Generate ==
  /\ pc = "collect" /\ stack = <<>> /\ top > Len(job.tops)
  /\ code' = [i \in DOMAIN classes |-> classes[i].name]
  /\ pc' = "done"
  /\ UNCHANGED <<job, top, stack, classes, includes, leftOut>>

(***************************************************************************)
(* classesFromBranch.                                                      *)
(***************************************************************************)
Running(next) == pc = "collect" /\ stack # <<>> /\ next

\* A branch that is a TClonesArray itself: first the class of its objects, of the
\* same branch.
OnlyTObjArray(j, c) ==
  /\ Len(j.elements[c]) = 1
  /\ j.elements[c][1].base /\ j.elements[c][1].class = TObjArray

Begin ==
  /\ Running(Current.next = 0)
  /\ IF OnlyTObjArray(job, Current.class) /\ Branch.class = TClonesArray
     THEN /\ stack' = Entered(With(Advanced), Current.branch, Branch.contained,
                              Current.prefix + Len(Branch.path))
          /\ includes' = includes \cup Header(Branch.contained)
     ELSE stack' = With(Advanced) /\ UNCHANGED includes
  /\ UNCHANGED <<job, pc, top, classes, leftOut, code>>

AtElement == Running(Current.next \in 1 .. Len(Streamer))

\* The only base class that is kept is TObject.
Base ==
  /\ AtElement /\ Element.base
  /\ IF Element.class = TObject
     THEN /\ stack' = With([Advanced EXCEPT !.bases = Append(@, TObject)])
          /\ includes' = includes \cup {TObject}
     ELSE stack' = With(Advanced) /\ UNCHANGED includes
  /\ UNCHANGED <<job, pc, top, classes, leftOut, code>>

\* The branches whose name, behind the prefix, begins with that of the element.
\* (A name shorter than the prefix would be an exception; ROOT puts the name of
\* an object in front of those of its members.)
Matches ==
  {i \in DOMAIN Branch.subs :
     LET path == job.branch[Branch.subs[i]].path
     IN  Len(path) > Current.prefix /\ path[Current.prefix + 1] = Element.name}
Subbranch == Branch.subs[CHOOSE i \in Matches : \A j \in Matches : i <= j]

\* Mutant: the loop is left as it is.
NoBranchAgain ==
  /\ AtElement /\ ~Element.base /\ Matches = {}
  /\ UNCHANGED vars

NoBranch ==
  /\ AtElement /\ ~Element.base /\ Matches = {}
  /\ stack' = With(Advanced)
  /\ UNCHANGED <<job, pc, top, classes, includes, leftOut, code>>

\* Which class the recursion goes on with.
\* Mutant: a collection is taken for a class like any other.
HeldClass(j, e) == IF e.class = TClonesArray THEN e.contained ELSE e.class
ElementClass(j, e) ==
  IF e.class = TClonesArray THEN e.contained
  ELSE IF j.value[e.class] # None THEN j.value[e.class]
  ELSE e.class

\* The header of a TClonesArray of known objects, or of a collection of objects.
Holder(j, e) ==
  IF (IF e.class = TClonesArray THEN e.contained ELSE j.value[e.class]) = None THEN {} ELSE {e.class}

Number ==
  /\ AtElement /\ ~Element.base /\ Matches # {} /\ Element.class = None
  /\ stack' = With([Advanced EXCEPT !.members =
                      Append(@, [name |-> Element.name, class |-> None, of |-> None])])
  /\ UNCHANGED <<job, pc, top, classes, includes, leftOut, code>>

\* The member is entered when the recursion has returned; nobody looks before.
Class ==
  /\ AtElement /\ ~Element.base /\ Matches # {} /\ Element.class # None
  /\ LET c == ElementClass(job, Element)
         m == [name |-> Element.name, class |-> Element.class, of |-> c]
     IN  /\ stack' = Entered(With([Advanced EXCEPT !.members = Append(@, m)]), Subbranch, c, 1)
         /\ includes' = includes \cup Header(c) \cup Holder(job, Element)
  /\ UNCHANGED <<job, pc, top, classes, leftOut, code>>

Structure == [name |-> Current.class, bases |-> Current.bases, members |-> Current.members]

\* Mutants: the class comes before those collected earlier; also if it is empty.
FinishedFirst == IF Current.members = <<>> THEN classes ELSE <<Structure>> \o classes
FinishedAlways == Append(classes, Structure)
Finished == IF Current.members = <<>> THEN classes ELSE Append(classes, Structure)

\* The class of the call that this one returns to; the loop over the tree has none.
Caller == IF Len(stack) = 1 THEN None ELSE stack[Len(stack) - 1].class

Return ==
  /\ Running(Current.next > Len(Streamer))
  /\ classes' = Finished
  /\ leftOut' = leftOut \cup (IF Current.members = <<>> THEN {<<Caller, Current.class>>} ELSE {})
  /\ stack' = Returned
  /\ UNCHANGED <<job, pc, top, includes, code>>

Next == Open \/ TopBranch \/ Generate \/ Begin \/ Base \/ NoBranch \/ Number \/ Class \/ Return

Spec == Init /\ [][Next]_vars
FairSpec == Spec /\ WF_vars(Next)
-----------------------------------------------------------------------------
(***************************************************************************)
(* Files in which no class contains itself: rank gives a class a greater   *)
(* number than those it leads to.  classSeen looks at the classes that are *)
(* finished, not at those the recursion is in.                             *)
(***************************************************************************)
OwnElements(j, c) == {i \in DOMAIN j.elements[c] : ~j.elements[c][i].base}

LeadsTo(j, c) ==
  {ElementClass(j, j.elements[c][i]) : i \in {k \in OwnElements(j, c) : j.elements[c][k].class # None}}
  \cup {j.branch[b].contained : b \in {k \in j.ids : OnlyTObjArray(j, c) /\ j.branch[k].class = TClonesArray}}

Acyclic(j) == \A c \in Classes : \A d \in LeadsTo(j, c) \ {None} : j.rank[d] < j.rank[c]

RegularInit == Init /\ Acyclic(job)
RegularSpec == RegularInit /\ [][Next]_vars
RegularFairSpec == RegularSpec /\ WF_vars(Next)

(***************************************************************************)
(* Properties.                                                             *)
(***************************************************************************)
Members == [name : Names, class : Classes \cup {None}, of : Classes \cup {None}]
Structures == [name : Classes \ Headers, bases : Seq({TObject}), members : Seq(Members) \ {<<>>}]
Frames ==
  [branch : job.ids, class : Classes \ Headers, prefix : Nat, next : Nat,
   bases : Seq({TObject}), members : Seq(Members)]

\* The state is well-formed; a class without a member, of which nothing would
\* be printed, is not collected.
TypeOK ==
  /\ pc \in {"open", "collect", "done", "failed"}
  /\ top \in 1 .. Len(job.tops) + 1
  /\ stack \in Seq(Frames)
  /\ \A i \in DOMAIN stack : stack[i].next <= Len(job.elements[stack[i].class]) + 1
  /\ classes \in Seq(Structures)
  /\ includes \subseteq Classes
  /\ leftOut \subseteq (Classes \cup {None}) \X Classes
  /\ code \in Seq(Classes)

\* No class is defined twice, however many branches and members are of it.
DeclaredOnce ==
  \A i, k \in DOMAIN classes : classes[i].name = classes[k].name => i = k

\* A class is defined behind those its members are of, as C++ needs it for members
\* that are no pointers.  The exception is a class that the recursion has come upon in
\* this very class and left out, because none of its own members had a branch there: if
\* a later branch has it after all, it comes too late.  (Behind the first dot, only one
\* part of a branch's name is skipped, so that this happens to an object two levels
\* down: of the branches event, inner, Header comes before Inner.)
DefinedBeforeUse ==
  \A i \in DOMAIN code : \A k \in DOMAIN classes[i].members :
    LET c == classes[i].members[k].of
    IN  c # None /\ <<code[i], c>> \notin leftOut => \A u \in DOMAIN code : code[u] = c => u < i

\* Each class that a member of the code is of is defined in it or has its header
\* included, and of a collection that holds true of the class of its values, with the
\* same exception: what was left out in this very class may be missing.
Declared(user, c) ==
  \/ c \in includes
  \/ \E i \in DOMAIN code : code[i] = c
  \/ <<user, c>> \in leftOut

NothingMissing ==
  pc = "done" =>
    \A i \in DOMAIN classes : \A k \in DOMAIN classes[i].members :
      LET m == classes[i].members[k]
      IN  /\ m.of # None => Declared(classes[i].name, m.of)
          /\ m.class # None /\ job.value[m.class] # None =>
               m.class \in includes /\ Declared(classes[i].name, job.value[m.class])
          /\ m.class = TClonesArray /\ m.of # None => m.class \in includes

\* The recursion over the branches comes to an end.
Finishes == <>(pc \in {"done", "failed"})
=============================================================================
