---------------------------- MODULE StreamerToCode_proofs ----------------------------
(***************************************************************************)
(* Proofs about StreamerToCode.  For every file, however its classes are   *)
(* nested: the state of the recursion stays well-formed.  For every file   *)
(* in which no class contains itself: no class is declared twice, every    *)
(* class is declared before it is used, and none is missing at the end.    *)
(***************************************************************************)
EXTENDS StreamerToCode, WellFoundedInduction, SequenceTheorems, TLAPS

TypeInv == job \in Jobs /\ TypeOK

FramesOK(s) ==
  /\ s \in Seq(Frames)
  /\ \A i \in DOMAIN s : s[i].next <= Len(job.elements[s[i].class]) + 1

LEMMA JobTyped ==
  ASSUME job \in Jobs
  PROVE  JobOK(job)
BY JobsAssumption

\* The innermost frame is one.
LEMMA CurrentTyped ==
  ASSUME TypeInv, stack # <<>>
  PROVE  /\ Len(stack) \in 1 .. Len(stack)
         /\ Current \in Frames
         /\ Current.next \in Nat
         /\ Current.class \in Classes \ Headers
         /\ Current.branch \in job.ids
         /\ Streamer \in Seq(Elements)
         /\ Branch \in Branches(job.ids)
<1>1. stack \in Seq(Frames)
  BY DEF TypeInv, TypeOK
<1>2. Len(stack) \in Nat \ {0}
  BY <1>1, EmptySeq
<1>3. Current \in Frames
  BY <1>1, <1>2, ElementOfSeq DEF Current
<1>4. Current.next \in Nat /\ Current.class \in Classes \ Headers /\ Current.branch \in job.ids
  BY <1>3 DEF Frames
<1>5. JobOK(job)
  BY JobTyped DEF TypeInv
<1>6. job.elements \in [Classes -> Seq(Elements)] /\ job.branch \in [job.ids -> Branches(job.ids)]
  BY <1>5, Zenon DEF JobOK
<1>7. Streamer \in Seq(Elements)
  BY <1>4, <1>6 DEF Streamer
<1>8. Branch \in Branches(job.ids)
  BY <1>4, <1>6 DEF Branch
<1> QED
  BY <1>2, <1>3, <1>4, <1>7, <1>8

\* A frame in the place of the innermost one.
LEMMA WithTyped ==
  ASSUME TypeInv, stack # <<>>,
         NEW frame \in Frames, frame.next <= Len(job.elements[frame.class]) + 1
  PROVE  /\ FramesOK(With(frame))
         /\ Len(With(frame)) = Len(stack)
         /\ \A i \in 1 .. Len(stack) : With(frame)[i] = IF i = Len(stack) THEN frame ELSE stack[i]
<1>1. stack \in Seq(Frames) /\ Len(stack) \in 1 .. Len(stack)
  BY CurrentTyped DEF TypeInv, TypeOK
<1>2. /\ With(frame) \in Seq(Frames) /\ Len(With(frame)) = Len(stack)
      /\ \A i \in 1 .. Len(stack) : With(frame)[i] = IF i = Len(stack) THEN frame ELSE stack[i]
  BY <1>1, ExceptSeq DEF With
<1>3. DOMAIN stack = 1 .. Len(stack) /\ DOMAIN With(frame) = 1 .. Len(stack)
  BY <1>1, <1>2, LenProperties
<1>4. \A i \in DOMAIN stack : stack[i].next <= Len(job.elements[stack[i].class]) + 1
  BY DEF TypeInv, TypeOK
<1> QED
  BY <1>2, <1>3, <1>4, Zenon DEF FramesOK

LEMMA AdvancedTyped ==
  ASSUME TypeInv, stack # <<>>, Current.next <= Len(Streamer)
  PROVE  /\ Advanced \in Frames
         /\ Advanced.class = Current.class
         /\ Advanced.next <= Len(job.elements[Advanced.class]) + 1
         /\ Advanced.bases = Current.bases /\ Advanced.members = Current.members
<1>1. Current \in Frames /\ Streamer \in Seq(Elements)
  BY CurrentTyped
<1>2. Advanced \in Frames /\ Advanced.class = Current.class /\ Advanced.next = Current.next + 1
      /\ Advanced.bases = Current.bases /\ Advanced.members = Current.members
  BY <1>1 DEF Advanced, Frames
<1>3. Len(Streamer) \in Nat /\ Current.next \in Nat
  BY <1>1, LenProperties DEF Frames
<1> QED
  BY <1>2, <1>3 DEF Streamer

\* Entering a class leaves the frames as they are or adds one for the class.
LEMMA EnteredTyped ==
  ASSUME TypeInv, NEW frames, FramesOK(frames),
         NEW b \in job.ids, NEW c \in Classes \cup {None}, NEW prefix \in Nat
  PROVE  FramesOK(Entered(frames, b, c, prefix))
<1> USE DEF FramesOK
<1> DEFINE new == Entered(frames, b, c, prefix)
<1>1. CASE new = frames
  BY <1>1
<1>2. CASE new # frames
  <2>1. c \in Classes \ Headers /\ new = Append(frames, Frame(b, c, prefix))
    BY <1>2 DEF Entered
  <2>2. Frame(b, c, prefix) \in Frames
    BY <2>1 DEF Frame, Frames
  <2>3. /\ new \in Seq(Frames) /\ Len(new) = Len(frames) + 1
        /\ \A i \in 1 .. Len(frames) : new[i] = frames[i]
        /\ new[Len(frames) + 1] = Frame(b, c, prefix)
    BY <2>1, <2>2, AppendProperties
  <2>4. DOMAIN frames = 1 .. Len(frames) /\ DOMAIN new = 1 .. Len(frames) + 1 /\ Len(frames) \in Nat
    BY <2>3, LenProperties
  <2>5. job.elements[c] \in Seq(Elements)
    BY <2>1, JobTyped DEF JobOK, TypeInv
  <2>6. Frame(b, c, prefix).next = 0 /\ Frame(b, c, prefix).class = c /\ Len(job.elements[c]) \in Nat
    BY <2>5, LenProperties DEF Frame
  <2> QED
    <3>1. ASSUME NEW i \in DOMAIN new PROVE new[i].next <= Len(job.elements[new[i].class]) + 1
      <4>1. CASE i \in 1 .. Len(frames)
        BY <2>3, <2>4, <4>1
      <4>2. CASE i = Len(frames) + 1
        BY <2>3, <2>6, <4>2
      <4> QED
        BY <2>4, <3>1, <4>1, <4>2
    <3> QED
      BY <2>3, <3>1
<1> HIDE DEF new
<1> QED
  BY <1>1, <1>2 DEF new

\* The element at hand and the branch found for it.
LEMMA ElementTyped ==
  ASSUME TypeInv, AtElement
  PROVE  /\ stack # <<>>
         /\ Element \in Elements
         /\ Current.next <= Len(Streamer)
         /\ Matches # {} => Subbranch \in job.ids
<1>1. stack # <<>> /\ Current.next \in 1 .. Len(Streamer)
  BY DEF AtElement, Running
<1>2. Streamer \in Seq(Elements) /\ Branch \in Branches(job.ids)
  BY <1>1, CurrentTyped
<1>3. Element \in Elements /\ Current.next <= Len(Streamer)
  BY <1>1, <1>2, ElementOfSeq DEF Element
<1>4. Branch.subs \in Seq(job.ids)
  BY <1>2 DEF Branches
<1>5. ASSUME Matches # {} PROVE Subbranch \in job.ids
  <2>1. Matches \subseteq 1 .. Len(Branch.subs)
    BY <1>4, LenProperties DEF Matches
  <2>2. Matches \subseteq Nat
    BY <2>1
  <2>3. \E i \in Matches : \A j \in Matches : i <= j
    <3>1. PICK i \in Matches : \A j \in Matches : ~(<<j, i>> \in OpToRel(<, Nat))
      BY <1>5, <2>2, NatLessThanWellFounded, WFMin
    <3>2. \A j \in Matches : ~(j < i)
      BY <2>2, <3>1 DEF OpToRel
    <3> QED
      BY <2>2, <3>2
  <2>4. (CHOOSE i \in Matches : \A j \in Matches : i <= j) \in 1 .. Len(Branch.subs)
    BY <2>1, <2>3
  <2> QED
    BY <1>4, <2>4, ElementOfSeq DEF Subbranch
<1> QED
  BY <1>1, <1>3, <1>5

LEMMA HeaderTyped ==
  ASSUME NEW c \in Classes \cup {None}
  PROVE  Header(c) \subseteq Classes
BY ClassesAssumption DEF Header

(***************************************************************************)
(* Type correctness.                                                       *)
(***************************************************************************)
LEMMA TypeInit ==
  ASSUME Init
  PROVE  TypeInv
<1>1. JobOK(job)
  BY JobsAssumption DEF Init
<1>2. Len(job.tops) \in Nat
  BY <1>1, LenProperties DEF JobOK
<1>3. stack \in Seq(Frames) /\ classes \in Seq(Structures) /\ code \in Seq(Classes)
  BY EmptySeq DEF Init
<1>4. DOMAIN stack = {}
  BY DEF Init
<1> QED
  BY <1>2, <1>3, <1>4 DEF Init, TypeInv, TypeOK

\* Steps that change no more than the frames, the headers and the history.
LEMMA FramesChange ==
  ASSUME TypeInv, FramesOK(stack'), includes' \subseteq Classes,
         leftOut' \subseteq (Classes \cup {None}) \X Classes,
         UNCHANGED <<job, pc, top, classes, code>>
  PROVE  TypeInv'
<1>1. Frames' = Frames
  BY DEF Frames
<1>2. Structures' = Structures
  BY DEF Structures, Members
<1>3. job \in Jobs /\ TypeOK
  BY DEF TypeInv
<1>4. /\ stack' \in Seq(Frames)
      /\ \A i \in DOMAIN stack' : stack'[i].next <= Len(job.elements[stack'[i].class]) + 1
  BY DEF FramesOK
<1>5. TypeOK'
  BY <1>1, <1>2, <1>3, <1>4 DEF TypeOK
<1> QED
  BY <1>3, <1>5 DEF TypeInv

LEMMA OpenTyped ==
  ASSUME TypeInv, Open
  PROVE  TypeInv'
<1>1. Frames' = Frames /\ Structures' = Structures
  BY DEF Open, Frames, Structures, Members
<1>2. /\ pc' \in {"open", "collect", "done", "failed"}
      /\ UNCHANGED <<job, top, stack, classes, includes, leftOut, code>>
  BY DEF Open
<1>3. job \in Jobs /\ TypeOK
  BY DEF TypeInv
<1>4. TypeOK'
  BY <1>1, <1>2, <1>3 DEF TypeOK
<1> QED
  BY <1>2, <1>3, <1>4 DEF TypeInv

LEMMA TopBranchTyped ==
  ASSUME TypeInv, TopBranch
  PROVE  TypeInv'
<1> DEFINE b == job.branch[job.tops[top]]
           c == IF b.subs = <<>> THEN None ELSE b.class
<1>1. JobOK(job) /\ top \in 1 .. Len(job.tops) + 1 /\ top <= Len(job.tops)
  BY JobTyped DEF TypeInv, TypeOK, TopBranch
<1>2. Len(job.tops) \in Nat
  BY <1>1, LenProperties DEF JobOK
<1>3. job.tops[top] \in job.ids
  BY <1>1, <1>2, ElementOfSeq DEF JobOK
<1>4. c \in Classes \cup {None}
  BY <1>1, <1>3 DEF JobOK, Branches
<1>5. FramesOK(stack)
  BY DEF TypeInv, TypeOK, FramesOK
<1>6. FramesOK(stack') /\ includes' \subseteq Classes
  <2>1. stack' = Entered(stack, job.tops[top], c, 0) /\ includes' = includes \cup Header(c)
    BY DEF TopBranch
  <2> HIDE DEF c
  <2> QED
    <3>1. includes \subseteq Classes
      BY DEF TypeInv, TypeOK
    <3> QED
      BY <1>3, <1>4, <1>5, <2>1, <3>1, EnteredTyped, HeaderTyped
<1>7. top' \in 1 .. Len(job.tops) + 1
  BY <1>1, <1>2 DEF TopBranch
<1>8. Frames' = Frames /\ Structures' = Structures
  BY DEF TopBranch, Frames, Structures, Members
<1> QED
  BY <1>6, <1>7, <1>8, Zenon DEF TopBranch, TypeInv, TypeOK, FramesOK

LEMMA GenerateTyped ==
  ASSUME TypeInv, Generate
  PROVE  TypeInv'
<1>1. classes \in [1 .. Len(classes) -> Structures] /\ Len(classes) \in Nat
  BY LenProperties DEF TypeInv, TypeOK
<1>2. code' \in [1 .. Len(classes) -> Classes]
  BY <1>1 DEF Generate, Structures
<1>3. code' \in Seq(Classes)
  BY <1>1, <1>2, SeqDef
<1>4. Frames' = Frames /\ Structures' = Structures
  BY DEF Generate, Frames, Structures, Members
<1> QED
  BY <1>3, <1>4 DEF Generate, TypeInv, TypeOK

LEMMA BeginTyped ==
  ASSUME TypeInv, Begin
  PROVE  TypeInv'
<1>1. stack # <<>> /\ Current.next = 0
  BY DEF Begin, Running
<1>2. Current \in Frames /\ Current.branch \in job.ids /\ Branch \in Branches(job.ids)
      /\ Streamer \in Seq(Elements)
  BY <1>1, CurrentTyped
<1>3. Current.next <= Len(Streamer)
  BY <1>1, <1>2, LenProperties
<1>4. FramesOK(With(Advanced))
  BY <1>1, <1>3, AdvancedTyped, WithTyped
<1>5. Branch.contained \in Classes \cup {None} /\ Current.prefix + Len(Branch.path) \in Nat
  <2>1. Len(Branch.path) \in Nat
    BY <1>2, LenProperties DEF Branches
  <2> QED
    BY <1>2, <2>1 DEF Branches, Frames
<1>6. FramesOK(Entered(With(Advanced), Current.branch, Branch.contained,
                       Current.prefix + Len(Branch.path)))
  BY <1>2, <1>4, <1>5, EnteredTyped
<1>7. FramesOK(stack') /\ includes' \subseteq Classes
  BY <1>4, <1>5, <1>6, HeaderTyped DEF Begin, TypeInv, TypeOK
<1> QED
  BY <1>7, FramesChange DEF Begin, TypeInv, TypeOK

LEMMA BaseTyped ==
  ASSUME TypeInv, Base
  PROVE  TypeInv'
<1>1. stack # <<>> /\ Current.next <= Len(Streamer)
  BY ElementTyped DEF Base
<1>2. Current \in Frames /\ Advanced \in Frames
  BY <1>1, CurrentTyped, AdvancedTyped
<1>3. FramesOK(With(Advanced))
  BY <1>1, AdvancedTyped, WithTyped
<1> DEFINE frame == [Advanced EXCEPT !.bases = Append(@, TObject)]
<1>4. frame \in Frames /\ frame.next = Advanced.next /\ frame.class = Advanced.class
  <2>1. Append(Advanced.bases, TObject) \in Seq({TObject})
    BY <1>2, AppendProperties DEF Frames
  <2> QED
    BY <1>2, <2>1 DEF Frames
<1>5. FramesOK(With(frame))
  BY <1>1, <1>4, AdvancedTyped, WithTyped
<1>6. FramesOK(stack') /\ includes' \subseteq Classes
  BY <1>3, <1>5, ClassesAssumption DEF Base, TypeInv, TypeOK
<1> QED
  BY <1>6, FramesChange DEF Base, TypeInv, TypeOK

LEMMA NoBranchTyped ==
  ASSUME TypeInv, NoBranch
  PROVE  TypeInv'
<1>1. stack # <<>> /\ Current.next <= Len(Streamer) /\ Element \in Elements
  BY ElementTyped DEF NoBranch
<1>2. FramesOK(With(Advanced))
  BY <1>1, AdvancedTyped, WithTyped
<1> QED
  BY <1>2, FramesChange DEF NoBranch, TypeInv, TypeOK

LEMMA NumberTyped ==
  ASSUME TypeInv, Number
  PROVE  TypeInv'
<1> DEFINE m == [name |-> Element.name, class |-> None, of |-> None]
           frame == [Advanced EXCEPT !.members = Append(@, m)]
<1>1. stack # <<>> /\ Current.next <= Len(Streamer) /\ Element \in Elements
  BY ElementTyped DEF Number
<1>2. Advanced \in Frames /\ m \in Members
  BY <1>1, AdvancedTyped DEF Elements, Members
<1>3. frame \in Frames /\ frame.next = Advanced.next /\ frame.class = Advanced.class
  <2> HIDE DEF m
  <2>1. Append(Advanced.members, m) \in Seq(Members)
    BY <1>2, AppendProperties DEF Frames
  <2> QED
    BY <1>2, <2>1 DEF Frames
<1>4. FramesOK(With(frame))
  BY <1>1, <1>3, AdvancedTyped, WithTyped
<1> QED
  BY <1>4, FramesChange DEF Number, TypeInv, TypeOK

\* The class the recursion goes on with, and the headers of what holds it.
LEMMA ElementClassTyped ==
  ASSUME TypeInv, Element \in Elements, Element.class # None
  PROVE  /\ ElementClass(job, Element) \in Classes \cup {None}
         /\ Holder(job, Element) \subseteq Classes
<1>1. JobOK(job) /\ Element.class \in Classes
  BY JobTyped DEF Elements, TypeInv
<1> QED
  BY <1>1 DEF ElementClass, Holder, Elements, JobOK

\* The frame of a member's class, over that of the class itself.
LEMMA ClassStep ==
  ASSUME TypeInv, Class
  PROVE  \E frame \in Frames, b \in job.ids :
           LET c == ElementClass(job, Element)
           IN  /\ frame.class = Current.class
               /\ frame.next <= Len(job.elements[frame.class]) + 1
               /\ c \in Classes \cup {None}
               /\ stack' = Entered(With(frame), b, c, 1)
<1> DEFINE c == ElementClass(job, Element)
           m == [name |-> Element.name, class |-> Element.class, of |-> c]
           frame == [Advanced EXCEPT !.members = Append(@, m)]
<1>1. stack # <<>> /\ Current.next <= Len(Streamer) /\ Element \in Elements /\ Subbranch \in job.ids
  BY ElementTyped DEF Class
<1>2. c \in Classes \cup {None}
  BY <1>1, ElementClassTyped DEF Class
<1>3. Advanced \in Frames /\ m \in Members
  BY <1>1, <1>2, AdvancedTyped DEF Elements, Members
<1>4. frame \in Frames /\ frame.next = Advanced.next /\ frame.class = Advanced.class
  <2> HIDE DEF m
  <2>1. Append(Advanced.members, m) \in Seq(Members)
    BY <1>3, AppendProperties DEF Frames
  <2> QED
    BY <1>3, <2>1 DEF Frames
<1>5. stack' = Entered(With(frame), Subbranch, c, 1)
  BY DEF Class
<1>6. frame.class = Current.class /\ frame.next <= Len(job.elements[frame.class]) + 1
  BY <1>1, <1>4, AdvancedTyped
<1> HIDE DEF frame
<1> QED
  BY <1>1, <1>2, <1>4, <1>5, <1>6

LEMMA ClassTyped ==
  ASSUME TypeInv, Class
  PROVE  TypeInv'
<1> DEFINE c == ElementClass(job, Element)
<1>1. stack # <<>> /\ Element \in Elements
  BY ElementTyped DEF Class
<1>2. PICK frame \in Frames, b \in job.ids :
        /\ frame.next <= Len(job.elements[frame.class]) + 1
        /\ c \in Classes \cup {None}
        /\ stack' = Entered(With(frame), b, c, 1)
  BY ClassStep
<1>3. FramesOK(stack')
  <2>1. FramesOK(With(frame))
    BY <1>1, <1>2, WithTyped
  <2> HIDE DEF c
  <2> QED
    BY <1>2, <2>1, EnteredTyped
<1>4. includes' \subseteq Classes
  <2>1. includes' = includes \cup Header(c) \cup Holder(job, Element)
    BY DEF Class
  <2>2. Header(c) \subseteq Classes
    BY <1>2, HeaderTyped
  <2> QED
    BY <1>1, <2>1, <2>2, ElementClassTyped DEF Class, TypeInv, TypeOK
<1> QED
  BY <1>3, <1>4, FramesChange DEF Class, TypeInv, TypeOK

\* Returning leaves all frames but the innermost.
LEMMA ReturnedFrames ==
  ASSUME TypeInv, stack # <<>>
  PROVE  /\ Len(stack) \in Nat \ {0}
         /\ Returned \in Seq(Frames)
         /\ DOMAIN stack = 1 .. Len(stack) /\ DOMAIN Returned = 1 .. Len(stack) - 1
         /\ \A i \in 1 .. Len(stack) - 1 : Returned[i] = stack[i]
<1>1. stack \in Seq(Frames) /\ Len(stack) \in 1 .. Len(stack) /\ Len(stack) \in Nat
  BY CurrentTyped, LenProperties DEF TypeInv, TypeOK
<1>2. \A i \in 1 .. Len(stack) : stack[i] \in Frames
  BY <1>1, ElementOfSeq
<1>3. /\ Returned \in Seq(Frames) /\ Len(Returned) = Len(stack) - 1
      /\ \A i \in 1 .. Len(stack) - 1 : Returned[i] = stack[i]
  <2>1. \A i \in 1 .. Len(stack) - 1 : stack[i] \in Frames
    BY <1>1, <1>2
  <2>2. /\ Returned \in Seq(Frames)
        /\ Len(Returned) = IF 1 <= Len(stack) - 1 THEN Len(stack) - 1 - 1 + 1 ELSE 0
        /\ \A i \in 1 .. Len(stack) - 1 - 1 + 1 : Returned[i] = stack[1 + i - 1]
    BY <1>1, <2>1, SubSeqProperties DEF Returned
  <2>3. Len(Returned) = Len(stack) - 1
    <3>1. Len(stack) - 1 \in Nat
      BY <1>1
    <3>2. CASE 1 <= Len(stack) - 1
      BY <2>2, <3>1, <3>2
    <3>3. CASE Len(stack) - 1 = 0
      BY <2>2, <3>3
    <3> QED
      BY <3>1, <3>2, <3>3
  <2>4. ASSUME NEW i \in 1 .. Len(stack) - 1 PROVE Returned[i] = stack[i]
    <3>1. i \in 1 .. Len(stack) - 1 - 1 + 1 /\ 1 + i - 1 = i
      BY <1>1
    <3> QED
      BY <2>2, <3>1
  <2> QED
    BY <2>2, <2>3, <2>4
<1> QED
  BY <1>1, <1>3, LenProperties

\* The call that has made this one.
LEMMA CallerClass ==
  ASSUME TypeInv, stack # <<>>
  PROVE  /\ Caller \in Classes \cup {None}
         /\ \A i \in DOMAIN stack : i + 1 = Len(stack) => Caller = stack[i].class
<1> DEFINE n == Len(stack)
<1>1. n \in Nat \ {0} /\ DOMAIN stack = 1 .. n /\ stack \in Seq(Frames)
  BY ReturnedFrames DEF TypeInv, TypeOK
<1>2. \A i \in DOMAIN stack : stack[i] \in Frames
  BY <1>1, ElementOfSeq
<1> HIDE DEF n
<1>3. CASE n = 1
  BY <1>1, <1>3 DEF Caller, n
<1>4. CASE n # 1
  <2>1. Caller = stack[n - 1].class /\ n - 1 \in DOMAIN stack
    BY <1>1, <1>4 DEF Caller, n
  <2>2. Caller \in Classes
    BY <1>2, <2>1 DEF Frames
  <2>3. \A i \in DOMAIN stack : i + 1 = n => i = n - 1
    BY <1>1
  <2> QED
    BY <2>1, <2>2, <2>3 DEF n
<1> QED
  BY <1>3, <1>4

LEMMA FinishedTyped ==
  ASSUME TypeInv, stack # <<>>
  PROVE  Finished \in Seq(Structures)
<1>1. Current \in Frames
  BY CurrentTyped
<1>2. Current.members # <<>> => Structure \in Structures
  BY <1>1 DEF Frames, Structure, Structures
<1> QED
  BY <1>2, AppendProperties DEF Finished, TypeInv, TypeOK

LEMMA ReturnTyped ==
  ASSUME TypeInv, Return
  PROVE  TypeInv'
<1>1. stack # <<>>
  BY DEF Return, Running
<1>2. FramesOK(stack')
  <2>1. /\ stack' = Returned /\ Returned \in Seq(Frames)
        /\ \A i \in DOMAIN Returned : i \in DOMAIN stack /\ Returned[i] = stack[i]
    BY <1>1, ReturnedFrames DEF Return
  <2>2. \A i \in DOMAIN stack : stack[i].next <= Len(job.elements[stack[i].class]) + 1
    BY DEF TypeInv, TypeOK
  <2> QED
    BY <2>1, <2>2 DEF FramesOK
<1>3. classes' \in Seq(Structures)
  BY <1>1, FinishedTyped DEF Return
<1>4. Frames' = Frames /\ Structures' = Structures
  BY DEF Return, Frames, Structures, Members
<1>5. leftOut' \subseteq (Classes \cup {None}) \X Classes
  <2>1. Current.class \in Classes
    BY <1>1, CurrentTyped DEF Frames
  <2>2. Caller \in Classes \cup {None}
    BY <1>1, CallerClass
  <2> QED
    BY <2>1, <2>2 DEF Return, TypeInv, TypeOK
<1> QED
  BY <1>2, <1>3, <1>4, <1>5 DEF Return, TypeInv, TypeOK, FramesOK

LEMMA TypeNext ==
  ASSUME TypeInv, [Next]_vars
  PROVE  TypeInv'
<1>1. CASE Next
  BY <1>1, OpenTyped, TopBranchTyped, GenerateTyped, BeginTyped, BaseTyped, NoBranchTyped,
     NumberTyped, ClassTyped, ReturnTyped DEF Next
<1>2. CASE UNCHANGED vars
  BY <1>2 DEF vars, TypeInv, TypeOK, Frames, Structures, Members
<1> QED
  BY <1>1, <1>2

\* Whatever is in the file, the stack of calls, the classes collected and the code
\* stay well-formed, and no class without members is collected.
THEOREM TypeCorrect == Spec => []TypeOK
<1>1. Spec => []TypeInv
  BY TypeInit, TypeNext, PTL DEF Spec
<1>2. TypeInv => TypeOK
  BY DEF TypeInv
<1> QED
  BY <1>1, <1>2, PTL

(***************************************************************************)
(* No class is declared twice.  The calls that are under way are of        *)
(* different classes, since each is for a class that the one before leads  *)
(* to, and none of these is among those that are finished.                 *)
(***************************************************************************)
OnTheWay(s) ==
  /\ \A i, k \in DOMAIN s : i < k => job.rank[s[k].class] < job.rank[s[i].class]
  /\ \A i \in DOMAIN s : ~ClassSeen(s[i].class)

OnceInv == TypeInv /\ Acyclic(job) /\ OnTheWay(stack) /\ DeclaredOnce

LEMMA Ranks ==
  ASSUME TypeInv
  PROVE  /\ \A c \in Classes : job.rank[c] \in Nat
         /\ None \notin Classes
<1>1. JobOK(job)
  BY JobTyped DEF TypeInv
<1>2. \A j : JobOK(j) => j.rank \in [Classes -> Nat]
  BY DEF JobOK
<1> QED
  BY <1>1, <1>2, ClassesAssumption

\* A frame of the same class in the place of the innermost one.
LEMMA WithOnTheWay ==
  ASSUME OnceInv, stack # <<>>, NEW frame \in Frames,
         frame.next <= Len(job.elements[frame.class]) + 1, frame.class = Current.class
  PROVE  FramesOK(With(frame)) /\ OnTheWay(With(frame))
<1>1. /\ FramesOK(With(frame)) /\ Len(With(frame)) = Len(stack)
      /\ \A i \in 1 .. Len(stack) : With(frame)[i] = IF i = Len(stack) THEN frame ELSE stack[i]
  BY WithTyped DEF OnceInv
<1>2. DOMAIN With(frame) = 1 .. Len(stack) /\ DOMAIN stack = 1 .. Len(stack)
  BY <1>1, LenProperties DEF FramesOK, OnceInv, TypeInv, TypeOK
<1>3. \A i \in 1 .. Len(stack) : With(frame)[i].class = stack[i].class
  BY <1>1 DEF Current
<1> QED
  BY <1>1, <1>2, <1>3, Zenon DEF OnTheWay, OnceInv

\* A class that the innermost one leads to, entered above it.
LEMMA EnteredOnTheWay ==
  ASSUME OnceInv, NEW s, FramesOK(s), OnTheWay(s),
         NEW b \in job.ids, NEW c \in Classes \cup {None}, NEW prefix \in Nat,
         s # <<>> => c \in LeadsTo(job, s[Len(s)].class)
  PROVE  OnTheWay(Entered(s, b, c, prefix))
<1> DEFINE new == Entered(s, b, c, prefix)
<1>1. CASE new = s
  BY <1>1
<1>2. CASE new # s
  <2>1. c \in Classes \ Headers /\ ~ClassSeen(c) /\ new = Append(s, Frame(b, c, prefix))
    BY <1>2 DEF Entered
  <2>2. Frame(b, c, prefix) \in Frames /\ Frame(b, c, prefix).class = c
    BY <2>1, EmptySeq DEF Frame, Frames
  <2>3. /\ new \in Seq(Frames) /\ Len(new) = Len(s) + 1
        /\ \A i \in 1 .. Len(s) : new[i] = s[i]
        /\ new[Len(s) + 1].class = c
    BY <2>1, <2>2, AppendProperties DEF FramesOK
  <2>4. /\ Len(s) \in Nat /\ DOMAIN s = 1 .. Len(s) /\ DOMAIN new = 1 .. Len(s) + 1
        /\ \A i \in 1 .. Len(s) : s[i].class \in Classes
    <3>1. s \in Seq(Frames)
      BY DEF FramesOK
    <3>2. Len(s) \in Nat /\ DOMAIN s = 1 .. Len(s) /\ DOMAIN new = 1 .. Len(s) + 1
      BY <2>3, <3>1, LenProperties
    <3>3. \A i \in 1 .. Len(s) : s[i] \in Frames
      BY <3>1, ElementOfSeq
    <3> QED
      BY <3>2, <3>3 DEF Frames
  <2>5. ASSUME NEW i \in 1 .. Len(s) PROVE job.rank[c] < job.rank[s[i].class]
    <3>1. Len(s) \in 1 .. Len(s) /\ s # <<>>
      BY <2>4, <2>5, EmptySeq
    <3>2. c # None /\ c \in LeadsTo(job, s[Len(s)].class)
      BY <2>1, <3>1, Ranks DEF OnceInv
    <3>3. job.rank[c] < job.rank[s[Len(s)].class]
      BY <2>4, <3>1, <3>2 DEF Acyclic, OnceInv
    <3>4. CASE i = Len(s)
      BY <3>3, <3>4
    <3>5. CASE i < Len(s)
      <4>1. job.rank[s[Len(s)].class] < job.rank[s[i].class]
        BY <2>4, <3>1, <3>5 DEF OnTheWay
      <4>2. job.rank[c] \in Nat /\ job.rank[s[Len(s)].class] \in Nat /\ job.rank[s[i].class] \in Nat
        BY <2>1, <2>4, <3>1, Ranks DEF OnceInv
      <4> QED
        BY <3>3, <4>1, <4>2
    <3>6. Len(s) \in Nat
      BY <2>4
    <3>7. i = Len(s) \/ i < Len(s)
      BY <3>6
    <3> QED
      BY <3>4, <3>5, <3>7
  <2>6. ASSUME NEW i \in DOMAIN new, NEW k \in DOMAIN new, i < k
        PROVE  job.rank[new[k].class] < job.rank[new[i].class]
    <3>1. i \in 1 .. Len(s)
      BY <2>4, <2>6
    <3>2. CASE k \in 1 .. Len(s)
      BY <2>3, <2>4, <2>6, <3>1, <3>2 DEF OnTheWay
    <3>3. CASE k = Len(s) + 1
      BY <2>3, <2>5, <3>1, <3>3
    <3> QED
      BY <2>4, <3>2, <3>3
  <2>7. ASSUME NEW i \in DOMAIN new PROVE ~ClassSeen(new[i].class)
    <3>1. CASE i \in 1 .. Len(s)
      BY <2>3, <2>4, <3>1 DEF OnTheWay
    <3>2. CASE i = Len(s) + 1
      BY <2>1, <2>3, <3>2
    <3> QED
      BY <2>4, <3>1, <3>2
  <2>8. OnTheWay(new)
    <3> HIDE DEF new
    <3> QED
      BY <2>6, <2>7 DEF OnTheWay
  <2> QED
    BY <2>8
<1> QED
  BY <1>1, <1>2

\* Steps that collect no class keep the rest of the invariant.
LEMMA StackChange ==
  ASSUME OnceInv, TypeInv', OnTheWay(stack'), UNCHANGED <<job, classes>>
  PROVE  OnceInv'
<1>1. DeclaredOnce /\ Acyclic(job)
  BY DEF OnceInv
<1>2. DeclaredOnce'
  <2>1. DeclaredOnce /\ classes' = classes
    BY <1>1
  <2> QED
    BY <2>1 DEF DeclaredOnce
<1>3. Acyclic(job)'
  <2>1. Acyclic(job) /\ job' = job
    BY <1>1
  <2> QED
    BY <2>1
<1>4. OnTheWay(stack)'
  BY DEF OnTheWay, ClassSeen
<1> QED
  BY <1>2, <1>3, <1>4 DEF OnceInv

\* The step to the next element, with nothing entered.
LEMMA AdvanceKeeps ==
  ASSUME OnceInv, TypeInv', stack # <<>>, UNCHANGED <<job, classes>>,
         NEW frame \in Frames, frame.class = Current.class,
         frame.next <= Len(job.elements[frame.class]) + 1, stack' = With(frame)
  PROVE  OnceInv'
BY WithOnTheWay, StackChange

LEMMA LeadsToElement ==
  ASSUME TypeInv, AtElement, ~Element.base, Element.class # None
  PROVE  ElementClass(job, Element) \in LeadsTo(job, Current.class)
<1>1. Current.next \in DOMAIN job.elements[Current.class]
  <2>1. Current.next \in 1 .. Len(Streamer) /\ stack # <<>>
    BY DEF AtElement, Running
  <2>2. Streamer \in Seq(Elements)
    BY <2>1, CurrentTyped
  <2> QED
    BY <2>1, <2>2, LenProperties DEF Streamer
<1>2. Current.next \in OwnElements(job, Current.class)
  BY <1>1 DEF OwnElements, Element, Streamer
<1>3. Element = job.elements[Current.class][Current.next]
  BY DEF Element, Streamer
<1>4. Current.next \in {k \in OwnElements(job, Current.class) : job.elements[Current.class][k].class # None}
  BY <1>2, <1>3, Zenon
<1> QED
  BY <1>3, <1>4, Zenon DEF LeadsTo

LEMMA TopBranchOnce ==
  ASSUME OnceInv, TopBranch
  PROVE  OnceInv'
<1> DEFINE b == job.branch[job.tops[top]]
           c == IF b.subs = <<>> THEN None ELSE b.class
<1>1. JobOK(job) /\ top \in 1 .. Len(job.tops)
  <2>1. JobOK(job) /\ top \in 1 .. Len(job.tops) + 1 /\ top <= Len(job.tops)
    BY JobTyped DEF OnceInv, TypeInv, TypeOK, TopBranch
  <2>2. Len(job.tops) \in Nat
    BY <2>1, LenProperties DEF JobOK
  <2> QED
    BY <2>1, <2>2
<1>2. job.tops[top] \in job.ids
  BY <1>1, ElementOfSeq DEF JobOK
<1>3. c \in Classes \cup {None}
  BY <1>1, <1>2 DEF JobOK, Branches
<1>4. OnTheWay(stack')
  <2>1. stack = <<>> /\ stack' = Entered(stack, job.tops[top], c, 0)
    BY DEF TopBranch
  <2>2. FramesOK(stack) /\ OnTheWay(stack)
    BY DEF OnceInv, TypeInv, TypeOK, FramesOK
  <2> HIDE DEF c
  <2> QED
    BY <1>2, <1>3, <2>1, <2>2, EnteredOnTheWay
<1> QED
  BY <1>4, TopBranchTyped, StackChange DEF TopBranch, OnceInv

LEMMA BeginOnce ==
  ASSUME OnceInv, Begin
  PROVE  OnceInv'
<1>1. stack # <<>> /\ Current.next = 0 /\ TypeInv /\ TypeInv'
  BY BeginTyped DEF Begin, Running, OnceInv
<1>2. /\ Current \in Frames /\ Current.branch \in job.ids /\ Branch \in Branches(job.ids)
      /\ Streamer \in Seq(Elements)
  BY <1>1, CurrentTyped
<1>3. /\ Advanced \in Frames /\ Advanced.class = Current.class
      /\ Advanced.next <= Len(job.elements[Advanced.class]) + 1
  BY <1>1, <1>2, LenProperties, AdvancedTyped
<1>4. CASE stack' = With(Advanced)
  BY <1>1, <1>3, <1>4, AdvanceKeeps DEF Begin
<1>5. CASE /\ OnlyTObjArray(job, Current.class) /\ Branch.class = TClonesArray
           /\ stack' = Entered(With(Advanced), Current.branch, Branch.contained,
                               Current.prefix + Len(Branch.path))
  <2>1. FramesOK(With(Advanced)) /\ OnTheWay(With(Advanced))
    BY <1>1, <1>3, WithOnTheWay
  <2>2. With(Advanced)[Len(With(Advanced))].class = Current.class
    BY <1>1, <1>3, WithTyped, CurrentTyped
  <2>3. Branch.contained \in LeadsTo(job, Current.class)
    BY <1>2, <1>5 DEF LeadsTo, Branch
  <2>4. Branch.contained \in Classes \cup {None} /\ Current.prefix + Len(Branch.path) \in Nat
    <3>1. Len(Branch.path) \in Nat
      BY <1>2, LenProperties DEF Branches
    <3> QED
      BY <1>2, <3>1 DEF Branches, Frames
  <2>5. OnTheWay(stack')
    BY <1>2, <1>5, <2>1, <2>2, <2>3, <2>4, EnteredOnTheWay
  <2> QED
    BY <1>1, <2>5, StackChange DEF Begin
<1> QED
  BY <1>4, <1>5 DEF Begin

LEMMA BaseOnce ==
  ASSUME OnceInv, Base
  PROVE  OnceInv'
<1> DEFINE frame == [Advanced EXCEPT !.bases = Append(@, TObject)]
<1>1. stack # <<>> /\ Current.next <= Len(Streamer) /\ TypeInv /\ TypeInv'
  BY ElementTyped, BaseTyped DEF Base, OnceInv
<1>2. /\ Advanced \in Frames /\ Advanced.class = Current.class
      /\ Advanced.next <= Len(job.elements[Advanced.class]) + 1
  BY <1>1, AdvancedTyped
<1>3. /\ frame \in Frames /\ frame.class = Current.class
      /\ frame.next <= Len(job.elements[frame.class]) + 1
  <2>1. Append(Advanced.bases, TObject) \in Seq({TObject})
    BY <1>2, AppendProperties DEF Frames
  <2> QED
    BY <1>2, <2>1 DEF Frames
<1>4. CASE stack' = With(Advanced)
  BY <1>1, <1>2, <1>4, AdvanceKeeps DEF Base
<1>5. CASE stack' = With(frame)
  <2> HIDE DEF frame
  <2> QED
    BY <1>1, <1>3, <1>5, AdvanceKeeps DEF Base
<1> QED
  BY <1>4, <1>5 DEF Base

LEMMA NoBranchOnce ==
  ASSUME OnceInv, NoBranch
  PROVE  OnceInv'
<1>1. stack # <<>> /\ Current.next <= Len(Streamer) /\ TypeInv /\ TypeInv'
  BY ElementTyped, NoBranchTyped DEF NoBranch, OnceInv
<1> QED
  BY <1>1, AdvancedTyped, AdvanceKeeps DEF NoBranch

LEMMA NumberOnce ==
  ASSUME OnceInv, Number
  PROVE  OnceInv'
<1> DEFINE m == [name |-> Element.name, class |-> None, of |-> None]
           frame == [Advanced EXCEPT !.members = Append(@, m)]
<1>1. /\ stack # <<>> /\ Current.next <= Len(Streamer) /\ Element \in Elements
      /\ TypeInv /\ TypeInv'
  BY ElementTyped, NumberTyped DEF Number, OnceInv
<1>2. /\ Advanced \in Frames /\ Advanced.class = Current.class /\ m \in Members
      /\ Advanced.next <= Len(job.elements[Advanced.class]) + 1
  BY <1>1, AdvancedTyped DEF Elements, Members
<1>3. /\ frame \in Frames /\ frame.class = Current.class
      /\ frame.next <= Len(job.elements[frame.class]) + 1
  <2> HIDE DEF m
  <2>1. Append(Advanced.members, m) \in Seq(Members)
    BY <1>2, AppendProperties DEF Frames
  <2> QED
    BY <1>2, <2>1 DEF Frames
<1>4. stack' = With(frame) /\ UNCHANGED <<job, classes>>
  BY DEF Number
<1> HIDE DEF frame
<1> QED
  BY <1>1, <1>3, <1>4, AdvanceKeeps

LEMMA ClassOnce ==
  ASSUME OnceInv, Class
  PROVE  OnceInv'
<1> DEFINE c == ElementClass(job, Element)
<1>1. stack # <<>> /\ TypeInv /\ TypeInv'
  BY ElementTyped, ClassTyped DEF Class, OnceInv
<1>2. PICK frame \in Frames, b \in job.ids :
        /\ frame.class = Current.class
        /\ frame.next <= Len(job.elements[frame.class]) + 1
        /\ c \in Classes \cup {None}
        /\ stack' = Entered(With(frame), b, c, 1)
  BY <1>1, ClassStep
<1>3. FramesOK(With(frame)) /\ OnTheWay(With(frame))
  BY <1>1, <1>2, WithOnTheWay
<1>4. With(frame)[Len(With(frame))].class = Current.class
  BY <1>1, <1>2, WithTyped, CurrentTyped
<1>5. c \in LeadsTo(job, Current.class)
  BY <1>1, LeadsToElement DEF Class
<1>6. OnTheWay(stack')
  <2> HIDE DEF c
  <2> QED
    BY <1>2, <1>3, <1>4, <1>5, EnteredOnTheWay
<1> QED
  BY <1>1, <1>6, StackChange DEF Class

\* The class of the call that returns is not among those collected, nor among those
\* of the calls below it.
LEMMA ReturnOnce ==
  ASSUME OnceInv, Return
  PROVE  OnceInv'
<1>1. stack # <<>> /\ TypeInv /\ TypeInv' /\ job' = job
  BY ReturnTyped DEF Return, Running, OnceInv
<1> DEFINE n == Len(stack)
<1>2. /\ n \in Nat \ {0} /\ stack' = Returned
      /\ DOMAIN stack = 1 .. n /\ DOMAIN stack' = 1 .. n - 1
      /\ \A i \in 1 .. n - 1 : stack'[i] = stack[i]
  BY <1>1, ReturnedFrames DEF Return
<1>3. ~ClassSeen(Current.class)
  BY <1>2 DEF Current, OnceInv, OnTheWay
<1>4. \A i \in 1 .. n - 1 : stack[i].class # Current.class
  <2>1. \A i \in 1 .. n : stack[i].class \in Classes
    <3>1. stack \in Seq(Frames)
      BY <1>1 DEF TypeInv, TypeOK
    <3>2. \A i \in 1 .. n : stack[i] \in Frames
      BY <3>1, ElementOfSeq
    <3> QED
      BY <3>2 DEF Frames
  <2>2. ASSUME NEW i \in 1 .. n - 1 PROVE job.rank[Current.class] < job.rank[stack[i].class]
    <3>1. i \in DOMAIN stack /\ n \in DOMAIN stack /\ i < n
      BY <1>2
    <3> QED
      BY <3>1 DEF Current, OnceInv, OnTheWay
  <2>3. Current.class \in Classes
    BY <1>2, <2>1 DEF Current
  <2> QED
    BY <1>1, <2>2, <2>3, Ranks
<1>5. \/ classes' = classes
      \/ classes' = Append(classes, Structure) /\ Structure.name = Current.class
  BY DEF Return, Finished, Structure
<1>6. /\ classes \in Seq(Structures) /\ Len(classes) \in Nat
      /\ DOMAIN classes = 1 .. Len(classes)
  BY <1>1, LenProperties DEF TypeInv, TypeOK
<1>7. \/ classes' = classes
      \/ /\ DOMAIN classes' = 1 .. Len(classes) + 1
         /\ \A i \in 1 .. Len(classes) : classes'[i] = classes[i]
         /\ classes'[Len(classes) + 1].name = Current.class
  <2>1. SUFFICES ASSUME NEW structure, classes' = Append(classes, structure),
                        structure.name = Current.class
                 PROVE  /\ DOMAIN classes' = 1 .. Len(classes) + 1
                        /\ \A i \in 1 .. Len(classes) : classes'[i] = classes[i]
                        /\ classes'[Len(classes) + 1].name = Current.class
    BY <1>5
  <2>2. /\ DOMAIN classes' = 1 .. Len(classes) + 1
        /\ \A i \in 1 .. Len(classes) + 1 :
             classes'[i] = IF i = Len(classes) + 1 THEN structure ELSE classes[i]
    BY <1>6, <2>1
  <2> QED
    BY <1>6, <2>1, <2>2
<1>8. \A i \in DOMAIN stack' : \A k \in DOMAIN classes' : classes'[k].name # stack'[i].class
  <2>1. ASSUME NEW i \in 1 .. n - 1, NEW k \in DOMAIN classes'
        PROVE  classes'[k].name # stack'[i].class
    <3>1. i \in DOMAIN stack /\ stack'[i] = stack[i]
      BY <1>2
    <3>2. \A j \in 1 .. Len(classes) : classes[j].name # stack[i].class
      BY <1>6, <3>1 DEF ClassSeen, OnceInv, OnTheWay
    <3>3. CASE k \in 1 .. Len(classes)
      BY <1>6, <1>7, <3>1, <3>2, <3>3
    <3>4. CASE k = Len(classes) + 1 /\ classes'[k].name = Current.class
      BY <1>4, <3>1, <3>4
    <3> QED
      BY <1>6, <1>7, <3>3, <3>4
  <2> QED
    BY <1>2, <2>1
<1>9. DeclaredOnce'
  BY <1>3, <1>6, <1>7 DEF DeclaredOnce, ClassSeen, OnceInv
<1>10. \A i, k \in DOMAIN stack' : i < k => job.rank[stack'[k].class] < job.rank[stack'[i].class]
  BY <1>2 DEF OnceInv, OnTheWay
<1>11. OnTheWay(stack)'
  BY <1>1, <1>8, <1>10 DEF OnTheWay, ClassSeen
<1> QED
  BY <1>1, <1>9, <1>11 DEF OnceInv, Acyclic, LeadsTo, OwnElements, ElementClass, OnlyTObjArray

LEMMA OnceNext ==
  ASSUME OnceInv, [Next]_vars
  PROVE  OnceInv'
<1>1. CASE Open
  BY <1>1, OpenTyped, StackChange DEF Open, OnceInv, OnTheWay
<1>2. CASE Generate
  BY <1>2, GenerateTyped, StackChange DEF Generate, OnceInv, OnTheWay
<1>3. CASE UNCHANGED vars
  BY <1>3, TypeNext, StackChange DEF vars, OnceInv, OnTheWay
<1>4. CASE TopBranch \/ Begin \/ Base \/ NoBranch \/ Number \/ Class \/ Return
  BY <1>4, TopBranchOnce, BeginOnce, BaseOnce, NoBranchOnce, NumberOnce, ClassOnce, ReturnOnce
<1> QED
  BY <1>1, <1>2, <1>3, <1>4 DEF Next

\* In a file of which no class contains itself, no class is declared twice, however
\* many branches and members are of it.
THEOREM DeclaredOnceCorrect == RegularSpec => []DeclaredOnce
<1>1. RegularInit => OnceInv
  <2>1. Init => TypeInv
    BY TypeInit
  <2>2. Init => OnTheWay(stack) /\ DeclaredOnce
    BY DEF Init, OnTheWay, DeclaredOnce
  <2> QED
    BY <2>1, <2>2 DEF RegularInit, OnceInv
<1>2. OnceInv /\ [Next]_vars => OnceInv'
  BY OnceNext
<1>3. OnceInv => DeclaredOnce
  BY DEF OnceInv
<1> QED
  BY <1>1, <1>2, <1>3, PTL DEF RegularSpec

-----------------------------------------------------------------------------
(***************************************************************************)
(* The order of the definitions.  The class of a member is settled once its*)
(* header is included, or it is among the classes that are finished, or it *)
(* has come back to the class that has the member with nothing; until then *)
(* it is the class of the call above the one that has the member.          *)
(***************************************************************************)
Settled(user, c) == (c \in Headers /\ c \in includes) \/ ClassSeen(c) \/ <<user, c>> \in leftOut

MembersSettled ==
  \A i \in DOMAIN stack : \A k \in DOMAIN stack[i].members :
    LET c == stack[i].members[k].of
    IN  c # None => Settled(stack[i].class, c) \/ (i < Len(stack) /\ stack[i + 1].class = c)

HeldOK(m) ==
  /\ m.class # None /\ job.value[m.class] # None => m.class \in includes /\ m.of = job.value[m.class]
  /\ m.class = TClonesArray /\ m.of # None => m.class \in includes

FrameOK(frame) == \A k \in DOMAIN frame.members : HeldOK(frame.members[k])

StackInv == MembersSettled /\ \A i \in DOMAIN stack : FrameOK(stack[i])

\* A finished class comes after what its members are of.
SettledBelow(user, c, i) ==
  \/ c \in Headers /\ c \in includes
  \/ \E u \in DOMAIN classes : u < i /\ classes[u].name = c
  \/ <<user, c>> \in leftOut

ClassInv ==
  \A i \in DOMAIN classes : \A k \in DOMAIN classes[i].members :
    LET m == classes[i].members[k]
    IN  HeldOK(m) /\ (m.of # None => SettledBelow(classes[i].name, m.of, i))

\* The code is printed at the end.
CodeInv ==
  /\ pc # "done" => code = <<>>
  /\ pc = "done" => code = [i \in DOMAIN classes |-> classes[i].name]

OrderInv == OnceInv /\ StackInv /\ ClassInv /\ CodeInv

\* What has been found, included or left out stays so.
LEMMA Kept ==
  ASSUME job' = job, includes \subseteq includes', leftOut \subseteq leftOut',
         \A c : ClassSeen(c) => ClassSeen(c)'
  PROVE  /\ \A u, c : Settled(u, c) => Settled(u, c)'
         /\ \A m : HeldOK(m) => HeldOK(m)'
         /\ \A f : FrameOK(f) => FrameOK(f)'
<1>1. \A u, c : Settled(u, c) => Settled(u, c)'
  BY DEF Settled
<1>2. \A m : HeldOK(m) => HeldOK(m)'
  BY DEF HeldOK
<1>3. \A f : FrameOK(f) => FrameOK(f)'
  BY <1>2 DEF FrameOK
<1> QED
  BY <1>1, <1>2, <1>3

LEMMA EnteredFrames ==
  ASSUME NEW s \in Seq(Frames), NEW b \in job.ids, NEW c \in Classes \cup {None}, NEW prefix \in Nat
  PROVE  \/ Entered(s, b, c, prefix) = s /\ (c = None \/ c \in Headers \/ ClassSeen(c))
         \/ /\ DOMAIN Entered(s, b, c, prefix) = 1 .. Len(s) + 1
            /\ Len(Entered(s, b, c, prefix)) = Len(s) + 1
            /\ \A i \in 1 .. Len(s) : Entered(s, b, c, prefix)[i] = s[i]
            /\ Entered(s, b, c, prefix)[Len(s) + 1] = Frame(b, c, prefix)
<1>1. CASE c = None \/ c \in Headers \/ ClassSeen(c)
  BY <1>1 DEF Entered
<1>2. CASE ~(c = None \/ c \in Headers \/ ClassSeen(c))
  <2>1. Entered(s, b, c, prefix) = Append(s, Frame(b, c, prefix))
    BY <1>2 DEF Entered
  <2>2. Frame(b, c, prefix) \in Frames
    BY <1>2, EmptySeq DEF Frame, Frames
  <2>3. /\ Append(s, Frame(b, c, prefix)) \in Seq(Frames)
        /\ Len(Append(s, Frame(b, c, prefix))) = Len(s) + 1
        /\ \A i \in 1 .. Len(s) : Append(s, Frame(b, c, prefix))[i] = s[i]
        /\ Append(s, Frame(b, c, prefix))[Len(s) + 1] = Frame(b, c, prefix)
    BY <2>2, AppendProperties
  <2> QED
    BY <2>1, <2>3, LenProperties
<1> QED
  BY <1>1, <1>2

\* A call that has just begun.
LEMMA NewFrame ==
  ASSUME NEW b, NEW c, NEW prefix, NEW frame, frame = Frame(b, c, prefix)
  PROVE  FrameOK(frame)' /\ DOMAIN frame.members = {} /\ frame.class = c
<1>1. frame.members = <<>> /\ frame.class = c
  BY DEF Frame
<1>2. DOMAIN frame.members = {}
  BY <1>1
<1> QED
  BY <1>1, <1>2 DEF FrameOK

\* Every step that collects no class and leaves a call under way: the innermost frame
\* is replaced, and a frame for class c may be put above it.
LEMMA StackGrows ==
  ASSUME OrderInv, UNCHANGED <<job, classes>>, includes \subseteq includes', leftOut \subseteq leftOut',
         stack # <<>>, NEW frame \in Frames, frame.class = Current.class,
         frame.next <= Len(job.elements[frame.class]) + 1,
         NEW b \in job.ids, NEW c \in Classes \cup {None}, NEW prefix \in Nat,
         stack' = Entered(With(frame), b, c, prefix),
         c \in Headers => c \in includes', FrameOK(frame)',
         \A k \in DOMAIN frame.members :
           LET d == frame.members[k].of IN d # None => d = c \/ Settled(frame.class, d)'
  PROVE  StackInv'
<1> DEFINE n == Len(stack)
<1>0. PICK s : s = With(frame)
  OBVIOUS
<1>1. /\ s \in Seq(Frames) /\ Len(s) = n /\ n \in 1 .. n
      /\ \A i \in 1 .. n : s[i] = IF i = n THEN frame ELSE stack[i]
  BY <1>0, WithTyped, CurrentTyped DEF OrderInv, OnceInv, FramesOK
<1>2. n \in Nat \ {0} /\ DOMAIN stack = 1 .. n /\ DOMAIN s = 1 .. n
  <2>1. stack \in Seq(Frames)
    BY DEF OrderInv, OnceInv, TypeInv, TypeOK
  <2> QED
    BY <1>1, <2>1, LenProperties
<1>3. \A i \in 1 .. n : s[i].class = stack[i].class
  BY <1>1 DEF Current
<1>4. /\ \A u, d : Settled(u, d) => Settled(u, d)'
      /\ \A f : FrameOK(f) => FrameOK(f)'
  <2>1. \A d : ClassSeen(d) => ClassSeen(d)'
    BY DEF ClassSeen
  <2> QED
    BY <2>1, Kept
<1>5. \/ stack' = s /\ (c = None \/ c \in Headers \/ ClassSeen(c))
      \/ /\ DOMAIN stack' = 1 .. n + 1 /\ Len(stack') = n + 1
         /\ \A i \in 1 .. n : stack'[i] = s[i]
         /\ stack'[n + 1] = Frame(b, c, prefix) /\ c \in Classes
  <2>1. stack' = Entered(s, b, c, prefix)
    BY <1>0
  <2>2. c = None => Entered(s, b, c, prefix) = s
    BY DEF Entered
  <2> QED
    BY <1>1, <2>1, <2>2, EnteredFrames
<1>6. \A i \in 1 .. n : \A f : f = s[i] => FrameOK(f)'
  <2> SUFFICES ASSUME NEW i \in 1 .. n, NEW f, f = s[i] PROVE FrameOK(f)'
    OBVIOUS
  <2>1. CASE i = n
    BY <1>1, <2>1
  <2>2. CASE i # n
    <3>1. FrameOK(stack[i])
      BY <1>2 DEF OrderInv, StackInv
    <3> QED
      BY <1>1, <1>4, <2>2, <3>1
  <2> QED
    BY <2>1, <2>2
<1>7. \A i \in 1 .. n : \A k \in DOMAIN s[i].members :
        LET d == s[i].members[k].of
        IN  d # None => \/ \A u, x : u = s[i].class /\ x = d => Settled(u, x)'
                        \/ i < n /\ s[i + 1].class = d
                        \/ i = n /\ d = c
  <2> SUFFICES ASSUME NEW i \in 1 .. n, NEW k \in DOMAIN s[i].members, NEW d,
                      d = s[i].members[k].of, d # None, NEW u, u = s[i].class
               PROVE  Settled(u, d)' \/ (i < n /\ s[i + 1].class = d) \/ (i = n /\ d = c)
    OBVIOUS
  <2>1. CASE i = n
    <3>1. s[i] = frame
      BY <1>1, <2>1
    <3>2. d = c \/ Settled(u, d)'
      BY <3>1
    <3> QED
      BY <2>1, <3>2
  <2>2. CASE i # n
    <3>1. s[i] = stack[i] /\ i \in DOMAIN stack /\ i + 1 \in 1 .. n
      <4> HIDE DEF n
      <4> QED
        BY <1>1, <1>2, <2>2
    <3>2. Settled(stack[i].class, d) \/ (i < n /\ stack[i + 1].class = d)
      BY <3>1 DEF OrderInv, StackInv, MembersSettled
    <3> QED
      BY <1>3, <1>4, <3>1, <3>2
  <2> QED
    BY <2>1, <2>2
<1>8. CASE stack' = s /\ (c = None \/ c \in Headers \/ ClassSeen(c))
  <2>1. \A u : c # None => Settled(u, c)'
    BY <1>8 DEF Settled, ClassSeen
  <2>2. ASSUME NEW i \in DOMAIN stack', NEW f, f = stack'[i]
        PROVE  FrameOK(f)'
    <3>1. i \in 1 .. n /\ f = s[i]
      BY <1>2, <1>8, <2>2
    <3> QED
      BY <1>6, <3>1
  <2>3. ASSUME NEW i \in DOMAIN stack', NEW k \in DOMAIN stack'[i].members, NEW d,
               d = stack'[i].members[k].of, d # None, NEW u, u = stack'[i].class
        PROVE  Settled(u, d)' \/ (i < Len(stack') /\ stack'[i + 1].class = d)
    <3>1. i \in 1 .. n /\ k \in DOMAIN s[i].members /\ d = s[i].members[k].of /\ u = s[i].class
      BY <1>2, <1>8, <2>3
    <3>2. \/ Settled(u, d)'
          \/ i < n /\ s[i + 1].class = d
          \/ i = n /\ d = c
      BY <1>7, <2>3, <3>1
    <3>3. Len(stack') = n
      BY <1>1, <1>8
    <3> HIDE DEF n
    <3> QED
      BY <1>8, <2>1, <2>3, <3>2, <3>3
  <2> QED
    BY <2>2, <2>3 DEF StackInv, MembersSettled
<1>9. CASE /\ DOMAIN stack' = 1 .. n + 1 /\ Len(stack') = n + 1
           /\ \A i \in 1 .. n : stack'[i] = s[i]
           /\ stack'[n + 1] = Frame(b, c, prefix) /\ c \in Classes
  <2>1. \A f : f = stack'[n + 1] => FrameOK(f)' /\ DOMAIN f.members = {} /\ f.class = c
    BY <1>9, NewFrame
  <2> HIDE DEF n
  <2>2. ASSUME NEW i \in DOMAIN stack', NEW f, f = stack'[i]
        PROVE  FrameOK(f)'
    <3>1. CASE i \in 1 .. n
      BY <1>6, <1>9, <2>2, <3>1
    <3>2. CASE i = n + 1
      BY <2>1, <2>2, <3>2
    <3> QED
      BY <1>2, <1>9, <3>1, <3>2
  <2>3. ASSUME NEW i \in DOMAIN stack', NEW k \in DOMAIN stack'[i].members, NEW d,
               d = stack'[i].members[k].of, d # None, NEW u, u = stack'[i].class
        PROVE  Settled(u, d)' \/ (i < Len(stack') /\ stack'[i + 1].class = d)
    <3>1. i \in 1 .. n
      BY <1>2, <1>9, <2>1, <2>3
    <3>2. stack'[i] = s[i] /\ i < Len(stack')
      BY <1>2, <1>9, <3>1
    <3>3. \/ Settled(u, d)'
          \/ i < n /\ s[i + 1].class = d
          \/ i = n /\ d = c
      BY <1>7, <2>3, <3>1, <3>2
    <3>4. i < n => stack'[i + 1] = s[i + 1]
      BY <1>2, <1>9, <3>1
    <3> QED
      BY <2>1, <3>2, <3>3, <3>4
  <2> QED
    BY <2>2, <2>3 DEF StackInv, MembersSettled
<1> QED
  BY <1>5, <1>8, <1>9

LEMMA ClassesSame ==
  ASSUME ClassInv, UNCHANGED <<job, classes>>, includes \subseteq includes', leftOut \subseteq leftOut'
  PROVE  ClassInv'
<1>1. \A m : HeldOK(m) => HeldOK(m)'
  BY DEF HeldOK
<1>2. \A u, c, i : SettledBelow(u, c, i) => SettledBelow(u, c, i)'
  BY DEF SettledBelow
<1>3. ASSUME NEW i \in DOMAIN classes, NEW k \in DOMAIN classes[i].members, NEW m,
             m = classes[i].members[k], NEW u, u = classes[i].name
      PROVE  HeldOK(m)' /\ (m.of # None => SettledBelow(u, m.of, i)')
  BY <1>1, <1>2, <1>3 DEF ClassInv
<1> QED
  BY <1>3 DEF ClassInv

\* The members of the innermost call: their classes are settled.
LEMMA CurrentMembers ==
  ASSUME OrderInv, stack # <<>>
  PROVE  /\ FrameOK(Current)
         /\ \A k \in DOMAIN Current.members :
              LET d == Current.members[k].of IN d # None => Settled(Current.class, d)
<1>1. stack \in Seq(Frames) /\ Len(stack) \in 1 .. Len(stack)
  BY CurrentTyped DEF OrderInv, OnceInv, TypeInv, TypeOK
<1>2. Len(stack) \in DOMAIN stack /\ Len(stack) \in Nat
  BY <1>1, LenProperties
<1>3. FrameOK(Current)
  BY <1>2 DEF OrderInv, StackInv, Current
<1>4. ASSUME NEW k \in DOMAIN Current.members, NEW d, d = Current.members[k].of, d # None
      PROVE  Settled(Current.class, d)
  <2>1. Settled(Current.class, d) \/ Len(stack) < Len(stack)
    BY <1>2, <1>4 DEF OrderInv, StackInv, MembersSettled, Current
  <2> QED
    BY <1>2, <2>1
<1> QED
  BY <1>3, <1>4

\* The next element, without a new member.
LEMMA AdvancedOK ==
  ASSUME OrderInv, stack # <<>>, UNCHANGED <<job, classes>>,
         includes \subseteq includes', leftOut \subseteq leftOut',
         NEW frame, frame.class = Current.class, frame.members = Current.members
  PROVE  /\ FrameOK(frame)'
         /\ \A k \in DOMAIN frame.members :
              LET d == frame.members[k].of IN d # None => Settled(frame.class, d)'
<1>1. /\ \A u, d : Settled(u, d) => Settled(u, d)'
      /\ \A m : HeldOK(m) => HeldOK(m)'
  <2>1. \A d : ClassSeen(d) => ClassSeen(d)'
    BY DEF ClassSeen
  <2> QED
    BY <2>1, Kept
<1>2. FrameOK(Current)
  BY CurrentMembers
<1>3. \A k \in DOMAIN frame.members : \A m : m = frame.members[k] => HeldOK(m)'
  BY <1>1, <1>2 DEF FrameOK
<1>4. FrameOK(frame)'
  BY <1>3 DEF FrameOK
<1>5. ASSUME NEW k \in DOMAIN frame.members, NEW d, d = frame.members[k].of, d # None
      PROVE  Settled(frame.class, d)'
  BY <1>1, <1>5, CurrentMembers
<1> QED
  BY <1>4, <1>5

\* The next element, with a new member.
LEMMA AddedOK ==
  ASSUME OrderInv, AtElement, ~Element.base, UNCHANGED <<job, classes>>,
         includes \subseteq includes', leftOut \subseteq leftOut',
         NEW m \in Members, HeldOK(m)',
         NEW frame, frame.class = Current.class, frame.members = Append(Current.members, m)
  PROVE  /\ FrameOK(frame)'
         /\ \A k \in DOMAIN frame.members :
              LET d == frame.members[k].of IN d # None => d = m.of \/ Settled(frame.class, d)'
<1>0. stack # <<>>
  BY DEF AtElement, Running
<1>1. /\ \A u, d : Settled(u, d) => Settled(u, d)'
      /\ \A x : HeldOK(x) => HeldOK(x)'
  <2>1. \A d : ClassSeen(d) => ClassSeen(d)'
    BY DEF ClassSeen
  <2> QED
    BY <2>1, Kept
<1>2. FrameOK(Current)
  BY <1>0, CurrentMembers
<1> DEFINE old == Current.members
           n == Len(old)
<1>3. old \in Seq(Members)
  BY <1>0, CurrentTyped DEF OrderInv, OnceInv, Frames
<1>4. /\ DOMAIN old = 1 .. n /\ n \in Nat /\ DOMAIN frame.members = 1 .. n + 1
      /\ \A k \in 1 .. n : frame.members[k] = old[k]
      /\ frame.members[n + 1] = m
  BY <1>3, AppendProperties, LenProperties
<1>5. ASSUME NEW k \in DOMAIN frame.members, NEW x, x = frame.members[k], NEW u, u = frame.class
      PROVE  HeldOK(x)' /\ (x.of # None => x.of = m.of \/ (\A d : d = x.of => Settled(u, d)'))
  <2>1. CASE k \in 1 .. n
    <3>1. x = old[k] /\ k \in DOMAIN old
      BY <1>4, <1>5, <2>1
    <3>2. HeldOK(x) /\ (x.of # None => Settled(u, x.of))
      BY <1>0, <1>2, <1>5, <3>1, CurrentMembers DEF FrameOK
    <3> QED
      BY <1>1, <3>2
  <2>2. CASE k = n + 1
    BY <1>4, <1>5, <2>2
  <2> QED
    BY <1>4, <2>1, <2>2
<1>6. FrameOK(frame)'
  BY <1>5 DEF FrameOK
<1> HIDE DEF n, old
<1>7. ASSUME NEW k \in DOMAIN frame.members, NEW d, d = frame.members[k].of, d # None
      PROVE  d = m.of \/ Settled(frame.class, d)'
  BY <1>5, <1>7
<1> QED
  BY <1>6, <1>7

\* Only the headers, what is left out and the frames have changed.
LEMMA GrownOrder ==
  ASSUME OrderInv, OnceInv', StackInv', UNCHANGED <<job, pc, classes, code>>,
         includes \subseteq includes', leftOut \subseteq leftOut'
  PROVE  OrderInv'
BY ClassesSame DEF OrderInv, CodeInv

LEMMA TopBranchOrder ==
  ASSUME OrderInv, TopBranch
  PROVE  OrderInv'
<1> DEFINE b == job.branch[job.tops[top]]
           c == IF b.subs = <<>> THEN None ELSE b.class
<1>1. /\ stack = <<>> /\ stack' = Entered(stack, job.tops[top], c, 0) /\ job' = job
      /\ UNCHANGED <<pc, classes, leftOut, code>> /\ includes \subseteq includes'
      /\ OnceInv /\ OnceInv'
  <2>1. OnceInv /\ OnceInv'
    BY TopBranchOnce DEF OrderInv
  <2> QED
    BY <2>1 DEF TopBranch
<1>2. job.tops[top] \in job.ids
  <2>1. JobOK(job) /\ top \in 1 .. Len(job.tops) + 1 /\ top <= Len(job.tops)
    BY JobTyped DEF OrderInv, OnceInv, TypeInv, TypeOK, TopBranch
  <2>2. Len(job.tops) \in Nat
    BY <2>1, LenProperties DEF JobOK
  <2> QED
    BY <2>1, <2>2, ElementOfSeq DEF JobOK
<1>3. c \in Classes \cup {None}
  <2>1. JobOK(job)
    BY <1>1, JobTyped DEF OnceInv, TypeInv
  <2>2. b \in Branches(job.ids)
    BY <1>2, <2>1 DEF JobOK
  <2>3. b.class \in Classes \cup {None}
    BY <2>2 DEF Branches
  <2> QED
    BY <2>3
<1>4. stack = <<>> /\ stack \in Seq(Frames) /\ Len(stack) = 0
  <2>1. stack \in Seq(Frames)
    BY <1>1, Zenon DEF OnceInv, TypeInv, TypeOK
  <2> QED
    BY <1>1, <2>1
<1> HIDE DEF c
<1>5. \/ stack' = <<>>
      \/ DOMAIN stack' = 1 .. 1 /\ stack'[1] = Frame(job.tops[top], c, 0) /\ c \in Classes
  <2>1. c = None => stack' = stack
    BY <1>1 DEF Entered
  <2>2. \/ stack' = stack
        \/ DOMAIN stack' = 1 .. Len(stack) + 1 /\ stack'[Len(stack) + 1] = Frame(job.tops[top], c, 0)
    <3>1. PICK s \in Seq(Frames), b1 \in job.ids, c1 \in Classes \cup {None} :
            s = stack /\ b1 = job.tops[top] /\ c1 = c
      BY <1>2, <1>3, <1>4
    <3>2. stack' = Entered(s, b1, c1, 0) /\ 0 \in Nat
      BY <1>1, <3>1
    <3>3. \/ Entered(s, b1, c1, 0) = s
          \/ /\ DOMAIN Entered(s, b1, c1, 0) = 1 .. Len(s) + 1
             /\ Entered(s, b1, c1, 0)[Len(s) + 1] = Frame(b1, c1, 0)
      BY <3>2, EnteredFrames
    <3> QED
      BY <3>1, <3>2, <3>3
  <2>3. Len(stack) + 1 = 1
    BY <1>4
  <2> QED
    BY <1>1, <1>3, <2>1, <2>2, <2>3
<1>6. CASE stack' = <<>>
  <2>1. StackInv'
    BY <1>6 DEF StackInv, MembersSettled
  <2> QED
    BY <1>1, <2>1, GrownOrder
<1>7. CASE DOMAIN stack' = 1 .. 1 /\ stack'[1] = Frame(job.tops[top], c, 0) /\ c \in Classes
  <2>1. \A f : f = stack'[1] => FrameOK(f)' /\ DOMAIN f.members = {}
    BY <1>1, <1>2, <1>7, NewFrame
  <2>2. \A i \in DOMAIN stack' : \A f : f = stack'[i] => FrameOK(f)' /\ DOMAIN f.members = {}
    BY <1>7, <2>1
  <2>3. StackInv'
    BY <2>2 DEF StackInv, MembersSettled
  <2> QED
    BY <1>1, <2>3, GrownOrder
<1> QED
  BY <1>5, <1>6, <1>7

\* The innermost frame with its counter moved, and what is settled of its members.
LEMMA AdvancedOrder ==
  ASSUME OrderInv, OnceInv', stack # <<>>, UNCHANGED <<job, pc, classes, code>>,
         includes \subseteq includes', leftOut \subseteq leftOut',
         NEW frame \in Frames, frame.class = Current.class, frame.members = Current.members,
         frame.next = Current.next + 1, frame.next <= Len(job.elements[frame.class]) + 1,
         NEW b \in job.ids, NEW c \in Classes \cup {None}, NEW prefix \in Nat,
         stack' = Entered(With(frame), b, c, prefix), c \in Headers => c \in includes'
  PROVE  OrderInv'
<1>1. /\ FrameOK(frame)'
      /\ \A k \in DOMAIN frame.members :
           LET d == frame.members[k].of IN d # None => d = c \/ Settled(frame.class, d)'
  BY AdvancedOK
<1>2. StackInv'
  BY <1>1, StackGrows
<1> QED
  BY <1>2, GrownOrder

LEMMA NothingEntered ==
  ASSUME TypeInv, stack # <<>>, NEW frame
  PROVE  /\ With(frame) = Entered(With(frame), Current.branch, None, 0)
         /\ Current.branch \in job.ids /\ None \notin Headers
BY CurrentTyped, ClassesAssumption DEF Entered

\* How far the innermost call is.
LEMMA AdvancedFacts ==
  ASSUME TypeInv, stack # <<>>, Current.next <= Len(Streamer)
  PROVE  /\ Advanced \in Frames /\ Advanced.class = Current.class
         /\ Advanced.members = Current.members /\ Advanced.next = Current.next + 1
         /\ Advanced.next <= Len(job.elements[Advanced.class]) + 1
<1>1. Current \in Frames
  BY CurrentTyped
<1>2. Advanced.next = Current.next + 1
  BY <1>1 DEF Advanced, Frames
<1> QED
  BY <1>2, AdvancedTyped

LEMMA BeginOrder ==
  ASSUME OrderInv, Begin
  PROVE  OrderInv'
<1>1. /\ stack # <<>> /\ Current.next = 0 /\ TypeInv /\ OnceInv'
      /\ UNCHANGED <<job, pc, classes, leftOut, code>> /\ includes \subseteq includes'
  BY BeginOnce DEF Begin, Running, OrderInv, OnceInv
<1>2. Streamer \in Seq(Elements) /\ Branch \in Branches(job.ids) /\ Current \in Frames
      /\ Current.branch \in job.ids
  BY <1>1, CurrentTyped
<1>3. DOMAIN Streamer = 1 .. Len(Streamer) /\ Len(Streamer) \in Nat
  BY <1>2, LenProperties
<1>4. Current.next <= Len(Streamer)
  BY <1>1, <1>3
<1>5. PICK frame \in Frames : frame = Advanced
  BY <1>1, <1>4, AdvancedFacts
<1>6. /\ frame.class = Current.class /\ frame.members = Current.members
      /\ frame.next = Current.next + 1 /\ frame.next <= Len(job.elements[frame.class]) + 1
  BY <1>1, <1>4, <1>5, AdvancedFacts
<1>7. CASE stack' = With(Advanced)
  <2>1. stack' = Entered(With(frame), Current.branch, None, 0) /\ None \notin Headers
    BY <1>1, <1>5, <1>7, NothingEntered
  <2> QED
    BY <1>1, <1>2, <1>4, <1>6, <2>1, AdvancedOrder
<1>8. CASE /\ stack' = Entered(With(Advanced), Current.branch, Branch.contained,
                               Current.prefix + Len(Branch.path))
           /\ includes' = includes \cup Header(Branch.contained)
  <2>1. Branch.contained \in Classes \cup {None} /\ Current.prefix + Len(Branch.path) \in Nat
    <3>1. Len(Branch.path) \in Nat
      BY <1>2, LenProperties DEF Branches
    <3> QED
      BY <1>2, <3>1 DEF Branches, Frames
  <2>2. Branch.contained \in Headers => Branch.contained \in includes'
    BY <1>8 DEF Header
  <2>3. stack' = Entered(With(frame), Current.branch, Branch.contained, Current.prefix + Len(Branch.path))
    BY <1>5, <1>8
  <2> QED
    BY <1>1, <1>2, <1>4, <1>6, <2>1, <2>2, <2>3, AdvancedOrder
<1> QED
  BY <1>7, <1>8 DEF Begin

\* A base class is no member.
LEMMA BaseOrder ==
  ASSUME OrderInv, Base
  PROVE  OrderInv'
<1>1. /\ stack # <<>> /\ Current.next <= Len(Streamer) /\ Element.base /\ TypeInv /\ OnceInv'
      /\ UNCHANGED <<job, pc, classes, leftOut, code>> /\ includes \subseteq includes'
  BY ElementTyped, BaseOnce DEF Base, OrderInv, OnceInv
<1>2. PICK frame \in Frames :
        /\ frame.class = Current.class /\ frame.members = Current.members
        /\ frame.next = Current.next + 1 /\ frame.next <= Len(job.elements[frame.class]) + 1
        /\ stack' = With(frame)
  <2>1. /\ Advanced \in Frames /\ Advanced.class = Current.class
        /\ Advanced.members = Current.members /\ Advanced.next = Current.next + 1
        /\ Advanced.next <= Len(job.elements[Advanced.class]) + 1
    BY <1>1, AdvancedFacts
  <2>2. CASE stack' = With(Advanced)
    BY <2>1, <2>2
  <2>3. CASE stack' = With([Advanced EXCEPT !.bases = Append(@, TObject)])
    <3> DEFINE new == [Advanced EXCEPT !.bases = Append(@, TObject)]
    <3>1. Append(Advanced.bases, TObject) \in Seq({TObject})
      BY <2>1, AppendProperties DEF Frames
    <3>2. /\ new \in Frames /\ new.class = Advanced.class /\ new.members = Advanced.members
          /\ new.next = Advanced.next
      BY <2>1, <3>1 DEF Frames
    <3> HIDE DEF new
    <3>3. stack' = With(new)
      BY <2>3 DEF new
    <3> QED
      BY <2>1, <3>2, <3>3
  <2> QED
    BY <2>2, <2>3 DEF Base
<1>3. stack' = Entered(With(frame), Current.branch, None, 0) /\ None \notin Headers
      /\ Current.branch \in job.ids
  BY <1>1, <1>2, NothingEntered
<1> QED
  BY <1>1, <1>2, <1>3, AdvancedOrder

LEMMA NoBranchOrder ==
  ASSUME OrderInv, NoBranch
  PROVE  OrderInv'
<1>1. /\ stack # <<>> /\ Current.next <= Len(Streamer) /\ TypeInv /\ OnceInv'
      /\ UNCHANGED <<job, pc, classes, includes, leftOut, code>> /\ stack' = With(Advanced)
  BY ElementTyped, NoBranchOnce DEF NoBranch, OrderInv, OnceInv
<1>2. PICK frame \in Frames : frame = Advanced
  BY <1>1, AdvancedFacts
<1>3. /\ frame.class = Current.class /\ frame.members = Current.members
      /\ frame.next = Current.next + 1 /\ frame.next <= Len(job.elements[frame.class]) + 1
  BY <1>1, <1>2, AdvancedFacts
<1>4. stack' = Entered(With(frame), Current.branch, None, 0) /\ None \notin Headers
      /\ Current.branch \in job.ids
  BY <1>1, <1>2, NothingEntered
<1> QED
  BY <1>1, <1>2, <1>3, <1>4, AdvancedOrder

\* The frame of a call with one more member.
LEMMA AddedFacts ==
  ASSUME TypeInv, stack # <<>>, Current.next <= Len(Streamer), NEW m \in Members,
         NEW frame, frame = [Advanced EXCEPT !.members = Append(@, m)]
  PROVE  /\ frame \in Frames /\ frame.class = Current.class
         /\ frame.members = Append(Current.members, m)
         /\ frame.next <= Len(job.elements[frame.class]) + 1
<1>1. /\ Advanced \in Frames /\ Advanced.class = Current.class
      /\ Advanced.members = Current.members
      /\ Advanced.next <= Len(job.elements[Advanced.class]) + 1
  BY AdvancedFacts
<1>2. Append(Advanced.members, m) \in Seq(Members)
  BY <1>1, AppendProperties DEF Frames
<1> QED
  BY <1>1, <1>2 DEF Frames

LEMMA NumberOrder ==
  ASSUME OrderInv, Number
  PROVE  OrderInv'
<1>1. /\ stack # <<>> /\ Current.next <= Len(Streamer) /\ Element \in Elements /\ TypeInv /\ OnceInv'
      /\ UNCHANGED <<job, pc, classes, includes, leftOut, code>> /\ AtElement /\ ~Element.base
  BY ElementTyped, NumberOnce DEF Number, OrderInv, OnceInv
<1>2. PICK m \in Members : m = [name |-> Element.name, class |-> None, of |-> None]
  BY <1>1 DEF Elements, Members
<1>3. PICK frame : frame = [Advanced EXCEPT !.members = Append(@, m)]
  OBVIOUS
<1>4. /\ frame \in Frames /\ frame.class = Current.class
      /\ frame.members = Append(Current.members, m)
      /\ frame.next <= Len(job.elements[frame.class]) + 1
  BY <1>1, <1>3, AddedFacts
<1>5. HeldOK(m)' /\ m.of = None
  BY <1>2, ClassesAssumption DEF HeldOK
<1>6. /\ FrameOK(frame)'
      /\ \A k \in DOMAIN frame.members :
           LET d == frame.members[k].of IN d # None => d = m.of \/ Settled(frame.class, d)'
  BY <1>1, <1>4, <1>5, AddedOK
<1>7. stack' = Entered(With(frame), Current.branch, None, 0) /\ None \notin Headers
      /\ Current.branch \in job.ids
  <2>1. stack' = With(frame)
    BY <1>2, <1>3 DEF Number
  <2> QED
    BY <1>1, <2>1, NothingEntered
<1>8. StackInv'
  BY <1>1, <1>4, <1>5, <1>6, <1>7, StackGrows
<1> QED
  BY <1>1, <1>8, GrownOrder

LEMMA ClassOrder ==
  ASSUME OrderInv, Class
  PROVE  OrderInv'
<1>1. /\ stack # <<>> /\ Current.next <= Len(Streamer) /\ Element \in Elements /\ Subbranch \in job.ids
      /\ TypeInv /\ OnceInv' /\ UNCHANGED <<job, pc, classes, leftOut, code>>
      /\ includes \subseteq includes' /\ AtElement /\ ~Element.base /\ Element.class # None
  BY ElementTyped, ClassOnce DEF Class, OrderInv, OnceInv
<1>2. PICK c \in Classes \cup {None} : c = ElementClass(job, Element)
  BY <1>1, ElementClassTyped
<1>3. PICK m \in Members : m = [name |-> Element.name, class |-> Element.class, of |-> c]
  BY <1>1 DEF Elements, Members
<1>4. PICK frame : frame = [Advanced EXCEPT !.members = Append(@, m)]
  OBVIOUS
<1>5. /\ frame \in Frames /\ frame.class = Current.class
      /\ frame.members = Append(Current.members, m)
      /\ frame.next <= Len(job.elements[frame.class]) + 1
  BY <1>1, <1>4, AddedFacts
<1>6. stack' = Entered(With(frame), Subbranch, c, 1) /\ includes' = includes \cup Header(c) \cup Holder(job, Element)
  BY <1>2, <1>3, <1>4 DEF Class
<1>7. HeldOK(m)' /\ m.of = c
  <2>1. m.class = Element.class /\ m.of = c /\ job.value[TClonesArray] = None
    BY <1>1, <1>3, JobTyped DEF TypeInv, JobOK
  <2>2. job.value[Element.class] # None =>
          Element.class \in Holder(job, Element) /\ c = job.value[Element.class]
    BY <1>2, <2>1 DEF Holder, ElementClass
  <2>3. Element.class = TClonesArray /\ c # None => Element.class \in Holder(job, Element)
    BY <1>2 DEF Holder, ElementClass
  <2>4. HeldOK(m)'
    <3>1. job' = job /\ Holder(job, Element) \subseteq includes'
      BY <1>1, <1>6
    <3> QED
      BY <2>1, <2>2, <2>3, <3>1 DEF HeldOK
  <2> QED
    BY <2>1, <2>4
<1>8. /\ FrameOK(frame)'
      /\ \A k \in DOMAIN frame.members :
           LET d == frame.members[k].of IN d # None => d = c \/ Settled(frame.class, d)'
  BY <1>1, <1>5, <1>7, AddedOK
<1>9. c \in Headers => c \in includes'
  BY <1>6 DEF Header
<1>10. StackInv'
  BY <1>1, <1>5, <1>6, <1>8, <1>9, StackGrows
<1> QED
  BY <1>1, <1>10, GrownOrder

\* The class of the call that returns is finished now, or nothing of it was found.
LEMMA ReturnOrder ==
  ASSUME OrderInv, Return
  PROVE  OrderInv'
<1> DEFINE n == Len(stack)
           N == Len(classes)
<1>1. /\ stack # <<>> /\ TypeInv /\ OnceInv' /\ UNCHANGED <<job, pc, includes, code>>
      /\ pc = "collect" /\ leftOut \subseteq leftOut'
      /\ Current.members = <<>> => <<Caller, Current.class>> \in leftOut'
  BY ReturnOnce DEF Return, Running, OrderInv, OnceInv
<1>2. /\ n \in Nat \ {0} /\ stack' = Returned
      /\ DOMAIN stack = 1 .. n /\ DOMAIN stack' = 1 .. n - 1
      /\ \A i \in 1 .. n - 1 : stack'[i] = stack[i]
  BY <1>1, ReturnedFrames DEF Return
<1>3. Len(stack') = n - 1
  <2>1. stack' \in Seq(Frames)
    BY <1>1, <1>2, ReturnedFrames
  <2>2. DOMAIN stack' = 1 .. Len(stack') /\ Len(stack') \in Nat
    BY <2>1, LenProperties
  <2>3. \A a, b \in Nat : 1 .. a = 1 .. b => a = b
    OBVIOUS
  <2> HIDE DEF n
  <2>4. n - 1 \in Nat
    BY <1>2
  <2>5. 1 .. Len(stack') = 1 .. n - 1
    BY <1>2, <2>2, Zenon
  <2> QED
    BY <2>2, <2>3, <2>4, <2>5
<1>4. N \in Nat /\ DOMAIN classes = 1 .. N
  BY <1>1, LenProperties DEF TypeInv, TypeOK
<1>5. \/ classes' = classes /\ Current.members = <<>>
      \/ /\ Current.members # <<>>
         /\ DOMAIN classes' = 1 .. N + 1 /\ \A i \in 1 .. N : classes'[i] = classes[i]
         /\ classes'[N + 1] = Structure
  <2>1. CASE Current.members = <<>>
    BY <2>1 DEF Return, Finished
  <2>2. CASE Current.members # <<>>
    <3>1. classes' = Append(classes, Structure) /\ classes \in Seq(Structures)
      BY <1>1, <2>2 DEF Return, Finished, TypeInv, TypeOK
    <3>2. Structure \in Structures
      BY <1>1, <2>2, CurrentTyped DEF Frames, Structure, Structures
    <3>3. /\ classes' \in Seq(Structures) /\ Len(classes') = N + 1
          /\ \A i \in 1 .. N : classes'[i] = classes[i]
          /\ classes'[N + 1] = Structure
      BY <3>1, <3>2, AppendProperties
    <3>4. DOMAIN classes' = 1 .. N + 1
      BY <3>3, LenProperties
    <3> QED
      BY <2>2, <3>3, <3>4
  <2> QED
    BY <2>1, <2>2
<1>6. \A x, c, i : SettledBelow(x, c, i) => SettledBelow(x, c, i)'
  <2>1. ASSUME NEW c, NEW i, NEW u \in DOMAIN classes, u < i, classes[u].name = c
        PROVE  \E v \in DOMAIN classes' : v < i /\ classes'[v].name = c
    BY <1>4, <1>5, <2>1
  <2> QED
    BY <1>1, <2>1 DEF SettledBelow
<1>7. /\ \A x, d : Settled(x, d) => Settled(x, d)'
      /\ \A f : FrameOK(f) => FrameOK(f)'
      /\ \A m : HeldOK(m) => HeldOK(m)'
  <2>1. \A d : ClassSeen(d) => ClassSeen(d)'
    BY <1>4, <1>5 DEF ClassSeen
  <2> QED
    BY <1>1, <2>1, Kept
<1>8. FrameOK(Current)
      /\ \A k \in DOMAIN Current.members :
           LET d == Current.members[k].of IN d # None => Settled(Current.class, d)
  BY <1>1, CurrentMembers
<1>9. \A x, c : x = Caller /\ c = Current.class => Settled(x, c)'
  <2> SUFFICES ASSUME NEW x, x = Caller, NEW c, c = Current.class PROVE Settled(x, c)'
    OBVIOUS
  <2>1. CASE Current.members # <<>>
    <3>1. classes'[N + 1].name = c /\ N + 1 \in DOMAIN classes'
      BY <1>4, <1>5, <2>1 DEF Structure
    <3> QED
      BY <3>1 DEF Settled, ClassSeen
  <2>2. CASE Current.members = <<>>
    BY <1>1, <2>2 DEF Settled
  <2> QED
    BY <2>1, <2>2
<1>10. StackInv'
  <2>1. ASSUME NEW i \in DOMAIN stack', NEW f, f = stack'[i]
        PROVE  FrameOK(f)'
    BY <1>2, <1>7, <2>1 DEF OrderInv, StackInv
  <2>2. ASSUME NEW i \in DOMAIN stack', NEW k \in DOMAIN stack'[i].members, NEW d,
               d = stack'[i].members[k].of, d # None, NEW x, x = stack'[i].class
        PROVE  Settled(x, d)' \/ (i < Len(stack') /\ stack'[i + 1].class = d)
    <3>1. i \in 1 .. n - 1 /\ i \in DOMAIN stack /\ stack'[i] = stack[i]
      BY <1>2
    <3>2. Settled(x, d) \/ (i < n /\ stack[i + 1].class = d)
      BY <2>2, <3>1 DEF OrderInv, StackInv, MembersSettled
    <3>3. CASE Settled(x, d)
      BY <1>7, <3>3
    <3>4. CASE i + 1 = n /\ stack[i + 1].class = d
      <4>1. x = Caller /\ d = Current.class
        BY <1>1, <2>2, <3>1, <3>4, CallerClass DEF Current
      <4> QED
        BY <1>9, <4>1
    <3>5. CASE i + 1 < n /\ stack[i + 1].class = d
      BY <1>2, <1>3, <3>1, <3>5
    <3> QED
      BY <1>2, <3>1, <3>2, <3>3, <3>4, <3>5
  <2> HIDE DEF n
  <2> QED
    BY <2>1, <2>2 DEF StackInv, MembersSettled
<1>11. ClassInv'
  <2>1. ASSUME NEW i \in DOMAIN classes', NEW k \in DOMAIN classes'[i].members, NEW m,
               m = classes'[i].members[k], NEW x, x = classes'[i].name
        PROVE  HeldOK(m)' /\ (m.of # None => (\A c : c = m.of => SettledBelow(x, c, i)'))
    <3>1. CASE i \in DOMAIN classes /\ classes'[i] = classes[i]
      BY <1>6, <1>7, <2>1, <3>1 DEF OrderInv, ClassInv
    <3>2. CASE i = N + 1 /\ classes'[i] = Structure
      <4>1. HeldOK(m) /\ (m.of # None => Settled(x, m.of))
        BY <1>8, <2>1, <3>2 DEF FrameOK, Structure
      <4>2. \A c : Settled(x, c) => SettledBelow(x, c, i)
        BY <1>4, <3>2 DEF Settled, SettledBelow, ClassSeen
      <4> QED
        BY <1>6, <1>7, <4>1, <4>2
    <3> QED
      BY <1>4, <1>5, <3>1, <3>2
  <2> HIDE DEF N
  <2> QED
    BY <2>1 DEF ClassInv
<1>12. CodeInv'
  BY <1>1 DEF OrderInv, CodeInv
<1> QED
  BY <1>1, <1>10, <1>11, <1>12 DEF OrderInv

LEMMA OrderInit == RegularInit => OrderInv
<1> SUFFICES ASSUME RegularInit PROVE OrderInv
  OBVIOUS
<1>1. OnceInv
  BY TypeInit DEF RegularInit, Init, OnceInv, OnTheWay, DeclaredOnce
<1>2. stack = <<>> /\ classes = <<>> /\ code = <<>> /\ pc = "open"
  BY DEF RegularInit, Init
<1> QED
  BY <1>1, <1>2 DEF OrderInv, StackInv, MembersSettled, ClassInv, CodeInv

\* Steps outside the recursion.
LEMMA OutsideOrder ==
  ASSUME OrderInv, OnceInv', Open \/ Generate \/ UNCHANGED vars
  PROVE  OrderInv'
<1>1. UNCHANGED <<job, stack, classes, includes, leftOut>>
  BY DEF Open, Generate, vars
<1>2. /\ \A x, d : Settled(x, d) => Settled(x, d)'
      /\ \A f : FrameOK(f) => FrameOK(f)'
  <2>1. \A d : ClassSeen(d) => ClassSeen(d)'
    BY <1>1 DEF ClassSeen
  <2> QED
    BY <1>1, <2>1, Kept
<1>3. StackInv'
  <2>1. ASSUME NEW i \in DOMAIN stack, NEW f, f = stack[i]
        PROVE  FrameOK(f)'
    BY <1>2, <2>1 DEF OrderInv, StackInv
  <2>2. ASSUME NEW i \in DOMAIN stack, NEW k \in DOMAIN stack[i].members, NEW d,
               d = stack[i].members[k].of, d # None, NEW x, x = stack[i].class
        PROVE  Settled(x, d)' \/ (i < Len(stack) /\ stack[i + 1].class = d)
    BY <1>2, <2>2 DEF OrderInv, StackInv, MembersSettled
  <2> QED
    BY <1>1, <2>1, <2>2 DEF StackInv, MembersSettled
<1>4. ClassInv'
  BY <1>1, ClassesSame DEF OrderInv
<1>5. CodeInv'
  BY <1>1 DEF Open, Generate, vars, OrderInv, CodeInv
<1> QED
  BY <1>3, <1>4, <1>5 DEF OrderInv

LEMMA OrderInvariance == RegularSpec => []OrderInv
<1>1. OrderInv /\ [Next]_vars => OrderInv'
  <2> SUFFICES ASSUME OrderInv, [Next]_vars PROVE OrderInv'
    OBVIOUS
  <2>1. CASE Open \/ Generate \/ UNCHANGED vars
    BY <2>1, OnceNext, OutsideOrder DEF OrderInv
  <2>2. CASE TopBranch \/ Begin \/ Base \/ NoBranch \/ Number \/ Class \/ Return
    BY <2>2, TopBranchOrder, BeginOrder, BaseOrder, NoBranchOrder, NumberOrder, ClassOrder, ReturnOrder
  <2> QED
    BY <2>1, <2>2 DEF Next
<1> QED
  BY <1>1, OrderInit, PTL DEF RegularSpec

\* In a file of which no class contains itself, a class is defined behind those that
\* its members are of (417-418), but for one that the recursion has left out in this
\* very class, none of its own members having a branch there (236-237): that one may
\* come later, when another branch has it.
THEOREM DefinedBeforeUseCorrect == RegularSpec => []DefinedBeforeUse
<1>1. OrderInv => DefinedBeforeUse
  <2> SUFFICES ASSUME OrderInv, NEW i \in DOMAIN code, NEW k \in DOMAIN classes[i].members, NEW c,
                      c = classes[i].members[k].of, c # None, <<code[i], c>> \notin leftOut,
                      NEW u \in DOMAIN code, code[u] = c
               PROVE  u < i
    BY DEF DefinedBeforeUse
  <2>1. /\ i \in DOMAIN classes /\ code[i] = classes[i].name
        /\ u \in DOMAIN classes /\ classes[u].name = c
    BY DEF OrderInv, CodeInv
  <2>2. classes \in Seq(Structures)
    BY DEF OrderInv, OnceInv, TypeInv, TypeOK
  <2>3. classes[u] \in Structures
    BY <2>1, <2>2, LenProperties, ElementOfSeq
  <2>4. c \notin Headers
    BY <2>1, <2>3 DEF Structures
  <2>5. SettledBelow(code[i], c, i)
    <3>1. ClassInv
      BY DEF OrderInv
    <3>2. \A x \in DOMAIN classes : \A y \in DOMAIN classes[x].members :
            classes[x].members[y].of # None =>
              SettledBelow(classes[x].name, classes[x].members[y].of, x)
      BY <3>1, Zenon DEF ClassInv
    <3> QED
      BY <2>1, <3>2, Zenon
  <2>6. PICK v \in DOMAIN classes : v < i /\ classes[v].name = c
    BY <2>4, <2>5 DEF SettledBelow
  <2>7. u = v
    <3>1. DeclaredOnce
      BY DEF OrderInv, OnceInv
    <3> QED
      BY <2>1, <2>6, <3>1 DEF DeclaredOnce
  <2> QED
    BY <2>6, <2>7
<1> QED
  BY <1>1, OrderInvariance, PTL

\* In such a file nothing that a member needs is missing in the code: neither the class
\* it is of, nor the header of the collection, nor the class of the values in it
\* (390-410); but for a class that was left out in the very class of the member.
THEOREM NothingMissingCorrect == RegularSpec => []NothingMissing
<1>1. OrderInv => NothingMissing
  <2> SUFFICES ASSUME OrderInv, pc = "done",
                      NEW i \in DOMAIN classes, NEW k \in DOMAIN classes[i].members,
                      NEW m, m = classes[i].members[k], NEW x, x = classes[i].name
               PROVE  /\ m.of # None => Declared(x, m.of)
                      /\ m.class # None /\ job.value[m.class] # None =>
                           m.class \in includes /\ Declared(x, job.value[m.class])
                      /\ m.class = TClonesArray /\ m.of # None => m.class \in includes
    BY DEF NothingMissing
  <2>1. HeldOK(m) /\ (m.of # None => SettledBelow(x, m.of, i))
    BY DEF OrderInv, ClassInv
  <2>2. DOMAIN code = DOMAIN classes /\ \A u \in DOMAIN classes : code[u] = classes[u].name
    BY DEF OrderInv, CodeInv
  <2>3. m.of # None => Declared(x, m.of)
    BY <2>1, <2>2 DEF SettledBelow, Declared
  <2> QED
    BY <2>1, <2>3 DEF HeldOK
<1> QED
  BY <1>1, OrderInvariance, PTL
=============================================================================
