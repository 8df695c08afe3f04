------------------------------ MODULE Sums_proofs ------------------------------
(***************************************************************************)
(* What MapThenSumSet of the community modules computes over a finite set. *)
(* It is a fold that takes the elements out in the order of a CHOOSE: here *)
(* is shown that such a fold exists, that the order makes no difference,   *)
(* and what follows for sums of natural numbers.  Induction is over the    *)
(* subsets of the set that is summed, by a smallest counterexample.        *)
(***************************************************************************)
EXTENDS Integers, FiniteSetsExt, FiniteSetTheorems, TLAPS

SumOf(g, S) == MapThenSumSet(LAMBDA x : g[x], S)
Pick(s) == CHOOSE x \in s : TRUE

IsFold(g, S, h) ==
  h = [s \in SUBSET S |-> IF s = {} THEN 0 ELSE g[Pick(s)] + h[s \ {Pick(s)}]]

Fold(g, S) == CHOOSE h : IsFold(g, S, h)

\* The local definition of MapThenFoldSet, by name: h is its function iter.
LEMMA SumIsFold == ASSUME NEW g, NEW S PROVE SumOf(g, S) = Fold(g, S)[S]
  BY DEF SumOf, MapThenSumSet, MapThenFoldSet, Fold, IsFold, Pick

LEMMA FoldsAgree ==
  ASSUME NEW g, NEW S, NEW T, IsFiniteSet(S), NEW h, NEW k,
         IsFold(g, S, h), IsFold(g, T, k)
  PROVE  \A s \in (SUBSET S) \cap (SUBSET T) : h[s] = k[s]
<1> DEFINE Bad == { s \in (SUBSET S) \cap (SUBSET T) : h[s] # k[s] }
<1>1. SUFFICES ASSUME Bad # {} PROVE FALSE
  OBVIOUS
<1>2. Bad \subseteq FiniteSubsetsOf(S)
  BY FS_Subset DEF FiniteSubsetsOf
<1> HIDE DEF Bad
<1>3. PICK s \in Bad : \A r \in Bad : ~(<<r, s>> \in StrictSubsetOrdering(S))
  BY <1>1, <1>2, FS_StrictSubsetOrderingWellFounded, WFMin
<1> USE DEF Bad
<1>4. s \subseteq S /\ s \subseteq T /\ h[s] # k[s]
  OBVIOUS
<1>5. h[s] = IF s = {} THEN 0 ELSE g[Pick(s)] + h[s \ {Pick(s)}]
  BY <1>4 DEF IsFold
<1>6. k[s] = IF s = {} THEN 0 ELSE g[Pick(s)] + k[s \ {Pick(s)}]
  BY <1>4 DEF IsFold
<1>7. s # {} /\ h[s \ {Pick(s)}] # k[s \ {Pick(s)}]
  BY <1>4, <1>5, <1>6
<1>8. Pick(s) \in s
  BY <1>7 DEF Pick
<1>9. s \ {Pick(s)} \in Bad
  BY <1>4, <1>7
<1>10. <<s \ {Pick(s)}, s>> \in StrictSubsetOrdering(S)
  BY <1>4, <1>8 DEF StrictSubsetOrdering
<1> QED BY <1>3, <1>9, <1>10

LEMMA FoldExists ==
  ASSUME NEW g, NEW S, IsFiniteSet(S)
  PROVE  \E h : IsFold(g, S, h)
<1> DEFINE Bad == { s \in SUBSET S : ~\E h : IsFold(g, s, h) }
<1>1. SUFFICES ASSUME Bad # {} PROVE FALSE
  OBVIOUS
<1>2. Bad \subseteq FiniteSubsetsOf(S)
  BY FS_Subset DEF FiniteSubsetsOf
<1> HIDE DEF Bad
<1>3. PICK t \in Bad : \A r \in Bad : ~(<<r, t>> \in StrictSubsetOrdering(S))
  BY <1>1, <1>2, FS_StrictSubsetOrderingWellFounded, WFMin
<1>4. t \subseteq S /\ ~\E h : IsFold(g, t, h)
  BY DEF Bad
<1>5. ASSUME NEW s \in SUBSET t, s # t
      PROVE  IsFold(g, s, Fold(g, s))
  <2>1. <<s, t>> \in StrictSubsetOrdering(S)
    BY <1>4, <1>5 DEF StrictSubsetOrdering
  <2>2. s \notin Bad
    BY <1>3, <2>1
  <2> QED BY <1>4, <2>2 DEF Bad, Fold
<1> DEFINE V(s) == Fold(g, s)[s]
<1>6. ASSUME NEW s \in SUBSET t, s # t, s # {}
      PROVE  V(s) = g[Pick(s)] + V(s \ {Pick(s)})
  <2>1. IsFold(g, s, Fold(g, s))
    BY <1>5, <1>6
  <2>2. Pick(s) \in s /\ s \ {Pick(s)} \subseteq t /\ s \ {Pick(s)} # t
    BY <1>6 DEF Pick
  <2>3. IsFold(g, s \ {Pick(s)}, Fold(g, s \ {Pick(s)}))
    BY <1>5, <2>2
  <2>4. IsFiniteSet(s)
    BY <1>4, FS_Subset
  <2>5. Fold(g, s)[s \ {Pick(s)}] = V(s \ {Pick(s)})
    <3> DEFINE r == s \ {Pick(s)}
    <3>1. r \subseteq s /\ IsFold(g, r, Fold(g, r))
      BY <2>3
    <3> DEFINE whole == Fold(g, s)
               part  == Fold(g, r)
    <3>2. IsFold(g, s, whole) /\ IsFold(g, r, part)
      BY <2>1, <3>1
    <3> HIDE DEF r, whole, part
    <3>3. \A q \in (SUBSET s) \cap (SUBSET r) : whole[q] = part[q]
      BY <2>4, <3>1, <3>2, FoldsAgree
    <3>4. whole[r] = part[r]
      BY <3>1, <3>3
    <3> QED BY <3>4 DEF r, whole, part
  <2>6. Fold(g, s)[s] = g[Pick(s)] + Fold(g, s)[s \ {Pick(s)}]
    <3> DEFINE h == Fold(g, s)
    <3>1. h = [q \in SUBSET s |-> IF q = {} THEN 0 ELSE g[Pick(q)] + h[q \ {Pick(q)}]]
      BY <2>1 DEF IsFold
    <3> HIDE DEF h
    <3>2. h[s] = g[Pick(s)] + h[s \ {Pick(s)}]
      BY <1>6, <3>1
    <3> QED BY <3>2 DEF h
  <2> QED BY <2>5, <2>6
<1>7. ASSUME NEW s \in SUBSET t, s # t, s = {}
      PROVE  V(s) = 0
  <2>1. IsFold(g, s, Fold(g, s))
    BY <1>5, <1>7
  <2> DEFINE h == Fold(g, s)
  <2>2. h = [q \in SUBSET s |-> IF q = {} THEN 0 ELSE g[Pick(q)] + h[q \ {Pick(q)}]]
    BY <2>1 DEF IsFold
  <2> HIDE DEF h
  <2>3. h[s] = 0
    BY <1>7, <2>2
  <2> QED BY <2>3 DEF h
<1> DEFINE k == [s \in SUBSET t |-> IF s = t
                                    THEN IF t = {} THEN 0 ELSE g[Pick(t)] + V(t \ {Pick(t)})
                                    ELSE V(s)]
<1> HIDE DEF V
<1>8. ASSUME NEW s \in SUBSET t
      PROVE  k[s] = IF s = {} THEN 0 ELSE g[Pick(s)] + k[s \ {Pick(s)}]
  <2>1. CASE s = {}
    BY <1>7, <2>1
  <2>2. CASE s # {}
    <3>1. s \ {Pick(s)} \subseteq t /\ s \ {Pick(s)} # t
      BY <2>2 DEF Pick
    <3>2. k[s \ {Pick(s)}] = V(s \ {Pick(s)})
      BY <3>1
    <3>3. k[s] = g[Pick(s)] + V(s \ {Pick(s)})
      BY <1>6, <2>2
    <3> QED BY <2>2, <3>2, <3>3
  <2> QED BY <2>1, <2>2
<1>9. IsFold(g, t, k)
  <2>1. k = [s \in SUBSET t |-> k[s]]
    OBVIOUS
  <2> HIDE DEF k
  <2>2. [s \in SUBSET t |-> k[s]] =
        [s \in SUBSET t |-> IF s = {} THEN 0 ELSE g[Pick(s)] + k[s \ {Pick(s)}]]
    BY <1>8
  <2> QED BY <2>1, <2>2 DEF IsFold
<1> QED BY <1>4, <1>9

LEMMA SumStep ==
  ASSUME NEW g, NEW S, IsFiniteSet(S)
  PROVE  SumOf(g, S) = IF S = {} THEN 0 ELSE g[Pick(S)] + SumOf(g, S \ {Pick(S)})
<1>1. \A s \in SUBSET S : IsFold(g, s, Fold(g, s))
  BY FoldExists, FS_Subset DEF Fold
<1>2. \A s \in SUBSET S : Fold(g, S)[s] = Fold(g, s)[s]
  <2> SUFFICES ASSUME NEW s \in SUBSET S PROVE Fold(g, S)[s] = Fold(g, s)[s]
    OBVIOUS
  <2>1. ASSUME NEW whole, NEW part, IsFold(g, S, whole), IsFold(g, s, part)
        PROVE  whole[s] = part[s]
    <3>1. s \subseteq S /\ s \in SUBSET s
      OBVIOUS
    <3>2. \A q \in (SUBSET S) \cap (SUBSET s) : whole[q] = part[q]
      BY <2>1, <3>1, FoldsAgree
    <3> QED BY <3>1, <3>2
  <2>2. IsFold(g, S, Fold(g, S)) /\ IsFold(g, s, Fold(g, s))
    BY <1>1
  <2> QED BY <2>1, <2>2
<1>3. \A s \in SUBSET S : SumOf(g, s) = Fold(g, s)[s]
  BY SumIsFold
<1>4. Fold(g, S)[S] = IF S = {} THEN 0 ELSE g[Pick(S)] + Fold(g, S)[S \ {Pick(S)}]
  <2> DEFINE h == Fold(g, S)
  <2>1. h = [q \in SUBSET S |-> IF q = {} THEN 0 ELSE g[Pick(q)] + h[q \ {Pick(q)}]]
    BY <1>1 DEF IsFold
  <2> HIDE DEF h
  <2>2. h[S] = IF S = {} THEN 0 ELSE g[Pick(S)] + h[S \ {Pick(S)}]
    BY <2>1
  <2> QED BY <2>2 DEF h
<1>5. S \ {Pick(S)} \in SUBSET S
  OBVIOUS
<1> QED BY <1>2, <1>3, <1>4, <1>5

(***************************************************************************)
(* Induction over the subsets of a finite set, for a set of good subsets.  *)
(***************************************************************************)
LEMMA StrongInduction ==
  ASSUME NEW S, IsFiniteSet(S), NEW Good,
         \A T \in SUBSET S : (\A r \in SUBSET T : r # T => r \in Good) => T \in Good
  PROVE  S \in Good
<1> DEFINE Bad == (SUBSET S) \ Good
<1>1. SUFFICES ASSUME Bad # {} PROVE FALSE
  OBVIOUS
<1>2. Bad \subseteq FiniteSubsetsOf(S)
  BY FS_Subset DEF FiniteSubsetsOf
<1> HIDE DEF Bad
<1>3. PICK T \in Bad : \A r \in Bad : ~(<<r, T>> \in StrictSubsetOrdering(S))
  BY <1>1, <1>2, FS_StrictSubsetOrderingWellFounded, WFMin
<1>4. T \subseteq S /\ T \notin Good
  BY DEF Bad
<1>5. ASSUME NEW r \in SUBSET T, r # T
      PROVE  r \in Good
  <2>1. <<r, T>> \in StrictSubsetOrdering(S)
    BY <1>4, <1>5 DEF StrictSubsetOrdering
  <2> QED BY <1>3, <1>4, <2>1 DEF Bad
<1> QED BY <1>4, <1>5

LEMMA SubsetInduction ==
  ASSUME NEW S, IsFiniteSet(S), NEW Good, {} \in Good,
         \A T \in SUBSET S : \A x \in S : T \in Good /\ x \notin T => T \cup {x} \in Good
  PROVE  S \in Good
<1>1. ASSUME NEW T \in SUBSET S, \A r \in SUBSET T : r # T => r \in Good
      PROVE  T \in Good
  <2>1. CASE T = {}
    BY <2>1
  <2>2. CASE T # {}
    <3>1. PICK x : x \in T
      BY <2>2
    <3>2. T \ {x} \in Good /\ T \ {x} \in SUBSET S /\ x \in S
      BY <1>1, <3>1
    <3>3. (T \ {x}) \cup {x} \in Good
      BY <3>2
    <3> QED BY <3>1, <3>3
  <2> QED BY <2>1, <2>2
<1> QED BY <1>1, StrongInduction

LEMMA SumType ==
  ASSUME NEW g, NEW S, IsFiniteSet(S), \A x \in S : g[x] \in Nat
  PROVE  SumOf(g, S) \in Nat
<1> DEFINE Good == { T \in SUBSET S : SumOf(g, T) \in Nat }
<1>1. ASSUME NEW T \in SUBSET S, \A r \in SUBSET T : r # T => r \in Good
      PROVE  T \in Good
  <2>1. SumOf(g, T) = IF T = {} THEN 0 ELSE g[Pick(T)] + SumOf(g, T \ {Pick(T)})
    BY SumStep, FS_Subset
  <2>2. CASE T = {}
    BY <2>1, <2>2
  <2>3. CASE T # {}
    <3>1. Pick(T) \in T
      BY <2>3 DEF Pick
    <3>2. SumOf(g, T \ {Pick(T)}) \in Nat /\ g[Pick(T)] \in Nat
      BY <1>1, <3>1
    <3>3. SumOf(g, T) \in Nat
      BY <2>1, <2>3, <3>2
    <3> QED BY <3>3
  <2> QED BY <2>2, <2>3
<1> HIDE DEF Good
<1>2. S \in Good
  BY <1>1, StrongInduction
<1> QED BY <1>2 DEF Good

\* Any element may be the one that is taken out first.
LEMMA SumRemove ==
  ASSUME NEW g, NEW S, IsFiniteSet(S), \A x \in S : g[x] \in Nat, NEW x \in S
  PROVE  SumOf(g, S) = g[x] + SumOf(g, S \ {x})
<1> DEFINE Good == { T \in SUBSET S : \A y \in T : SumOf(g, T) = g[y] + SumOf(g, T \ {y}) }
<1>1. \A T \in SUBSET S : IsFiniteSet(T) /\ SumOf(g, T) \in Nat
  BY SumType, FS_Subset
<1>2. ASSUME NEW T \in SUBSET S, \A r \in SUBSET T : r # T => r \in Good
      PROVE  T \in Good
  <2> SUFFICES ASSUME NEW y \in T PROVE SumOf(g, T) = g[y] + SumOf(g, T \ {y})
    OBVIOUS
  <2> DEFINE c == Pick(T)
  <2>1. c \in T
    BY DEF Pick
  <2>2. SumOf(g, T) = g[c] + SumOf(g, T \ {c})
    BY SumStep, <1>1
  <2> HIDE DEF c
  <2>3. CASE c = y
    BY <2>2, <2>3
  <2>4. CASE c # y
    <3>1. y \in T \ {c} /\ T \ {c} \in Good
      BY <1>2, <2>1, <2>4
    <3>2. c \in T \ {y} /\ T \ {y} \in Good
      BY <1>2, <2>1, <2>4
    <3>3. SumOf(g, T \ {c}) = g[y] + SumOf(g, (T \ {c}) \ {y})
      BY <3>1
    <3>4. SumOf(g, T \ {y}) = g[c] + SumOf(g, (T \ {y}) \ {c})
      BY <3>2
    <3>5. (T \ {y}) \ {c} = (T \ {c}) \ {y}
      OBVIOUS
    <3>6. SumOf(g, (T \ {c}) \ {y}) \in Nat /\ g[c] \in Nat /\ g[y] \in Nat
      BY <1>1, <2>1
    <3> QED BY <2>2, <3>3, <3>4, <3>5, <3>6
  <2> QED BY <2>3, <2>4
<1> HIDE DEF Good
<1>3. S \in Good
  BY <1>2, StrongInduction
<1> QED BY <1>3 DEF Good

LEMMA SumEmpty == ASSUME NEW g PROVE SumOf(g, {}) = 0
<1>1. IsFiniteSet({})
  BY FS_EmptySet
<1> QED BY <1>1, SumStep

LEMMA SumAdd ==
  ASSUME NEW g, NEW S, IsFiniteSet(S), \A x \in S : g[x] \in Nat, NEW y, y \notin S, g[y] \in Nat
  PROVE  SumOf(g, S \cup {y}) = g[y] + SumOf(g, S)
<1> DEFINE T == S \cup {y}
<1>1. IsFiniteSet(T) /\ (\A x \in T : g[x] \in Nat) /\ y \in T /\ T \ {y} = S
  BY FS_AddElement
<1> HIDE DEF T
<1>2. SumOf(g, T) = g[y] + SumOf(g, T \ {y})
  BY <1>1, SumRemove
<1> QED BY <1>1, <1>2 DEF T

\* A sum depends only on the numbers that are summed.
LEMMA SumSame ==
  ASSUME NEW g, NEW h, NEW S, IsFiniteSet(S), \A x \in S : g[x] \in Nat /\ h[x] = g[x]
  PROVE  SumOf(h, S) = SumOf(g, S)
<1> DEFINE Good == { T \in SUBSET S : SumOf(h, T) = SumOf(g, T) }
<1>1. {} \in Good
  BY SumEmpty
<1>2. ASSUME NEW T \in SUBSET S, NEW x \in S, T \in Good, x \notin T
      PROVE  T \cup {x} \in Good
  <2>1. IsFiniteSet(T) /\ (\A y \in T : g[y] \in Nat) /\ (\A y \in T : h[y] \in Nat)
    BY FS_Subset
  <2>2. SumOf(g, T \cup {x}) = g[x] + SumOf(g, T)
    BY <1>2, <2>1, SumAdd
  <2>3. SumOf(h, T \cup {x}) = h[x] + SumOf(h, T)
    BY <1>2, <2>1, SumAdd
  <2> QED BY <1>2, <2>2, <2>3
<1> HIDE DEF Good
<1>3. S \in Good
  BY <1>1, <1>2, SubsetInduction
<1> QED BY <1>3 DEF Good

LEMMA SumOfSubset ==
  ASSUME NEW g, NEW S, IsFiniteSet(S), \A x \in S : g[x] \in Nat, NEW R \in SUBSET S
  PROVE  SumOf(g, R) <= SumOf(g, S)
<1> DEFINE Good == { T \in SUBSET S : SumOf(g, T \cap R) <= SumOf(g, T) }
<1>1. {} \in Good
  <2>1. {} \cap R = {} /\ SumOf(g, {}) <= SumOf(g, {})
    BY SumEmpty
  <2> QED BY <2>1
<1>2. ASSUME NEW T \in SUBSET S, NEW x \in S, T \in Good, x \notin T
      PROVE  T \cup {x} \in Good
  <2>1. IsFiniteSet(T) /\ IsFiniteSet(T \cap R)
    BY FS_Subset
  <2>2. /\ SumOf(g, T) \in Nat /\ SumOf(g, T \cap R) \in Nat /\ g[x] \in Nat
        /\ SumOf(g, T \cap R) <= SumOf(g, T)
    BY <1>2, <2>1, SumType
  <2>3. SumOf(g, T \cup {x}) = g[x] + SumOf(g, T)
    BY <1>2, <2>1, SumAdd
  <2>4. SumOf(g, (T \cup {x}) \cap R) <= SumOf(g, T \cup {x})
    <3>1. CASE x \in R
      <4>1. (T \cup {x}) \cap R = (T \cap R) \cup {x}
        BY <3>1
      <4>2. SumOf(g, (T \cap R) \cup {x}) = g[x] + SumOf(g, T \cap R)
        BY <1>2, <2>1, SumAdd
      <4> QED BY <2>2, <2>3, <4>1, <4>2
    <3>2. CASE x \notin R
      <4>1. (T \cup {x}) \cap R = T \cap R
        BY <3>2
      <4>2. SumOf(g, (T \cup {x}) \cap R) = SumOf(g, T \cap R)
        BY <4>1
      <4> QED BY <2>2, <2>3, <4>2
    <3> QED BY <3>1, <3>2
  <2>5. T \cup {x} \in SUBSET S
    OBVIOUS
  <2> QED BY <2>4, <2>5
<1> HIDE DEF Good
<1>3. S \in Good
  BY <1>1, <1>2, SubsetInduction
<1>4. S \cap R = R
  OBVIOUS
<1> QED BY <1>3, <1>4 DEF Good

(***************************************************************************)
(* The sum of n numbers that are at least (at most) b.                     *)
(***************************************************************************)
LEMMA SumAtLeast ==
  ASSUME NEW g, NEW S, IsFiniteSet(S), NEW b \in Nat, \A x \in S : g[x] \in Nat /\ b <= g[x]
  PROVE  Cardinality(S) * b <= SumOf(g, S)
<1> DEFINE Good == { T \in SUBSET S : Cardinality(T) * b <= SumOf(g, T) }
<1>1. {} \in Good
  <2>1. Cardinality({}) * b <= SumOf(g, {})
    BY SumEmpty, FS_EmptySet
  <2> QED BY <2>1
<1>2. ASSUME NEW T \in SUBSET S, NEW x \in S, T \in Good, x \notin T
      PROVE  T \cup {x} \in Good
  <2>1. IsFiniteSet(T)
    BY FS_Subset
  <2>2. SumOf(g, T \cup {x}) = g[x] + SumOf(g, T)
    BY <1>2, <2>1, SumAdd
  <2>3. Cardinality(T \cup {x}) = Cardinality(T) + 1
    BY <1>2, <2>1, FS_AddElement
  <2>4. /\ SumOf(g, T) \in Nat /\ Cardinality(T) \in Nat /\ g[x] \in Nat /\ b <= g[x]
        /\ Cardinality(T) * b <= SumOf(g, T)
    BY <1>2, <2>1, SumType, FS_CardinalityType
  <2>5. \A n, s, v \in Nat : n * b <= s /\ b <= v => (n + 1) * b <= v + s
    OBVIOUS
  <2>6. (Cardinality(T) + 1) * b <= g[x] + SumOf(g, T)
    BY <2>4, <2>5
  <2>7. T \cup {x} \in SUBSET S
    OBVIOUS
  <2> QED BY <2>2, <2>3, <2>6, <2>7
<1> HIDE DEF Good
<1>3. S \in Good
  BY <1>1, <1>2, SubsetInduction
<1> QED BY <1>3 DEF Good

LEMMA SumAtMost ==
  ASSUME NEW g, NEW S, IsFiniteSet(S), NEW b \in Nat, \A x \in S : g[x] \in Nat /\ g[x] <= b
  PROVE  SumOf(g, S) <= Cardinality(S) * b
<1> DEFINE Good == { T \in SUBSET S : SumOf(g, T) <= Cardinality(T) * b }
<1>1. {} \in Good
  <2>1. SumOf(g, {}) <= Cardinality({}) * b
    BY SumEmpty, FS_EmptySet
  <2> QED BY <2>1
<1>2. ASSUME NEW T \in SUBSET S, NEW x \in S, T \in Good, x \notin T
      PROVE  T \cup {x} \in Good
  <2>1. IsFiniteSet(T)
    BY FS_Subset
  <2>2. SumOf(g, T \cup {x}) = g[x] + SumOf(g, T)
    BY <1>2, <2>1, SumAdd
  <2>3. Cardinality(T \cup {x}) = Cardinality(T) + 1
    BY <1>2, <2>1, FS_AddElement
  <2>4. /\ SumOf(g, T) \in Nat /\ Cardinality(T) \in Nat /\ g[x] \in Nat /\ g[x] <= b
        /\ SumOf(g, T) <= Cardinality(T) * b
    BY <1>2, <2>1, SumType, FS_CardinalityType
  <2>5. \A n, s, v \in Nat : s <= n * b /\ v <= b => v + s <= (n + 1) * b
    OBVIOUS
  <2>6. g[x] + SumOf(g, T) <= (Cardinality(T) + 1) * b
    BY <2>4, <2>5
  <2>7. T \cup {x} \in SUBSET S
    OBVIOUS
  <2> QED BY <2>2, <2>3, <2>6, <2>7
<1> HIDE DEF Good
<1>3. S \in Good
  BY <1>1, <1>2, SubsetInduction
<1> QED BY <1>3 DEF Good

LEMMA SumIncreased ==
  ASSUME NEW K, IsFiniteSet(K), NEW f \in [K -> Nat], NEW k \in K, NEW d \in Nat
  PROVE  SumOf([f EXCEPT ![k] = f[k] + d], K) = SumOf(f, K) + d
<1> DEFINE h == [f EXCEPT ![k] = f[k] + d]
<1>0. h = [f EXCEPT ![k] = f[k] + d]
  OBVIOUS
<1> HIDE DEF h
<1>1. IsFiniteSet(K \ {k})
  BY FS_RemoveElement
<1>2. \A x \in K \ {k} : f[x] \in Nat /\ h[x] = f[x]
  BY <1>0
<1>3. SumOf(h, K \ {k}) = SumOf(f, K \ {k})
  BY <1>1, <1>2, SumSame
<1>4. (\A x \in K : f[x] \in Nat) /\ (\A x \in K : h[x] \in Nat) /\ h[k] = f[k] + d
  BY <1>0
<1>5. SumOf(f, K) = f[k] + SumOf(f, K \ {k})
  BY <1>4, SumRemove
<1>6. SumOf(h, K) = h[k] + SumOf(h, K \ {k})
  BY <1>4, SumRemove
<1>7. SumOf(f, K \ {k}) \in Nat
  BY <1>1, <1>2, SumType
<1>8. f[k] \in Nat
  OBVIOUS
<1> QED BY <1>0, <1>3, <1>4, <1>5, <1>6, <1>7, <1>8

\* A sum is no less than any one, two or three of its summands.
LEMMA SumOfOne ==
  ASSUME NEW g, NEW S, IsFiniteSet(S), \A x \in S : g[x] \in Nat, NEW x \in S
  PROVE  g[x] <= SumOf(g, S)
<1>1. IsFiniteSet(S \ {x})
  BY FS_RemoveElement
<1>2. SumOf(g, S \ {x}) \in Nat /\ g[x] \in Nat
  BY <1>1, SumType
<1>3. SumOf(g, S) = g[x] + SumOf(g, S \ {x})
  BY SumRemove
<1> QED BY <1>2, <1>3

LEMMA SumOfTwo ==
  ASSUME NEW g, NEW S, IsFiniteSet(S), \A x \in S : g[x] \in Nat,
         NEW x \in S, NEW y \in S, x # y
  PROVE  g[x] + g[y] <= SumOf(g, S)
<1>1. IsFiniteSet(S \ {x}) /\ y \in S \ {x}
  BY FS_RemoveElement
<1>2. SumOf(g, S \ {x}) \in Nat /\ g[x] \in Nat /\ g[y] \in Nat
  BY <1>1, SumType
<1>3. SumOf(g, S) = g[x] + SumOf(g, S \ {x})
  BY SumRemove
<1>4. g[y] <= SumOf(g, S \ {x})
  BY <1>1, SumOfOne
<1> QED BY <1>2, <1>3, <1>4

LEMMA SumOfThree ==
  ASSUME NEW g, NEW S, IsFiniteSet(S), \A x \in S : g[x] \in Nat,
         NEW x \in S, NEW y \in S, NEW z \in S, x # y, x # z, y # z
  PROVE  g[x] + g[y] + g[z] <= SumOf(g, S)
<1>1. IsFiniteSet(S \ {x}) /\ y \in S \ {x} /\ z \in S \ {x}
  BY FS_RemoveElement
<1>2. SumOf(g, S \ {x}) \in Nat /\ g[x] \in Nat /\ g[y] \in Nat /\ g[z] \in Nat
  BY <1>1, SumType
<1>3. SumOf(g, S) = g[x] + SumOf(g, S \ {x})
  BY SumRemove
<1>4. g[y] + g[z] <= SumOf(g, S \ {x})
  BY <1>1, SumOfTwo
<1> QED BY <1>2, <1>3, <1>4

Shares(g, S, w, K) == [k \in K |-> SumOf(g, { x \in S : w[x] = k })]

LEMMA SumOfShares ==
  ASSUME NEW g, NEW S, IsFiniteSet(S), \A x \in S : g[x] \in Nat,
         NEW K, IsFiniteSet(K), NEW w, \A x \in S : w[x] \in K
  PROVE  SumOf(Shares(g, S, w, K), K) = SumOf(g, S)
<1> DEFINE Share(T, k) == { x \in T : w[x] = k }
<1> DEFINE Good == { T \in SUBSET S : SumOf(Shares(g, T, w, K), K) = SumOf(g, T) }
<1>1. \A T \in SUBSET S, k \in K : IsFiniteSet(Share(T, k)) /\ SumOf(g, Share(T, k)) \in Nat
  <2> SUFFICES ASSUME NEW T \in SUBSET S, NEW k \in K
               PROVE  IsFiniteSet(Share(T, k)) /\ SumOf(g, Share(T, k)) \in Nat
    OBVIOUS
  <2>1. Share(T, k) \in SUBSET S
    OBVIOUS
  <2> HIDE DEF Share
  <2>2. IsFiniteSet(Share(T, k)) /\ \A x \in Share(T, k) : g[x] \in Nat
    BY <2>1, FS_Subset
  <2> QED BY <2>2, SumType
<1>2. {} \in Good
  <2> DEFINE none == Shares(g, {}, w, K)
  <2>1. \A k \in K : none[k] = SumOf(g, {})
    <3>1. \A k \in K : { x \in {} : w[x] = k } = {}
      OBVIOUS
    <3> QED BY <3>1 DEF Shares
  <2>2. \A k \in K : none[k] \in Nat /\ none[k] <= 0
    BY <2>1, SumEmpty
  <2> HIDE DEF none
  <2>3. SumOf(none, K) \in Nat /\ SumOf(none, K) <= Cardinality(K) * 0
    BY <2>2, SumType, SumAtMost
  <2>4. Cardinality(K) \in Nat
    BY FS_CardinalityType
  <2>5. SumOf(none, K) = 0
    BY <2>3, <2>4
  <2> QED BY <2>5, SumEmpty DEF none
<1>3. ASSUME NEW T \in SUBSET S, NEW y \in S, T \in Good, y \notin T
      PROVE  T \cup {y} \in Good
  <2> DEFINE old == Shares(g, T, w, K)
             new == Shares(g, T \cup {y}, w, K)
  <2>1. old \in [K -> Nat] /\ \A k \in K : old[k] = SumOf(g, Share(T, k))
    BY <1>1 DEF Shares
  <2>2. DOMAIN new = K /\ \A k \in K : new[k] = SumOf(g, Share(T \cup {y}, k))
    BY DEF Shares
  <2>3. new = [k \in K |-> new[k]]
    BY DEF Shares
  <2>4. w[y] \in K /\ g[y] \in Nat
    OBVIOUS
  <2>5. new[w[y]] = old[w[y]] + g[y]
    <3>1. Share(T \cup {y}, w[y]) = Share(T, w[y]) \cup {y} /\ y \notin Share(T, w[y])
      BY <1>3
    <3> DEFINE R == Share(T, w[y])
    <3>2. IsFiniteSet(R) /\ (\A x \in R : g[x] \in Nat) /\ y \notin R /\ SumOf(g, R) \in Nat
      BY <1>1, <1>3, <2>4
    <3> HIDE DEF R
    <3>3. SumOf(g, R \cup {y}) = g[y] + SumOf(g, R)
      BY <2>4, <3>2, SumAdd
    <3>4. SumOf(g, R \cup {y}) = SumOf(g, R) + g[y]
      BY <2>4, <3>2, <3>3
    <3>5. new[w[y]] = SumOf(g, R \cup {y}) /\ old[w[y]] = SumOf(g, R)
      BY <2>1, <2>2, <2>4, <3>1 DEF R
    <3> QED BY <3>4, <3>5
  <2>6. \A k \in K : k # w[y] => new[k] = old[k]
    <3> SUFFICES ASSUME NEW k \in K, k # w[y] PROVE new[k] = old[k]
      OBVIOUS
    <3>1. Share(T \cup {y}, k) = Share(T, k)
      OBVIOUS
    <3> QED BY <2>1, <2>2, <3>1
  <2> HIDE DEF old, new
  <2>7. new = [old EXCEPT ![w[y]] = old[w[y]] + g[y]]
    BY <2>1, <2>3, <2>4, <2>5, <2>6
  <2>8. SumOf(new, K) = SumOf(old, K) + g[y]
    <3>1. PICK c \in K, d \in Nat : c = w[y] /\ d = g[y]
      BY <2>4
    <3>2. new = [old EXCEPT ![c] = old[c] + d] /\ old \in [K -> Nat]
      BY <2>1, <2>7, <3>1
    <3>3. SumOf([old EXCEPT ![c] = old[c] + d], K) = SumOf(old, K) + d
      BY <3>2, SumIncreased
    <3> QED BY <3>1, <3>2, <3>3
  <2>9. SumOf(old, K) = SumOf(g, T)
    BY <1>3 DEF old
  <2>10. IsFiniteSet(T) /\ (\A x \in T : g[x] \in Nat)
    BY FS_Subset
  <2>11. SumOf(g, T \cup {y}) = g[y] + SumOf(g, T) /\ SumOf(g, T) \in Nat
    BY <1>3, <2>4, <2>10, SumAdd, SumType
  <2>12. SumOf(new, K) = SumOf(g, T \cup {y})
    BY <2>4, <2>8, <2>9, <2>11
  <2>13. T \cup {y} \in SUBSET S
    OBVIOUS
  <2> QED BY <2>12, <2>13 DEF new
<1> HIDE DEF Good
<1>4. S \in Good
  BY <1>2, <1>3, SubsetInduction
<1> QED BY <1>4 DEF Good
================================================================================
