--------------------------- MODULE Factory_proofs -----------------------------
(***************************************************************************)
(* That the bytes of a number mean the same to the walker that wrote them  *)
(* and to the factory that reads them, whatever the widths are; and that   *)
(* from a record in the format of its schema the factories make the value  *)
(* it was made from, with its strings as US-ASCII has them, whatever the   *)
(* schema, by induction over its levels.                                   *)
(***************************************************************************)
EXTENDS Factory, SequenceTheorems, NaturalsInduction, WellFoundedInduction, TLAPS

\* Reading b bytes as a signed number undoes the two's complement.
LEMMA SignedBack ==
  ASSUME NEW b \in Sizes, NEW n \in -Half[b] .. Half[b] - 1
  PROVE  Get(b, Stored(b, n)) = n
<1>1. Half[b] \in Nat \ {0}
  BY WidthsAssumption
<1> QED
  BY <1>1 DEF Get, Stored, All

\* Adding the range back to a negative reading gives the unsigned number.
LEMMA UnsignedBack ==
  ASSUME NEW b \in Sizes, NEW n \in 0 .. All(b) - 1
  PROVE  LET out == Get(b, Stored(b, n)) IN (IF out < 0 THEN 2 * Half[b] + out ELSE out) = n
<1>1. Half[b] \in Nat \ {0}
  BY WidthsAssumption
<1> QED
  BY <1>1 DEF Get, Stored, All

\* What a double keeps stays as it is through both of FactoryULong's roundings: the
\* number below zero that it is first has no more digits than the number itself.
LEMMA DoubleBack ==
  ASSUME NEW n \in 0 .. All(8) - 1, Rounded(n, Mantissa) = n
  PROVE  FactoryULong(Stored(8, n)) = n
<1> DEFINE half == Half[8]
           limit == Mantissa
           out == Get(8, n)
           d   == IF out < 0 THEN -Rounded(-out, limit) ELSE Rounded(out, limit)
<1>1. half \in Nat \ {0} /\ limit \in Nat /\ n \in Nat /\ n < 2 * half
  BY WidthsAssumption, PrecisionAssumption DEF Sizes, All
<1>2. out = IF n < half THEN n ELSE n - 2 * half
  BY DEF Get, All
<1>3. Stored(8, n) = n
  BY <1>1 DEF Stored
<1>4. n < limit \/ n % 2 = 0
  <2>1. SUFFICES ASSUME ~(n < limit) PROVE n % 2 = 0
    OBVIOUS
  <2>2. n - (n % 2) = n
    BY <2>1 DEF Rounded
  <2>3. n % 2 \in 0 .. 1
    BY <1>1
  <2> QED BY <1>1, <2>2, <2>3
<1>5. FactoryULong(n) = Rounded(IF out < 0 THEN 2 * half + d ELSE d, limit)
  BY DEF FactoryULong
<1>6. Rounded(n, limit) = n
  OBVIOUS
<1> HIDE DEF half, limit, out
<1>7. CASE n < half
  <2>1. out = n /\ ~(out < 0)
    BY <1>1, <1>2, <1>7
  <2>2. d = n
    BY <1>6, <2>1
  <2> QED BY <1>3, <1>5, <1>6, <2>1, <2>2
<1>8. CASE ~(n < half)
  <2>1. out = n - 2 * half /\ out < 0 /\ -out = 2 * half - n
    BY <1>1, <1>2, <1>8
  <2>2. Rounded(-out, limit) = -out
    <3>1. CASE n < limit
      <4>1. -out < limit
        BY <1>1, <1>8, <2>1, <3>1
      <4> QED BY <4>1 DEF Rounded
    <3>2. CASE n % 2 = 0
      <4>1. (2 * half - n) % 2 = 0
        BY <1>1, <3>2
      <4>2. (-out) % 2 = 0 /\ -out \in Int
        BY <1>1, <2>1, <4>1
      <4> QED BY <4>2 DEF Rounded
    <3> QED BY <1>4, <3>1, <3>2
  <2>3. 2 * half + d = n
    BY <1>1, <2>1, <2>2
  <2> QED BY <1>3, <1>5, <1>6, <2>1, <2>3
<1> QED BY <1>7, <1>8

\* A number whose bytes are written arrives as it was, for every width of the
\* integers: copyToBuffer of each walker and the factory its SchemaInstruction
\* selects are inverse, for those unsigned longs that a double can tell apart.
THEOREM NumbersArrive ==
  ASSUME NEW w \in Numbers, NEW overload \in w.copies, NEW n \in Values(w), NEW old,
         w = ULongWalker => Rounded(n, Mantissa) = n
  PROVE  Made(Copied(w, overload, n, old))[w.schema] = n
<1> USE DEF PrimitiveWalker, Values, Copied, Made
<1>0. Half[1] \in Nat \ {0} /\ Sizes = {1, 2, 4, 8}
  BY WidthsAssumption DEF Sizes
<1>1. CASE w = BoolWalker
  <2>1. Copied(w, overload, n, old) = n /\ n \in {0, 1} /\ w # ULongWalker
    BY <1>1 DEF BoolWalker, ULongWalker, Stored
  <2>2. Made(n)[w.schema] = IF Get(1, n) # 0 THEN 1 ELSE 0
    BY <1>1 DEF BoolWalker, FactoryBool
  <2> QED
    BY <1>0, <2>1, <2>2 DEF Get, All
<1>2. CASE w = CharWalker
  BY <1>0, <1>2, SignedBack DEF CharWalker, ULongWalker, FactoryByte
<1>3. CASE w = UCharWalker
  BY <1>0, <1>3, UnsignedBack DEF UCharWalker, ULongWalker, FactoryUByte
<1>4. CASE w = ShortWalker
  BY <1>0, <1>4, SignedBack DEF ShortWalker, ULongWalker, FactoryShort
<1>5. CASE w = UShortWalker
  BY <1>0, <1>5, UnsignedBack DEF UShortWalker, ULongWalker, FactoryUShort
<1>6. CASE w = IntWalker
  BY <1>0, <1>6, SignedBack DEF IntWalker, ULongWalker, FactoryInt
<1>7. CASE w = UIntWalker
  BY <1>0, <1>7, UnsignedBack DEF UIntWalker, ULongWalker, FactoryUInt
<1>8. CASE w = LongWalker
  BY <1>0, <1>8, SignedBack DEF LongWalker, ULongWalker, FactoryLong
<1>9. CASE w = ULongWalker
  <2>1. n \in 0 .. All(8) - 1 /\ Copied(w, overload, n, old) = Stored(8, n)
    BY <1>9 DEF ULongWalker
  <2>2. Made(Stored(8, n))[w.schema] = FactoryULong(Stored(8, n))
    BY <1>9 DEF ULongWalker
  <2> QED BY <1>9, <2>1, <2>2, DoubleBack
<1>10. CASE w = FloatWalker \/ w = DoubleWalker
  <2>1. Half[w.size] \in Nat
    BY <1>10, WidthsAssumption DEF FloatWalker, DoubleWalker, Sizes
  <2>2. n \in Nat
    BY <1>10, <2>1 DEF FloatWalker, DoubleWalker, All
  <2> QED
    BY <1>10, <2>2 DEF FloatWalker, DoubleWalker, ULongWalker, FactoryFloat, FactoryDouble, Stored
<1> QED
  BY <1>1, <1>2, <1>3, <1>4, <1>5, <1>6, <1>7, <1>8, <1>9, <1>10 DEF Numbers

\* The factory takes as many bytes as the walker's copyToBuffer uses, so what
\* comes behind a number is read from where it was written.
THEOREM WidthsAgree ==
  ASSUME NEW w \in Numbers
  PROVE  Taken(w.schema) = w.size
<1> USE DEF PrimitiveWalker, Taken
<1>1. CASE w = BoolWalker
  BY <1>1 DEF BoolWalker
<1>2. CASE w = CharWalker
  BY <1>2 DEF CharWalker
<1>3. CASE w = UCharWalker
  BY <1>3 DEF UCharWalker
<1>4. CASE w = ShortWalker
  BY <1>4 DEF ShortWalker
<1>5. CASE w = UShortWalker
  BY <1>5 DEF UShortWalker
<1>6. CASE w = IntWalker
  BY <1>6 DEF IntWalker
<1>7. CASE w = UIntWalker
  BY <1>7 DEF UIntWalker
<1>8. CASE w = LongWalker
  BY <1>8 DEF LongWalker
<1>9. CASE w = ULongWalker
  BY <1>9 DEF ULongWalker
<1>10. CASE w = FloatWalker
  BY <1>10 DEF FloatWalker
<1>11. CASE w = DoubleWalker
  BY <1>11 DEF DoubleWalker
<1> QED
  BY <1>1, <1>2, <1>3, <1>4, <1>5, <1>6, <1>7, <1>8, <1>9, <1>10, <1>11 DEF Numbers

(***************************************************************************)
(* The recursive functions are what their definitions say.                 *)
(***************************************************************************)
LEMMA SchemasLevel == \A n \in Nat : SchemasTo[n] = IF n = 0 THEN {} ELSE SchemasOver(SchemasTo[n - 1])
<1> DEFINE Level(v, n) == SchemasOver(v)
<1>1. NatInductiveDefHypothesis(SchemasTo, {}, Level)
  BY DEF NatInductiveDefHypothesis, SchemasTo
<1> HIDE DEF Level
<1>2. NatInductiveDefConclusion(SchemasTo, {}, Level)
  BY <1>1, NatInductiveDef
<1> QED BY <1>2 DEF NatInductiveDefConclusion, Level

LEMMA DataLevel ==
  \A n \in Nat : DataOf[n] = IF n = 0 THEN <<>>
                             ELSE [schema \in SchemasTo[n] |-> ValuesOf(schema, DataOf[n - 1])]
<1> DEFINE Level(v, n) == [schema \in SchemasTo[n] |-> ValuesOf(schema, v)]
<1>1. NatInductiveDefHypothesis(DataOf, <<>>, Level)
  BY DEF NatInductiveDefHypothesis, DataOf
<1> HIDE DEF Level
<1>2. NatInductiveDefConclusion(DataOf, <<>>, Level)
  BY <1>1, NatInductiveDef
<1> QED BY <1>2 DEF NatInductiveDefConclusion, Level

LEMMA LayoutLevel ==
  \A n \in Nat : Layout[n] = IF n = 0 THEN <<>>
                             ELSE [schema \in SchemasTo[n] |->
                                     [d \in DataOf[n][schema] |-> PiecesOf(schema, d, Layout[n - 1])]]
<1> DEFINE Level(v, n) == [schema \in SchemasTo[n] |->
                             [d \in DataOf[n][schema] |-> PiecesOf(schema, d, v)]]
<1>1. NatInductiveDefHypothesis(Layout, <<>>, Level)
  BY DEF NatInductiveDefHypothesis, Layout
<1> HIDE DEF Level
<1>2. NatInductiveDefConclusion(Layout, <<>>, Level)
  BY <1>1, NatInductiveDef
<1> QED BY <1>2 DEF NatInductiveDefConclusion, Level

LEMMA SeenLevel ==
  \A n \in Nat : SeenOf[n] = IF n = 0 THEN <<>>
                             ELSE [schema \in SchemasTo[n] |->
                                     [d \in DataOf[n][schema] |-> SeenOver(schema, d, SeenOf[n - 1])]]
<1> DEFINE Level(v, n) == [schema \in SchemasTo[n] |->
                             [d \in DataOf[n][schema] |-> SeenOver(schema, d, v)]]
<1>1. NatInductiveDefHypothesis(SeenOf, <<>>, Level)
  BY DEF NatInductiveDefHypothesis, SeenOf
<1> HIDE DEF Level
<1>2. NatInductiveDefConclusion(SeenOf, <<>>, Level)
  BY <1>1, NatInductiveDef
<1> QED BY <1>2 DEF NatInductiveDefConclusion, Level

FactoriesOver(n, factory, bytes) ==
  [schema \in SchemasTo[n] |->
     [at \in 1 .. Len(bytes) + 1 |-> FactoryOf(schema, factory, bytes, at)]]

LEMMA FactoriesLevel ==
  ASSUME NEW bytes
  PROVE  \A n \in Nat : Factories(bytes)[n] =
           IF n = 0 THEN <<>> ELSE FactoriesOver(n, Factories(bytes)[n - 1], bytes)
<1> DEFINE Level(v, n) == FactoriesOver(n, v, bytes)
<1>1. NatInductiveDefHypothesis(Factories(bytes), <<>>, Level)
  BY DEF NatInductiveDefHypothesis, Factories, FactoriesOver
<1> DEFINE factory == Factories(bytes)
<1> HIDE DEF Level, factory
<1>2. NatInductiveDefConclusion(factory, <<>>, Level)
  BY <1>1, NatInductiveDef DEF factory
<1> QED BY <1>2 DEF NatInductiveDefConclusion, Level, factory

LEMMA Induction ==
  ASSUME NEW Good, 0 \in Good, \A n \in Nat : n \in Good => n + 1 \in Good
  PROVE  \A n \in Nat : n \in Good
<1> DEFINE Bad == Nat \ Good
<1>1. SUFFICES ASSUME Bad # {} PROVE FALSE
  OBVIOUS
<1>2. PICK n \in Bad : \A m \in Bad : ~(<<m, n>> \in OpToRel(<, Nat))
  BY <1>1, NatLessThanWellFounded, WFMin
<1>3. n \in Nat /\ n # 0 /\ n \notin Good
  OBVIOUS
<1>4. n - 1 \in Nat /\ (n - 1) + 1 = n
  BY <1>3
<1>5. n - 1 \in Bad
  BY <1>3, <1>4
<1>6. <<n - 1, n>> \in OpToRel(<, Nat)
  BY <1>3, <1>4 DEF OpToRel
<1> QED BY <1>2, <1>5, <1>6

LEMMA ListIsSequence ==
  ASSUME NEW T, NEW n \in Nat, NEW f \in [1 .. n -> T]
  PROVE  f \in Seq(T) /\ Len(f) = n
OBVIOUS

LEMMA WiderSequence ==
  ASSUME NEW S, NEW T, S \subseteq T, NEW q \in Seq(S)
  PROVE  q \in Seq(T) /\ Len(q) \in Nat
<1>1. Len(q) \in Nat /\ q \in [1 .. Len(q) -> S]
  OBVIOUS
<1>2. q \in [1 .. Len(q) -> T]
  BY <1>1
<1> QED BY <1>1, <1>2, ListIsSequence

(***************************************************************************)
(* Sequences of pieces and the places they have in the bytes.              *)
(***************************************************************************)
Holds(bytes, at, pieces) ==
  /\ at \in Nat \ {0}
  /\ at - 1 + Len(pieces) <= Len(bytes)
  /\ \A i \in 1 .. Len(pieces) : bytes[at - 1 + i] = pieces[i]

LEMMA HoldsBoth ==
  ASSUME NEW P, NEW bytes \in Seq(P), NEW a \in Seq(P), NEW b \in Seq(P), NEW at,
         Holds(bytes, at, a \o b)
  PROVE  Holds(bytes, at, a) /\ Holds(bytes, at + Len(a), b)
<1>1. Len(a) \in Nat /\ Len(b) \in Nat /\ Len(bytes) \in Nat /\ at \in Nat \ {0}
  BY DEF Holds
<1>2. /\ Len(a \o b) = Len(a) + Len(b)
      /\ \A i \in 1 .. Len(a) + Len(b) : (a \o b)[i] = IF i <= Len(a) THEN a[i] ELSE b[i - Len(a)]
  BY ConcatProperties
<1>3. \A i \in 1 .. Len(a) + Len(b) : bytes[at - 1 + i] = (a \o b)[i]
  BY <1>2 DEF Holds
<1>4. at - 1 + Len(a) + Len(b) <= Len(bytes)
  BY <1>1, <1>2 DEF Holds
<1>5. ASSUME NEW i \in 1 .. Len(a)
      PROVE  bytes[at - 1 + i] = a[i]
  <2>1. i \in 1 .. Len(a) + Len(b) /\ i <= Len(a)
    BY <1>1
  <2>2. (a \o b)[i] = a[i]
    BY <1>2, <2>1
  <2> QED BY <1>3, <2>1, <2>2
<1>6. ASSUME NEW i \in 1 .. Len(b)
      PROVE  bytes[at + Len(a) - 1 + i] = b[i]
  <2>1. Len(a) + i \in 1 .. Len(a) + Len(b) /\ ~(Len(a) + i <= Len(a)) /\ Len(a) + i - Len(a) = i
    BY <1>1
  <2>2. (a \o b)[Len(a) + i] = b[i]
    BY <1>2, <2>1
  <2>3. at + Len(a) - 1 + i = at - 1 + (Len(a) + i)
    BY <1>1
  <2> QED BY <1>3, <2>1, <2>2, <2>3
<1>7. at + Len(a) \in Nat \ {0} /\ at + Len(a) - 1 + Len(b) <= Len(bytes)
      /\ at - 1 + Len(a) <= Len(bytes)
  BY <1>1, <1>4
<1> QED BY <1>1, <1>5, <1>6, <1>7 DEF Holds

\* FlattenSeq goes through its argument from the left.
LEMMA FlattenSteps ==
  ASSUME NEW P, NEW L \in Seq(Seq(P))
  PROVE  \E to \in [0 .. Len(L) -> Seq(P)] :
           /\ to[0] = <<>>
           /\ to[Len(L)] = FlattenSeq(L)
           /\ \A i \in 1 .. Len(L) : to[i] = to[i - 1] \o L[i]
<1>1. Len(L) \in Nat /\ \A i \in 1 .. Len(L) : L[i] \in Seq(P)
  OBVIOUS
<1>2. CASE Len(L) = 0
  <2>1. FlattenSeq(L) = <<>>
    BY <1>2, EmptySeq DEF FlattenSeq
  <2> WITNESS [i \in 0 .. Len(L) |-> <<>>] \in [0 .. Len(L) -> Seq(P)]
  <2> QED BY <1>2, <2>1
<1>3. CASE Len(L) # 0
  <2> DEFINE Level(v, i) == v \o L[i]
             made == CHOOSE g : g = [i \in 1 .. Len(L) |-> IF i = 1 THEN L[i] ELSE g[i - 1] \o L[i]]
  <2>1. FlattenSeq(L) = made[Len(L)]
    BY <1>3 DEF FlattenSeq
  <2>2. made = CHOOSE g : g = [i \in 1 .. Len(L) |-> IF i = 1 THEN L[1] ELSE Level(g[i - 1], i)]
    <3>1. \A g : [i \in 1 .. Len(L) |-> IF i = 1 THEN L[i] ELSE g[i - 1] \o L[i]]
                 = [i \in 1 .. Len(L) |-> IF i = 1 THEN L[1] ELSE Level(g[i - 1], i)]
      OBVIOUS
    <3> QED BY <3>1
  <2> HIDE DEF made, Level
  <2> DEFINE first == L[1]
             last  == Len(L)
  <2>a. FiniteNatInductiveDefHypothesis(made, first, Level, 1, last)
    BY <2>2 DEF FiniteNatInductiveDefHypothesis
  <2>b. 1 \in Nat /\ last \in Nat
    BY <1>1
  <2> HIDE DEF first, last
  <2>3. FiniteNatInductiveDefConclusion(made, first, Level, 1, last)
    BY <2>a, <2>b, FiniteNatInductiveDef
  <2>4. \A i \in 1 .. Len(L) : made[i] = IF i = 1 THEN L[1] ELSE made[i - 1] \o L[i]
    BY <2>3 DEF FiniteNatInductiveDefConclusion, Level, first, last
  <2> DEFINE Good == {i \in Nat : i + 1 \in 1 .. Len(L) => made[i + 1] \in Seq(P)}
  <2>5. 0 \in Good
    BY <1>1, <1>3, <2>4
  <2>6. ASSUME NEW i \in Nat, i \in Good
        PROVE  i + 1 \in Good
    <3>1. SUFFICES ASSUME i + 2 \in 1 .. Len(L) PROVE made[i + 2] \in Seq(P)
      BY DEF Good
    <3>2. i + 1 \in 1 .. Len(L) /\ i + 2 # 1 /\ (i + 2) - 1 = i + 1
      BY <1>1, <3>1
    <3>3. made[i + 2] = made[i + 1] \o L[i + 2]
      BY <2>4, <3>1, <3>2
    <3>4. made[i + 1] \in Seq(P) /\ L[i + 2] \in Seq(P)
      BY <1>1, <2>6, <3>1, <3>2 DEF Good
    <3> QED BY <3>3, <3>4, ConcatProperties
  <2>7. \A i \in Nat : i \in Good
    BY <2>5, <2>6, Induction
  <2>8. \A i \in 1 .. Len(L) : made[i] \in Seq(P)
    <3>1. ASSUME NEW i \in 1 .. Len(L) PROVE made[i] \in Seq(P)
      <4>1. i - 1 \in Nat /\ (i - 1) + 1 = i
        BY <1>1
      <4> QED BY <2>7, <4>1 DEF Good
    <3> QED BY <3>1
  <2> DEFINE to == [i \in 0 .. Len(L) |-> IF i = 0 THEN <<>> ELSE made[i]]
  <2>9. to \in [0 .. Len(L) -> Seq(P)]
    BY <1>1, <2>8, EmptySeq
  <2>10. to[0] = <<>> /\ to[Len(L)] = FlattenSeq(L)
    BY <1>1, <1>3, <2>1
  <2>11. ASSUME NEW i \in 1 .. Len(L)
         PROVE  to[i] = to[i - 1] \o L[i]
    <3>1. CASE i = 1
      <4>1. to[1] = L[1] /\ to[0] = <<>> /\ L[1] \in Seq(P)
        BY <1>1, <1>3, <2>4
      <4>2. L[1] = to[0] \o L[1]
        BY <4>1, ConcatEmptySeq
      <4>3. i - 1 = 0
        BY <3>1
      <4> HIDE DEF to
      <4> QED BY <3>1, <4>1, <4>2, <4>3
    <3>2. CASE i # 1
      <4>1. to[i] = made[i] /\ to[i - 1] = made[i - 1]
        BY <1>1, <3>2
      <4> HIDE DEF to
      <4>2. made[i] = made[i - 1] \o L[i]
        BY <2>4, <3>2, Zenon
      <4> QED BY <4>1, <4>2, Zenon
    <3> HIDE DEF to
    <3> QED BY <3>1, <3>2
  <2> HIDE DEF to
  <2> QED BY <2>9, <2>10, <2>11
<1> QED BY <1>1, <1>2, <1>3

\* InTurn goes through the schemas from the left.
Passes(factory, schemas, at, after) ==
  /\ after[0] = Got(<<>>, at)
  /\ after[Len(schemas)] = InTurn(factory, schemas, at)
  /\ \A i \in 1 .. Len(schemas) : after[i] = Turn(factory, after[i - 1], schemas[i])

LEMMA InTurnSteps ==
  ASSUME NEW factory, NEW schemas, NEW at, Len(schemas) \in Nat
  PROVE  \E after : Passes(factory, schemas, at, after)
<1> DEFINE Level(v, i) == CHOOSE next \in {Turn(factory, before, schemas[i]) : before \in {v}} : TRUE
           first == Got(<<>>, at)
           last  == Len(schemas)
           after == CHOOSE g : g = [i \in 0 .. last |-> IF i = 0 THEN first ELSE Level(g[i - 1], i)]
<1>1. InTurn(factory, schemas, at) = after[last]
  BY DEF InTurn, Fold
<1>2. FiniteNatInductiveDefHypothesis(after, first, Level, 0, last)
  BY DEF FiniteNatInductiveDefHypothesis
<1> HIDE DEF after, first, last, Level
<1>3. FiniteNatInductiveDefConclusion(after, first, Level, 0, last)
  BY <1>2, FiniteNatInductiveDef DEF last
<1>4. \A i \in 0 .. last : after[i] = IF i = 0 THEN first ELSE Level(after[i - 1], i)
  BY <1>3 DEF FiniteNatInductiveDefConclusion
<1>5. \A v, i : Level(v, i) = Turn(factory, v, schemas[i])
  BY DEF Level
<1>6. after[0] = first /\ \A i \in 1 .. last : after[i] = Turn(factory, after[i - 1], schemas[i])
  BY <1>4, <1>5 DEF last
<1>7. Passes(factory, schemas, at, after)
  BY <1>1, <1>6 DEF first, last, Passes
<1> QED BY <1>7

\* If each factory gives the value back whose pieces it finds, then all of them in turn
\* give back the values whose pieces lie one behind the other.
EachBack(schemas, values, L, factory, bytes) ==
  \A i \in 1 .. Len(L) : \A p : Holds(bytes, p, L[i])
    => factory[schemas[i]][p] = Got(values[i], p + Len(L[i]))

LEMMA AllBack ==
  ASSUME NEW P, NEW bytes \in Seq(P), NEW L \in Seq(Seq(P)), NEW T, NEW values \in Seq(T),
         NEW factory, NEW schemas, NEW at,
         Len(values) = Len(L), Len(schemas) = Len(L), Holds(bytes, at, FlattenSeq(L)),
         EachBack(schemas, values, L, factory, bytes)
  PROVE  InTurn(factory, schemas, at) = Got(values, at + Len(FlattenSeq(L)))
<1> DEFINE n == Len(L)
<1>0. n \in Nat /\ Len(values) = n /\ Len(schemas) = n /\ at \in Nat \ {0}
  BY DEF Holds
<1>1. PICK to \in [0 .. n -> Seq(P)] :
        to[0] = <<>> /\ to[n] = FlattenSeq(L) /\ \A i \in 1 .. n : to[i] = to[i - 1] \o L[i]
  BY FlattenSteps
<1>2. PICK after :
        /\ after[0] = Got(<<>>, at)
        /\ after[n] = InTurn(factory, schemas, at)
        /\ \A i \in 1 .. n : after[i] = Turn(factory, after[i - 1], schemas[i])
  <2>1. PICK after : Passes(factory, schemas, at, after)
    BY <1>0, InTurnSteps
  <2> QED BY <1>0, <2>1 DEF Passes
<1>3. \A i \in 1 .. n : L[i] \in Seq(P)
  BY <1>0
<1>4. \A i \in 1 .. n : \A p : Holds(bytes, p, L[i])
            => factory[schemas[i]][p] = Got(values[i], p + Len(L[i]))
  BY DEF EachBack
<1> HIDE DEF n
<1> DEFINE Good == {k \in Nat : k <= n => Holds(bytes, at, to[n - k])}
<1>5. \A k \in Nat : k \in Good
  <2>1. 0 \in Good
    BY <1>0, <1>1
  <2>2. ASSUME NEW k \in Nat, k \in Good
        PROVE  k + 1 \in Good
    <3>1. SUFFICES ASSUME k + 1 <= n PROVE Holds(bytes, at, to[n - (k + 1)])
      OBVIOUS
    <3>2. n - k \in 1 .. n /\ (n - k) - 1 = n - (k + 1) /\ n - (k + 1) \in 0 .. n /\ k <= n
      BY <1>0, <3>1
    <3>3. to[n - k] = to[n - (k + 1)] \o L[n - k]
      BY <1>1, <3>2
    <3>4. Holds(bytes, at, to[n - (k + 1)] \o L[n - k])
      BY <2>2, <3>2, <3>3
    <3>5. to[n - (k + 1)] \in Seq(P) /\ L[n - k] \in Seq(P)
      BY <1>1, <1>3, <3>2
    <3> QED BY <3>4, <3>5, HoldsBoth
  <2> HIDE DEF Good
  <2> QED BY <2>1, <2>2, Induction
<1>6. ASSUME NEW i \in 1 .. n
      PROVE  /\ Holds(bytes, at + Len(to[i - 1]), L[i])
             /\ at + Len(to[i - 1]) + Len(L[i]) = at + Len(to[i])
  <2>1. n - i \in Nat /\ n - i <= n /\ n - (n - i) = i /\ i - 1 \in 0 .. n
    BY <1>0
  <2>2. Holds(bytes, at, to[i])
    BY <1>5, <2>1
  <2>3. to[i] = to[i - 1] \o L[i] /\ to[i - 1] \in Seq(P) /\ L[i] \in Seq(P)
    BY <1>1, <1>3, <2>1
  <2>4. Holds(bytes, at + Len(to[i - 1]), L[i])
    BY <2>2, <2>3, HoldsBoth
  <2>5. Len(to[i]) = Len(to[i - 1]) + Len(L[i]) /\ Len(to[i - 1]) \in Nat /\ Len(L[i]) \in Nat
    BY <2>3, ConcatProperties
  <2>6. \A a \in Nat, b \in Nat : at + a + b = at + (a + b)
    BY <1>0
  <2>7. at + Len(to[i - 1]) + Len(L[i]) = at + (Len(to[i - 1]) + Len(L[i]))
    BY <2>5, <2>6
  <2> QED BY <2>4, <2>5, <2>7
<1> DEFINE Fine == {i \in Nat : i <= n => after[i] = Got(SubSeq(values, 1, i), at + Len(to[i]))}
<1>7. \A i \in Nat : i \in Fine
  <2>1. 0 \in Fine
    <3>1. SubSeq(values, 1, 0) = <<>>
      BY SubSeqEmpty
    <3>2. at + Len(to[0]) = at
      BY <1>0, <1>1
    <3>3. after[0] = Got(SubSeq(values, 1, 0), at + Len(to[0]))
      BY <1>2, <3>1, <3>2
    <3> QED BY <3>3
  <2>2. ASSUME NEW i \in Nat, i \in Fine
        PROVE  i + 1 \in Fine
    <3>1. SUFFICES ASSUME i + 1 <= n
                   PROVE  after[i + 1] = Got(SubSeq(values, 1, i + 1), at + Len(to[i + 1]))
      OBVIOUS
    <3>2. i + 1 \in 1 .. n /\ (i + 1) - 1 = i /\ i <= n
      BY <1>0, <3>1
    <3>3. after[i + 1] = Turn(factory, after[i], schemas[i + 1])
      BY <1>2, <3>2
    <3>4. after[i] = Got(SubSeq(values, 1, i), at + Len(to[i]))
      BY <2>2, <3>2
    <3>5. factory[schemas[i + 1]][at + Len(to[i])] = Got(values[i + 1], at + Len(to[i + 1]))
      BY <1>4, <1>6, <3>2
    <3>6. after[i + 1] = Got(Append(SubSeq(values, 1, i), values[i + 1]), at + Len(to[i + 1]))
      <4> DEFINE before == after[i]
                 r == factory[schemas[i + 1]][before.at]
      <4>1. /\ before.ok /\ before.out = SubSeq(values, 1, i)
            /\ before.at = at + Len(to[i])
        BY <3>4 DEF Got
      <4>2. r = Got(values[i + 1], at + Len(to[i + 1]))
        BY <3>5, <4>1
      <4>3. r.out = values[i + 1] /\ r.at = at + Len(to[i + 1]) /\ r.ok = TRUE
        BY <4>2 DEF Got
      <4>4. Turn(factory, before, schemas[i + 1])
              = [out |-> Append(before.out, r.out), at |-> r.at, ok |-> r.ok]
        BY <4>1 DEF Turn
      <4> HIDE DEF before, r
      <4>5. Turn(factory, before, schemas[i + 1])
              = Got(Append(SubSeq(values, 1, i), values[i + 1]), at + Len(to[i + 1]))
        BY <4>1, <4>3, <4>4 DEF Got
      <4> QED BY <3>3, <4>5 DEF before
    <3>7. Append(SubSeq(values, 1, i), values[i + 1]) = SubSeq(values, 1, i + 1)
      BY <1>0, <3>2
    <3> QED BY <3>6, <3>7
  <2> HIDE DEF Fine
  <2> QED BY <2>1, <2>2, Induction
<1>8. after[n] = Got(SubSeq(values, 1, n), at + Len(to[n]))
  BY <1>0, <1>7
<1>9. SubSeq(values, 1, n) = values
  BY <1>0, SubSeqFull
<1> QED BY <1>1, <1>2, <1>8, <1>9

(***************************************************************************)
(* One level of the schemas: if the factories within make of what the      *)
(* format lays out what is to be seen, so does the factory of a schema     *)
(* over them.                                                              *)
(***************************************************************************)
Fits(within, values, layout, seen, factory, bytes) ==
  \A schema \in within : \A d \in values[schema] :
    /\ layout[schema][d] \in Seq(Pieces)
    /\ \A at : Holds(bytes, at, layout[schema][d])
         => factory[schema][at] = Got(seen[schema][d], at + Len(layout[schema][d]))

\* What Fits is for one schema and one value, d of which is to be seen.
Back(schema, d, pieces, factory, bytes) ==
  /\ pieces \in Seq(Pieces)
  /\ \A at : Holds(bytes, at, pieces)
       => FactoryOf(schema, factory, bytes, at) = Got(d, at + Len(pieces))

LEMMA SchemaCases ==
  ASSUME NEW within, NEW schema \in SchemasOver(within)
  PROVE  \/ schema.s \in PrimitiveSchemas \ {"SchemaString"}
         \/ schema.s = "SchemaString"
         \/ schema.s = "SchemaPointer" /\ schema.of \in within
         \/ schema.s = "SchemaSequence" /\ schema.of \in within
         \/ schema.s = "SchemaClass" /\ schema.fields \in Seq([name : STRING, schema : within])
BY DEF SchemasOver

\* The walkers and the primitive schemas are in correspondence.
LEMMA WalkerOfNumber ==
  ASSUME NEW instruction \in PrimitiveSchemas \ {"SchemaString"}
  PROVE  WalkerOf(instruction) \in Numbers /\ WalkerOf(instruction).schema = instruction
<1>1. \E w \in Numbers : w.schema = instruction
  <2> USE DEF PrimitiveWalker, Numbers
  <2>1. CASE instruction \in {"SchemaBool", "SchemaChar", "SchemaUChar", "SchemaShort"}
    BY <2>1 DEF BoolWalker, CharWalker, UCharWalker, ShortWalker
  <2>2. CASE instruction \in {"SchemaUShort", "SchemaInt", "SchemaUInt", "SchemaLong"}
    BY <2>2 DEF UShortWalker, IntWalker, UIntWalker, LongWalker
  <2>3. CASE instruction \in {"SchemaULong", "SchemaFloat", "SchemaDouble"}
    BY <2>3 DEF ULongWalker, FloatWalker, DoubleWalker
  <2> QED BY <2>1, <2>2, <2>3 DEF PrimitiveSchemas
<1> QED BY <1>1 DEF WalkerOf

LEMMA NumberIsPiece ==
  ASSUME NEW b \in Sizes, NEW n \in Nat, n < All(b)
  PROVE  Number(b, n) \in Pieces
<1>1. Stored(b, n) \in Nat /\ b \in Nat
  BY DEF Stored, Sizes
<1> QED BY <1>1 DEF Number, Pieces

LEMMA GotExcept ==
  ASSUME NEW x, NEW y, NEW at
  PROVE  [Got(x, at) EXCEPT !.out = y] = Got(y, at) /\ Got(x, at).out = x
<1>1. \A ok : [[out |-> x, at |-> at, ok |-> ok] EXCEPT !.out = y] = [out |-> y, at |-> at, ok |-> ok]
  OBVIOUS
<1>2. [Got(x, at) EXCEPT !.out = y] = Got(y, at)
  BY <1>1, Zenon DEF Got
<1> QED BY <1>2 DEF Got

\* A number at its place is recognised, and rest is behind it.
Starts(bytes, at, b, n, rest) ==
  /\ at \in Nat \ {0} /\ at + 1 \in Nat \ {0} /\ at \in DOMAIN bytes
  /\ bytes[at] = Number(b, n)
  /\ IsNumber(bytes, at, b) /\ bytes[at].bits = Stored(b, n)
  /\ Holds(bytes, at + 1, rest)
  /\ Len(<<Number(b, n)>> \o rest) = 1 + Len(rest)

LEMMA NumberRead ==
  ASSUME NEW bytes \in Seq(Pieces), NEW at, NEW b, NEW n, NEW rest \in Seq(Pieces),
         Number(b, n) \in Pieces, Holds(bytes, at, <<Number(b, n)>> \o rest)
  PROVE  Starts(bytes, at, b, n, rest)
<1> DEFINE one == <<Number(b, n)>>
<1>1. one \in Seq(Pieces) /\ Len(one) = 1 /\ one[1] = Number(b, n)
  OBVIOUS
<1> HIDE DEF one
<1>2. Holds(bytes, at, one \o rest)
  BY DEF one
<1>3. Holds(bytes, at, one) /\ Holds(bytes, at + 1, rest)
  BY <1>1, <1>2, HoldsBoth
<1>4. at \in Nat \ {0} /\ at - 1 + 1 <= Len(bytes) /\ bytes[at - 1 + 1] = Number(b, n)
  BY <1>1, <1>3 DEF Holds
<1>5. Len(bytes) \in Nat /\ DOMAIN bytes = 1 .. Len(bytes) /\ at - 1 + 1 = at /\ at + 1 \in Nat \ {0}
  BY <1>4
<1>6. at \in DOMAIN bytes /\ bytes[at] = Number(b, n)
  BY <1>4, <1>5
<1>7. Number(b, n).n = b /\ Number(b, n).bits = Stored(b, n) /\ "bits" \in DOMAIN Number(b, n)
  BY DEF Number
<1>8. IsNumber(bytes, at, b) /\ bytes[at].bits = Stored(b, n)
  BY <1>6, <1>7 DEF IsNumber
<1>9. Len(one \o rest) = 1 + Len(rest)
  <2>1. Len(one \o rest) = Len(one) + Len(rest)
    BY <1>1, ConcatProperties
  <2> QED BY <1>1, <2>1
<1> QED BY <1>3, <1>4, <1>5, <1>6, <1>8, <1>9 DEF one, Starts

\* Every walker copies an element, into as many bytes as the model has widths for.
LEMMA WalkersCopy ==
  ASSUME NEW w \in Numbers
  PROVE  "element" \in w.copies /\ w.size \in Sizes
<1>1. w.size \in Sizes
  BY WidthsAgree DEF Taken, Sizes
<1>2. \A type, size, reading, schema, avro :
        "element" \in PrimitiveWalker(type, size, reading, schema, avro).copies
  BY DEF PrimitiveWalker
<1>3. "element" \in UIntWalker.copies
  BY DEF UIntWalker
<1>4. "element" \in w.copies
  BY <1>2, <1>3 DEF Numbers, BoolWalker, CharWalker, UCharWalker, ShortWalker, UShortWalker,
       IntWalker, LongWalker, ULongWalker, FloatWalker, DoubleWalker
<1> QED BY <1>1, <1>4

LEMMA NumberBack ==
  ASSUME NEW values, NEW layout, NEW seen, NEW factory, NEW bytes \in Seq(Pieces), NEW schema,
         schema.s \in PrimitiveSchemas \ {"SchemaString"}, NEW d \in ValuesOf(schema, values)
  PROVE  Back(schema, SeenOver(schema, d, seen), PiecesOf(schema, d, layout), factory, bytes)
<1> DEFINE w == WalkerOf(schema.s)
           n == d.num
<1>1. w \in Numbers /\ w.schema = schema.s
  BY WalkerOfNumber
<1>2. schema.s \notin {"SchemaString", "SchemaPointer", "SchemaSequence", "SchemaClass"}
  BY DEF PrimitiveSchemas
<1>3. d \in [num : Exact(schema.s)]
  BY <1>2, Zenon DEF ValuesOf
<1>4. d = [num |-> n] /\ n \in Exact(schema.s)
  BY <1>3
<1>5. n \in Values(w) /\ (schema.s = "SchemaULong" => Rounded(n, Mantissa) = n)
  BY <1>4 DEF Exact
<1>6. w = ULongWalker => w.schema = "SchemaULong"
  BY DEF ULongWalker, PrimitiveWalker
<1>7. "element" \in w.copies /\ w.size \in Sizes
  BY <1>1, WalkersCopy
<1>8. Taken(schema.s) = w.size
  BY <1>1, WidthsAgree
<1> HIDE DEF w, n
<1>9. Made(Stored(w.size, n))[schema.s] = n
  <2>1. Copied(w, "element", n, 0) = Stored(w.size, n)
    BY <1>7 DEF Copied
  <2>2. w = ULongWalker => Rounded(n, Mantissa) = n
    BY <1>1, <1>5, <1>6
  <2>3. Made(Copied(w, "element", n, 0))[w.schema] = n
    BY <1>1, <1>5, <1>7, <2>2, NumbersArrive
  <2> QED BY <1>1, <2>1, <2>3
<1>10. Stored(w.size, n) \in Nat
  <2>1. Half[w.size] \in Nat \ {0}
    BY <1>7, WidthsAssumption
  <2> QED BY <1>5, <1>7, <2>1 DEF Values, Stored, All
<1>11. Number(w.size, n) \in Pieces
  <2>1. w.size \in Nat
    BY <1>7 DEF Sizes
  <2> QED BY <1>10, <2>1 DEF Number, Pieces
<1>12. PiecesOf(schema, d, layout) = <<Number(w.size, n)>>
  BY <1>2, <1>8, Zenon DEF PiecesOf, n
<1>13. PiecesOf(schema, d, layout) \in Seq(Pieces) /\ Len(PiecesOf(schema, d, layout)) = 1
  BY <1>11, <1>12
<1>14. ASSUME NEW at, Holds(bytes, at, <<Number(w.size, n)>>)
       PROVE  FactoryOf(schema, factory, bytes, at) = Got(d, at + 1)
  <2> DEFINE nothing == <<>>
  <2>1. <<Number(w.size, n)>> = <<Number(w.size, n)>> \o nothing /\ nothing \in Seq(Pieces)
    BY <1>11
  <2> HIDE DEF nothing
  <2>2. Holds(bytes, at, <<Number(w.size, n)>> \o nothing)
    BY <1>14, <2>1
  <2>3. IsNumber(bytes, at, w.size) /\ bytes[at].bits = Stored(w.size, n)
    BY <1>11, <2>1, <2>2, NumberRead DEF Starts
  <2>4. FactoryNumber(schema, bytes, at) = Got([num |-> n], at + 1)
    BY <1>8, <1>9, <2>3 DEF FactoryNumber
  <2>5. FactoryOf(schema, factory, bytes, at) = FactoryNumber(schema, bytes, at)
    BY <1>2, Zenon DEF FactoryOf
  <2> QED BY <1>4, <2>4, <2>5 DEF n
<1>15. SeenOver(schema, d, seen) = d
  BY <1>2, Zenon DEF SeenOver
<1> QED BY <1>12, <1>13, <1>14, <1>15 DEF Back

\* What a length is read as.
LEMMA LengthBack ==
  ASSUME NEW n \in Nat, n < Half[4]
  PROVE  Get(4, Stored(4, n)) = n /\ Number(4, n) \in Pieces
<1>1. 4 \in Sizes /\ Half[4] \in Nat \ {0}
  BY WidthsAssumption DEF Sizes
<1>2. n \in -Half[4] .. Half[4] - 1 /\ n < All(4)
  BY <1>1 DEF All
<1> QED BY <1>1, <1>2, SignedBack, NumberIsPiece

LEMMA StringBack ==
  ASSUME NEW values, NEW layout, NEW seen, NEW factory, NEW bytes \in Seq(Pieces), NEW schema,
         schema.s = "SchemaString", NEW d \in ValuesOf(schema, values)
  PROVE  Back(schema, SeenOver(schema, d, seen), PiecesOf(schema, d, layout), factory, bytes)
<1> DEFINE chars == d.str
           len   == Len(chars)
           read  == [str |-> AsciiDecoded(chars)]
           whole == PiecesOf(schema, d, layout)
<1>1. d \in [str : Counted(Chars)]
  BY Zenon DEF ValuesOf
<1>2. d = [str |-> chars] /\ chars \in Seq(Nat) /\ len \in Nat /\ len < Half[4]
  <2>1. d = [str |-> chars] /\ chars \in Seq(Chars) /\ len < Half[4]
    BY <1>1 DEF Counted
  <2>2. Chars \subseteq Nat
    BY CharsAssumption
  <2> HIDE DEF chars
  <2>3. chars \in Seq(Nat) /\ len \in Nat
    BY <2>1, <2>2, WiderSequence
  <2> QED BY <2>1, <2>3
<1>a. SeenOver(schema, d, seen) = read
  BY Zenon DEF SeenOver
<1>3. whole = IF chars = <<>> THEN <<Number(4, 0)>> ELSE <<Number(4, len), Text(chars)>>
  BY Zenon DEF PiecesOf
<1>4. FactoryOf(schema, factory, bytes, 1) = FactoryString(bytes, 1)
      /\ \A at : FactoryOf(schema, factory, bytes, at) = FactoryString(bytes, at)
  BY Zenon DEF FactoryOf
<1> HIDE DEF chars, len, whole, read
<1>5. Get(4, Stored(4, len)) = len /\ Number(4, len) \in Pieces
  BY <1>2, LengthBack
<1>6. CASE chars = <<>>
  <2> DEFINE nothing == <<>>
  <2>1. len = 0
    BY <1>6 DEF len
  <2>2. whole = <<Number(4, len)>> \o nothing /\ nothing \in Seq(Pieces) /\ whole \in Seq(Pieces)
    BY <1>3, <1>5, <1>6, <2>1
  <2>a. Len(nothing) = 0
    OBVIOUS
  <2> HIDE DEF nothing
  <2>3. ASSUME NEW at, Holds(bytes, at, whole)
        PROVE  FactoryString(bytes, at) = Got(read, at + Len(whole))
    <3>1. IsNumber(bytes, at, 4) /\ bytes[at].bits = Stored(4, len) /\ Len(whole) = 1 + Len(nothing)
      BY <1>5, <2>2, <2>3, NumberRead DEF Starts
    <3>2. Get(4, bytes[at].bits) = 0 /\ Len(whole) = 1
      BY <1>5, <2>1, <2>a, <3>1
    <3>3. FactoryString(bytes, at) = Got([str |-> <<>>], at + 1)
      BY <3>1, <3>2 DEF FactoryString
    <3>4. read = [str |-> <<>>]
      BY <1>6 DEF read, AsciiDecoded
    <3> QED BY <3>2, <3>3, <3>4
  <2> QED BY <1>4, <1>a, <2>2, <2>3 DEF Back, whole
<1>7. CASE chars # <<>>
  <2> DEFINE text == <<Text(chars)>>
  <2>1. len > 0
    BY <1>2, <1>7 DEF len
  <2>2. Text(chars) \in [n : Nat, text : Seq(Nat)]
    BY <1>2 DEF Text, len
  <2>3. Text(chars) \in Pieces
    BY <2>2 DEF Pieces
  <2>4. whole = <<Number(4, len)>> \o text /\ text \in Seq(Pieces) /\ whole \in Seq(Pieces)
    BY <1>3, <1>5, <1>7, <2>3
  <2>5. Len(text) = 1 /\ text[1] = Text(chars)
    OBVIOUS
  <2> HIDE DEF text
  <2>6. ASSUME NEW at, Holds(bytes, at, whole)
        PROVE  FactoryString(bytes, at) = Got(read, at + Len(whole))
    <3>1. /\ at + 1 \in Nat \ {0} /\ at \in Nat
          /\ IsNumber(bytes, at, 4) /\ bytes[at].bits = Stored(4, len)
          /\ Holds(bytes, at + 1, text) /\ Len(whole) = 1 + Len(text)
      BY <1>5, <2>4, <2>6, NumberRead DEF Starts
    <3>2. Get(4, bytes[at].bits) = len /\ Len(whole) = 2
      BY <1>5, <2>5, <3>1
    <3>3. at + 1 - 1 + 1 <= Len(bytes) /\ bytes[at + 1 - 1 + 1] = Text(chars)
      BY <2>5, <3>1 DEF Holds
    <3>4. at + 1 \in DOMAIN bytes /\ bytes[at + 1] = Text(chars)
      BY <3>1, <3>3
    <3>5. Text(chars).n = len /\ Text(chars).text = chars /\ "text" \in DOMAIN Text(chars)
      BY DEF Text, len
    <3>6. FactoryString(bytes, at) = Got([str |-> AsciiDecoded(chars)], at + 2)
      BY <1>2, <2>1, <3>1, <3>2, <3>4, <3>5 DEF FactoryString
    <3> QED BY <3>2, <3>6 DEF read
  <2> QED BY <1>4, <1>a, <2>4, <2>6 DEF Back, whole
<1> QED BY <1>6, <1>7

\* One sequence in a sequence is all there is.
LEMMA FlattenOne ==
  ASSUME NEW P, NEW L \in Seq(Seq(P)), Len(L) = 1
  PROVE  FlattenSeq(L) = L[1]
<1>1. PICK to \in [0 .. Len(L) -> Seq(P)] :
        /\ to[0] = <<>>
        /\ to[Len(L)] = FlattenSeq(L)
        /\ \A i \in 1 .. Len(L) : to[i] = to[i - 1] \o L[i]
  BY FlattenSteps
<1>2. 1 \in 1 .. Len(L) /\ 1 - 1 = 0
  OBVIOUS
<1>3. \A i \in 1 .. Len(L) : i - 1 = 0 => to[i] = to[0] \o L[i]
  BY <1>1
<1>4. to[1] = to[0] \o L[1]
  BY <1>2, <1>3, Zenon
<1>5. L[1] \in Seq(P)
  BY <1>2, ElementOfSeq
<1>6. <<>> \o L[1] = L[1]
  BY <1>5, ConcatEmptySeq
<1> QED BY <1>1, <1>4, <1>6

LEMMA FlattenIn ==
  ASSUME NEW P, NEW L \in Seq(Seq(P))
  PROVE  FlattenSeq(L) \in Seq(P)
<1>1. PICK to \in [0 .. Len(L) -> Seq(P)] : to[Len(L)] = FlattenSeq(L)
  BY FlattenSteps
<1>2. Len(L) \in 0 .. Len(L)
  OBVIOUS
<1> QED BY <1>1, <1>2, Zenon

\* What is laid out for the items of a sequence, or seen of them.
Rows(layout, of, items) == [i \in DOMAIN items |-> layout[of][items[i]]]

ItemsBack(of, items, L, factory, bytes) ==
  /\ L \in Seq(Seq(Pieces)) /\ Len(L) = Len(items)
  /\ \A i \in 1 .. Len(L) : \A p : Holds(bytes, p, L[i])
       => factory[of][p] = Got(items[i], p + Len(L[i]))

LEMMA ItemsLaid ==
  ASSUME NEW within, NEW values, NEW layout, NEW seen, NEW factory, NEW bytes,
         Fits(within, values, layout, seen, factory, bytes),
         NEW of \in within, NEW items \in Seq(values[of])
  PROVE  ItemsBack(of, Rows(seen, of, items), Rows(layout, of, items), factory, bytes)
<1> DEFINE L == Rows(layout, of, items)
           viewed == Rows(seen, of, items)
<1>1. Len(items) \in Nat /\ DOMAIN items = 1 .. Len(items)
  OBVIOUS
<1>2. L = [i \in 1 .. Len(items) |-> layout[of][items[i]]]
  BY <1>1 DEF Rows
<1>a. viewed = [i \in 1 .. Len(items) |-> seen[of][items[i]]] /\ Len(viewed) = Len(items)
  BY <1>1 DEF Rows
<1> HIDE DEF L, viewed
<1>3. \A i \in 1 .. Len(items) : /\ items[i] \in values[of] /\ L[i] = layout[of][items[i]]
                                 /\ viewed[i] = seen[of][items[i]]
  BY <1>1, <1>2, <1>a
<1>4. \A i \in 1 .. Len(items) :
        /\ L[i] \in Seq(Pieces)
        /\ \A p : Holds(bytes, p, L[i]) => factory[of][p] = Got(viewed[i], p + Len(L[i]))
  BY <1>3 DEF Fits
<1>5. L \in [1 .. Len(items) -> Seq(Pieces)]
  BY <1>2, <1>4
<1>6. L \in Seq(Seq(Pieces)) /\ Len(L) = Len(items)
  BY <1>1, <1>5
<1>7. ItemsBack(of, viewed, L, factory, bytes)
  BY <1>4, <1>6, <1>a DEF ItemsBack
<1> QED BY <1>7 DEF L, viewed

LEMMA OptionBack ==
  ASSUME NEW within, NEW values, NEW layout, NEW seen, NEW factory, NEW bytes \in Seq(Pieces),
         Fits(within, values, layout, seen, factory, bytes), NEW schema,
         schema.s = "SchemaPointer", schema.of \in within, NEW d \in ValuesOf(schema, values)
  PROVE  Back(schema, SeenOver(schema, d, seen), PiecesOf(schema, d, layout), factory, bytes)
<1> DEFINE of    == schema.of
           items == d.opt
           len   == Len(items)
           viewed == Rows(seen, of, items)
           read  == SeenOver(schema, d, seen)
           L     == Rows(layout, of, items)
           rest  == FlattenSeq(L)
           whole == PiecesOf(schema, d, layout)
<1>1. d \in [opt : {o \in Seq(values[of]) : Len(o) <= 1}]
  BY Zenon DEF ValuesOf
<1>2. d = [opt |-> items] /\ items \in Seq(values[of]) /\ len \in {0, 1}
  <2>1. d = [opt |-> items] /\ items \in {o \in Seq(values[of]) : Len(o) <= 1}
    BY <1>1
  <2> HIDE DEF items, of
  <2>2. len \in Nat /\ len <= 1 /\ items \in Seq(values[of])
    BY <2>1
  <2> HIDE DEF len
  <2>3. len \in {0, 1}
    BY <2>2
  <2> QED BY <2>1, <2>2, <2>3, Zenon
<1>3. whole = <<Number(1, len)>> \o rest
  BY Zenon DEF PiecesOf, Rows
<1>4. \A at : FactoryOf(schema, factory, bytes, at) = FactoryOption(factory, schema, bytes, at)
  BY Zenon DEF FactoryOf
<1>a. read = [opt |-> viewed]
  BY Zenon DEF SeenOver, Rows
<1>b. Len(viewed) = len /\ DOMAIN viewed = 1 .. len
  <2>1. DOMAIN items = 1 .. len /\ len \in Nat
    BY <1>2
  <2> HIDE DEF items, len
  <2> QED BY <2>1 DEF Rows
<1>5. ItemsBack(of, viewed, L, factory, bytes)
  <2> HIDE DEF items
  <2> QED BY <1>2, ItemsLaid
<1>6. L \in Seq(Seq(Pieces)) /\ Len(L) = len /\ rest \in Seq(Pieces)
  <2>1. L \in Seq(Seq(Pieces)) /\ Len(L) = len
    BY <1>5, <1>b DEF ItemsBack
  <2> HIDE DEF L
  <2> QED BY <2>1, FlattenIn
<1>7. Stored(1, len) = len /\ Number(1, len) \in Pieces
  BY <1>2 DEF Stored, Number, Pieces
<1> HIDE DEF rest, whole, L, items, len, of, viewed, read
<1>8. whole \in Seq(Pieces)
  BY <1>3, <1>6, <1>7
<1>9. ASSUME NEW at, Holds(bytes, at, whole)
      PROVE  FactoryOption(factory, schema, bytes, at) = Got(read, at + Len(whole))
  <2>1. /\ at + 1 \in Nat \ {0} /\ at \in Nat
        /\ IsNumber(bytes, at, 1) /\ bytes[at].bits = len
        /\ Holds(bytes, at + 1, rest) /\ Len(whole) = 1 + Len(rest)
    <3>1. Holds(bytes, at, <<Number(1, len)>> \o rest)
      BY <1>3, <1>9
    <3>2. Starts(bytes, at, 1, len, rest)
      BY <1>6, <1>7, <3>1, NumberRead
    <3> QED BY <1>3, <1>7, <3>2 DEF Starts
  <2>2. CASE len = 0
    <3>1. viewed = <<>> /\ L = <<>>
      <4>1. L = <<>>
        BY <1>6, <2>2, EmptySeq
      <4>2. items = <<>>
        BY <1>2, <2>2, EmptySeq DEF len
      <4>3. viewed = <<>>
        BY <4>2 DEF viewed, Rows
      <4> QED BY <4>1, <4>3
    <3>2. rest = <<>> /\ Len(rest) = 0
      BY <3>1 DEF rest, FlattenSeq
    <3>3. FactoryOption(factory, schema, bytes, at) = Got([opt |-> <<>>], at + 1)
      BY <2>1, <2>2 DEF FactoryOption
    <3> QED BY <1>a, <2>1, <3>1, <3>2, <3>3
  <2>3. CASE len = 1
    <3>1. rest = L[1]
      BY <1>6, <2>3, FlattenOne DEF rest
    <3>2. 1 \in 1 .. Len(L)
      BY <1>6, <2>3
    <3>3. factory[of][at + 1] = Got(viewed[1], at + 1 + Len(rest))
      BY <1>5, <2>1, <3>1, <3>2 DEF ItemsBack
    <3>4. viewed = <<viewed[1]>>
      <4>1. viewed = [i \in DOMAIN items |-> seen[of][items[i]]] /\ DOMAIN viewed = 1 .. 1
        BY <1>b, <2>3 DEF viewed, Rows
      <4> QED BY <4>1
    <3>5. FactoryOption(factory, schema, bytes, at)
            = [factory[of][at + 1] EXCEPT !.out = [opt |-> <<@>>]]
      BY <2>1, <2>3 DEF FactoryOption, of
    <3>6. FactoryOption(factory, schema, bytes, at) = Got([opt |-> <<viewed[1]>>], at + 1 + Len(rest))
      BY <3>3, <3>5, GotExcept
    <3>7. Len(rest) \in Nat
      BY <1>6
    <3>8. at + 1 + Len(rest) = at + Len(whole)
      BY <2>1, <3>7
    <3> QED BY <1>a, <3>4, <3>6, <3>8
  <2> QED BY <1>2, <2>2, <2>3
<1> QED BY <1>4, <1>8, <1>9 DEF Back, whole, read

LEMMA ArrayBack ==
  ASSUME NEW within, NEW values, NEW layout, NEW seen, NEW factory, NEW bytes \in Seq(Pieces),
         Fits(within, values, layout, seen, factory, bytes), NEW schema,
         schema.s = "SchemaSequence", schema.of \in within, NEW d \in ValuesOf(schema, values)
  PROVE  Back(schema, SeenOver(schema, d, seen), PiecesOf(schema, d, layout), factory, bytes)
<1> DEFINE of    == schema.of
           items == d.seq
           len   == Len(items)
           viewed == Rows(seen, of, items)
           read  == SeenOver(schema, d, seen)
           L     == Rows(layout, of, items)
           rest  == FlattenSeq(L)
           whole == PiecesOf(schema, d, layout)
<1>1. d \in [seq : Counted(values[of])]
  BY Zenon DEF ValuesOf
<1>2. d = [seq |-> items] /\ items \in Seq(values[of]) /\ len \in Nat /\ len < Half[4]
  <2>1. d = [seq |-> items] /\ items \in Counted(values[of])
    BY <1>1
  <2> HIDE DEF items, of
  <2> QED BY <2>1 DEF Counted
<1>3. whole = <<Number(4, len)>> \o rest
  BY Zenon DEF PiecesOf, Rows
<1>4. \A at : FactoryOf(schema, factory, bytes, at) = FactoryWrappedArray(factory, schema, bytes, at)
  BY Zenon DEF FactoryOf
<1>a. read = [seq |-> viewed]
  BY Zenon DEF SeenOver, Rows
<1>b. Len(viewed) = len /\ DOMAIN viewed = 1 .. len
  <2>1. DOMAIN items = 1 .. len /\ len \in Nat
    BY <1>2
  <2> HIDE DEF items, len
  <2> QED BY <2>1 DEF Rows
<1>5. ItemsBack(of, viewed, L, factory, bytes)
  <2> HIDE DEF items
  <2> QED BY <1>2, ItemsLaid
<1>6. L \in Seq(Seq(Pieces)) /\ Len(L) = len /\ rest \in Seq(Pieces)
  <2>1. L \in Seq(Seq(Pieces)) /\ Len(L) = len
    BY <1>5, <1>b DEF ItemsBack
  <2> HIDE DEF L
  <2> QED BY <2>1, FlattenIn
<1> HIDE DEF rest, whole, L, items, len, of, viewed, read
<1>7. Get(4, Stored(4, len)) = len /\ Number(4, len) \in Pieces
  BY <1>2, LengthBack
<1>8. whole \in Seq(Pieces)
  BY <1>3, <1>6, <1>7
<1>9. ASSUME NEW at, Holds(bytes, at, whole)
      PROVE  FactoryWrappedArray(factory, schema, bytes, at) = Got(read, at + Len(whole))
  <2>1. Starts(bytes, at, 4, len, rest)
    <3>1. Holds(bytes, at, <<Number(4, len)>> \o rest)
      BY <1>3, <1>9
    <3> QED BY <1>6, <1>7, <3>1, NumberRead
  <2> DEFINE schemas == [i \in 1 .. len |-> of]
             turns   == InTurn(factory, schemas, at + 1)
  <2>2. FactoryWrappedArray(factory, schema, bytes, at) = [turns EXCEPT !.out = [seq |-> @]]
    <3>1. IsNumber(bytes, at, 4) /\ Get(4, bytes[at].bits) = len
      BY <1>7, <2>1 DEF Starts
    <3> QED BY <3>1, Zenon DEF FactoryWrappedArray, of
  <2>3. Len(schemas) = Len(L) /\ \A i \in 1 .. Len(L) : schemas[i] = of
    BY <1>2, <1>6
  <2> HIDE DEF schemas
  <2>4. Holds(bytes, at + 1, FlattenSeq(L))
    BY <2>1 DEF Starts, rest
  <2>5. EachBack(schemas, viewed, L, factory, bytes)
    BY <1>5, <2>3 DEF ItemsBack, EachBack
  <2> DEFINE T == {viewed[i] : i \in DOMAIN viewed}
  <2>6. Len(viewed) = Len(L) /\ viewed \in Seq(T)
    <3>1. viewed \in [1 .. len -> T]
      BY <1>b DEF viewed, Rows
    <3> HIDE DEF T
    <3> QED BY <1>2, <1>6, <1>b, <3>1, ListIsSequence
  <2>7. turns = Got(viewed, at + 1 + Len(rest))
    <3> DEFINE start == at + 1
    <3>1. Holds(bytes, start, FlattenSeq(L)) /\ L \in Seq(Seq(Pieces)) /\ Len(schemas) = Len(L)
      BY <1>6, <2>3, <2>4
    <3> HIDE DEF start
    <3>2. InTurn(factory, schemas, start) = Got(viewed, start + Len(FlattenSeq(L)))
      BY <2>5, <2>6, <3>1, AllBack
    <3> QED BY <3>2 DEF start, rest
  <2>8. at + 1 + Len(rest) = at + Len(whole)
    <3>1. Len(whole) = 1 + Len(rest) /\ at \in Nat
      BY <1>3, <2>1 DEF Starts
    <3>2. Len(rest) \in Nat
      BY <1>6
    <3> QED BY <3>1, <3>2
  <2> HIDE DEF turns
  <2> QED BY <1>a, <2>2, <2>7, <2>8, GotExcept
<1> QED BY <1>4, <1>8, <1>9 DEF Back, whole, read

LEMMA ClassBack ==
  ASSUME NEW within, NEW values, NEW layout, NEW seen, NEW factory, NEW bytes \in Seq(Pieces),
         Fits(within, values, layout, seen, factory, bytes), NEW schema,
         schema.s = "SchemaClass", schema.fields \in Seq([name : STRING, schema : within]),
         NEW d \in ValuesOf(schema, values)
  PROVE  Back(schema, SeenOver(schema, d, seen), PiecesOf(schema, d, layout), factory, bytes)
<1> DEFINE fs      == schema.fields
           names   == {fs[i].name : i \in DOMAIN fs}
           members == d.obj
           schemas == [i \in DOMAIN fs |-> fs[i].schema]
           items   == [i \in DOMAIN fs |-> members[fs[i].name]]
           L       == [i \in DOMAIN fs |-> layout[fs[i].schema][members[fs[i].name]]]
           whole   == PiecesOf(schema, d, layout)
           viewed  == [i \in DOMAIN fs |-> seen[fs[i].schema][members[fs[i].name]]]
           place(n) == CHOOSE i \in DOMAIN fs : fs[i].name = n
           object  == [n \in names |-> seen[fs[place(n)].schema][members[n]]]
           read    == SeenOver(schema, d, seen)
<1>1. d \in {x \in [obj : [names -> Data]] :
               \A i \in DOMAIN fs : x.obj[fs[i].name] \in values[fs[i].schema]}
  BY Zenon DEF ValuesOf
<1>2. /\ d = [obj |-> members] /\ members \in [names -> Data]
      /\ \A i \in DOMAIN fs : members[fs[i].name] \in values[fs[i].schema]
  <2> HIDE DEF names, fs
  <2>1. d \in [obj : [names -> Data]]
        /\ \A i \in DOMAIN fs : members[fs[i].name] \in values[fs[i].schema]
    BY <1>1
  <2> QED BY <2>1
<1>3. whole = FlattenSeq(L)
  BY Zenon DEF PiecesOf
<1>a. read = [obj |-> object]
  BY Zenon DEF SeenOver
<1>4. DOMAIN fs = 1 .. Len(fs) /\ Len(fs) \in Nat
      /\ \A i \in 1 .. Len(fs) : fs[i].schema \in within /\ fs[i].name \in names
  <2>1. fs \in Seq([name : STRING, schema : within])
    OBVIOUS
  <2>2. \A i \in DOMAIN fs : fs[i].name \in names
    OBVIOUS
  <2> HIDE DEF fs, names
  <2> DEFINE field == [name : STRING, schema : within]
  <2>3. \A f \in field : f.schema \in within
    OBVIOUS
  <2>4. fs \in Seq(field)
    BY <2>1
  <2> HIDE DEF field
  <2>5. DOMAIN fs = 1 .. Len(fs) /\ Len(fs) \in Nat /\ \A i \in 1 .. Len(fs) : fs[i] \in field
    BY <2>4
  <2> QED BY <2>2, <2>3, <2>5
<1>5. \A at : FactoryOf(schema, factory, bytes, at) = FactoryGeneric(factory, schema, at)
  BY Zenon DEF FactoryOf
<1> HIDE DEF fs, whole, names, members, read
<1>6. \A i \in 1 .. Len(fs) :
        /\ L[i] \in Seq(Pieces)
        /\ \A p : Holds(bytes, p, L[i])
             => factory[schemas[i]][p] = Got(viewed[i], p + Len(L[i]))
  <2>1. \A i \in 1 .. Len(fs) :
          /\ schemas[i] = fs[i].schema /\ items[i] = members[fs[i].name]
          /\ L[i] = layout[schemas[i]][items[i]] /\ viewed[i] = seen[schemas[i]][items[i]]
    BY <1>4
  <2> HIDE DEF schemas, items, L, viewed
  <2>2. \A i \in 1 .. Len(fs) : schemas[i] \in within /\ items[i] \in values[schemas[i]]
    BY <1>2, <1>4, <2>1
  <2>3. ASSUME NEW i \in 1 .. Len(fs)
        PROVE  /\ L[i] \in Seq(Pieces)
               /\ \A p : Holds(bytes, p, L[i])
                    => factory[schemas[i]][p] = Got(viewed[i], p + Len(L[i]))
    <3>1. schemas[i] \in within /\ items[i] \in values[schemas[i]]
      BY <2>2
    <3>2. L[i] = layout[schemas[i]][items[i]] /\ viewed[i] = seen[schemas[i]][items[i]]
      BY <2>1
    <3> QED BY <3>1, <3>2, Zenon DEF Fits
  <2> QED BY <2>3
<1>7. L \in Seq(Seq(Pieces)) /\ Len(L) = Len(fs)
  <2>1. L \in [1 .. Len(fs) -> Seq(Pieces)]
    BY <1>4, <1>6
  <2> QED BY <1>4, <2>1
<1>8. viewed \in Seq({viewed[i] : i \in DOMAIN fs}) /\ Len(viewed) = Len(L) /\ Len(schemas) = Len(L)
  <2> DEFINE T == {viewed[i] : i \in DOMAIN fs}
  <2>1. viewed \in [1 .. Len(fs) -> T]
    BY <1>4
  <2>2. viewed \in Seq(T) /\ Len(viewed) = Len(fs)
    <3> HIDE DEF T, viewed
    <3> QED BY <1>4, <2>1, ListIsSequence
  <2>3. Len(schemas) = Len(fs)
    BY <1>4
  <2> QED BY <1>7, <2>2, <2>3
<1>9. whole \in Seq(Pieces)
  <2> HIDE DEF L
  <2> QED BY <1>3, <1>7, FlattenIn
<1>10. [n \in names |-> viewed[place(n)]] = object
  <2>1. ASSUME NEW n \in names
        PROVE  viewed[place(n)] = seen[fs[place(n)].schema][members[n]]
    <3>1. \E i \in DOMAIN fs : fs[i].name = n
      BY DEF names
    <3> DEFINE j == place(n)
    <3>2. j \in DOMAIN fs /\ fs[j].name = n
      BY <3>1
    <3> HIDE DEF j
    <3>3. viewed[j] = seen[fs[j].schema][members[n]]
      BY <3>2
    <3> QED BY <3>3 DEF j
  <2> HIDE DEF viewed
  <2> QED BY <2>1
<1>11. ASSUME NEW at, Holds(bytes, at, whole)
       PROVE  FactoryGeneric(factory, schema, at) = Got(read, at + Len(whole))
  <2> DEFINE turns == InTurn(factory, schemas, at)
  <2>1. turns = Got(viewed, at + Len(whole))
    <3> HIDE DEF L, viewed, schemas
    <3>1. Holds(bytes, at, FlattenSeq(L))
      BY <1>3, <1>11, Zenon
    <3>2. EachBack(schemas, viewed, L, factory, bytes)
      BY <1>6, <1>7 DEF EachBack
    <3> QED BY <1>3, <1>7, <1>8, <3>1, <3>2, AllBack
  <2>2. turns.ok /\ turns.out = viewed
    BY <2>1 DEF Got
  <2> DEFINE made(v) == [obj |-> [n \in names |-> v[CHOOSE i \in DOMAIN fs : fs[i].name = n]]]
  <2>3. FactoryGeneric(factory, schema, at) = [turns EXCEPT !.out = made(turns.out)]
    BY <2>2, Zenon DEF FactoryGeneric, fs, names
  <2>4. made(viewed) = read
    BY <1>10, <1>a, Zenon
  <2> HIDE DEF turns, made, viewed
  <2>5. FactoryGeneric(factory, schema, at) = [turns EXCEPT !.out = read]
    BY <2>2, <2>3, <2>4
  <2> QED BY <2>1, <2>5, GotExcept
<1> QED BY <1>5, <1>9, <1>11 DEF Back, whole, read

(***************************************************************************)
(* All levels.                                                             *)
(***************************************************************************)
LEMMA OverBack ==
  ASSUME NEW within, NEW values, NEW layout, NEW seen, NEW factory, NEW bytes \in Seq(Pieces),
         Fits(within, values, layout, seen, factory, bytes),
         NEW schema \in SchemasOver(within), NEW d \in ValuesOf(schema, values)
  PROVE  Back(schema, SeenOver(schema, d, seen), PiecesOf(schema, d, layout), factory, bytes)
<1>1. CASE schema.s \in PrimitiveSchemas \ {"SchemaString"}
  BY <1>1, NumberBack
<1>2. CASE schema.s = "SchemaString"
  BY <1>2, StringBack
<1>3. CASE schema.s = "SchemaPointer" /\ schema.of \in within
  BY <1>3, OptionBack
<1>4. CASE schema.s = "SchemaSequence" /\ schema.of \in within
  BY <1>4, ArrayBack
<1>5. CASE schema.s = "SchemaClass" /\ schema.fields \in Seq([name : STRING, schema : within])
  BY <1>5, ClassBack
<1> QED BY <1>1, <1>2, <1>3, <1>4, <1>5, SchemaCases

LEMMA LevelBack ==
  ASSUME NEW bytes \in Seq(Pieces)
  PROVE  \A n \in Nat : Fits(SchemasTo[n], DataOf[n], Layout[n], SeenOf[n], Factories(bytes)[n], bytes)
<1> DEFINE Good == {n \in Nat : Fits(SchemasTo[n], DataOf[n], Layout[n], SeenOf[n], Factories(bytes)[n], bytes)}
<1>1. 0 \in Good
  <2>1. SchemasTo[0] = {}
    BY SchemasLevel
  <2> QED BY <2>1 DEF Fits
<1>2. ASSUME NEW n \in Nat, n \in Good
      PROVE  n + 1 \in Good
  <2> DEFINE m == n + 1
  <2>1. m \in Nat /\ m # 0 /\ m - 1 = n
    OBVIOUS
  <2> HIDE DEF m
  <2>2. SchemasTo[m] = SchemasOver(SchemasTo[n])
    BY <2>1, SchemasLevel
  <2>3. DataOf[m] = [schema \in SchemasTo[m] |-> ValuesOf(schema, DataOf[n])]
    BY <2>1, DataLevel
  <2>4. Layout[m] = [schema \in SchemasTo[m] |->
                       [d \in DataOf[m][schema] |-> PiecesOf(schema, d, Layout[n])]]
    BY <2>1, LayoutLevel
  <2>a. SeenOf[m] = [schema \in SchemasTo[m] |->
                       [d \in DataOf[m][schema] |-> SeenOver(schema, d, SeenOf[n])]]
    BY <2>1, SeenLevel
  <2>5. Factories(bytes)[m] = FactoriesOver(m, Factories(bytes)[n], bytes)
    BY <2>1, FactoriesLevel
  <2>6. Fits(SchemasTo[n], DataOf[n], Layout[n], SeenOf[n], Factories(bytes)[n], bytes)
    BY <1>2
  <2>7. ASSUME NEW schema \in SchemasTo[m], NEW d \in DataOf[m][schema]
        PROVE  /\ Layout[m][schema][d] \in Seq(Pieces)
               /\ \A at : Holds(bytes, at, Layout[m][schema][d])
                    => Factories(bytes)[m][schema][at]
                           = Got(SeenOf[m][schema][d], at + Len(Layout[m][schema][d]))
    <3> DEFINE pieces == PiecesOf(schema, d, Layout[n])
               read   == SeenOver(schema, d, SeenOf[n])
    <3>1. d \in ValuesOf(schema, DataOf[n])
      BY <2>3, <2>7
    <3>2. Layout[m][schema][d] = pieces
      BY <2>4, <2>7
    <3>a. SeenOf[m][schema][d] = read
      BY <2>a, <2>7
    <3>3. Back(schema, read, pieces, Factories(bytes)[n], bytes)
      BY <2>2, <2>6, <3>1, OverBack
    <3> HIDE DEF pieces, read
    <3>4. ASSUME NEW at, Holds(bytes, at, pieces)
          PROVE  Factories(bytes)[m][schema][at] = Got(read, at + Len(pieces))
      <4>1. at \in 1 .. Len(bytes) + 1
        <5>1. Len(pieces) \in Nat /\ Len(bytes) \in Nat
          BY <3>3 DEF Back
        <5> QED BY <3>4, <5>1 DEF Holds
      <4>2. Factories(bytes)[m][schema][at] = FactoryOf(schema, Factories(bytes)[n], bytes, at)
        BY <2>5, <2>7, <4>1 DEF FactoriesOver
      <4> QED BY <3>3, <3>4, <4>2 DEF Back
    <3> QED BY <3>2, <3>a, <3>3, <3>4 DEF Back
  <2>8. Fits(SchemasTo[m], DataOf[m], Layout[m], SeenOf[m], Factories(bytes)[m], bytes)
    BY <2>7 DEF Fits
  <2> QED BY <2>1, <2>8 DEF m
<1> HIDE DEF Good
<1>3. \A n \in Nat : n \in Good
  BY <1>1, <1>2, Induction
<1> QED BY <1>3 DEF Good

\* A record is read from any place of a stream where it lies, whatever is before it
\* and behind it: the factories make of it what is to be seen of its value and leave the
\* stream where the record ends.  This is for every schema of at most Depth levels, for
\* values of every size that can be counted, for integers of every width, for strings of
\* any bytes, and for strings and sequences that are empty and pointers that are null.
THEOREM RecordsReadBack ==
  ASSUME NEW schema \in SchemasTo[Depth], NEW d \in DataOf[Depth][schema],
         NEW bytes \in Seq(Pieces), NEW at, Holds(bytes, at, Laid(schema, d))
  PROVE  Decode(schema, bytes, at) = Got(Seen(schema, d), at + Len(Laid(schema, d)))
<1>1. Fits(SchemasTo[Depth], DataOf[Depth], Layout[Depth], SeenOf[Depth],
           Factories(bytes)[Depth], bytes)
  BY DepthAssumption, LevelBack
<1>2. Factories(bytes)[Depth][schema][at] = Got(Seen(schema, d), at + Len(Laid(schema, d)))
  BY <1>1 DEF Fits, Laid, Seen
<1> QED BY <1>2 DEF Decode

\* The format of a value is a sequence of pieces.
LEMMA LaidInPieces ==
  ASSUME NEW schema \in SchemasTo[Depth], NEW d \in DataOf[Depth][schema]
  PROVE  Laid(schema, d) \in Seq(Pieces)
<1>1. <<>> \in Seq(Pieces)
  OBVIOUS
<1>2. Fits(SchemasTo[Depth], DataOf[Depth], Layout[Depth], SeenOf[Depth],
           Factories(<<>>)[Depth], <<>>)
  BY <1>1, DepthAssumption, LevelBack
<1> QED BY <1>2 DEF Fits, Laid

LEMMA HoldsItself ==
  ASSUME NEW a \in Seq(Pieces), NEW b \in Seq(Pieces)
  PROVE  a \o b \in Seq(Pieces) /\ Holds(a \o b, 1, a)
<1>1. /\ a \o b \in Seq(Pieces) /\ Len(a) \in Nat /\ Len(b) \in Nat
      /\ Len(a \o b) = Len(a) + Len(b)
      /\ \A i \in 1 .. Len(a) + Len(b) : (a \o b)[i] = IF i <= Len(a) THEN a[i] ELSE b[i - Len(a)]
  BY ConcatProperties
<1>2. ASSUME NEW i \in 1 .. Len(a)
      PROVE  (a \o b)[1 - 1 + i] = a[i]
  <2>1. i \in 1 .. Len(a) + Len(b) /\ i <= Len(a) /\ 1 - 1 + i = i
    BY <1>1
  <2> QED BY <1>1, <2>1
<1>3. 1 - 1 + Len(a) <= Len(a \o b)
  BY <1>1
<1> QED BY <1>1, <1>2, <1>3 DEF Holds

\* A buffer with one record in the format of its schema gives a program all that is to
\* be seen of the value the record was made from.
THEOREM RecordArrives ==
  ASSUME NEW schema \in SchemasTo[Depth], NEW d \in DataOf[Depth][schema]
  PROVE  Received(schema, Laid(schema, d)) = Seen(schema, d)
<1> DEFINE a == Laid(schema, d)
           v == Seen(schema, d)
           nothing == <<>>
<1>1. a \in Seq(Pieces) /\ nothing \in Seq(Pieces) /\ a \o nothing = a
  BY LaidInPieces
<1> HIDE DEF nothing
<1>2. Holds(a, 1, a)
  <2> HIDE DEF a
  <2> QED BY <1>1, HoldsItself
<1>3. Decode(schema, a, 1) = Got(v, 1 + Len(a))
  BY <1>1, <1>2, RecordsReadBack
<1> HIDE DEF a, v
<1>4. Len(a) + 1 = 1 + Len(a)
  BY <1>1
<1>5. Received(schema, a) = v
  <2> DEFINE r == Decode(schema, a, 1)
  <2>1. r.ok = TRUE /\ r.at = Len(a) + 1 /\ r.out = v
    BY <1>3, <1>4 DEF Got
  <2>2. Received(schema, a) = IF r.ok /\ r.at = Len(a) + 1 THEN r.out ELSE [bad |-> ""]
    BY Zenon DEF Received
  <2> HIDE DEF r
  <2> QED BY <2>1, <2>2, Zenon
<1> QED BY <1>5 DEF a, v

(***************************************************************************)
(* Strings of ASCII alone: nothing is lost.                                *)
(***************************************************************************)
AsItIs(within, values, seen) == \A schema \in within : \A d \in values[schema] : seen[schema][d] = d

LEMMA ItemsAsTheyAre ==
  ASSUME NEW S, NEW of, NEW seen, \A x \in S : seen[of][x] = x, NEW items \in Seq(S)
  PROVE  [i \in DOMAIN items |-> seen[of][items[i]]] = items
<1>1. \A i \in DOMAIN items : items[i] \in S
  OBVIOUS
<1>2. \A i \in DOMAIN items : seen[of][items[i]] = items[i]
  BY <1>1
<1>3. items = [i \in DOMAIN items |-> items[i]]
  OBVIOUS
<1> QED BY <1>2, <1>3

LEMMA OverAsItIs ==
  ASSUME Chars \subseteq 0 .. Half[1] - 1,
         NEW within, NEW values, NEW seen, AsItIs(within, values, seen),
         NEW schema \in SchemasOver(within), NEW d \in ValuesOf(schema, values)
  PROVE  SeenOver(schema, d, seen) = d
<1>1. CASE schema.s \in PrimitiveSchemas \ {"SchemaString"}
  <2>1. schema.s \notin {"SchemaString", "SchemaPointer", "SchemaSequence", "SchemaClass"}
    BY <1>1 DEF PrimitiveSchemas
  <2> QED BY <2>1, Zenon DEF SeenOver
<1>2. CASE schema.s = "SchemaString"
  <2> DEFINE chars == d.str
  <2>1. d \in [str : Counted(Chars)]
    BY <1>2, Zenon DEF ValuesOf
  <2>2. d = [str |-> chars] /\ chars \in Seq(Chars)
    BY <2>1 DEF Counted
  <2>3. SeenOver(schema, d, seen) = [str |-> AsciiDecoded(chars)]
    BY <1>2, Zenon DEF SeenOver
  <2> HIDE DEF chars
  <2>4. AsciiDecoded(chars) = chars
    <3>1. Half[1] \in Nat
      BY WidthsAssumption DEF Sizes
    <3>2. \A i \in DOMAIN chars : chars[i] \in Chars
      BY <2>2
    <3>3. \A c \in Chars : c < Half[1]
      BY <3>1
    <3>4. chars = [i \in DOMAIN chars |-> chars[i]]
      BY <2>2
    <3>5. \A i \in DOMAIN chars : chars[i] < Half[1]
      BY <3>2, <3>3
    <3>6. AsciiDecoded(chars) = [i \in DOMAIN chars |-> chars[i]]
      BY <3>5, Zenon DEF AsciiDecoded
    <3> QED BY <3>4, <3>6
  <2> QED BY <2>2, <2>3, <2>4
<1>3. CASE schema.s = "SchemaPointer" /\ schema.of \in within
  <2> DEFINE of    == schema.of
             items == d.opt
  <2>1. d \in [opt : {o \in Seq(values[of]) : Len(o) <= 1}]
    BY <1>3, Zenon DEF ValuesOf
  <2>2. d = [opt |-> items] /\ items \in Seq(values[of])
    BY <2>1
  <2>3. SeenOver(schema, d, seen) = [opt |-> [i \in DOMAIN items |-> seen[of][items[i]]]]
    BY <1>3, Zenon DEF SeenOver
  <2>4. \A x \in values[of] : seen[of][x] = x
    BY <1>3 DEF AsItIs
  <2> HIDE DEF items, of
  <2>5. [i \in DOMAIN items |-> seen[of][items[i]]] = items
    BY <2>2, <2>4, ItemsAsTheyAre
  <2> QED BY <2>2, <2>3, <2>5
<1>4. CASE schema.s = "SchemaSequence" /\ schema.of \in within
  <2> DEFINE of    == schema.of
             items == d.seq
  <2>1. d \in [seq : Counted(values[of])]
    BY <1>4, Zenon DEF ValuesOf
  <2>2. d = [seq |-> items] /\ items \in Seq(values[of])
    BY <2>1 DEF Counted
  <2>3. SeenOver(schema, d, seen) = [seq |-> [i \in DOMAIN items |-> seen[of][items[i]]]]
    BY <1>4, Zenon DEF SeenOver
  <2>4. \A x \in values[of] : seen[of][x] = x
    BY <1>4 DEF AsItIs
  <2> HIDE DEF items, of
  <2>5. [i \in DOMAIN items |-> seen[of][items[i]]] = items
    BY <2>2, <2>4, ItemsAsTheyAre
  <2> QED BY <2>2, <2>3, <2>5
<1>5. CASE schema.s = "SchemaClass" /\ schema.fields \in Seq([name : STRING, schema : within])
  <2> DEFINE fs      == schema.fields
             names   == {fs[i].name : i \in DOMAIN fs}
             members == d.obj
             place(n) == CHOOSE i \in DOMAIN fs : fs[i].name = n
  <2>1. d \in {x \in [obj : [names -> Data]] :
                 \A i \in DOMAIN fs : x.obj[fs[i].name] \in values[fs[i].schema]}
    BY <1>5, Zenon DEF ValuesOf
  <2>2. /\ d = [obj |-> members] /\ members \in [names -> Data]
        /\ \A i \in DOMAIN fs : members[fs[i].name] \in values[fs[i].schema]
    <3> HIDE DEF names, fs
    <3>1. d \in [obj : [names -> Data]]
          /\ \A i \in DOMAIN fs : members[fs[i].name] \in values[fs[i].schema]
      BY <2>1
    <3> QED BY <3>1
  <2>3. SeenOver(schema, d, seen) = [obj |-> [n \in names |-> seen[fs[place(n)].schema][members[n]]]]
    BY <1>5, Zenon DEF SeenOver
  <2>4. \A i \in DOMAIN fs : fs[i].schema \in within
    <3> DEFINE field == [name : STRING, schema : within]
    <3>1. \A f \in field : f.schema \in within
      OBVIOUS
    <3>2. fs \in Seq(field)
      BY <1>5
    <3> HIDE DEF field, fs
    <3>3. \A i \in DOMAIN fs : fs[i] \in field
      BY <3>2
    <3> QED BY <3>1, <3>3
  <2>5. ASSUME NEW n \in names
        PROVE  seen[fs[place(n)].schema][members[n]] = members[n]
    <3>1. \E i \in DOMAIN fs : fs[i].name = n
      OBVIOUS
    <3> DEFINE j == place(n)
    <3>2. j \in DOMAIN fs /\ fs[j].name = n
      BY <3>1
    <3> HIDE DEF j, fs, members
    <3>3. members[n] \in values[fs[j].schema] /\ fs[j].schema \in within
      BY <2>2, <2>4, <3>2
    <3>4. seen[fs[j].schema][members[n]] = members[n]
      BY <3>3 DEF AsItIs
    <3> QED BY <3>4 DEF j
  <2> HIDE DEF names, members, fs
  <2>6. [n \in names |-> seen[fs[place(n)].schema][members[n]]] = members
    BY <2>2, <2>5
  <2> QED BY <2>2, <2>3, <2>6
<1> QED BY <1>1, <1>2, <1>3, <1>4, <1>5, SchemaCases

\* A value whose strings are ASCII is seen as it is.
LEMMA SeenAsItIs ==
  ASSUME Chars \subseteq 0 .. Half[1] - 1,
         NEW schema \in SchemasTo[Depth], NEW d \in DataOf[Depth][schema]
  PROVE  Seen(schema, d) = d
<1> DEFINE Good == {n \in Nat : AsItIs(SchemasTo[n], DataOf[n], SeenOf[n])}
<1>1. 0 \in Good
  <2>1. SchemasTo[0] = {}
    BY SchemasLevel
  <2> QED BY <2>1 DEF AsItIs
<1>2. ASSUME NEW n \in Nat, n \in Good
      PROVE  n + 1 \in Good
  <2> DEFINE m == n + 1
  <2>1. m \in Nat /\ m # 0 /\ m - 1 = n
    OBVIOUS
  <2> HIDE DEF m
  <2>2. SchemasTo[m] = SchemasOver(SchemasTo[n])
    BY <2>1, SchemasLevel
  <2>3. DataOf[m] = [x \in SchemasTo[m] |-> ValuesOf(x, DataOf[n])]
    BY <2>1, DataLevel
  <2>4. SeenOf[m] = [x \in SchemasTo[m] |-> [y \in DataOf[m][x] |-> SeenOver(x, y, SeenOf[n])]]
    BY <2>1, SeenLevel
  <2>5. AsItIs(SchemasTo[n], DataOf[n], SeenOf[n])
    BY <1>2
  <2>6. ASSUME NEW x \in SchemasTo[m], NEW y \in DataOf[m][x]
        PROVE  SeenOf[m][x][y] = y
    <3>1. y \in ValuesOf(x, DataOf[n]) /\ x \in SchemasOver(SchemasTo[n])
      BY <2>2, <2>3, <2>6
    <3>2. SeenOf[m][x][y] = SeenOver(x, y, SeenOf[n])
      BY <2>4, <2>6
    <3> QED BY <2>5, <3>1, <3>2, OverAsItIs
  <2>7. AsItIs(SchemasTo[m], DataOf[m], SeenOf[m])
    BY <2>6 DEF AsItIs
  <2> QED BY <2>1, <2>7 DEF m
<1> HIDE DEF Good
<1>3. \A n \in Nat : n \in Good
  BY <1>1, <1>2, Induction
<1>4. AsItIs(SchemasTo[Depth], DataOf[Depth], SeenOf[Depth])
  BY <1>3, DepthAssumption DEF Good
<1> QED BY <1>4 DEF AsItIs, Seen

\* If all the strings are ASCII, a program gets from the buffer the very value the record
\* was made from.
THEOREM AsciiRecordArrives ==
  ASSUME Chars \subseteq 0 .. Half[1] - 1,
         NEW schema \in SchemasTo[Depth], NEW d \in DataOf[Depth][schema]
  PROVE  Received(schema, Laid(schema, d)) = d
BY RecordArrives, SeenAsItIs

\* No record is the beginning of another one of its schema, so no end mark is needed, and
\* where two values have the same record a program sees the same of both.
THEOREM RecordsAreApart ==
  ASSUME NEW schema \in SchemasTo[Depth], NEW d \in DataOf[Depth][schema],
         NEW e \in DataOf[Depth][schema], NEW rest \in Seq(Pieces),
         Laid(schema, e) = Laid(schema, d) \o rest
  PROVE  rest = <<>> /\ Seen(schema, e) = Seen(schema, d)
<1> DEFINE a == Laid(schema, d)
           b == Laid(schema, e)
           nothing == <<>>
<1>1. a \in Seq(Pieces) /\ b \in Seq(Pieces) /\ nothing \in Seq(Pieces)
  BY LaidInPieces
<1>2. b = a \o rest /\ b = b \o nothing
  BY <1>1
<1> HIDE DEF a, b, nothing
<1>3. Holds(b, 1, a) /\ Holds(b, 1, b)
  BY <1>1, <1>2, HoldsItself
<1>4. /\ Decode(schema, b, 1) = Got(Seen(schema, d), 1 + Len(a))
      /\ Decode(schema, b, 1) = Got(Seen(schema, e), 1 + Len(b))
  BY <1>1, <1>3, RecordsReadBack DEF a, b
<1>5. Seen(schema, d) = Seen(schema, e) /\ 1 + Len(a) = 1 + Len(b)
  BY <1>4 DEF Got
<1>6. Len(b) = Len(a) + Len(rest) /\ Len(a) \in Nat /\ Len(b) \in Nat /\ Len(rest) \in Nat
  BY <1>1, <1>2, ConcatProperties
<1>7. Len(rest) = 0
  BY <1>5, <1>6
<1>8. rest = <<>>
  BY <1>7, EmptySeq
<1> QED BY <1>5, <1>8
=============================================================================
