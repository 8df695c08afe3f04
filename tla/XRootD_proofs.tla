----------------------------- MODULE XRootD_proofs -----------------------------
(***************************************************************************)
(* balance() for every list of files and every number of partitions.  That *)
(* no move helps and no file is lost rests on one invariant each: what has *)
(* not been dealt out is no bigger than what has (Ordered), and no file is *)
(* lost or dealt out twice on the way (Conserved).  The bound on the       *)
(* heaviest partition (Near) compares with every other distribution, and   *)
(* takes the sums of Sums_proofs.                                          *)
(***************************************************************************)
EXTENDS XRootD, Sums_proofs

Unapplied == ~applied => results = {} /\ \A i \in Partitions : out[i] = {}

Ordered ==
  \A i \in Partitions : \A f \in out[i], g \in results : job.size[g] <= job.size[f]

Conserved ==
  /\ \A i \in Partitions : out[i] \cap results = {}
  /\ \A i, k \in Partitions : i # k => out[i] \cap out[k] = {}

Covered == applied => \A f \in job.matched : f \in results \/ \E i \in Partitions : f \in out[i]

Balance == TypeOK /\ Unapplied /\ Ordered /\ NoMoveHelps /\ Conserved

-----------------------------------------------------------------------------
LEMMA InitBalance == Init => Balance
<1> SUFFICES ASSUME Init PROVE Balance
  OBVIOUS
<1>1. ParametersOK(job) /\ applied = FALSE /\ results = {}
  BY ParametersAssumption DEF Init
<1>2. out = [i \in Partitions |-> {}] /\ bytes = [i \in Partitions |-> 0]
  BY DEF Init
<1>3. TypeOK
  BY <1>1, <1>2 DEF TypeOK
<1> QED
  BY <1>1, <1>2, <1>3 DEF Balance, Unapplied, Ordered, NoMoveHelps, Conserved

\* Deal, spelled out for one file and one partition.
DealTo(f, i) ==
  /\ applied
  /\ f \in results /\ i \in Partitions
  /\ BiggestFirst(f) /\ Minimum(i)
  /\ results' = results \ {f}
  /\ out' = [out EXCEPT ![i] = @ \cup {f}]
  /\ bytes' = [bytes EXCEPT ![i] = @ + job.size[f]]
  /\ UNCHANGED <<job, applied>>

LEMMA DealsToOne == Deal => \E f \in results, i \in Partitions : DealTo(f, i)
  BY DEF Deal, DealTo

LEMMA ApplyBalance == Balance /\ Apply => Balance'
<1> SUFFICES ASSUME Balance, Apply PROVE Balance'
  OBVIOUS
<1>1. ~applied /\ applied' = TRUE /\ job' = job /\ out' = out /\ bytes' = bytes
  BY DEF Apply
<1>2. results' \subseteq job.matched
  BY DEF Apply
<1>3. \A i \in Partitions : out[i] = {}
  BY <1>1 DEF Balance, Unapplied
<1>4. TypeOK'
  BY <1>1, <1>2 DEF Balance, TypeOK, Partitions
<1> QED
  BY <1>1, <1>3, <1>4 DEF Balance, Unapplied, Ordered, NoMoveHelps, Conserved, Partitions

\* The file dealt out is the smallest of its partition, which had the fewest bytes.
LEMMA DealBalance ==
  ASSUME Balance, NEW f, NEW i, DealTo(f, i)
  PROVE  Balance'
<1>1. /\ applied /\ f \in results /\ f \in job.matched /\ i \in Partitions
      /\ results' = results \ {f}
      /\ job' = job /\ applied' = applied /\ Partitions' = Partitions
  BY DEF DealTo, Balance, TypeOK, Partitions
<1>2. /\ out' = [out EXCEPT ![i] = out[i] \cup {f}]
      /\ bytes' = [bytes EXCEPT ![i] = bytes[i] + job.size[f]]
      /\ out \in [Partitions -> SUBSET job.matched] /\ bytes \in [Partitions -> Nat]
      /\ job.size \in [job.matched -> Nat]
  BY DEF DealTo, Balance, TypeOK, ParametersOK
<1>3. \A k \in Partitions : bytes[i] <= bytes[k]
  BY <1>1, <1>2 DEF DealTo, Minimum
<1>4. \A g \in results : job.size[g] <= job.size[f]
  BY DEF DealTo, BiggestFirst
<1>5. \A k \in Partitions : /\ out'[k] = IF k = i THEN out[i] \cup {f} ELSE out[k]
                            /\ bytes'[k] = IF k = i THEN bytes[i] + job.size[f] ELSE bytes[k]
  BY <1>1, <1>2
<1>6. TypeOK'
  BY <1>1, <1>2 DEF Balance, TypeOK
<1>7. Ordered'
  BY <1>1, <1>4, <1>5 DEF Balance, Ordered
<1>8. ASSUME NEW p \in Partitions, NEW q \in Partitions, NEW g \in out'[p]
      PROVE  bytes'[p] <= bytes'[q] + job.size[g]
  <2>1. job.size[f] \in Nat /\ bytes[p] \in Nat /\ bytes[q] \in Nat /\ bytes[i] \in Nat
    BY <1>1, <1>2
  <2>2. CASE p = i
    <3>1. CASE q = i
      <4>1. g \in job.matched
        BY <1>1, <1>2, <1>5, <2>2
      <4>2. job.size[g] \in Nat
        BY <4>1, <1>2
      <4> QED BY <1>5, <2>1, <2>2, <3>1, <4>2
    <3>2. CASE q # i
      <4>1. g = f \/ g \in out[i]
        BY <1>5, <2>2
      <4>2. job.size[f] <= job.size[g] /\ job.size[g] \in Nat
        BY <1>1, <1>2, <4>1, <2>1 DEF Balance, Ordered
      <4> QED BY <1>3, <1>5, <2>1, <2>2, <3>2, <4>2
    <3> QED BY <3>1, <3>2
  <2>3. CASE p # i
    <3>1. g \in out[p] /\ g \in job.matched
      BY <1>2, <1>5, <2>3
    <3>2. bytes[p] <= bytes[q] + job.size[g] /\ job.size[g] \in Nat
      BY <1>2, <3>1 DEF Balance, NoMoveHelps
    <3> QED BY <1>5, <2>1, <2>3, <3>2
  <2> QED BY <2>2, <2>3
<1>9. NoMoveHelps'
  BY <1>1, <1>8 DEF NoMoveHelps
<1>10. Conserved'
  BY <1>1, <1>5 DEF Balance, Conserved
<1>11. Unapplied'
  BY <1>1 DEF Unapplied
<1> QED BY <1>6, <1>7, <1>9, <1>10, <1>11 DEF Balance

LEMMA BalanceInvariant == Spec => []Balance
<1>1. Init => Balance
  BY InitBalance
<1>2. Balance /\ [Next]_vars => Balance'
  <2> SUFFICES ASSUME Balance, [Next]_vars PROVE Balance'
    OBVIOUS
  <2>1. CASE Apply
    BY <2>1, ApplyBalance
  <2>2. CASE Deal
    BY <2>2, DealsToOne, DealBalance
  <2>3. CASE UNCHANGED vars
    BY <2>3 DEF vars, Balance, TypeOK, Unapplied, Ordered, NoMoveHelps, Conserved, Partitions
  <2> QED BY <2>1, <2>2, <2>3 DEF Next
<1> QED BY <1>1, <1>2, PTL DEF Spec

(***************************************************************************)
(* The sums of balance() stay natural numbers and every file it deals out  *)
(* is one that apply() returned (reader.scala 402-425).                    *)
(***************************************************************************)
THEOREM TypeCorrect == Spec => []TypeOK
<1>1. Balance => TypeOK
  BY DEF Balance
<1> QED BY <1>1, BalanceInvariant, PTL

(***************************************************************************)
(* Whatever the files and the number of partitions, at every moment no     *)
(* file could move to another partition to advantage (407-422).            *)
(***************************************************************************)
THEOREM BalancedBySize == Spec => []NoMoveHelps
<1>1. Balance => NoMoveHelps
  BY DEF Balance
<1> QED BY <1>1, BalanceInvariant, PTL

-----------------------------------------------------------------------------
LEMMA CoveredByApply == DifferentSizes /\ Apply => Covered'
<1> SUFFICES ASSUME DifferentSizes, Apply PROVE Covered'
  OBVIOUS
<1>1. job' = job
  BY DEF Apply
<1>2. PICK kept \in SUBSET job.matched : DropsDuplicates(kept) /\ results' = kept
  BY DEF Apply
<1>3. \A f \in job.matched : f \in kept
  BY <1>2 DEF DropsDuplicates, DifferentSizes, Same
<1> QED BY <1>1, <1>2, <1>3 DEF Covered

LEMMA CoveredByDeal ==
  ASSUME TypeOK, Covered, NEW f, NEW i, DealTo(f, i)
  PROVE  Covered'
<1>1. /\ applied /\ i \in Partitions /\ f \in results
      /\ results' = results \ {f}
      /\ job' = job /\ Partitions' = Partitions
  BY DEF DealTo, Partitions
<1>2. \A k \in Partitions : out'[k] = IF k = i THEN out[i] \cup {f} ELSE out[k]
  BY <1>1 DEF DealTo, TypeOK
<1> QED BY <1>1, <1>2 DEF Covered

(***************************************************************************)
(* If no two files have the same size, every file that matches ends up in  *)
(* exactly one partition (391-397, 420-422).                               *)
(***************************************************************************)
THEOREM EveryFileDealtOnce == RegularSpec => []EveryFileOnce
<1> DEFINE Complete == Balance /\ DifferentSizes /\ Covered
<1>1. Init /\ DifferentSizes => Complete
  BY InitBalance DEF Init, Covered
<1>2. Complete /\ [Next]_vars => Complete'
  <2> SUFFICES ASSUME Complete, [Next]_vars PROVE Complete'
    OBVIOUS
  <2>1. CASE Apply
    <3>1. job' = job
      BY <2>1 DEF Apply
    <3> QED BY <2>1, <3>1, ApplyBalance, CoveredByApply DEF DifferentSizes
  <2>2. CASE Deal
    <3>1. job' = job
      BY <2>2 DEF Deal
    <3>2. PICK f \in results, i \in Partitions : DealTo(f, i)
      BY <2>2, DealsToOne
    <3>3. Balance'
      BY <3>2, DealBalance
    <3>4. Covered'
      BY <3>2, CoveredByDeal DEF Balance
    <3> QED BY <3>1, <3>3, <3>4 DEF DifferentSizes
  <2>3. CASE UNCHANGED vars
    BY <2>3 DEF vars, Balance, TypeOK, Unapplied, Ordered, NoMoveHelps, Conserved, Partitions,
                DifferentSizes, Covered
  <2> QED BY <2>1, <2>2, <2>3 DEF Next
<1>3. Complete => EveryFileOnce
  <2> SUFFICES ASSUME Complete, Done, NEW f \in job.matched
               PROVE  \E i \in Partitions : \A k \in Partitions : f \in out[k] <=> k = i
    BY DEF EveryFileOnce
  <2>1. PICK i \in Partitions : f \in out[i]
    BY DEF Covered, Done
  <2>2. \A k \in Partitions : f \in out[k] <=> k = i
    BY <2>1 DEF Balance, Conserved
  <2> QED BY <2>1, <2>2
<1> QED BY <1>1, <1>2, <1>3, PTL DEF RegularSpec, RegularInit

-----------------------------------------------------------------------------
(***************************************************************************)
(* The bound of NearOptimal, at every moment and for any other partition of*)
(* the files.  Weighed and Dealt tie the bytes of the partitions to their  *)
(* files, one by one and all together.                                     *)
(***************************************************************************)
Size  == job.size
Best(where) == Heaviest(LoadOf(where))

Weighed ==
  /\ \A k \in Partitions : out[k] = {} => bytes[k] = 0
  /\ \A k \in Partitions, f \in job.matched : out[k] = {f} => bytes[k] = Size[f]

Dealt == SumOf(bytes, Partitions) + SumOf(Size, results) <= SumOf(Size, job.matched)

Near ==
  \A where \in [job.matched -> Partitions], k \in Partitions :
    3 * job.partitions * bytes[k] <= (4 * job.partitions - 1) * Best(where)

LEMMA JobFinite ==
  ASSUME ParametersOK(job)
  PROVE  /\ IsFiniteSet(job.matched) /\ \A f \in job.matched : Size[f] \in Nat
         /\ job.partitions \in Nat \ {0}
         /\ IsFiniteSet(Partitions) /\ Cardinality(Partitions) = job.partitions
<1>1. job.partitions \in Nat \ {0}
  BY DEF ParametersOK
<1>2. job.partitions - 1 \in Int /\ ~(0 > job.partitions - 1) /\ job.partitions - 1 - 0 + 1 = job.partitions
  <2>1. PICK n \in Nat \ {0} : n = job.partitions
    BY <1>1
  <2>2. n - 1 \in Int /\ ~(0 > n - 1) /\ n - 1 - 0 + 1 = n
    OBVIOUS
  <2> QED BY <2>1, <2>2
<1>3. IsFiniteSet(0 .. job.partitions - 1)
      /\ Cardinality(0 .. job.partitions - 1) = job.partitions - 1 - 0 + 1
  <2>1. \A last \in Int : ~(0 > last) =>
          IsFiniteSet(0 .. last) /\ Cardinality(0 .. last) = last - 0 + 1
    BY FS_Interval
  <2> QED BY <1>2, <2>1
<1> QED BY <1>1, <1>2, <1>3 DEF ParametersOK, Size, Partitions

\* The heaviest of the partitions exists.
LEMMA HeaviestIs ==
  ASSUME ParametersOK(job), NEW load, \A k \in Partitions : load[k] \in Nat
  PROVE  /\ \E k \in Partitions : Heaviest(load) = load[k]
         /\ Heaviest(load) \in Nat
         /\ \A k \in Partitions : load[k] <= Heaviest(load)
<1> DEFINE All == SumOf(load, Partitions)
<1>1. All \in Nat /\ \A k \in Partitions : load[k] <= All
  BY JobFinite, SumType, SumOfOne
<1> HIDE DEF All
<1> DEFINE Below == { All - load[k] : k \in Partitions }
<1>2. Below \subseteq Nat
  BY <1>1
<1>3. Below # {}
  <2>1. 0 \in Partitions
    BY JobFinite DEF Partitions
  <2> QED BY <2>1
<1> HIDE DEF Below
<1>4. PICK n \in Below : \A d \in Below : ~(<<d, n>> \in OpToRel(<, Nat))
  BY <1>2, <1>3, NatLessThanWellFounded, WFMin
<1>5. PICK k \in Partitions : n = All - load[k]
  BY <1>4 DEF Below
<1>6. ASSUME NEW i \in Partitions
      PROVE  load[i] <= load[k]
  <2>1. All - load[i] \in Below
    BY DEF Below
  <2>2. ~(All - load[i] < n)
    BY <1>2, <1>4, <2>1 DEF OpToRel
  <2>3. load[i] \in Nat /\ load[k] \in Nat
    OBVIOUS
  <2> QED BY <1>1, <1>5, <2>2, <2>3
<1>7. \E b \in { load[i] : i \in Partitions } : \A i \in Partitions : load[i] <= b
  BY <1>5, <1>6
<1>8. /\ Heaviest(load) \in { load[i] : i \in Partitions }
      /\ \A i \in Partitions : load[i] <= Heaviest(load)
  BY <1>7 DEF Heaviest
<1> QED BY <1>8

LoadsShared == \A where : LoadOf(where) = Shares(Size, job.matched, where, Partitions)

LEMMA LoadIsShare == LoadsShared
  BY DEF LoadsShared, LoadOf, SumOf, Size, Shares

LEMMA BestType ==
  ASSUME ParametersOK(job), NEW where \in [job.matched -> Partitions]
  PROVE  /\ Best(where) \in Nat
         /\ LoadOf(where) = Shares(Size, job.matched, where, Partitions)
         /\ \A k \in Partitions :
              /\ LoadOf(where)[k] \in Nat /\ LoadOf(where)[k] <= Best(where)
              /\ LoadOf(where)[k] = SumOf(Size, { f \in job.matched : where[f] = k })
              /\ IsFiniteSet({ f \in job.matched : where[f] = k })
<1>1. \A k \in Partitions : LoadOf(where)[k] = SumOf(Size, { f \in job.matched : where[f] = k })
  BY DEF LoadOf, SumOf, Size
<1>2. LoadOf(where) = Shares(Size, job.matched, where, Partitions)
  BY LoadIsShare DEF LoadsShared
<1>3. ASSUME NEW k \in Partitions
      PROVE  IsFiniteSet({ f \in job.matched : where[f] = k }) /\ LoadOf(where)[k] \in Nat
  <2> DEFINE S == { f \in job.matched : where[f] = k }
  <2>1. S \in SUBSET job.matched
    OBVIOUS
  <2> HIDE DEF S
  <2>2. IsFiniteSet(S) /\ \A f \in S : Size[f] \in Nat
    BY <2>1, JobFinite, FS_Subset
  <2>3. SumOf(Size, S) \in Nat
    BY <2>2, SumType
  <2> QED BY <1>1, <2>2, <2>3 DEF S
<1>4. Heaviest(LoadOf(where)) \in Nat /\ \A k \in Partitions : LoadOf(where)[k] <= Heaviest(LoadOf(where))
  BY <1>3, HeaviestIs
<1> QED BY <1>1, <1>2, <1>3, <1>4 DEF Best

\* A new file goes to a partition with no more than its share of the bytes.
LEMMA Averages ==
  ASSUME Balance, Dealt, NEW where \in [job.matched -> Partitions], NEW f, NEW i, DealTo(f, i)
  PROVE  job.partitions * bytes[i] + Size[f] <= job.partitions * Best(where)
<1>1. /\ ParametersOK(job) /\ f \in results /\ i \in Partitions /\ results \in SUBSET job.matched
      /\ \A k \in Partitions : bytes[k] \in Nat /\ bytes[i] <= bytes[k]
  BY DEF Balance, TypeOK, DealTo, Minimum
<1>2. /\ IsFiniteSet(job.matched) /\ (\A g \in job.matched : Size[g] \in Nat)
      /\ IsFiniteSet(Partitions) /\ Cardinality(Partitions) = job.partitions
  BY <1>1, JobFinite
<1>3. job.partitions * bytes[i] <= SumOf(bytes, Partitions)
  <2>1. PICK b \in Nat : b = bytes[i]
    BY <1>1
  <2>2. \A k \in Partitions : bytes[k] \in Nat /\ b <= bytes[k]
    BY <1>1, <2>1
  <2>3. Cardinality(Partitions) * b <= SumOf(bytes, Partitions)
    BY <1>2, <2>2, SumAtLeast
  <2> QED BY <1>2, <2>1, <2>3
<1>4. IsFiniteSet(results) /\ \A g \in results : Size[g] \in Nat
  BY <1>1, <1>2, FS_Subset
<1>5. Size[f] <= SumOf(Size, results) /\ SumOf(Size, results) \in Nat /\ Size[f] \in Nat
  BY <1>1, <1>4, SumOfOne, SumType
<1>6. SumOf(Size, job.matched) <= job.partitions * Best(where)
  <2> DEFINE load == LoadOf(where)
  <2>1. SumOf(load, Partitions) = SumOf(Size, job.matched)
    <3>1. \A g \in job.matched : where[g] \in Partitions
      OBVIOUS
    <3>2. SumOf(Shares(Size, job.matched, where, Partitions), Partitions) = SumOf(Size, job.matched)
      BY <1>2, <3>1, SumOfShares
    <3> QED BY <1>1, <3>2, BestType
  <2>2. PICK b \in Nat : b = Best(where)
    BY <1>1, BestType
  <2>3. \A k \in Partitions : load[k] \in Nat /\ load[k] <= b
    BY <1>1, <2>2, BestType
  <2> HIDE DEF load
  <2>4. SumOf(load, Partitions) <= Cardinality(Partitions) * b
    BY <1>2, <2>3, SumAtMost
  <2> QED BY <1>2, <2>1, <2>2, <2>4
<1>7. SumOf(bytes, Partitions) \in Nat /\ SumOf(Size, job.matched) \in Nat
  BY <1>1, <1>2, SumType
<1>8. /\ job.partitions * bytes[i] \in Nat /\ job.partitions * Best(where) \in Nat
  <2>1. job.partitions \in Nat /\ bytes[i] \in Nat /\ Best(where) \in Nat
    BY <1>1, BestType, JobFinite
  <2> QED BY <2>1
<1> QED BY <1>3, <1>5, <1>6, <1>7, <1>8 DEF Dealt

LEMMA SmallFileBound ==
  ASSUME NEW m \in Nat \ {0}, NEW L \in Nat, NEW s \in Nat, NEW O \in Nat,
         m * L + s <= m * O, 3 * s <= O
  PROVE  3 * m * (L + s) <= (4 * m - 1) * O
<1>1. PICK n \in Nat : m = n + 1
  <2>1. m - 1 \in Nat /\ m = (m - 1) + 1
    OBVIOUS
  <2> QED BY <2>1
<1>2. n * (3 * s) <= n * O
  OBVIOUS
<1>3. 3 * m * (L + s) = 3 * (m * L + s) + n * (3 * s)
  BY <1>1
<1>4. (4 * m - 1) * O = 3 * (m * O) + n * O
  BY <1>1
<1>5. m * L \in Nat /\ m * O \in Nat /\ n * (3 * s) \in Nat /\ n * O \in Nat
  OBVIOUS
<1> QED BY <1>2, <1>3, <1>4, <1>5

LEMMA BigFileBound ==
  ASSUME NEW m \in Nat \ {0}, NEW L \in Nat, NEW s \in Nat, NEW O \in Nat, L + s <= O
  PROVE  3 * m * (L + s) <= (4 * m - 1) * O
<1>1. PICK n \in Nat : m = n + 1
  <2>1. m - 1 \in Nat /\ m = (m - 1) + 1
    OBVIOUS
  <2> QED BY <2>1
<1>2. (4 * m - 1) * O = 3 * m * O + n * O
  BY <1>1
<1>3. 3 * m * (L + s) <= 3 * m * O
  OBVIOUS
<1>4. n * O \in Nat /\ 3 * m * O \in Nat /\ 3 * m * (L + s) \in Nat
  OBVIOUS
<1> QED BY <1>2, <1>3, <1>4

\* What the best distribution puts together fits into its heaviest partition.
LEMMA TwoFit ==
  ASSUME ParametersOK(job), NEW where \in [job.matched -> Partitions],
         NEW g \in job.matched, NEW h \in job.matched, g # h, where[g] = where[h]
  PROVE  Size[g] + Size[h] <= Best(where)
<1> DEFINE k == where[g]
           S == { e \in job.matched : where[e] = k }
<1>1. k \in Partitions /\ g \in S /\ h \in S /\ \A e \in S : Size[e] \in Nat
  BY JobFinite
<1>2. /\ IsFiniteSet(S) /\ LoadOf(where)[k] = SumOf(Size, S)
      /\ LoadOf(where)[k] <= Best(where) /\ LoadOf(where)[k] \in Nat
      /\ Best(where) \in Nat
  BY <1>1, BestType
<1> HIDE DEF k, S
<1>3. Size[g] + Size[h] <= SumOf(Size, S)
  BY <1>1, <1>2, SumOfTwo
<1>4. Size[g] \in Nat /\ Size[h] \in Nat
  BY <1>1
<1> QED BY <1>2, <1>3, <1>4

LEMMA ThreeFit ==
  ASSUME ParametersOK(job), NEW where \in [job.matched -> Partitions],
         NEW g \in job.matched, NEW h \in job.matched, NEW e \in job.matched,
         g # h, g # e, h # e, where[g] = where[h], where[g] = where[e]
  PROVE  Size[g] + Size[h] + Size[e] <= Best(where)
<1> DEFINE k == where[g]
           S == { d \in job.matched : where[d] = k }
<1>1. k \in Partitions /\ g \in S /\ h \in S /\ e \in S /\ \A d \in S : Size[d] \in Nat
  BY JobFinite
<1>2. /\ IsFiniteSet(S) /\ LoadOf(where)[k] = SumOf(Size, S)
      /\ LoadOf(where)[k] <= Best(where) /\ LoadOf(where)[k] \in Nat
      /\ Best(where) \in Nat
  BY <1>1, BestType
<1> HIDE DEF k, S
<1>3. Size[g] + Size[h] + Size[e] <= SumOf(Size, S)
  BY <1>1, <1>2, SumOfThree
<1>4. Size[g] \in Nat /\ Size[h] \in Nat /\ Size[e] \in Nat
  BY <1>1
<1> QED BY <1>2, <1>3, <1>4

LEMMA OneFits ==
  ASSUME ParametersOK(job), NEW where \in [job.matched -> Partitions], NEW g \in job.matched
  PROVE  Size[g] <= Best(where)
<1> DEFINE k == where[g]
           S == { d \in job.matched : where[d] = k }
<1>1. k \in Partitions /\ g \in S /\ \A d \in S : Size[d] \in Nat
  BY JobFinite
<1>2. /\ IsFiniteSet(S) /\ LoadOf(where)[k] = SumOf(Size, S)
      /\ LoadOf(where)[k] <= Best(where) /\ LoadOf(where)[k] \in Nat
      /\ Best(where) \in Nat
  BY <1>1, BestType
<1> HIDE DEF k, S
<1>3. Size[g] <= SumOf(Size, S)
  BY <1>1, <1>2, SumOfOne
<1>4. Size[g] \in Nat
  BY <1>1
<1> QED BY <1>2, <1>3, <1>4

(***************************************************************************)
(* If a file is bigger than a third of the best result, the partition it is*)
(* dealt to stays within the best result.  Otherwise the files dealt out so*)
(* far, each as big as this one, would need more places than the best      *)
(* distribution has: two in each of its partitions, but one where there is *)
(* a file that is alone in its partition of out.                           *)
(***************************************************************************)
LEMMA BigFileFits ==
  ASSUME Balance, Weighed, NEW where \in [job.matched -> Partitions],
         NEW f, NEW i, DealTo(f, i), Best(where) < 3 * Size[f]
  PROVE  bytes[i] + Size[f] <= Best(where)
<1>1. SUFFICES ASSUME ~(bytes[i] + Size[f] <= Best(where)) PROVE FALSE
  OBVIOUS
<1>2. /\ ParametersOK(job) /\ f \in results /\ f \in job.matched /\ i \in Partitions
      /\ \A k \in Partitions : /\ bytes[k] \in Nat /\ bytes[i] <= bytes[k]
                               /\ out[k] \subseteq job.matched
  BY DEF Balance, TypeOK, DealTo, Minimum
<1>3. Best(where) \in Nat /\ Size[f] \in Nat /\ bytes[i] \in Nat
  BY <1>2, BestType, JobFinite
<1> DEFINE Files == (UNION { out[k] : k \in Partitions }) \cup {f}
<1>4. ASSUME NEW g \in Files
      PROVE  g \in job.matched /\ Size[g] \in Nat /\ Size[f] <= Size[g]
  <2>1. CASE g = f
    BY <1>2, <1>3, <2>1
  <2>2. CASE g # f
    <3>1. PICK k \in Partitions : g \in out[k]
      BY <2>2
    <3>2. g \in job.matched /\ Size[g] \in Nat
      BY <1>2, <3>1, JobFinite
    <3>3. Size[f] <= Size[g]
      BY <1>2, <3>1 DEF Balance, Ordered, Size
    <3> QED BY <3>2, <3>3
  <2> QED BY <2>1, <2>2
<1>5. \A k \in Partitions : out[k] \subseteq Files /\ f \notin out[k] /\ out[k] # {}
  <2> SUFFICES ASSUME NEW k \in Partitions
               PROVE  out[k] \subseteq Files /\ f \notin out[k] /\ out[k] # {}
    OBVIOUS
  <2>1. Size[f] <= Best(where)
    BY <1>2, OneFits
  <2>2. bytes[k] # 0
    BY <1>1, <1>2, <1>3, <2>1
  <2>3. out[k] # {}
    BY <2>2 DEF Weighed
  <2> QED BY <1>2, <2>3 DEF Balance, Conserved
<1>6. f \in Files
  OBVIOUS
<1> HIDE DEF Files
<1> DEFINE one(k) == CHOOSE g : g \in out[k]
           Single(k) == out[k] = {one(k)}
           two(k) == CHOOSE g : g \in out[k] /\ g # one(k)
<1>7. \A k \in Partitions : /\ one(k) \in out[k] /\ one(k) \in Files
                            /\ ~Single(k) => two(k) \in out[k] /\ two(k) \in Files /\ two(k) # one(k)
  BY <1>5
<1> HIDE DEF one, two
\* A file that is alone in its partition is alone in the best distribution.
<1>8. ASSUME NEW k \in Partitions, Single(k), NEW g \in Files, where[g] = where[one(k)]
      PROVE  g = one(k)
  <2>1. SUFFICES ASSUME g # one(k) PROVE FALSE
    OBVIOUS
  <2>2. one(k) \in job.matched /\ Size[one(k)] \in Nat /\ g \in job.matched /\ Size[g] \in Nat
        /\ Size[f] <= Size[g]
    BY <1>4, <1>7
  <2>3. bytes[k] = Size[one(k)]
    BY <1>8, <2>2 DEF Weighed
  <2>4. Size[g] + Size[one(k)] <= Best(where)
    BY <1>2, <1>8, <2>1, <2>2, TwoFit
  <2> QED BY <1>1, <1>2, <1>3, <2>2, <2>3, <2>4
\* No three of the files are together in the best distribution.
<1>9. ASSUME NEW g \in Files, NEW h \in Files, NEW e \in Files,
             g # h, g # e, h # e, where[g] = where[h], where[g] = where[e]
      PROVE  FALSE
  <2>1. Size[g] + Size[h] + Size[e] <= Best(where)
    BY <1>2, <1>4, <1>9, ThreeFit
  <2> QED BY <1>3, <1>4, <2>1
<1> DEFINE first(k) == CHOOSE g : g \in Files /\ where[g] = k
           place(g) == <<IF g = first(where[g]) THEN 1 ELSE 2, where[g]>>
<1>10. \A g \in Files : first(where[g]) \in Files /\ where[first(where[g])] = where[g]
  OBVIOUS
<1> HIDE DEF first
<1>11. ASSUME NEW g \in Files, NEW h \in Files, place(g) = place(h)
       PROVE  g = h
  <2>1. /\ where[g] = where[h]
        /\ g = first(where[g]) <=> h = first(where[h])
    BY <1>11
  <2>2. CASE g = first(where[g])
    BY <2>1, <2>2
  <2>3. CASE g # first(where[g])
    BY <1>9, <1>10, <2>1, <2>3
  <2> QED BY <2>2, <2>3
<1> DEFINE Places == {1, 2} \X Partitions
           Seekers == Places \cup {<<3, 0>>}
           Idle(x) == x[1] = 2 /\ Single(x[2])
           file(x) == IF x[1] = 3 THEN f ELSE IF x[1] = 1 THEN one(x[2]) ELSE two(x[2])
           seat == [x \in Seekers |-> IF Idle(x) THEN <<2, where[one(x[2])]>> ELSE place(file(x))]
<1>12. ASSUME NEW x \in Seekers, ~Idle(x)
       PROVE  file(x) \in Files
  BY <1>6, <1>7, <1>12
<1>13. \A g \in Files : where[g] \in Partitions
  BY <1>4
<1>14. seat \in [Seekers -> Places]
  <2> SUFFICES ASSUME NEW x \in Seekers
               PROVE  (IF Idle(x) THEN <<2, where[one(x[2])]>> ELSE place(file(x))) \in Places
    OBVIOUS
  <2>1. CASE Idle(x)
    <3>1. x[2] \in Partitions
      BY <2>1
    <3>2. where[one(x[2])] \in Partitions
      BY <1>7, <1>13, <3>1
    <3> QED BY <2>1, <3>2
  <2>2. CASE ~Idle(x)
    <3>1. where[file(x)] \in Partitions
      BY <1>12, <1>13, <2>2
    <3> QED BY <2>2, <3>1
  <2> QED BY <2>1, <2>2
<1>15. /\ IsFiniteSet(Places) /\ IsFiniteSet(Seekers)
       /\ Cardinality(Places) < Cardinality(Seekers)
  <2>1. IsFiniteSet({1, 2})
    <3>1. {1, 2} = 1 .. 2
      OBVIOUS
    <3>2. 1 \in Int /\ 2 \in Int
      OBVIOUS
    <3>3. IsFiniteSet(1 .. 2)
      BY <3>2, FS_Interval, Zenon
    <3> QED BY <3>1, <3>3
  <2>2. IsFiniteSet(Places)
    BY <1>2, <2>1, JobFinite, FS_Product
  <2>3. <<3, 0>> \notin Places
    OBVIOUS
  <2> HIDE DEF Places
  <2>4. IsFiniteSet(Seekers) /\ Cardinality(Seekers) = Cardinality(Places) + 1
    BY <2>2, <2>3, FS_AddElement
  <2>5. Cardinality(Places) \in Nat
    BY <2>2, FS_CardinalityType
  <2> QED BY <2>2, <2>4, <2>5
<1>16. PICK x \in Seekers, y \in Seekers : x # y /\ seat[x] = seat[y]
  <2> HIDE DEF Places, Seekers, seat
  <2> QED BY <1>14, <1>15, FS_PigeonHole
<1>17. /\ seat[x] = IF Idle(x) THEN <<2, where[one(x[2])]>> ELSE place(file(x))
       /\ seat[y] = IF Idle(y) THEN <<2, where[one(y[2])]>> ELSE place(file(y))
  OBVIOUS
<1> HIDE DEF seat
\* An idle seeker shares no place with one that has a file ...
<1>18. ASSUME NEW u \in Seekers, NEW v \in Seekers, Idle(u), ~Idle(v),
              place(file(v)) = <<2, where[one(u[2])]>>
       PROVE  FALSE
  <2>1. u[2] \in Partitions /\ Single(u[2])
    BY <1>18
  <2>2. file(v) \in Files /\ where[file(v)] = where[one(u[2])] /\ file(v) # first(where[file(v)])
    BY <1>12, <1>18
  <2>3. file(v) = one(u[2])
    BY <1>8, <2>1, <2>2
  <2>4. first(where[file(v)]) = one(u[2])
    BY <1>8, <1>10, <2>1, <2>2
  <2> QED BY <2>2, <2>3, <2>4
\* ... nor with another idle one, and two files have different places.
<1>19. \A k, l \in Partitions : k # l => out[k] \cap out[l] = {}
  BY DEF Balance, Conserved
<1>20. CASE Idle(x) /\ Idle(y)
  <2>1. /\ x[2] \in Partitions /\ y[2] \in Partitions /\ x[2] # y[2]
        /\ Single(x[2]) /\ Single(y[2])
    BY <1>16, <1>20
  <2>2. where[one(x[2])] = where[one(y[2])]
    <3>1. seat[x] = <<2, where[one(x[2])]>> /\ seat[y] = <<2, where[one(y[2])]>>
      BY <1>17, <1>20
    <3> HIDE DEF Idle
    <3>2. <<2, where[one(x[2])]>> = <<2, where[one(y[2])]>>
      BY <1>16, <3>1
    <3> QED BY <3>2
  <2>3. one(x[2]) = one(y[2])
    BY <1>7, <1>8, <2>1, <2>2
  <2> QED BY <1>7, <1>19, <2>1, <2>3
<1>21. CASE ~Idle(x) /\ ~Idle(y)
  <2>1. place(file(x)) = place(file(y))
    BY <1>16, <1>17, <1>21
  <2>2. file(x) \in Files /\ file(y) \in Files
    BY <1>12, <1>21
  <2> HIDE DEF place
  <2>3. file(x) = file(y)
    BY <1>11, <2>1, <2>2
  <2>4. \A k \in Partitions : one(k) # f /\ (~Single(k) => two(k) # f)
    BY <1>5, <1>7
  <2>5. \A k, l \in Partitions : ~Single(l) => one(k) # two(l)
    BY <1>7, <1>19
  <2>6. \A k, l \in Partitions : k # l => /\ one(k) # one(l)
                                          /\ ~Single(k) /\ ~Single(l) => two(k) # two(l)
    BY <1>7, <1>19
  <2>7. \A u \in Seekers : u = <<3, 0>> \/ (u = <<u[1], u[2]>> /\ u[1] \in {1, 2} /\ u[2] \in Partitions)
    OBVIOUS
  <2> HIDE DEF Seekers, Single
  <2>8. CASE x = <<3, 0>>
    BY <1>16, <1>21, <2>3, <2>4, <2>7, <2>8
  <2>9. CASE y = <<3, 0>>
    BY <1>16, <1>21, <2>3, <2>4, <2>7, <2>9
  <2>10. CASE x # <<3, 0>> /\ y # <<3, 0>>
    BY <1>16, <1>21, <2>3, <2>5, <2>6, <2>7, <2>10
  <2> QED BY <2>8, <2>9, <2>10
<1>22. CASE Idle(x) /\ ~Idle(y)
  BY <1>16, <1>17, <1>18, <1>22
<1>23. CASE ~Idle(x) /\ Idle(y)
  BY <1>16, <1>17, <1>18, <1>23
<1> QED BY <1>20, <1>21, <1>22, <1>23

-----------------------------------------------------------------------------
Bound == Balance /\ Weighed /\ Dealt /\ Near

\* What the best distribution is does not depend on what has been dealt out.
LEMMA BestKept ==
  ASSUME job' = job, NEW where
  PROVE  Best(where)' = Best(where) /\ Size' = Size /\ Partitions' = Partitions
<1>1. Size' = Size /\ Partitions' = Partitions
  BY DEF Size, Partitions
<1>2. LoadOf(where) = Shares(Size, job.matched, where, Partitions)
  BY LoadIsShare DEF LoadsShared
<1>3. LoadOf(where)' = Shares(Size', job'.matched, where, Partitions')
  <2>1. LoadsShared'
    BY LoadIsShare, PTL
  <2> QED BY <2>1 DEF LoadsShared
<1>4. LoadOf(where)' = LoadOf(where)
  BY <1>1, <1>2, <1>3
<1> QED BY <1>1, <1>4 DEF Best, Heaviest

LEMMA NoBytes ==
  ASSUME ParametersOK(job), \A k \in Partitions : bytes[k] = 0
  PROVE  SumOf(bytes, Partitions) = 0
<1>1. \A k \in Partitions : bytes[k] \in Nat /\ bytes[k] <= 0
  OBVIOUS
<1>2. SumOf(bytes, Partitions) \in Nat /\ SumOf(bytes, Partitions) <= Cardinality(Partitions) * 0
  BY <1>1, JobFinite, SumType, SumAtMost
<1>3. Cardinality(Partitions) \in Nat
  BY JobFinite
<1> QED BY <1>2, <1>3

LEMMA InitBound == Init => Bound
<1> SUFFICES ASSUME Init PROVE Bound
  OBVIOUS
<1>1. Balance
  BY InitBalance
<1>2. /\ ParametersOK(job) /\ results = {}
      /\ \A k \in Partitions : out[k] = {} /\ bytes[k] = 0
  BY ParametersAssumption DEF Init
<1>3. Weighed
  BY <1>2 DEF Weighed
<1>4. Dealt
  <2>1. SumOf(Size, job.matched) \in Nat
    BY <1>2, JobFinite, SumType
  <2> QED BY <1>2, <2>1, NoBytes, SumEmpty DEF Dealt
<1>5. Near
  <2> SUFFICES ASSUME NEW where \in [job.matched -> Partitions], NEW k \in Partitions
               PROVE  3 * job.partitions * bytes[k] <= (4 * job.partitions - 1) * Best(where)
    BY DEF Near
  <2>1. PICK m \in Nat \ {0} : m = job.partitions
    BY <1>2, JobFinite
  <2>2. PICK b \in Nat : b = Best(where)
    BY <1>2, BestType
  <2>3. 3 * m * 0 <= (4 * m - 1) * b
    OBVIOUS
  <2> QED BY <1>2, <2>1, <2>2, <2>3
<1> QED BY <1>1, <1>3, <1>4, <1>5 DEF Bound

LEMMA ApplyBound == Bound /\ Apply => Bound'
<1> SUFFICES ASSUME Bound, Apply PROVE Bound'
  OBVIOUS
<1>1. /\ job' = job /\ out' = out /\ bytes' = bytes /\ ~applied
      /\ results' \in SUBSET job.matched
  BY DEF Apply
<1>2. Balance' /\ Balance
  BY ApplyBalance DEF Bound
<1>3. ParametersOK(job) /\ Partitions' = Partitions /\ Size' = Size
  BY <1>1, <1>2 DEF Balance, TypeOK, Partitions, Size
<1>4. Weighed'
  BY <1>1, <1>3 DEF Bound, Weighed
<1>5. Dealt'
  <2>1. \A k \in Partitions : bytes[k] = 0
    BY <1>1, <1>2 DEF Bound, Balance, Unapplied, Weighed
  <2>2. SumOf(bytes, Partitions) = 0
    BY <1>3, <2>1, NoBytes
  <2>3. PICK kept \in SUBSET job.matched : kept = results'
    BY <1>1
  <2>4. SumOf(Size, kept) <= SumOf(Size, job.matched)
    BY <1>3, JobFinite, SumOfSubset
  <2>5. SumOf(Size, kept) \in Nat
    BY <1>3, JobFinite, FS_Subset, SumType
  <2>6. 0 + SumOf(Size, kept) <= SumOf(Size, job.matched)
    BY <2>4, <2>5
  <2> QED BY <1>1, <1>3, <2>2, <2>3, <2>6 DEF Dealt
<1>6. Near'
  BY <1>1, <1>3, BestKept DEF Bound, Near
<1> QED BY <1>2, <1>4, <1>5, <1>6 DEF Bound

LEMMA DealBound ==
  ASSUME Bound, NEW f, NEW i, DealTo(f, i)
  PROVE  Bound'
<1>1. Balance /\ Weighed /\ Dealt /\ Near /\ Balance'
  BY DealBalance DEF Bound
<1>2. /\ ParametersOK(job) /\ f \in results /\ f \in job.matched /\ i \in Partitions
      /\ results \in SUBSET job.matched /\ results' = results \ {f} /\ job' = job
      /\ bytes \in [Partitions -> Nat] /\ bytes' = [bytes EXCEPT ![i] = bytes[i] + Size[f]]
      /\ out \in [Partitions -> SUBSET job.matched] /\ out' = [out EXCEPT ![i] = out[i] \cup {f}]
  BY <1>1 DEF Balance, TypeOK, DealTo, Size
<1>3. Partitions' = Partitions /\ Size' = Size /\ Size[f] \in Nat /\ bytes[i] \in Nat
  BY <1>2, JobFinite DEF Partitions, Size
<1>4. \A k \in Partitions : /\ out'[k] = IF k = i THEN out[i] \cup {f} ELSE out[k]
                            /\ bytes'[k] = IF k = i THEN bytes[i] + Size[f] ELSE bytes[k]
  BY <1>2
<1>5. Weighed'
  <2>1. \A k \in Partitions : out'[k] = {} => bytes'[k] = 0
    BY <1>1, <1>4 DEF Weighed
  <2>2. ASSUME NEW k \in Partitions, NEW g \in job.matched, out'[k] = {g}
        PROVE  bytes'[k] = Size[g]
    <3>1. CASE k # i
      BY <1>1, <1>4, <2>2, <3>1 DEF Weighed
    <3>2. CASE k = i
      <4>1. out[i] \cup {f} = {g} /\ f \notin out[i]
        BY <1>1, <1>2, <1>4, <2>2, <3>2 DEF Balance, Conserved
      <4>2. g = f /\ out[i] = {}
        BY <4>1
      <4>3. bytes[i] = 0
        BY <1>1, <1>2, <4>2 DEF Weighed
      <4> QED BY <1>3, <1>4, <3>2, <4>2, <4>3
    <3> QED BY <3>1, <3>2
  <2> QED BY <1>2, <1>3, <2>1, <2>2 DEF Weighed
<1>6. Dealt'
  <2>1. PICK d \in Nat : d = Size[f]
    BY <1>3
  <2>2. SumOf([bytes EXCEPT ![i] = bytes[i] + d], Partitions) = SumOf(bytes, Partitions) + d
    <3>1. IsFiniteSet(Partitions) /\ bytes \in [Partitions -> Nat] /\ i \in Partitions
      BY <1>2, JobFinite
    <3> QED BY <2>1, <3>1, SumIncreased
  <2>3. SumOf(bytes', Partitions) = SumOf(bytes, Partitions) + d
    <3>1. bytes' = [bytes EXCEPT ![i] = bytes[i] + d]
      BY <1>2, <2>1
    <3> QED BY <2>2, <3>1
  <2>4. IsFiniteSet(results) /\ \A g \in results : Size[g] \in Nat
    BY <1>2, JobFinite, FS_Subset
  <2>5. SumOf(Size, results) = Size[f] + SumOf(Size, results \ {f})
    BY <1>2, <2>4, SumRemove
  <2>6. IsFiniteSet(results \ {f}) /\ \A g \in results \ {f} : Size[g] \in Nat
    BY <2>4, FS_RemoveElement
  <2>7. SumOf(Size, results \ {f}) \in Nat
    BY <2>6, SumType
  <2>8. \A k \in Partitions : bytes[k] \in Nat
    BY <1>2
  <2>9. SumOf(bytes, Partitions) \in Nat
    BY <1>2, <2>8, JobFinite, SumType
  <2>10. SumOf(bytes', Partitions) + SumOf(Size, results \ {f})
           = SumOf(bytes, Partitions) + SumOf(Size, results)
    BY <2>1, <2>3, <2>5, <2>7, <2>9
  <2>11. SumOf(bytes', Partitions) + SumOf(Size, results \ {f}) <= SumOf(Size, job.matched)
    BY <1>1, <2>10 DEF Dealt
  <2> QED BY <1>2, <1>3, <2>11 DEF Dealt
<1>7. ASSUME NEW where \in [job.matched -> Partitions], NEW k \in Partitions
      PROVE  3 * job.partitions * bytes'[k] <= (4 * job.partitions - 1) * Best(where)
  <2>1. CASE k # i
    <3>1. bytes'[k] = bytes[k]
      BY <1>4, <2>1
    <3> QED BY <1>1, <3>1 DEF Near
  <2>2. CASE k = i
    <3>1. PICK m \in Nat \ {0}, L \in Nat, s \in Nat, O \in Nat :
            m = job.partitions /\ L = bytes[i] /\ s = Size[f] /\ O = Best(where)
      BY <1>2, <1>3, JobFinite, BestType
    <3>2. m * L + s <= m * O
      BY <1>1, <3>1, Averages
    <3>3. 3 * m * (L + s) <= (4 * m - 1) * O
      <4>1. CASE 3 * s <= O
        BY <3>2, <4>1, SmallFileBound
      <4>2. CASE O < 3 * s
        <5>1. L + s <= O
          BY <1>1, <3>1, <4>2, BigFileFits
        <5> QED BY <5>1, BigFileBound
      <4> QED BY <4>1, <4>2
    <3>4. bytes'[k] = L + s
      BY <1>4, <2>2, <3>1
    <3> QED BY <3>1, <3>3, <3>4
  <2> QED BY <2>1, <2>2
<1>8. Near'
  BY <1>2, <1>3, <1>7, BestKept DEF Near
<1> QED BY <1>1, <1>5, <1>6, <1>8 DEF Bound

(***************************************************************************)
(* However many files of whatever sizes and however many partitions: the   *)
(* heaviest partition that balance() makes is at most 4/3 - 1/(3m) times as*)
(* heavy as that of the best distribution there is (402-425).              *)
(***************************************************************************)
THEOREM NearOptimalCorrect == Spec => []NearOptimal
<1>1. Init => Bound
  BY InitBound
<1>2. Bound /\ [Next]_vars => Bound'
  <2> SUFFICES ASSUME Bound, [Next]_vars PROVE Bound'
    OBVIOUS
  <2>1. CASE Apply
    BY <2>1, ApplyBound
  <2>2. CASE Deal
    BY <2>2, DealsToOne, DealBound
  <2>3. CASE UNCHANGED vars
    <3>1. /\ job' = job /\ applied' = applied /\ results' = results /\ out' = out /\ bytes' = bytes
          /\ Partitions' = Partitions /\ Size' = Size
      BY <2>3 DEF vars, Partitions, Size
    <3>2. Balance'
      BY <3>1 DEF Bound, Balance, TypeOK, Unapplied, Ordered, NoMoveHelps, Conserved
    <3>3. Weighed' /\ Dealt'
      BY <3>1 DEF Bound, Weighed, Dealt
    <3>4. Near'
      BY <3>1, BestKept DEF Bound, Near
    <3> QED BY <3>2, <3>3, <3>4 DEF Bound
  <2> QED BY <2>1, <2>2, <2>3 DEF Next
<1>3. Bound => NearOptimal
  <2> SUFFICES ASSUME Bound, NEW where \in [job.matched -> Partitions]
               PROVE  3 * job.partitions * Heaviest(bytes) <= (4 * job.partitions - 1) * Best(where)
    BY DEF NearOptimal, Best
  <2>1. ParametersOK(job) /\ \A k \in Partitions : bytes[k] \in Nat
    BY DEF Bound, Balance, TypeOK
  <2>2. PICK k \in Partitions : Heaviest(bytes) = bytes[k]
    BY <2>1, HeaviestIs
  <2> QED BY <2>2 DEF Bound, Near
<1> QED BY <1>1, <1>2, <1>3, PTL DEF Spec
=============================================================================
