--------------------------------- MODULE XRootD ---------------------------------
(***************************************************************************)
(* XRootD.apply and XRootD.balance of scaroot-reader (reader.scala): the   *)
(* files on a server that match a glob are dealt out to the partitions of  *)
(* a Spark job, biggest first, each to the partition that has the fewest   *)
(* bytes so far.  The matching of the glob and the server's directories are*)
(* not modelled: job.matched is what matches returns.                      *)
(***************************************************************************)
EXTENDS Integers, FiniteSetsExt

CONSTANT Jobs     \* the files found and the partitions asked for

VARIABLES
  job,       \* matched: the files; size: their sizes; partitions
  applied,   \* apply has returned
  results,   \* the files apply returned that have not been dealt out
  out,       \* the files of each partition
  bytes      \* size(out(i)), which the code adds up every time

vars == <<job, applied, results, out, bytes>>

Partitions == 0 .. job.partitions - 1

ParametersOK(j) ==
  /\ IsFiniteSet(j.matched)
  /\ j.size \in [j.matched -> Nat]
  /\ j.partitions \in Nat \ {0}

ASSUME ParametersAssumption == \A j \in Jobs : ParametersOK(j)

TypeOK ==
  /\ ParametersOK(job)
  /\ applied \in BOOLEAN
  /\ results \subseteq job.matched
  /\ out \in [Partitions -> SUBSET job.matched]
  /\ bytes \in [Partitions -> Nat]

Init ==
  /\ job \in Jobs
  /\ applied = FALSE /\ results = {}
  /\ out = [i \in Partitions |-> {}]
  /\ bytes = [i \in Partitions |-> 0]

-----------------------------------------------------------------------------
(***************************************************************************)
(* SortedSet[File](results)(Ordering.by(-_.size)): a set takes two elements*)
(* that its ordering does not tell apart for one.  Which of them it keeps  *)
(* depends on the order in which the server lists them.                    *)
(***************************************************************************)
\* Mutant: the ordering is by kilobytes.
SameInUnits(f, g) == job.size[f] \div 2 = job.size[g] \div 2

Same(f, g) == job.size[f] = job.size[g]

DropsDuplicates(kept) ==
  /\ \A f, g \in kept : f # g => ~Same(f, g)
  /\ \A f \in job.matched : \E g \in kept : Same(f, g)

Apply ==
  /\ ~applied
  /\ applied' = TRUE
  /\ \E kept \in SUBSET job.matched : DropsDuplicates(kept) /\ results' = kept
  /\ UNCHANGED <<job, out, bytes>>

\* Mutant: the minus sign of the ordering is forgotten.
SmallestFirst(f) == f \in results /\ \A g \in results : job.size[f] <= job.size[g]

BiggestFirst(f) == f \in results /\ \A g \in results : job.size[g] <= job.size[f]

\* Mutant: the last partition is never looked at.
MinimumButLast(i) ==
  \A k \in 0 .. job.partitions - 2 : bytes[i] < bytes[k] \/ (bytes[i] = bytes[k] /\ i <= k)

\* minimum: the first of the partitions with the fewest bytes.
Minimum(i) == \A k \in Partitions : bytes[i] < bytes[k] \/ (bytes[i] = bytes[k] /\ i <= k)

\* out(minimum) += file
Deal ==
  /\ applied
  /\ \E f \in results, i \in Partitions :
       /\ BiggestFirst(f) /\ Minimum(i)
       /\ results' = results \ {f}
       /\ out' = [out EXCEPT ![i] = @ \cup {f}]
       /\ bytes' = [bytes EXCEPT ![i] = @ + job.size[f]]
  /\ UNCHANGED <<job, applied>>

Next == Apply \/ Deal

Spec == Init /\ [][Next]_vars

\* The files for which nothing is dropped.
DifferentSizes == \A f, g \in job.matched : f # g => job.size[f] # job.size[g]

RegularInit == Init /\ DifferentSizes
RegularSpec == RegularInit /\ [][Next]_vars

Done == applied /\ results = {}

-----------------------------------------------------------------------------
(***************************************************************************)
(* "looks up files on XRootD and makes a set of file sets"                 *)
(* (spark-examples): every file that matches is read by exactly one        *)
(* partition.                                                              *)
(***************************************************************************)
EveryFileOnce ==
  Done => \A f \in job.matched :
            \E i \in Partitions : \A k \in Partitions : f \in out[k] <=> k = i

(***************************************************************************)
(* "balanced by size": without any one of its files, a partition would have*)
(* no more bytes than any other, so no file could move to advantage.       *)
(***************************************************************************)
NoMoveHelps ==
  \A i, k \in Partitions : \A f \in out[i] : bytes[i] <= bytes[k] + job.size[f]

(***************************************************************************)
(* "balanced by size", as a whole: the heaviest partition is at most       *)
(* 4/3 - 1/(3m) times as heavy as that of the best distribution over m     *)
(* partitions.                                                             *)
(***************************************************************************)
Heaviest(load) == CHOOSE b \in { load[i] : i \in Partitions } : \A i \in Partitions : load[i] <= b
LoadOf(where)  == [i \in Partitions |-> MapThenSumSet(LAMBDA f : job.size[f], { f \in job.matched : where[f] = i })]

NearOptimal ==
  Done => \A where \in [job.matched -> Partitions] :
            3 * job.partitions * Heaviest(bytes) <= (4 * job.partitions - 1) * Heaviest(LoadOf(where))
=============================================================================
