--------------------------------- MODULE Folding ---------------------------------
(***************************************************************************)
(* A fold over a sequence that TLC evaluates once for each of its items:   *)
(* the set of one element makes it compute what a step is applied to       *)
(* before the step, where FoldLeft passes it on unevaluated.               *)
(***************************************************************************)
EXTENDS Integers, Sequences

Fold(op(_, _), base, seq) ==
  LET after[i \in 0 .. Len(seq)] ==
        IF i = 0 THEN base
        ELSE CHOOSE next \in {op(before, seq[i]) : before \in {after[i - 1]}} : TRUE
  IN  after[Len(seq)]

\* op(x, s) gives [out, s]: the results of applying it to each x in turn.
Thread(op(_, _), xs, s0) ==
  Fold(LAMBDA acc, x : LET r == op(x, acc.s)
                       IN  [out |-> Append(acc.out, r.out), s |-> r.s],
       [out |-> <<>>, s |-> s0], xs)
=============================================================================
