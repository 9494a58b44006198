-------------------------------- MODULE Sums --------------------------------
(***************************************************************************)
(* Sums of a list of amounts.  The ledger adds amounts up in loops: the    *)
(* total of an escrow's milestones, everything all accounts hold.  The     *)
(* folds of the community modules choose an arbitrary order over a set,    *)
(* which TLAPS cannot reason about without induction over operators, so    *)
(* the sum is a recursive function over 1..n here and SumsProofs proves    *)
(* the facts about it by the least-counterexample argument.                *)
(***************************************************************************)
EXTENDS Integers

(* PartialSums(f, n)[k] = f[1] + ... + f[k] *)
PartialSums(f, n) ==
  LET S[k \in 0..n] == IF k = 0 THEN 0 ELSE S[k - 1] + f[k]
  IN  S

SumTo(f, n) == PartialSums(f, n)[n]
=============================================================================
