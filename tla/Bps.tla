-------------------------------- MODULE Bps ---------------------------------
(***************************************************************************)
(* A rate in basis points applied to an amount, as the ledger computes an  *)
(* arbiter's fee and a circle's insurance cut: in two parts, so that no    *)
(* product exceeds 64 bits.                                                *)
(***************************************************************************)
EXTENDS Integers

CONSTANT BpsBase  \* 10_000 in the code

ASSUME BpsAssumption == BpsBase \in Nat \ {0}

Cut(amount, rate) ==
  (amount \div BpsBase) * rate + ((amount % BpsBase) * rate) \div BpsBase
=============================================================================
