------------------------------ MODULE MCEscrow ------------------------------
(* A buyer's, a seller's and an arbiter's account and one or two escrows.  *)
EXTENDS Escrow, TLC

MCGenesis == <<7, 1, 1>>
MCPlans   == {<<3>>, <<1, 2>>}
=============================================================================
