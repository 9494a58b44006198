------------------------------- MODULE MCBft --------------------------------
(* A sender's first transaction, void from time 3 on, and its second; in   *)
(* proposals in the wrong order, and behind bytes that do not parse in a   *)
(* block that has no room for both.                                        *)
EXTENDS Bft

A == [from |-> 1, nonce |-> 0, shipBy |-> 3]
B == [from |-> 1, nonce |-> 1, shipBy |-> 9]

MCTxs       == {A, B}
MCProposals == {<<B, A>>, <<Malformed, A, B>>}
=============================================================================
