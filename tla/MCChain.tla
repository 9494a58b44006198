------------------------------ MODULE MCChain -------------------------------
(* Two senders; two transactions compete for a nonce, and the next one of  *)
(* the same sender can be executed only once the other sender paid.        *)
EXTENDS Chain

Tx(f, n, t, p, u) == [from |-> f, nonce |-> n, to |-> t, pay |-> p, upto |-> u]

MCTxs  == {Tx(1, 0, 2, 1, 3), Tx(1, 0, 2, 2, 3), Tx(1, 1, 2, 1, 1), Tx(2, 0, 1, 1, 3)}
MCTxs3 == {Tx(1, 0, 2, 1, 3), Tx(1, 1, 2, 1, 1), Tx(2, 0, 1, 1, 3)}
MCProxyTxs == {Tx(1, 0, 2, 1, 3)}
MCGenesisBal == [u \in Users |-> IF u = 1 THEN 2 ELSE 1]
=============================================================================
