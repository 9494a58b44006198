------------------------------ MODULE MCOrders ------------------------------
(* An invoice and an escrow request, each on its own: the watcher treats    *)
(* them independently of each other.                                        *)
EXTENDS Orders, TLC

MCScenarios == {{1}, {2}}
=============================================================================
