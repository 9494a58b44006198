----------------------------- MODULE MCIdentity -----------------------------
(* Two wallets, one of which may be recovered to the other, with two names *)
(* and two numbers; the kinds of request that read each other's stores     *)
(* come together.                                                          *)
EXTENDS Identity, TLC

MCScenarios == {{"phone", "migrate"}, {"name", "signin", "migrate"}, {"name", "refer", "migrate"}}

MCSymmetry == UNION {Permutations(S) : S \in {Addrs, Names, Numbers, Codes, Clients}}
=============================================================================
