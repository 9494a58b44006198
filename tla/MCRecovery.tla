----------------------------- MODULE MCRecovery -----------------------------
(* Three accounts in all roles: parties of the escrow, guardians, owners   *)
(* and new keys, so that recovered keys are guardians and owners again.    *)
EXTENDS Recovery, TLC

MCGenesis      == <<2, 1, 0>>
MCPlans        == {<<1, 1>>}
MCGuardianSets == {{1}, {2, 3}}
\* two of the keys have a seat: a recovery may meet the new key in the circle
MCCircles      == {[members |-> <<1, 2>>, creator |-> 1]}
=============================================================================
