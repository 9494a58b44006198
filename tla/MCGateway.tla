----------------------------- MODULE MCGateway ------------------------------
(* One deposit, 1, and one withdrawal, 3.  Any fault is one of FaultKinds; *)
(* those the gateway is not built to survive come one at a time.           *)
EXTENDS Gateway

MCFaultSets == {{}, UsualFaults} \cup {{f} : f \in FaultKinds \ UsualFaults}
MCSlowNode  == {{"crash", "slowNode"}}
=============================================================================
