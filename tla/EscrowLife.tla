----------------------------- MODULE EscrowLife -----------------------------
(* What an escrow looks like from outside the ledger: how many milestones   *)
(* it has, how many the buyer released, and its status.  Escrow is shown to *)
(* implement this life cycle; Orders, whose requests are funded by escrows  *)
(* on the chain, relies on it.                                              *)
EXTENDS Naturals

CONSTANTS Ids,      \* escrows
          Counts    \* numbers of milestones an escrow may have

VARIABLE life

Unborn == [status |-> "none", released |-> 0, count |-> 0]

Undisputed == {"funded", "dispatched"}
Live       == Undisputed \cup {"disputed"}

LifeInit == life = [i \in Ids |-> Unborn]

Become(i, status, released) ==
  life' = [life EXCEPT ![i] = [status |-> status, released |-> released, count |-> @.count]]

Born(i, count) ==
  /\ life[i].status = "none"
  /\ life' = [life EXCEPT ![i] = [status |-> "funded", released |-> 0, count |-> count]]

Dispatched(i) ==
  /\ life[i].status = "funded"
  /\ Become(i, "dispatched", life[i].released)

Released(i) ==
  /\ life[i].status \in Undisputed
  /\ Become(i, IF life[i].released + 1 = life[i].count THEN "completed" ELSE life[i].status,
            life[i].released + 1)

Disputed(i) ==
  /\ life[i].status \in Undisputed
  /\ Become(i, "disputed", life[i].released)

Resolved(i) ==
  /\ life[i].status = "disputed"
  /\ Become(i, "resolved", life[i].released)

Refunded(i) ==
  /\ life[i].status \in Live
  /\ Become(i, "refunded", life[i].released)

Claimed(i) ==
  /\ life[i].status = "dispatched"
  /\ Become(i, "completed", life[i].count)

Moves(i) ==
  \/ Dispatched(i) \/ Released(i) \/ Disputed(i)
  \/ Resolved(i) \/ Refunded(i) \/ Claimed(i)

LifeNext == \E i \in Ids : (\E n \in Counts : Born(i, n)) \/ Moves(i)

LifeSpec == LifeInit /\ [][LifeNext]_life
=============================================================================
