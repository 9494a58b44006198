------------------------------ MODULE Recovery ------------------------------
(***************************************************************************)
(* Recovery over a ledger that holds escrows and a saving circle:          *)
(* moveAccount (guard.go) also rewrites every escrow role the recovered    *)
(* key had, whatever the escrow's status, and hands over its seat unless   *)
(* the new key has one.  Composes modules Guard and Escrow with the seats  *)
(* of a circle that was already created: its own operations exchange seats *)
(* at most, and are the subject of module Pool.                            *)
(***************************************************************************)
EXTENDS Guard, Escrow

CONSTANT Circles   \* the circles there may be: members, one a seat, and creator

CircleRecord == [members : Seq(Accounts), creator : Accounts]

ASSUME CirclesAssumption ==
  /\ Circles \subseteq CircleRecord
  /\ \A c \in Circles :
       /\ \A j, k \in DOMAIN c.members : c.members[j] = c.members[k] => j = k
       /\ \E k \in DOMAIN c.members : c.members[k] = c.creator

(* Recovery steps and operations on escrows carry no fee, as the apps send *)
(* them.  The code does not check that the recovered key, which is empty   *)
(* once finish was applied, can pay one (guard.go, apply in ledger.go).    *)
StepsAreFree == FreeFees \subseteq {0}

VARIABLE circle

recoveryEscrowVars ==
  <<bal, supply, burned, now, guard, recoveredTo, recoveries, escrow, circle>>

RecoveryInit == GuardInit /\ EscrowInit /\ circle \in Circles

(* Mutant of MoveRoles: the two keys are exchanged. *)
MoveRolesBack(old, new) ==
  LET Moved(r) == IF r = new THEN old ELSE r
  IN  [i \in EscrowIds |-> [escrow[i] EXCEPT !.buyer = Moved(@), !.seller = Moved(@),
                                             !.arbiter = Moved(@)]]

(* moveAccount, the escrows' part of it. *)
MoveRoles(old, new) ==
  LET Moved(r) == IF r = old THEN new ELSE r
  IN  [i \in EscrowIds |-> [escrow[i] EXCEPT !.buyer = Moved(@), !.seller = Moved(@),
                                             !.arbiter = Moved(@)]]

(* moveAccount, the circles' part of it: a key holds one seat at most. *)
MoveSeats(old, new) ==
  LET Moved(m) == IF m = old THEN new ELSE m
      seats    == DOMAIN circle.members
  IN  IF \E k \in seats : circle.members[k] = new
      THEN circle
      ELSE [members |-> [k \in seats |-> Moved(circle.members[k])],
            creator |-> Moved(circle.creator)]

RecoveryFinish(from, a, fee) ==
  /\ GuardFinish(from, a, fee)
  /\ escrow' = MoveRoles(a, guard[a].pending.newOwner)
  /\ circle' = MoveSeats(a, guard[a].pending.newOwner)

RecoveryNext ==
  \/ GuardStep /\ UNCHANGED <<escrow, circle>>
  \/ \E from, a \in Accounts, fee \in FreeFees : RecoveryFinish(from, a, fee)
  \/ EscrowStep /\ UNCHANGED recoveryVars /\ UNCHANGED circle
  \/ Tick /\ UNCHANGED <<guard, recoveredTo, recoveries, escrow, circle>>

RecoverySpec == RecoveryInit /\ [][RecoveryNext]_recoveryEscrowVars

-----------------------------------------------------------------------------
(* Recoveries into keys that have a seat, out of them and back again leave *)
(* every seat to one key, so that nobody collects twice in a circle, and   *)
(* the creator, who alone may cancel it, one of its members.               *)
SeatsStayApart ==
  LET seats == DOMAIN circle.members
  IN  /\ \A j, k \in seats : circle.members[j] = circle.members[k] => j = k
      /\ \E k \in seats : circle.members[k] = circle.creator

(* Recoveries started, approved, cancelled and finished in any order leave  *)
(* the money of accounts and escrows whole, every quorum reachable, the     *)
(* safety window running exactly from the quorum of the present recovery,   *)
(* and the seats of circles to one key each.                                *)
RecoveryInv ==
  /\ GuardTypeOK /\ EscrowMoney /\ circle \in CircleRecord
  /\ GuardsAreReal /\ WindowRunsFromQuorum /\ SeatsStayApart

(* A role or seat that was old's is new's: the same key, or the one an     *)
(* approved recovery of old out of its window goes to.                     *)
Inherits(old, new) ==
  \/ old = new
  \/ /\ Finishable(old)
     /\ new = guard[old].pending.newOwner
     /\ recoveredTo'[old] = new

(* What a step may do to the parties of escrow i, if it is open.           *)
KeepsRoles(i) ==
  LET e == escrow[i]
      f == escrow'[i]
  IN  Open(e) => /\ Inherits(e.buyer, f.buyer)
                 /\ Inherits(e.seller, f.seller)
                 /\ Inherits(e.arbiter, f.arbiter)
                 /\ recoveries' > recoveries => f.balance = e.balance /\ f.status = e.status

KeepsSeats == \A k \in DOMAIN circle.members : Inherits(circle.members[k], circle'.members[k])

(* The safety delay protects the old key's escrows and seats too: a step   *)
(* that takes a role in an open escrow, or a seat, from its holder is the  *)
(* finish of a recovery of that holder, out of its window, and hands it to *)
(* the approved key.                                                       *)
RolesMoveByRecovery ==
  [][(\A i \in EscrowIds : KeepsRoles(i)) /\ KeepsSeats]_recoveryEscrowVars
=============================================================================
