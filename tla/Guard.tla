------------------------------- MODULE Guard --------------------------------
(***************************************************************************)
(* Social recovery (node/ledger/guard.go, the stateless checks in          *)
(* checkGuardOp, node/types/types.go): guardians an owner names move the   *)
(* account to a new key once enough of them approved it and a safety delay *)
(* passed in which the old key can cancel.                                 *)
(*                                                                         *)
(* Guardians are distinct and so are approvals, and neither's order is     *)
(* read by a rule: both are sets.  Recovery.StartedAt is recorded and      *)
(* never read, and left out.  Delays are in ticks of the block clock.      *)
(***************************************************************************)
EXTENDS Accounts, FiniteSets

CONSTANTS GuardianSets, \* sets of guardians owners choose
          Delays,       \* safety delays owners choose
          MaxRecoveries \* bound on the recoveries finished

ASSUME GuardAssumption ==
  /\ \A G \in GuardianSets : G \subseteq Accounts /\ G # {} /\ IsFiniteSet(G)
  /\ Delays \subseteq Nat \ {0}
  /\ MaxRecoveries \in Nat

VARIABLES guard,       \* State.Guards
          recoveredTo, \* State.RecoveredTo, NoIssuer where absent
          recoveries   \* how many recoveries were finished

recoveryVars == <<guard, recoveredTo, recoveries>>
guardVars    == <<bal, supply, burned, now, guard, recoveredTo, recoveries>>

NoRecovery == [newOwner |-> NoIssuer, approvals |-> {}, readyAt |-> 0]
NoGuard    == [guardians |-> {}, threshold |-> 0, delay |-> 0, pending |-> NoRecovery]

GuardInit ==
  /\ AccountsInit
  /\ guard = [a \in Accounts |-> NoGuard]
  /\ recoveredTo = [a \in Accounts |-> NoIssuer]
  /\ recoveries = 0

Guarded(a)   == guard[a].guardians # {}
Pending(a)   == guard[a].pending # NoRecovery
Approvals(a) == guard[a].pending.approvals

(* Mutant of WithQuorum: the first approval starts the window. *)
WindowFromFirst(g, p) == IF p.readyAt = 0 THEN [p EXCEPT !.readyAt = now + g.delay] ELSE p

(* Approvals that make the quorum start the delay, unless it already runs. *)
WithQuorum(g, p) ==
  IF Cardinality(p.approvals) >= g.threshold /\ p.readyAt = 0
  THEN [p EXCEPT !.readyAt = now + g.delay]
  ELSE p

(* Every step but set is free, and the fee, if any, is taken after it. *)
GuardTx(from, fee, after) ==
  /\ Admissible(from, fee, fee, TRUE)
  /\ Settle(after, supply, from, fee, fee)
  /\ UNCHANGED now

GuardSet(from, guardians, threshold, delay, fee) ==
  /\ from \notin guardians                                     \* checkGuardOp
  /\ ~Pending(from) /\ recoveredTo[from] = NoIssuer
  /\ guard' = [guard EXCEPT ![from] =
       [guardians |-> guardians, threshold |-> threshold, delay |-> delay,
        pending |-> NoRecovery]]
  /\ Admissible(from, fee, fee, FALSE)
  /\ Settle(bal, supply, from, fee, fee)
  /\ UNCHANGED <<now, recoveredTo, recoveries>>

GuardStart(from, a, newOwner, fee) ==
  /\ newOwner # a                                              \* checkGuardOp
  /\ from \in guard[a].guardians /\ ~Pending(a)
  /\ guard' = [guard EXCEPT ![a].pending =
       WithQuorum(guard[a], [newOwner |-> newOwner, approvals |-> {from}, readyAt |-> 0])]
  /\ GuardTx(from, fee, bal)
  /\ UNCHANGED <<recoveredTo, recoveries>>

GuardApprove(from, a, newOwner, fee) ==
  /\ from \in guard[a].guardians
  /\ Pending(a) /\ guard[a].pending.newOwner = newOwner
  /\ from \notin Approvals(a)
  /\ guard' = [guard EXCEPT ![a].pending =
       WithQuorum(guard[a], [guard[a].pending EXCEPT !.approvals = @ \cup {from}])]
  /\ GuardTx(from, fee, bal)
  /\ UNCHANGED <<recoveredTo, recoveries>>

GuardCancel(from, fee) ==
  /\ Pending(from)
  /\ guard' = [guard EXCEPT ![from].pending = NoRecovery]
  /\ GuardTx(from, fee, bal)
  /\ UNCHANGED <<recoveredTo, recoveries>>

(* moveAccount, the accounts' and the guardians' part of it. *)
MoveBalance(old, new) == [Credit(bal, new, bal[old]) EXCEPT ![old] = 0]

MoveGuard(old, new) ==
  [guard EXCEPT ![new] = [guard[old] EXCEPT !.pending = NoRecovery], ![old] = NoGuard]

(* Mutant of Finishable: the safety delay is not awaited. *)
FinishableAtOnce(a) == Pending(a) /\ Cardinality(Approvals(a)) >= guard[a].threshold

Finishable(a) ==
  /\ Pending(a)
  /\ Cardinality(Approvals(a)) >= guard[a].threshold
  /\ now >= guard[a].pending.readyAt

GuardFinish(from, a, fee) ==
  LET new == guard[a].pending.newOwner IN
  /\ recoveries < MaxRecoveries
  /\ Finishable(a)
  /\ guard' = MoveGuard(a, new)
  /\ recoveredTo' = [recoveredTo EXCEPT ![a] = new]
  /\ recoveries' = recoveries + 1
  /\ GuardTx(from, fee, MoveBalance(a, new))

(* Every recovery step but finish. *)
GuardStep ==
  \/ \E from \in Accounts, G \in GuardianSets, delay \in Delays, fee \in Fees :
       \E threshold \in 1..Cardinality(G) : GuardSet(from, G, threshold, delay, fee)
  \/ \E from, a, newOwner \in Accounts, fee \in FreeFees :
       \/ GuardStart(from, a, newOwner, fee)
       \/ GuardApprove(from, a, newOwner, fee)
  \/ \E from \in Accounts, fee \in FreeFees : GuardCancel(from, fee)

-----------------------------------------------------------------------------
RecoveryRecord ==
  [newOwner : Accounts \cup {NoIssuer}, approvals : SUBSET Accounts, readyAt : Nat]

GuardRecord ==
  [guardians : SUBSET Accounts, threshold : Nat, delay : Nat, pending : RecoveryRecord]

(* State.Guards maps an account to the owner's settings and at most one    *)
(* recovery (Guardianship), by accounts that exist.                        *)
GuardTypeOK ==
  /\ AccountsTypeOK
  /\ guard \in [Accounts -> GuardRecord]
  /\ recoveredTo \in [Accounts -> Accounts \cup {NoIssuer}]
  /\ recoveries \in 0..MaxRecoveries
  /\ \A a \in Accounts : Guarded(a) => guard[a].threshold \in 1..Cardinality(guard[a].guardians)

(* Only an account with guardians has a recovery, to an account, after a   *)
(* delay.                                                                  *)
GuardsAreReal ==
  \A a \in Accounts :
    /\ IsFiniteSet(guard[a].guardians)
    /\ Guarded(a) => guard[a].delay > 0
    /\ Pending(a) => Guarded(a) /\ guard[a].pending.newOwner \in Accounts

(* A pending recovery is carried by current guardians only, and its safety *)
(* window runs exactly when a quorum of them approved this key; a window   *)
(* that is set without a quorum, or a quorum without one, would let finish *)
(* move the account with no time left for the old key to cancel.           *)
WindowRunsFromQuorum ==
  \A a \in Accounts :
    LET g == guard[a]
        p == g.pending
    IN  Pending(a) =>
          /\ p.approvals \subseteq g.guardians
          /\ p.newOwner # a
          /\ p.readyAt # 0 <=> Cardinality(p.approvals) >= g.threshold
          /\ p.readyAt # 0 => p.readyAt <= now + g.delay

(* What a step may do to the recovery and the money of account a. *)
KeepsFaith(a) ==
  LET g == guard[a]
      h == guard'[a]
  IN  /\ (Pending(a) /\ h.pending # NoRecovery) =>
           /\ h.pending.newOwner = g.pending.newOwner
           /\ h.guardians = g.guardians /\ h.threshold = g.threshold
           /\ g.pending.approvals \subseteq h.pending.approvals
           /\ g.pending.readyAt # 0 => h.pending.readyAt = g.pending.readyAt
      /\ recoveries' > recoveries /\ bal'[a] < bal[a] =>
           /\ bal'[a] = 0
           /\ Pending(a) /\ g.pending.readyAt \in 1..now
           /\ recoveredTo'[a] = g.pending.newOwner

(* While a recovery of a stays pending its key, its quorum rule and a      *)
(* window that began stay fixed and approvals only accumulate, so what a   *)
(* guardian approved is what finish carries out; an account's money leaves *)
(* without its own transaction only through a recovery whose window had    *)
(* passed, and then all of it.                                             *)
RecoveryKeepsFaith == [][\A a \in Accounts : KeepsFaith(a)]_guardVars
=============================================================================
