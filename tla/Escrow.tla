------------------------------- MODULE Escrow -------------------------------
(***************************************************************************)
(* Escrows: funds a buyer locks in the ledger, which only the escrow rules *)
(* move (escrowOp in node/ledger/ledger.go, the stateless checks in        *)
(* checkEscrowOp, node/types/types.go).  Everything an operation does goes *)
(* through the envelope of module Accounts.                                *)
(*                                                                         *)
(* An escrow's id is the hash of the transaction that created it and is    *)
(* unused until then; here it is the next free slot of 1..MaxEscrows.      *)
(* Times and the review period are in ticks of the block clock.            *)
(***************************************************************************)
EXTENDS Accounts, Bps, Sequences

CONSTANTS MaxEscrows, \* bound on the number of escrows ever created
          Plans,      \* milestone lists buyers choose
          ShipBys,    \* ship-by deadlines buyers choose
          Reviews,    \* review periods buyers choose
          Rates       \* arbiter rates buyers choose, at most MaxArbiterBps

EscrowIds == 1..MaxEscrows

Total(milestones) == SumTo(milestones, Len(milestones))

ASSUME EscrowAssumption ==
  /\ MaxEscrows \in Nat
  /\ \A m \in Plans : /\ m \in Seq(Amount \ {0})
                      /\ Len(m) > 0
                      /\ Total(m) < Modulus
  /\ ShipBys \subseteq Nat \ {0}
  /\ Reviews \subseteq Nat \ {0}
  /\ Rates \subseteq 0..BpsBase

(* No choice of milestones and fee makes total + fee exceed uint64.  The    *)
(* code does not check this sum (checkEscrowOp bounds the total alone).     *)
CostNeverWraps == \A m \in Plans, fee \in Fees : Total(m) + fee < Modulus

VARIABLE escrow

escrowVars == <<bal, supply, burned, now, escrow>>

OpenStatus   == {"funded", "dispatched", "disputed"}
ClosedStatus == {"completed", "refunded", "resolved"}

NoEscrow == [status |-> "none", buyer |-> NoIssuer, seller |-> NoIssuer,
             arbiter |-> NoIssuer, milestones |-> <<>>, released |-> 0,
             balance |-> 0, shipBy |-> 0, review |-> 0, dispatchedAt |-> 0,
             paidSeller |-> 0, paidBuyer |-> 0, rate |-> 0, arbiterFee |-> 0]

EscrowInit ==
  /\ AccountsInit
  /\ escrow = [i \in EscrowIds |-> NoEscrow]

Open(e) == e.status \in OpenStatus

(* Mutant of Pay: the escrow keeps what it pays. *)
PayKeepsBalance(e, to, amount) ==
  IF to = e.seller THEN [e EXCEPT !.paidSeller = Plus(@, amount)]
                   ELSE [e EXCEPT !.paidBuyer = Plus(@, amount)]

(* The escrow's side of "pay": the seller's and the buyer's receipts. *)
Pay(e, to, amount) ==
  IF to = e.seller
  THEN [e EXCEPT !.balance = Minus(@, amount), !.paidSeller = Plus(@, amount)]
  ELSE [e EXCEPT !.balance = Minus(@, amount), !.paidBuyer = Plus(@, amount)]

(* An operation on an existing escrow needs no fee; the balances become    *)
(* "after" before the sender's fee is taken, and the escrow becomes e.     *)
Operate(who, i, fee, after, e) ==
  /\ Admissible(who, fee, fee, TRUE)
  /\ Settle(after, supply, who, fee, fee)
  /\ escrow' = [escrow EXCEPT ![i] = e]
  /\ UNCHANGED now

EscrowCreate(buyer, seller, arbiter, milestones, shipBy, review, rate, fee) ==
  /\ seller # buyer /\ arbiter \notin {buyer, seller}          \* checkEscrowOp
  /\ shipBy > now
  /\ \E i \in EscrowIds :
       /\ escrow[i].status = "none"
       /\ \A j \in EscrowIds : j < i => escrow[j].status # "none"
       /\ escrow' = [escrow EXCEPT ![i] =
            [NoEscrow EXCEPT !.status = "funded", !.buyer = buyer,
               !.seller = seller, !.arbiter = arbiter,
               !.milestones = milestones, !.balance = Total(milestones),
               !.shipBy = shipBy, !.review = review, !.rate = rate]]
  /\ LET cost == Plus(Total(milestones), fee)
     IN  /\ Admissible(buyer, fee, cost, FALSE)
         /\ Settle(bal, supply, buyer, cost, fee)
  /\ UNCHANGED now

EscrowDispatch(who, i, fee) ==
  LET e == escrow[i] IN
  /\ Open(e)
  /\ who = e.seller /\ e.status = "funded"
  /\ Operate(who, i, fee, bal,
       [e EXCEPT !.status = "dispatched", !.dispatchedAt = now])

(* Mutant of EscrowRelease: the last milestone is counted off by one. *)
ReleaseNeverCompletes(who, i, fee) ==
  LET e      == escrow[i]
      amount == e.milestones[e.released + 1]
      paid   == [Pay(e, e.seller, amount) EXCEPT !.released = @ + 1]
  IN  /\ Open(e) /\ who = e.buyer /\ e.status # "disputed"
      /\ Operate(who, i, fee, Credit(bal, e.seller, amount),
           IF e.released = Len(e.milestones) THEN [paid EXCEPT !.status = "completed"] ELSE paid)

(* Mutant of EscrowRelease: a dispute does not stop it. *)
ReleaseInDispute(who, i, fee) ==
  LET e      == escrow[i]
      amount == e.milestones[e.released + 1]
      paid   == [Pay(e, e.seller, amount) EXCEPT !.released = @ + 1]
  IN  /\ Open(e) /\ who = e.buyer
      /\ Operate(who, i, fee, Credit(bal, e.seller, amount),
           IF e.released + 1 = Len(e.milestones) THEN [paid EXCEPT !.status = "completed"] ELSE paid)

EscrowRelease(who, i, fee) ==
  LET e      == escrow[i]
      amount == e.milestones[e.released + 1]
      paid   == [Pay(e, e.seller, amount) EXCEPT !.released = @ + 1]
  IN
  /\ Open(e)
  /\ who = e.buyer /\ e.status # "disputed"
  /\ Operate(who, i, fee, Credit(bal, e.seller, amount),
       IF e.released + 1 = Len(e.milestones)
       THEN [paid EXCEPT !.status = "completed"]
       ELSE paid)

EscrowDispute(who, i, fee) ==
  LET e == escrow[i] IN
  /\ Open(e)
  /\ who \in {e.buyer, e.seller} /\ e.status # "disputed"
  /\ Operate(who, i, fee, bal, [e EXCEPT !.status = "disputed"])

EscrowResolve(who, i, toSeller, fee) ==
  LET e       == escrow[i]
      cut     == Cut(e.balance, e.rate)
      toBuyer == e.balance - cut - toSeller
      paidArb == [e EXCEPT !.balance = Minus(@, cut), !.arbiterFee = cut]
  IN
  /\ Open(e)
  /\ who = e.arbiter /\ e.status = "disputed"
  /\ toSeller <= e.balance - cut
  /\ Operate(who, i, fee,
       Credit(Credit(Credit(bal, e.arbiter, cut), e.seller, toSeller), e.buyer, toBuyer),
       [Pay(Pay(paidArb, e.seller, toSeller), e.buyer, toBuyer)
          EXCEPT !.status = "resolved"])

EscrowRefund(who, i, fee) ==
  LET e == escrow[i] IN
  /\ Open(e)
  /\ \/ who = e.seller
     \/ who = e.buyer /\ e.status = "funded" /\ now > e.shipBy
  /\ Operate(who, i, fee, Credit(bal, e.buyer, e.balance),
       [Pay(e, e.buyer, e.balance) EXCEPT !.status = "refunded"])

EscrowClaim(who, i, fee) ==
  LET e == escrow[i] IN
  /\ Open(e)
  /\ who = e.seller
  /\ e.status = "dispatched" /\ now >= e.dispatchedAt + e.review
  /\ Operate(who, i, fee, Credit(bal, e.seller, e.balance),
       [Pay(e, e.seller, e.balance) EXCEPT !.released = Len(e.milestones),
                                           !.status = "completed"])

EscrowStep ==
  \/ \E buyer, seller, arbiter \in Accounts, m \in Plans, s \in ShipBys,
        r \in Reviews, rate \in Rates, fee \in Fees :
       EscrowCreate(buyer, seller, arbiter, m, s, r, rate, fee)
  \/ \E who \in Accounts, i \in EscrowIds, fee \in FreeFees :
       \/ EscrowDispatch(who, i, fee)
       \/ EscrowRelease(who, i, fee)
       \/ EscrowDispute(who, i, fee)
       \/ \E toSeller \in Amount : EscrowResolve(who, i, toSeller, fee)
       \/ EscrowRefund(who, i, fee)
       \/ EscrowClaim(who, i, fee)

EscrowNext == EscrowStep \/ (Tick /\ UNCHANGED escrow)

EscrowSpec == EscrowInit /\ [][EscrowNext]_escrowVars

-----------------------------------------------------------------------------
EscrowRecord ==
  [status : {"none"} \cup OpenStatus \cup ClosedStatus,
   buyer : Accounts \cup {NoIssuer}, seller : Accounts \cup {NoIssuer},
   arbiter : Accounts \cup {NoIssuer},
   milestones : {<<>>} \cup Plans, released : Nat, balance : Amount,
   shipBy : Nat, review : Nat, dispatchedAt : Nat,
   paidSeller : Amount, paidBuyer : Amount, rate : 0..BpsBase,
   arbiterFee : Amount]

(* Every entry of State.Escrows is a record of type Escrow with amounts    *)
(* within the width.                                                       *)
EscrowTypeOK ==
  /\ AccountsTypeOK
  /\ escrow \in [EscrowIds -> EscrowRecord]

(* What all escrows hold together. *)
Held == [i \in EscrowIds |-> escrow[i].balance]
TotalHeld == SumTo(Held, MaxEscrows)

(* Money is neither made nor lost by locking it, releasing it milestone by *)
(* milestone, splitting it under a dispute or returning it: accounts and   *)
(* escrows together hold exactly the supply (State.Supply, ledger.go:207). *)
EscrowConserved == TotalBalance + TotalHeld = supply

(* The sum of the milestones the buyer has not released yet. *)
Unreleased(e) ==
  Total(e.milestones) - PartialSums(e.milestones, Len(e.milestones))[e.released]

(* An open escrow holds exactly its unreleased milestones and at least one *)
(* is left, so release never takes more than is there; a closed one holds  *)
(* nothing, so no money stays locked where no rule can reach it.           *)
HeldMatchesMilestones ==
  \A i \in EscrowIds :
    LET e == escrow[i] IN
    /\ Open(e) => /\ e.released < Len(e.milestones)
                  /\ e.balance = Unreleased(e)
    /\ ~Open(e) => e.balance = 0

(* How an escrow that was funded ended decides who was paid what: completed *)
(* pays the seller everything; a refund leaves the seller exactly the      *)
(* milestones released before it; the arbiter is paid only by resolving,   *)
(* at most the agreed rate; and the shares always add up to the total.     *)
OutcomeMatchesStatus ==
  \A i \in EscrowIds :
    LET e == escrow[i]
        t == Total(e.milestones)
    IN  e.status # "none" =>
          /\ e.balance + e.paidSeller + e.paidBuyer + e.arbiterFee = t
          /\ e.status = "completed" => e.paidSeller = t
          /\ e.status # "resolved" => e.arbiterFee = 0
          /\ e.status = "refunded" => e.paidSeller = t - Unreleased(e)
          /\ e.arbiterFee * BpsBase <= Unreleased(e) * e.rate

(* The books of one escrow: what each status says about the milestones     *)
(* released and the receipts.  A recovery may make buyer and seller one    *)
(* key, and Pay then books a refund as the seller's.                       *)
Books(e) ==
  LET n   == Len(e.milestones)
      t   == Total(e.milestones)
      out == PartialSums(e.milestones, n)[e.released]
  IN  /\ e.status = "none" => e.balance = 0
      /\ e.status # "none" =>
           /\ e.milestones \in Plans
           /\ {e.buyer, e.seller, e.arbiter} \subseteq Accounts
           /\ e.released \in 0..n
           /\ e.released = n <=> e.status = "completed"
           /\ e.paidSeller >= out
           /\ e.balance + e.paidSeller + e.paidBuyer + e.arbiterFee = t
      /\ Open(e) => e.balance = t - out /\ e.arbiterFee = 0 /\ e.paidBuyer = 0
      /\ e.status \in ClosedStatus => e.balance = 0
      /\ e.status = "completed" => e.paidSeller = t
      /\ e.status = "refunded" => /\ e.arbiterFee = 0
                                  /\ e.buyer # e.seller => e.paidSeller = out
      /\ e.status = "resolved" => e.arbiterFee = Cut(t - out, e.rate)

(* Nothing is made or lost, every burned fee is accounted for, and the     *)
(* books of every escrow are right, whoever the parties are.               *)
EscrowMoney ==
  /\ EscrowTypeOK
  /\ EscrowConserved
  /\ BurnedIsAccounted
  /\ \A i \in EscrowIds : Books(escrow[i])

(* Buyer and seller are two keys: only a recovery can change this.         *)
PartiesDiffer ==
  \A i \in EscrowIds : escrow[i].status # "none" => escrow[i].buyer # escrow[i].seller

(* Money and books are right after any sequence of operations by any       *)
(* parties: the inductive invariant, from which the two statements above   *)
(* follow.                                                                 *)
EscrowInv == EscrowMoney /\ PartiesDiffer

(* What may become of escrow i in a step taken while it is disputed. *)
StaysFrozen(i) ==
  LET e == escrow[i]
      f == escrow'[i]
  IN  (e.status = "disputed" /\ f # e) =>
        \/ f.status = "resolved" /\ f.balance = 0
        \/ f.status = "refunded" /\ f.balance = 0 /\ f.paidSeller = e.paidSeller

(* A dispute freezes the money: from a disputed escrow it leaves only all   *)
(* at once, by the arbiter's resolution or back to the buyer.              *)
DisputeFreezes == [][\A i \in EscrowIds : StaysFrozen(i)]_escrowVars

-----------------------------------------------------------------------------
(* What the world sees of an escrow: status and milestones released.       *)
LifeOf(e) == [status |-> e.status, released |-> e.released, count |-> Len(e.milestones)]

Seen      == [i \in EscrowIds |-> LifeOf(escrow[i])]

Life == INSTANCE EscrowLife
          WITH Ids <- EscrowIds, Counts <- {Len(m) : m \in Plans}, life <- Seen

(* The ledger's escrow operations implement the life cycle of EscrowLife:  *)
(* whatever deadlines, fees and parties allow, an escrow is completed only *)
(* by the last release or by the claim of a dispatched one, resolved only  *)
(* out of a dispute, and a closed one never changes again.  This is what   *)
(* module Orders relies on when it follows escrows from outside.           *)
ImplementsLife == Life!LifeSpec
=============================================================================
