-------------------------------- MODULE Pool --------------------------------
(***************************************************************************)
(* Saving circles (poolOp in node/ledger/ledger.go, the rules shared by    *)
(* the modes in circle.go, the stateless checks in checkPoolOp, types.go). *)
(*                                                                         *)
(* A transaction names one pool and no rule reads another, so the module   *)
(* keeps one.  Slices that the code allocates on first use are zero until  *)
(* then; Paid[j] is "PaidAmt[j] is the contribution", which is how payIn   *)
(* keeps the two when it has both.  PaidOut is recorded, never read, and   *)
(* left out.  Seats count from 1, Round from 0 as in the code.             *)
(***************************************************************************)
EXTENDS Accounts, Bps, FiniteSets

CONSTANTS NumSeats,  \* members of the circle
          Offers     \* the circles creators choose from, see Terms

Seats == 1..NumSeats

(* A schedule of length 0 is none, as are a deposit, a rate and a target   *)
(* of 0.                                                                   *)
Terms == [members : [Seats -> Accounts], mode : {"rotation", "lottery", "bidding", "goal"},
          contribution : Amount \ {0}, roundLen : Nat, deposit : Amount,
          rate : 0..BpsBase, target : Amount]

ASSUME PoolAssumption ==
  /\ NumSeats \in Nat \ {0, 1}
  /\ Offers \subseteq Terms
  /\ \A t \in Offers, j, k \in Seats : t.members[j] = t.members[k] => j = k

VARIABLE pool

poolVars == <<bal, supply, burned, now, pool>>

Never     == -1      \* no StartedAt yet: 0 in the code, which no block time is
NoMember  == NoIssuer
Nothing   == [j \in Seats |-> 0]
Nobody    == [j \in Seats |-> FALSE]

NoPool ==
  [status |-> "none", mode |-> "rotation", creator |-> NoMember,
   members |-> [j \in Seats |-> NoMember], contribution |-> 0,
   roundLen |-> 0, deposit |-> 0, rate |-> 0, target |-> 0,
   startedAt |-> Never, round |-> 0, balance |-> 0, insurance |-> 0,
   joined |-> Nobody, claimed |-> Nobody, withdrawn |-> Nobody,
   paid |-> Nothing, prepaid |-> Nothing, deposits |-> Nothing,
   defaults |-> Nothing, bids |-> Nothing, saved |-> Nothing,
   swapWith |-> [j \in Seats |-> NoMember]]

PoolInit ==
  /\ AccountsInit
  /\ pool = NoPool

-----------------------------------------------------------------------------
Member(p, a)  == \E j \in Seats : p.members[j] = a
SeatOf(p, a)  == CHOOSE j \in Seats : p.members[j] = a
Goal(p)       == p.mode = "goal"
Scheduled(p)  == p.roundLen > 0
DueAt(p)      == p.startedAt + (p.round + 1) * p.roundLen
Paid(p, j)    == p.paid[j] = p.contribution
AllPaid(p)    == \A j \in Seats : Paid(p, j)
Missing(p, j) == p.contribution - p.paid[j]
Pot(p)        == p.contribution * NumSeats

RoundsLeft(p, j) ==
  NumSeats - p.round - (IF p.status = "active" /\ Paid(p, j) THEN 1 ELSE 0)

(* Pay each member of the circle his part of v. *)
CreditSeats(b, p, v) ==
  [a \in Accounts |-> IF Member(p, a) THEN Plus(b[a], v[SeatOf(p, a)]) ELSE b[a]]

(* Mutant of PayIn: an instalment settles the whole round. *)
PayInWhole(p, j, amount) ==
  [p EXCEPT !.paid[j] = p.contribution, !.balance = Plus(@, amount)]

PayIn(p, j, amount) ==
  [p EXCEPT !.paid[j] = @ + amount, !.balance = Plus(@, amount)]

(* Pool.autopay: whoever has enough set aside for the rest of this round. *)
Autopaid(p) ==
  LET due  == {j \in Seats : ~Paid(p, j) /\ p.prepaid[j] >= Missing(p, j)}
      take == [j \in Seats |-> IF j \in due THEN Missing(p, j) ELSE 0]
  IN  IF p.status # "active"
      THEN p
      ELSE [p EXCEPT !.prepaid = [j \in Seats |-> @[j] - take[j]],
                     !.paid = [j \in Seats |-> @[j] + take[j]],
                     !.balance = Plus(@, SumTo(take, NumSeats))]

(* swapIdx and drawOrder: seat k is taken over by the member of seat s[k], *)
(* with everything tracked per member.                                     *)
Reseated(p, s) ==
  LET Moved(f) == [k \in Seats |-> f[s[k]]]
  IN  [p EXCEPT !.members = Moved(@), !.joined = Moved(@), !.paid = Moved(@),
                !.claimed = Moved(@), !.deposits = Moved(@), !.defaults = Moved(@),
                !.prepaid = Moved(@), !.bids = Moved(@), !.saved = Moved(@),
                !.withdrawn = Moved(@), !.swapWith = Moved(@)]

(* The draw is a hash of the pool id and the start time: any order.        *)
Draws == {s \in [Seats -> Seats] : \A j, k \in Seats : s[j] = s[k] => j = k}

(* Mutant of Recipient: seats counted from 0 and rounds from 1. *)
RecipientOffByOne(p) == IF p.round = 0 THEN 1 ELSE p.round

(* Who collects: the fixed turn, or the largest bid of those still owed a  *)
(* pot (ties to the earliest seat), or the first of them.                  *)
Recipient(p) ==
  LET owed == {j \in Seats : ~p.claimed[j]}
      bids == {j \in owed : p.bids[j] > 0}
      Beats(j, k) == p.bids[j] > p.bids[k] \/ (p.bids[j] = p.bids[k] /\ j <= k)
  IN  IF p.mode # "bidding"
      THEN p.round + 1
      ELSE CHOOSE j \in owed : IF bids # {}
                               THEN j \in bids /\ \A k \in bids : Beats(j, k)
                               ELSE \A k \in owed : j <= k

(* Mutant of CoverSeat: a payment covered by a deposit is not noted. *)
CoverSeatUnnoted(p, j) ==
  LET missing == Missing(p, j) IN
  IF Paid(p, j) THEN p
  ELSE IF p.deposits[j] >= missing
  THEN [p EXCEPT !.deposits[j] = @ - missing, !.balance = Plus(@, missing)]
  ELSE [p EXCEPT !.defaults[j] = @ + 1]

(* payout, the missed payment of seat j: covered from the member's deposit *)
(* or else from the circle's insurance, if either covers all of it.        *)
CoverSeat(p, j) ==
  LET missing == Missing(p, j)
      noted   == IF Scheduled(p) THEN [p EXCEPT !.defaults[j] = @ + 1] ELSE p
  IN  IF Paid(p, j) THEN p
      ELSE IF p.deposits[j] >= missing
      THEN [noted EXCEPT !.deposits[j] = @ - missing, !.balance = Plus(@, missing)]
      ELSE IF p.insurance >= missing
      THEN [noted EXCEPT !.insurance = @ - missing, !.balance = Plus(@, missing)]
      ELSE noted

Covered(p) ==
  LET upTo[k \in 0..NumSeats] == IF k = 0 THEN p ELSE CoverSeat(upTo[k - 1], k)
  IN  upTo[NumSeats]

(* What seat i's payout hands to each seat, and the circle it leaves.      *)
Payout(p, i) ==
  LET q      == Covered(p)
      cut    == Cut(q.balance, q.rate)
      pot    == q.balance - cut
      offer  == IF q.bids[i] < pot THEN q.bids[i] ELSE pot
      share  == offer \div (NumSeats - 1)
      pay    == [j \in Seats |-> IF j = i THEN pot - share * (NumSeats - 1) ELSE share]
      next   == [q EXCEPT !.balance = 0, !.insurance = Plus(@, cut), !.claimed[i] = TRUE,
                          !.round = @ + 1, !.paid = Nothing, !.bids = Nothing]
      each   == next.insurance \div NumSeats
      rest   == [j \in Seats |->
                   next.prepaid[j] + next.deposits[j]
                     + (IF j = NumSeats THEN next.insurance - each * (NumSeats - 1) ELSE each)]
  IN  IF next.round < NumSeats
      THEN [pay |-> pay, pool |-> Autopaid(next)]
      ELSE [pay |-> [j \in Seats |-> pay[j] + rest[j]],
            pool |-> [next EXCEPT !.status = "done", !.prepaid = Nothing,
                                  !.deposits = Nothing, !.insurance = 0]]

-----------------------------------------------------------------------------
(* Every pool operation pays a fee; the balances become "after" and the    *)
(* pool p before the cost is taken from the sender.                        *)
PoolTx(from, cost, fee, after, p) ==
  /\ Admissible(from, fee, cost, FALSE)
  /\ Settle(after, supply, from, cost, fee)
  /\ pool' = p
  /\ UNCHANGED now

PoolCreate(from, t, fee) ==
  LET fresh == [NoPool EXCEPT !.status = "forming", !.creator = from, !.mode = t.mode,
                  !.members = t.members, !.contribution = t.contribution,
                  !.roundLen = t.roundLen, !.deposit = t.deposit, !.rate = t.rate,
                  !.target = t.target]
      j     == SeatOf(fresh, from)
  IN
  /\ Member(fresh, from)                                        \* checkPoolOp
  /\ Pot(t) < Modulus /\ t.deposit <= Pot(t)
  /\ t.deposit # 0 => t.roundLen # 0
  /\ IF Goal(t) THEN t.target > 0 /\ t.deposit = 0 /\ t.rate = 0 ELSE t.target = 0
  /\ pool.status = "none"
  /\ PoolTx(from, Plus(t.deposit, fee), fee, bal,
       [fresh EXCEPT !.joined[j] = TRUE, !.deposits[j] = t.deposit])

(* Operations on an existing pool are for its members. *)
PoolJoin(from, fee) ==
  LET j      == SeatOf(pool, from)
      joined == [pool EXCEPT !.joined[j] = TRUE, !.deposits[j] = pool.deposit]
      ready  == [joined EXCEPT !.status = "active", !.startedAt = now]
      Pays(p) == PoolTx(from, Plus(pool.deposit, fee), fee, bal, p)
  IN
  /\ pool.status = "forming" /\ Member(pool, from) /\ ~pool.joined[j]
  /\ IF \E k \in Seats : ~joined.joined[k] THEN Pays(joined)
     ELSE IF pool.mode = "lottery"
     THEN \E s \in Draws : Pays(Autopaid(Reseated(ready, s)))
     ELSE Pays(Autopaid(ready))

(* An amount of 0 pays what is left of this round's contribution.          *)
PoolContribute(from, amount, fee) ==
  LET j   == SeatOf(pool, from)
      amt == IF amount = 0 THEN Missing(pool, j) ELSE amount
  IN
  /\ pool.status = "active" /\ ~Goal(pool) /\ Member(pool, from)
  /\ ~Paid(pool, j) /\ amt <= Missing(pool, j)
  /\ PoolTx(from, Plus(amt, fee), fee, bal, PayIn(pool, j, amt))

(* PoolContribute on a goal circle. *)
PoolSave(from, amount, fee) ==
  LET j     == SeatOf(pool, from)
      saved == [pool EXCEPT !.saved[j] = Plus(@, amount), !.balance = Plus(@, amount)]
  IN
  /\ pool.status = "active" /\ Goal(pool) /\ Member(pool, from)
  /\ amount # 0 /\ pool.balance + amount < Modulus             \* ErrOverflow
  /\ PoolTx(from, Plus(amount, fee), fee, bal,
       IF saved.balance >= pool.target THEN [saved EXCEPT !.status = "done"] ELSE saved)

(* The fee of a claim may come out of the pot. *)
PoolClaim(from, fee) ==
  LET i   == SeatOf(pool, from)
      out == Payout(pool, i)
  IN
  /\ pool.status = "active" /\ ~Goal(pool) /\ Member(pool, from)
  /\ i = Recipient(pool)
  /\ AllPaid(pool) \/ (Scheduled(pool) /\ now >= DueAt(pool))
  /\ bal[from] + Pot(pool) < Modulus                           \* ErrOverflow
  /\ fee >= MinFee /\ Plus(bal[from], pool.balance) >= fee
  /\ Settle(CreditSeats(bal, pool, out.pay), supply, from, fee, fee)
  /\ pool' = out.pool
  /\ UNCHANGED now

PoolBid(from, amount, fee) ==
  LET j == SeatOf(pool, from) IN
  /\ pool.mode = "bidding" /\ pool.status = "active" /\ Member(pool, from)
  /\ ~pool.claimed[j] /\ amount # 0 /\ amount <= Pot(pool) \div 2
  /\ PoolTx(from, fee, fee, bal, [pool EXCEPT !.bids[j] = amount])

PoolSwap(from, other, fee) ==
  LET i == SeatOf(pool, from)
      j == SeatOf(pool, other)
      exchange == [k \in Seats |-> IF k = i THEN j ELSE IF k = j THEN i ELSE k]
  IN
  /\ pool.mode \notin {"goal", "bidding"} /\ pool.status \in {"forming", "active"}
  /\ Member(pool, from) /\ Member(pool, other) /\ other # from
  /\ ~pool.claimed[i] /\ ~pool.claimed[j]
  /\ pool.status = "active" => pool.round + 1 \notin {i, j}
  /\ PoolTx(from, fee, fee, bal,
       IF pool.swapWith[j] = from
       THEN [Reseated(pool, exchange) EXCEPT !.swapWith = NoPool.swapWith]
       ELSE [pool EXCEPT !.swapWith[i] = other])

PoolWithdraw(from, fee) ==
  LET j     == SeatOf(pool, from)
      saved == pool.saved[j]
      taken == [pool EXCEPT !.saved[j] = 0, !.balance = Minus(@, saved), !.withdrawn[j] = TRUE]
  IN
  /\ Goal(pool) /\ Member(pool, from)
  /\ \/ pool.status = "done"
     \/ Scheduled(pool) /\ pool.startedAt # Never /\ now >= pool.startedAt + pool.roundLen
  /\ saved # 0 /\ bal[from] + saved < Modulus                  \* ErrOverflow
  /\ PoolTx(from, fee, fee, Credit(bal, from, saved),
       IF \A k \in Seats : taken.withdrawn[k] THEN [taken EXCEPT !.status = "done"] ELSE taken)

PoolAutopay(from, amount, fee) ==
  LET j == SeatOf(pool, from) IN
  /\ ~Goal(pool) /\ pool.status \in {"forming", "active"} /\ Member(pool, from)
  /\ amount # 0 /\ amount % pool.contribution = 0
  /\ pool.prepaid[j] \div pool.contribution + amount \div pool.contribution
       <= RoundsLeft(pool, j)
  /\ PoolTx(from, Plus(amount, fee), fee, bal,
       Autopaid([pool EXCEPT !.prepaid[j] = Plus(@, amount)]))

PoolStopAutopay(from, fee) ==
  LET j == SeatOf(pool, from) IN
  /\ Member(pool, from) /\ pool.prepaid[j] # 0
  /\ PoolTx(from, fee, fee, Credit(bal, from, pool.prepaid[j]),
       [pool EXCEPT !.prepaid[j] = 0])

PoolCancel(from, fee) ==
  LET back == [j \in Seats |-> pool.deposits[j] + pool.prepaid[j]] IN
  /\ from = pool.creator /\ pool.status = "forming" /\ Member(pool, from)
  /\ PoolTx(from, fee, fee, CreditSeats(bal, pool, back),
       [pool EXCEPT !.status = "cancelled", !.deposits = Nothing, !.prepaid = Nothing])

PoolStep ==
  \/ \E from \in Accounts, t \in Offers, fee \in Fees : PoolCreate(from, t, fee)
  \/ \E from \in Accounts, fee \in Fees :
       \/ PoolJoin(from, fee)
       \/ PoolClaim(from, fee)
       \/ PoolWithdraw(from, fee)
       \/ PoolStopAutopay(from, fee)
       \/ PoolCancel(from, fee)
       \/ \E other \in Accounts : PoolSwap(from, other, fee)
       \/ \E amount \in Amounts \cup {0} :
            \/ PoolContribute(from, amount, fee)
            \/ PoolSave(from, amount, fee)
            \/ PoolBid(from, amount, fee)
            \/ PoolAutopay(from, amount, fee)

(* Only the due dates of a running circle are read from the clock. *)
PoolTick ==
  /\ Scheduled(pool) /\ pool.status = "active"
  /\ Tick /\ UNCHANGED pool

(* No amount a sender chooses and no contribution or deposit on offer      *)
(* makes a cost exceed uint64.  The code does not check these sums         *)
(* (checkPoolOp bounds the pot alone).                                     *)
PoolCostsNeverWrap ==
  \A fee \in Fees :
    /\ \A v \in Amounts : v + fee < Modulus
    /\ \A t \in Offers : t.contribution + fee < Modulus /\ t.deposit + fee < Modulus

(* A claim leaves its sender enough for the fee.  The code checks the pot  *)
(* as it stands before missed payments, insurance and discount.            *)
ClaimsCoverTheirFee ==
  \A from \in Accounts, fee \in Fees :
    PoolClaim(from, fee) =>
      LET i == SeatOf(pool, from) IN bal[from] + Payout(pool, i).pay[i] >= fee

PoolNext == PoolStep \/ PoolTick

PoolSpec == PoolInit /\ [][PoolNext]_poolVars

-----------------------------------------------------------------------------
SeatAmounts == [Seats -> Amount]
SeatFlags   == [Seats -> BOOLEAN]
SeatKeys    == [Seats -> Accounts \cup {NoMember}]

PoolRecord ==
  [status : {"none", "forming", "active", "done", "cancelled"},
   mode : {"rotation", "lottery", "bidding", "goal"}, creator : Accounts \cup {NoMember},
   members : SeatKeys, contribution : Amount, roundLen : Nat, deposit : Amount,
   rate : 0..BpsBase, target : Amount, startedAt : Nat \cup {Never},
   round : 0..NumSeats, balance : Amount, insurance : Amount,
   joined : SeatFlags, claimed : SeatFlags, withdrawn : SeatFlags,
   paid : SeatAmounts, prepaid : SeatAmounts, deposits : SeatAmounts,
   defaults : [Seats -> Nat], bids : SeatAmounts, saved : SeatAmounts, swapWith : SeatKeys]

(* The pool is a record of type Pool with one entry per member in each of  *)
(* its slices, all amounts within the width.                               *)
PoolTypeOK == AccountsTypeOK /\ pool \in PoolRecord

(* All the money in circle p: this round's pot, the deposits, what was set *)
(* aside for later rounds and the insurance.                               *)
Holds(p) ==
  p.balance + SumTo(p.deposits, NumSeats) + SumTo(p.prepaid, NumSeats) + p.insurance

(* Accounts and the circle together hold exactly the supply, through       *)
(* instalments, autopay, defaults covered from deposits and insurance,     *)
(* discounts shared among the members and the final distribution           *)
(* (State.Supply: "all ORP in accounts and pools", ledger.go:207).         *)
PoolConserved == TotalBalance + Holds(pool) = supply

(* A round's pot is exactly what the members paid into this round, never   *)
(* more than the contribution each; a goal circle's is exactly the         *)
(* members' savings, so whoever withdraws takes his own money.             *)
PotIsWhatWasPaid(p) ==
  /\ \A j \in Seats : p.paid[j] <= p.contribution
  /\ IF Goal(p)
     THEN p.balance = SumTo(p.saved, NumSeats)
     ELSE p.balance = SumTo(p.paid, NumSeats)

(* Draws and swaps keep the members a creator offered, each in one seat.   *)
KeepsTerms(p) ==
  \E t \in Offers, s \in Draws :
    /\ p.members = [k \in Seats |-> t.members[s[k]]]
    /\ p.contribution = t.contribution /\ p.deposit = t.deposit

(* What a circle has in it at each stage: nothing is paid or collected     *)
(* before it starts, a goal has no turns, no deposit is held of who did    *)
(* not join, and a member is late at most once a round.                    *)
InStage(p) ==
  /\ IF p.status = "none" THEN p = NoPool ELSE KeepsTerms(p)
  /\ p.status = "forming" =>
       /\ p.round = 0 /\ p.balance = 0 /\ p.insurance = 0
       /\ p.paid = Nothing /\ p.saved = Nothing /\ p.claimed = Nobody
  /\ Goal(p) => p.paid = Nothing /\ p.prepaid = Nothing
  /\ \A j \in Seats : ~p.joined[j] => p.deposits[j] = 0
  /\ \A j \in Seats : p.defaults[j] <= p.round

(* A circle's money is all there, and the pot is what was paid into it.    *)
PoolInv ==
  PoolTypeOK /\ PoolConserved /\ BurnedIsAccounted /\ PotIsWhatWasPaid(pool) /\ InStage(pool)

Collected(p) == {j \in Seats : p.claimed[j]}

(* As many members of p collected as rounds were paid out (the first ones, *)
(* where turns are fixed), and whoever is to collect next did not.         *)
InTurn(p) ==
  /\ ~Goal(p) => Cardinality(Collected(p)) = p.round
  /\ p.mode \notin {"bidding", "goal"} => Collected(p) = 1..p.round
  /\ p.status = "active" /\ ~Goal(p) => Recipient(p) \in Seats \ Collected(p)
  /\ p.status = "done" /\ ~Goal(p) => p.round = NumSeats /\ Holds(p) = 0
  /\ p.status = "cancelled" => p.round = 0 /\ Holds(p) = 0

(* Everyone collects once and in turn.  When the circle ends everyone has  *)
(* collected and nothing is left in it, nor in a cancelled one.            *)
EveryoneCollectsOnce == InTurn(pool)

DepositOf(p, a)  == p.deposits[SeatOf(p, a)]
DefaultsOf(p, a) == p.defaults[SeatOf(p, a)]

(* What a step may do to the deposit of member a. *)
KeepsDeposit(a) ==
  (pool.status # "none" /\ Member(pool, a) /\ DepositOf(pool', a) < DepositOf(pool, a)) =>
     \/ DefaultsOf(pool', a) = DefaultsOf(pool, a) + 1
     \/ pool'.status \in {"done", "cancelled"} /\ DepositOf(pool', a) = 0

(* A member's deposit is touched only when he missed a payment, which is   *)
(* noted against him, or returned to him in full when the circle ends.     *)
DepositsPayOwnDefaults == [][\A a \in Accounts : KeepsDeposit(a)]_poolVars
=============================================================================
