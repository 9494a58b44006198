----------------------------- MODULE PoolProofs -----------------------------
(***************************************************************************)
(* Saving circles conserve money and everyone collects once, for any       *)
(* number of members, any terms and any width.  What a circle must be is   *)
(* said of its record alone (Circle), what it holds is Holds; so a lemma   *)
(* per operation shows that the record it leaves is a circle that holds so *)
(* much more or less, and PoolMoney turns that into conservation.          *)
(***************************************************************************)
EXTENDS Pool, LedgerProofs

LEMMA SeatFacts ==
  /\ NumSeats \in Nat /\ NumSeats >= 2 /\ Seats = 1..NumSeats
  /\ SeatAmounts = [1..NumSeats -> Amount] /\ SeatAmounts \subseteq [1..NumSeats -> Nat]
  /\ Modulus \in Nat /\ Modulus > 0 /\ Amount \subseteq Nat
BY PoolAssumption, AccountsAssumption DEF Seats, SeatAmounts, Amount

(* A sum that fits the width is exact and an amount. *)
LEMMA AddAmount ==
  ASSUME NEW x \in Nat, NEW y \in Nat, x + y < Modulus
  PROVE  Plus(x, y) = x + y /\ Plus(x, y) \in Amount
<1>1. Plus(x, y) = x + y
  BY PlusExact
<1> QED BY <1>1, SeatFacts DEF Amount

(* One seat's amount changes. *)
LEMMA SetSeat ==
  ASSUME NEW f \in SeatAmounts, NEW j \in Seats, NEW v \in Amount
  PROVE  /\ [f EXCEPT ![j] = v] \in SeatAmounts
         /\ SumTo([f EXCEPT ![j] = v], NumSeats) = SumTo(f, NumSeats) - f[j] + v
<1>1. f \in [1..NumSeats -> Nat] /\ j \in 1..NumSeats /\ v \in Nat /\ NumSeats \in Nat
  BY SeatFacts
<1>2. SumTo([f EXCEPT ![j] = v], NumSeats) = SumTo(f, NumSeats) - f[j] + v
  BY <1>1, SumToUpdate
<1> QED BY <1>2 DEF SeatAmounts

(* Amounts per seat add up, and none exceeds the sum. *)
LEMMA SeatSum ==
  ASSUME NEW f \in [Seats -> Nat]
  PROVE  SumTo(f, NumSeats) \in Nat /\ \A j \in Seats : f[j] \in Nat /\ f[j] <= SumTo(f, NumSeats)
<1>1. NumSeats \in Nat /\ f \in [1..NumSeats -> Nat] /\ Seats = 1..NumSeats
  BY SeatFacts
<1>2. \A j \in 1..NumSeats : f[j] <= SumTo(f, NumSeats)
  BY <1>1, SumToBound
<1> QED BY <1>1, <1>2, SumToType

LEMMA NothingSum == Nothing \in SeatAmounts /\ SumTo(Nothing, NumSeats) = 0
<1>1. Nothing \in [1..NumSeats -> Nat] /\ \A k \in 1..NumSeats : Nothing[k] = 0
  BY SeatFacts DEF Nothing
<1>2. Nothing \in SeatAmounts
  BY SeatFacts, AccountsAssumption DEF Nothing, SeatAmounts, Amount
<1>3. NumSeats \in Nat
  BY SeatFacts
<1> HIDE DEF Nothing
<1> QED BY <1>1, <1>2, <1>3, SumToZero

(* A draw gives every seat a member. *)
LEMMA DrawIsOnto ==
  ASSUME NEW s \in Draws, NEW k \in Seats
  PROVE  \E j \in Seats : s[j] = k
<1>1. s \in [Seats -> Seats] /\ \A i, j \in Seats : s[i] = s[j] => i = j
  BY DEF Draws
<1>2. s \in Injection(Seats, Seats)
  BY <1>1 DEF Injection, IsInjective
<1>3. IsFiniteSet(Seats)
  BY SeatFacts, FS_Interval
<1>4. s \in Surjection(Seats, Seats)
  BY <1>2, <1>3, FS_Injection
<1> QED BY <1>4 DEF Surjection

(* Reseating the members moves amounts and loses none. *)
LEMMA ReseatedSum ==
  ASSUME NEW s \in Draws, NEW f \in [Seats -> Nat]
  PROVE  SumTo([k \in Seats |-> f[s[k]]], NumSeats) = SumTo(f, NumSeats)
<1> DEFINE v == [k \in Seats |-> f[s[k]]]
<1>1. s \in [Seats -> Seats] /\ \A i, j \in Seats : s[i] = s[j] => i = j
  BY DEF Draws
<1>2. v \in [Seats -> Nat] /\ \A j \in Seats : f[s[j]] = v[j]
  BY <1>1
<1> HIDE DEF v
<1>3. Scattered(f, NumSeats, v, NumSeats, s)
  <2>1. \A a \in Seats : \E j \in Seats : s[j] = a
    BY DrawIsOnto
  <2>2. Seats = 1..NumSeats
    BY SeatFacts
  <2> QED BY <1>1, <1>2, <2>1, <2>2 DEF Scattered
<1>4. SumTo(f, NumSeats) = SumTo(v, NumSeats)
  BY <1>3, SumToScattered, SeatFacts
<1> QED BY <1>4 DEF v

(* Every seat has a member of its own. *)
Apart(m) == m \in [Seats -> Accounts] /\ \A j, k \in Seats : m[j] = m[k] => j = k

LEMMA SeatOfMember ==
  ASSUME NEW p, Apart(p.members), NEW j \in Seats
  PROVE  Member(p, p.members[j]) /\ SeatOf(p, p.members[j]) = j
BY DEF Apart, Member, SeatOf

LEMMA SeatOfType ==
  ASSUME NEW p, NEW a, Member(p, a)
  PROVE  SeatOf(p, a) \in Seats /\ p.members[SeatOf(p, a)] = a
BY DEF Member, SeatOf

(* Paying each member his part of v pays out all of v, and nothing wraps   *)
(* while accounts and payments together fit the width.                     *)
LEMMA CreditSeatsSum ==
  ASSUME NEW b \in [Accounts -> Amount], NEW p, Apart(p.members), NEW v \in [Seats -> Nat],
         SumTo(b, NumAccounts) + SumTo(v, NumSeats) < Modulus
  PROVE  /\ CreditSeats(b, p, v) \in [Accounts -> Amount]
         /\ SumTo(CreditSeats(b, p, v), NumAccounts) = SumTo(b, NumAccounts) + SumTo(v, NumSeats)
         /\ \A j \in Seats :
              CreditSeats(b, p, v)[p.members[j]] = b[p.members[j]] + v[j]
         /\ \A a \in Accounts : CreditSeats(b, p, v)[a] >= b[a]
<1> DEFINE g == [a \in Accounts |-> IF Member(p, a) THEN v[SeatOf(p, a)] ELSE 0]
           c == CreditSeats(b, p, v)
<1>1. g \in [Accounts -> Nat] /\ Accounts = 1..NumAccounts /\ NumAccounts \in Nat
  BY SeatOfType, AccountsAssumption DEF Accounts
<1>2. \A j \in Seats : g[p.members[j]] = v[j]
  BY SeatOfMember DEF Apart
<1>3. \A a \in Accounts : (\A j \in Seats : p.members[j] # a) => g[a] = 0
  BY DEF Member
<1>4. c = [a \in Accounts |-> IF Member(p, a) THEN Plus(b[a], v[SeatOf(p, a)]) ELSE b[a]]
  BY DEF CreditSeats
<1>5. \A a \in Accounts : c[a] = IF Member(p, a) THEN Plus(b[a], g[a]) ELSE b[a]
  BY <1>4
<1>6. \A a \in Accounts : ~Member(p, a) => g[a] = 0
  OBVIOUS
<1>7. c = [a \in Accounts |-> c[a]]
  BY <1>4
<1> HIDE DEF g, c
<1>8. Scattered(g, NumAccounts, v, NumSeats, p.members)
  BY <1>1, <1>2, <1>3, SeatFacts DEF Scattered, Apart
<1>9. SumTo(g, NumAccounts) = SumTo(v, NumSeats)
  BY <1>1, <1>8, SumToScattered, SeatFacts
<1>10. ASSUME NEW a \in Accounts PROVE c[a] = b[a] + g[a] /\ c[a] \in Amount /\ c[a] >= b[a]
  <2>1. /\ b[a] \in Nat /\ b[a] <= SumTo(b, NumAccounts) /\ SumTo(b, NumAccounts) \in Nat
        /\ b[a] \in Amount
    BY BalancesSum
  <2>2. g[a] \in Nat /\ g[a] <= SumTo(g, NumAccounts) /\ SumTo(g, NumAccounts) \in Nat
    BY <1>1, SumToBound, SumToType
  <2>3. b[a] + g[a] < Modulus
    BY <1>9, <2>1, <2>2, SeatFacts
  <2>4. Plus(b[a], g[a]) = b[a] + g[a]
    BY <2>1, <2>2, <2>3, PlusExact
  <2>5. c[a] = b[a] + g[a]
    BY <1>5, <1>6, <2>1, <2>4
  <2> QED BY <2>1, <2>2, <2>3, <2>5, SeatFacts DEF Amount
<1>11. c \in [Accounts -> Amount]
  BY <1>7, <1>10
<1>12. SumTo(c, NumAccounts) = SumTo(b, NumAccounts) + SumTo(g, NumAccounts)
  <2>1. b \in [1..NumAccounts -> Nat] /\ c \in [1..NumAccounts -> Nat] /\ g \in [1..NumAccounts -> Nat]
    BY <1>1, <1>11, SeatFacts
  <2>2. \A a \in 1..NumAccounts : c[a] = b[a] + g[a]
    BY <1>1, <1>10
  <2> QED BY <1>1, <2>1, <2>2, SumToPlus
<1>13. \A j \in Seats : c[p.members[j]] = b[p.members[j]] + v[j]
  BY <1>2, <1>10 DEF Apart
<1> QED BY <1>9, <1>10, <1>11, <1>12, <1>13 DEF c

-----------------------------------------------------------------------------
(* What a circle must be, whoever holds the rest of the money. *)
Circle(p) == p \in PoolRecord /\ PotIsWhatWasPaid(p) /\ InStage(p) /\ InTurn(p)

Money == AccountsTypeOK /\ PoolConserved /\ BurnedIsAccounted

LEMMA PoolParts == PoolInv /\ EveryoneCollectsOnce <=> Money /\ Circle(pool)
BY DEF PoolInv, EveryoneCollectsOnce, Money, Circle, PoolTypeOK

(* Every part of what a circle holds is a natural number. *)
LEMMA HoldsType ==
  ASSUME NEW p \in PoolRecord
  PROVE  /\ p.balance \in Nat /\ p.insurance \in Nat
         /\ SumTo(p.deposits, NumSeats) \in Nat /\ SumTo(p.prepaid, NumSeats) \in Nat
         /\ Holds(p) \in Nat
         /\ Holds(p) = p.balance + SumTo(p.deposits, NumSeats) + SumTo(p.prepaid, NumSeats)
                         + p.insurance
<1>1. p.balance \in Amount /\ p.insurance \in Amount /\ p.deposits \in SeatAmounts
      /\ p.prepaid \in SeatAmounts
  BY DEF PoolRecord
<1>2. p.deposits \in [Seats -> Nat] /\ p.prepaid \in [Seats -> Nat]
  BY <1>1, SeatFacts
<1>3. SumTo(p.deposits, NumSeats) \in Nat /\ SumTo(p.prepaid, NumSeats) \in Nat
  BY <1>2, SeatSum
<1>4. p.balance \in Nat /\ p.insurance \in Nat
  BY <1>1, SeatFacts
<1>5. Holds(p) = p.balance + SumTo(p.deposits, NumSeats) + SumTo(p.prepaid, NumSeats)
                   + p.insurance
  BY DEF Holds
<1> QED BY <1>3, <1>4, <1>5

(* What a circle's pot and payments become is still a pool. *)
LEMMA RecordPaid ==
  ASSUME NEW p \in PoolRecord, NEW f \in SeatAmounts, NEW b \in Amount
  PROVE  [p EXCEPT !.paid = f, !.balance = b] \in PoolRecord
BY DEF PoolRecord

LEMMA RecordSaved ==
  ASSUME NEW p \in PoolRecord, NEW f \in SeatAmounts, NEW b \in Amount, NEW st \in {"active", "done"}
  PROVE  [p EXCEPT !.saved = f, !.balance = b, !.status = st] \in PoolRecord
BY DEF PoolRecord

LEMMA RecordAutopaid ==
  ASSUME NEW p \in PoolRecord, NEW f \in SeatAmounts, NEW g \in SeatAmounts, NEW b \in Amount
  PROVE  [p EXCEPT !.prepaid = f, !.paid = g, !.balance = b] \in PoolRecord
BY DEF PoolRecord

LEMMA RecordMoved ==
  ASSUME NEW p \in PoolRecord, NEW f \in SeatFlags, NEW w \in SeatKeys
  PROVE  [p EXCEPT !.withdrawn = f, !.swapWith = w] \in PoolRecord
BY DEF PoolRecord

LEMMA RecordJoined ==
  ASSUME NEW p \in PoolRecord, NEW w \in SeatFlags, NEW f \in SeatAmounts
  PROVE  [p EXCEPT !.joined = w, !.deposits = f] \in PoolRecord
BY DEF PoolRecord

LEMMA RecordCancelled ==
  ASSUME NEW p \in PoolRecord, NEW f \in SeatAmounts, NEW g \in SeatAmounts
  PROVE  [p EXCEPT !.status = "cancelled", !.deposits = f, !.prepaid = g] \in PoolRecord
BY DEF PoolRecord

LEMMA RecordCovered ==
  ASSUME NEW p \in PoolRecord, NEW f \in SeatAmounts, NEW x \in Amount, NEW b \in Amount
  PROVE  /\ [p EXCEPT !.deposits = f, !.balance = b] \in PoolRecord
         /\ [p EXCEPT !.insurance = x, !.balance = b] \in PoolRecord
<1>1. [p EXCEPT !.deposits = f, !.balance = b] \in PoolRecord
  BY DEF PoolRecord
<1>2. [p EXCEPT !.insurance = x, !.balance = b] \in PoolRecord
  BY DEF PoolRecord
<1> QED BY <1>1, <1>2

(* What fits into the circle fits into its pot. *)
LEMMA BalanceRoom ==
  ASSUME NEW p \in PoolRecord, NEW v \in Nat, Holds(p) + v < Modulus
  PROVE  p.balance \in Nat /\ p.balance + v < Modulus
<1>1. PICK b \in Nat, h \in Nat : b = p.balance /\ h = Holds(p)
  BY HoldsType
<1>2. PICK r \in Nat : r = SumTo(p.deposits, NumSeats) + SumTo(p.prepaid, NumSeats) + p.insurance
  BY HoldsType
<1>3. h = b + r
  <2>1. PICK x \in Nat, y \in Nat, z \in Nat :
          x = SumTo(p.deposits, NumSeats) /\ y = SumTo(p.prepaid, NumSeats) /\ z = p.insurance
    BY HoldsType
  <2>2. h = b + x + y + z /\ r = x + y + z
    BY <1>1, <1>2, <2>1, HoldsType
  <2> QED BY <2>2
<1>4. h + v < Modulus
  BY <1>1
<1>5. b + v < Modulus
  BY <1>3, <1>4, SeatFacts
<1> QED BY <1>1, <1>5

(* A step that leaves the circle p, pays the difference into the accounts  *)
(* and takes cost from the sender, of which fee goes where fees go, keeps  *)
(* the money.                                                              *)
LEMMA PoolMoney ==
  ASSUME Money, pool \in PoolRecord, NEW from \in Accounts, NEW cost \in Nat, NEW fee \in Nat,
         fee <= cost, NEW after \in [Accounts -> Amount], cost <= after[from],
         NEW p \in PoolRecord, pool' = p, now' = now,
         SumTo(after, NumAccounts) + Holds(p) = TotalBalance + Holds(pool) + (cost - fee),
         Settle(after, supply, from, cost, fee)
  PROVE  Money'
<1> DEFINE Gen == SumTo(Genesis, NumAccounts)
<1>1. /\ supply \in Amount /\ burned \in Amount /\ bal \in [Accounts -> Amount] /\ now \in 0..MaxTime
      /\ TotalBalance + Holds(pool) = supply
  BY DEF Money, AccountsTypeOK, PoolConserved
<1>2. supply \in Nat /\ supply < Modulus /\ Modulus \in Nat
  BY <1>1, AccountsAssumption DEF Amount
<1>3. Holds(p) \in Nat /\ Holds(pool) \in Nat
  BY HoldsType
<1>4. /\ after[from] \in Nat /\ after[from] <= SumTo(after, NumAccounts)
      /\ SumTo(after, NumAccounts) \in Nat /\ TotalBalance \in Nat
  BY <1>1, BalancesSum DEF TotalBalance
<1>5. fee <= supply /\ SumTo(after, NumAccounts) - cost + fee < Modulus
  BY <1>1, <1>2, <1>3, <1>4
<1>6. /\ bal' \in [Accounts -> Amount] /\ supply' \in Amount /\ burned' \in Amount
      /\ SumTo(bal', NumAccounts) - supply'
           = SumTo(after, NumAccounts) - supply - (cost - fee)
      /\ Native => supply' = supply - fee /\ burned' = Plus(burned, fee)
  BY <1>1, <1>5, SettleSum
<1>7. TotalBalance' \in Nat /\ TotalBalance' = SumTo(bal', NumAccounts) /\ supply' \in Nat
  BY <1>6, BalancesSum, AccountsAssumption DEF TotalBalance, Amount
<1>8. PoolConserved'
  <2>1. Holds(pool)' = Holds(p)
    BY DEF Holds
  <2>2. TotalBalance' + Holds(p) = supply'
    BY <1>1, <1>2, <1>3, <1>4, <1>6, <1>7
  <2> QED BY <2>1, <2>2 DEF PoolConserved
<1>9. BurnedIsAccounted'
  <2> SUFFICES ASSUME Native PROVE supply' + burned' = Gen
    BY DEF BurnedIsAccounted, Native
  <2>1. Gen \in Nat /\ Gen < Modulus
    BY AccountsAssumption, BalancesSum
  <2>2. burned \in Nat /\ supply + burned = Gen
    BY <1>1, SeatFacts DEF Money, BurnedIsAccounted
  <2> HIDE DEF Gen
  <2>3. Plus(burned, fee) = burned + fee
    BY <1>2, <1>5, <2>1, <2>2, PlusExact
  <2> QED BY <1>2, <1>6, <2>1, <2>2, <2>3
<1>10. AccountsTypeOK'
  BY <1>1, <1>6 DEF AccountsTypeOK
<1> QED BY <1>8, <1>9, <1>10 DEF Money

(* Nothing a circle and the accounts hold exceeds the supply. *)
LEMMA MoneyFacts ==
  ASSUME Money, pool \in PoolRecord
  PROVE  /\ TotalBalance \in Nat /\ Holds(pool) \in Nat /\ TotalBalance + Holds(pool) < Modulus
         /\ bal \in [Accounts -> Amount] /\ TotalBalance = SumTo(bal, NumAccounts)
         /\ \A a \in Accounts : bal[a] \in Nat /\ bal[a] <= TotalBalance
<1>1. /\ supply \in Amount /\ bal \in [Accounts -> Amount]
      /\ TotalBalance + Holds(pool) = supply
  BY DEF Money, AccountsTypeOK, PoolConserved
<1>2. supply < Modulus
  BY <1>1, AccountsAssumption DEF Amount
<1>3. TotalBalance \in Nat /\ \A a \in Accounts : bal[a] \in Nat /\ bal[a] <= TotalBalance
  BY <1>1, BalancesSum DEF TotalBalance
<1> QED BY <1>1, <1>2, <1>3, HoldsType DEF TotalBalance

-----------------------------------------------------------------------------
(* Turns *)

(* The largest bid, and the earliest seat of it. *)
LEMMA BestBid ==
  ASSUME NEW S \in SUBSET Seats, S # {}, NEW f \in [Seats -> Nat], NEW m \in Nat,
         \A j \in Seats : f[j] <= m
  PROVE  \E j \in S : \A k \in S : f[j] > f[k] \/ (f[j] = f[k] /\ j <= k)
<1> DEFINE T == {m - f[j] : j \in S}
<1>0. \A j \in S : m - f[j] \in Nat
  <2>1. ASSUME NEW j \in S PROVE m - f[j] \in Nat
    <3>1. f[j] \in Nat /\ f[j] <= m
      OBVIOUS
    <3> QED BY <3>1
  <2> QED BY <2>1
<1>1. T \in SUBSET Nat /\ T # {}
  BY <1>0
<1>2. PICK x \in T : \A y \in T : x <= y
  <2> HIDE DEF T
  <2> QED BY <1>1, LeastNatural
<1>3. PICK b \in S : x = m - f[b]
  OBVIOUS
<1>4. \A k \in S : f[k] <= f[b]
  <2>1. ASSUME NEW k \in S PROVE f[k] <= f[b]
    <3>1. m - f[k] \in T
      OBVIOUS
    <3>2. m - f[b] <= m - f[k]
      BY <1>2, <1>3, <3>1
    <3>3. f[k] \in Nat /\ f[b] \in Nat
      OBVIOUS
    <3> QED BY <3>2, <3>3
  <2> QED BY <2>1
<1> DEFINE U == {j \in S : f[j] = f[b]}
<1>5. U \in SUBSET Nat /\ U # {}
  <2>1. b \in U
    BY <1>3
  <2>2. S \subseteq Nat
    BY SeatFacts
  <2> QED BY <2>1, <2>2
<1>6. PICK j \in U : \A k \in U : j <= k
  <2> HIDE DEF U
  <2> QED BY <1>5, LeastNatural
<1>7. ASSUME NEW k \in S PROVE f[j] > f[k] \/ (f[j] = f[k] /\ j <= k)
  <2>1. f[j] = f[b] /\ f[k] <= f[b] /\ f[b] \in Nat /\ f[k] \in Nat
    BY <1>4, <1>6
  <2>2. CASE f[k] = f[b]
    BY <1>6, <2>1, <2>2
  <2>3. CASE f[k] # f[b]
    BY <2>1, <2>3
  <2> QED BY <2>2, <2>3
<1> QED BY <1>6, <1>7

(* While somebody is owed a pot, the next to collect is one of them. *)
LEMMA BidderIsOwed ==
  ASSUME NEW p \in PoolRecord, p.mode = "bidding", Collected(p) # Seats
  PROVE  Recipient(p) \in Seats \ Collected(p)
<1> DEFINE owed == {j \in Seats : ~p.claimed[j]}
           bids == {j \in owed : p.bids[j] > 0}
           Beats(j, k) == p.bids[j] > p.bids[k] \/ (p.bids[j] = p.bids[k] /\ j <= k)
           Q(j) == IF bids # {} THEN j \in bids /\ \A k \in bids : Beats(j, k)
                                ELSE \A k \in owed : j <= k
<1>1. Recipient(p) = CHOOSE j \in owed : Q(j)
  BY DEF Recipient
<1>2. p.bids \in [Seats -> Nat] /\ \A j \in Seats : p.bids[j] <= Modulus
  <2>1. p.bids \in SeatAmounts
    BY DEF PoolRecord
  <2>2. p.bids \in [Seats -> Nat]
    BY <2>1, SeatFacts
  <2>3. \A j \in Seats : p.bids[j] \in 0..(Modulus - 1)
    BY <2>1 DEF SeatAmounts, Amount
  <2> QED BY <2>2, <2>3, SeatFacts
<1>3. owed \in SUBSET Seats /\ owed # {} /\ owed = Seats \ Collected(p)
  BY DEF Collected
<1>4. \E j \in owed : Q(j)
  <2>1. CASE bids # {}
    <3>1. bids \in SUBSET Seats
      OBVIOUS
    <3>2. \E j \in bids : \A k \in bids : Beats(j, k)
      <4> HIDE DEF bids
      <4> QED BY <1>2, <2>1, <3>1, BestBid, SeatFacts
    <3> QED BY <2>1, <3>2
  <2>2. CASE bids = {}
    <3>1. owed \in SUBSET Nat
      BY <1>3, SeatFacts
    <3>2. \E j \in owed : \A k \in owed : j <= k
      <4> HIDE DEF owed
      <4> QED BY <1>3, <3>1, LeastNatural
    <3> QED BY <2>2, <3>2
  <2> QED BY <2>1, <2>2
<1>5. (CHOOSE j \in owed : Q(j)) \in owed
  <2> HIDE DEF Q, owed
  <2> QED BY <1>4
<1> QED BY <1>1, <1>3, <1>5

(* InTurn with the rounds that are left in place of the next to collect. *)
Turn(p) ==
  /\ ~Goal(p) => Cardinality(Collected(p)) = p.round
  /\ p.mode \notin {"bidding", "goal"} => Collected(p) = 1..p.round
  /\ p.status = "active" /\ ~Goal(p) => p.round < NumSeats
  /\ p.status = "done" /\ ~Goal(p) => p.round = NumSeats /\ Holds(p) = 0
  /\ p.status = "cancelled" => p.round = 0 /\ Holds(p) = 0

LEMMA CollectedSize ==
  ASSUME NEW p
  PROVE  /\ IsFiniteSet(Seats) /\ Cardinality(Seats) = NumSeats /\ IsFiniteSet(Collected(p))
         /\ Cardinality(Collected(p)) \in Nat /\ Cardinality(Collected(p)) <= NumSeats
         /\ Cardinality(Collected(p)) = NumSeats <=> Collected(p) = Seats
<1>1. IsFiniteSet(Seats) /\ Cardinality(Seats) = NumSeats
  BY SeatFacts, FS_Interval
<1>2. Collected(p) \in SUBSET Seats
  BY DEF Collected
<1>3. IsFiniteSet(Collected(p)) /\ Cardinality(Collected(p)) <= Cardinality(Seats)
      /\ (Cardinality(Seats) = Cardinality(Collected(p)) => Seats = Collected(p))
  BY <1>1, <1>2, FS_Subset
<1> QED BY <1>1, <1>3, FS_CardinalityType

LEMMA TurnParts == ASSUME NEW p \in PoolRecord PROVE InTurn(p) <=> Turn(p)
<1>1. p.round \in Nat /\ p.mode \in {"rotation", "lottery", "bidding", "goal"}
  BY SeatFacts DEF PoolRecord
<1>2. ASSUME InTurn(p), p.status = "active", ~Goal(p) PROVE p.round < NumSeats
  <2>1. Recipient(p) \in Seats /\ Recipient(p) \notin Collected(p)
        /\ Cardinality(Collected(p)) = p.round
    BY <1>2 DEF InTurn
  <2> QED BY <1>1, <2>1, CollectedSize, SeatFacts
<1>3. ASSUME Turn(p), p.status = "active", ~Goal(p) PROVE Recipient(p) \in Seats \ Collected(p)
  <2>1. p.round < NumSeats /\ Cardinality(Collected(p)) = p.round
    BY <1>3 DEF Turn
  <2>2. CASE p.mode = "bidding"
    <3>1. Collected(p) # Seats
      BY <1>1, <2>1, CollectedSize, SeatFacts
    <3> QED BY <2>2, <3>1, BidderIsOwed
  <2>3. CASE p.mode # "bidding"
    <3>1. Recipient(p) = p.round + 1
      BY <2>3 DEF Recipient
    <3>2. Collected(p) = 1..p.round
      BY <1>1, <1>3, <2>3 DEF Turn, Goal
    <3> QED BY <1>1, <2>1, <3>1, <3>2, SeatFacts
  <2> QED BY <2>2, <2>3
<1> QED BY <1>2, <1>3 DEF InTurn, Turn

(* Nothing that names the members or counts their turns has changed. *)
Alike(p, q) ==
  /\ q.mode = p.mode /\ q.members = p.members /\ q.contribution = p.contribution
  /\ q.deposit = p.deposit /\ q.round = p.round /\ q.claimed = p.claimed

(* What is left to show of such a circle. *)
StageOf(q) ==
  /\ q.status = "forming" =>
       /\ q.round = 0 /\ q.balance = 0 /\ q.insurance = 0
       /\ q.paid = Nothing /\ q.saved = Nothing /\ q.claimed = Nobody
  /\ Goal(q) => q.paid = Nothing /\ q.prepaid = Nothing
  /\ \A j \in Seats : ~q.joined[j] => q.deposits[j] = 0
  /\ \A j \in Seats : q.defaults[j] <= q.round

EndOf(q) ==
  /\ q.status = "active" /\ ~Goal(q) => q.round < NumSeats
  /\ q.status = "done" /\ ~Goal(q) => q.round = NumSeats /\ Holds(q) = 0
  /\ q.status = "cancelled" => q.round = 0 /\ Holds(q) = 0

LEMMA CircleFacts ==
  ASSUME NEW p, Circle(p), p.status # "none"
  PROVE  /\ p \in PoolRecord /\ StageOf(p) /\ EndOf(p) /\ KeepsTerms(p) /\ PotIsWhatWasPaid(p)
         /\ p.contribution \in Nat /\ p.contribution > 0 /\ p.deposit \in Nat
         /\ Apart(p.members)
<1>1. /\ p \in PoolRecord /\ StageOf(p) /\ EndOf(p) /\ KeepsTerms(p) /\ PotIsWhatWasPaid(p)
  BY TurnParts DEF Circle, InStage, StageOf, Turn, EndOf
<1>2. PICK t \in Offers, s \in Draws : /\ p.members = [k \in Seats |-> t.members[s[k]]]
                                       /\ p.contribution = t.contribution /\ p.deposit = t.deposit
  BY <1>1 DEF KeepsTerms
<1>3. t.members \in [Seats -> Accounts] /\ t.contribution \in Amount \ {0} /\ t.deposit \in Amount
      /\ \A j, k \in Seats : t.members[j] = t.members[k] => j = k
  BY PoolAssumption DEF Terms
<1>4. s \in [Seats -> Seats] /\ \A j, k \in Seats : s[j] = s[k] => j = k
  BY DEF Draws
<1>5. Apart(p.members)
  BY <1>2, <1>3, <1>4 DEF Apart
<1>6. p.contribution \in Nat /\ p.contribution > 0 /\ p.deposit \in Nat
  <2>1. t.contribution \in Nat /\ t.contribution # 0 /\ t.deposit \in Nat
    BY <1>3, SeatFacts
  <2> QED BY <1>2, <2>1
<1> QED BY <1>1, <1>5, <1>6

LEMMA TurnsKept ==
  ASSUME NEW p, Circle(p), NEW q \in PoolRecord, q.status # "none", q.mode = p.mode,
         q.claimed = p.claimed, q.round = p.round, KeepsTerms(q),
         PotIsWhatWasPaid(q), StageOf(q), EndOf(q)
  PROVE  Circle(q)
<1>1. InStage(q)
  BY DEF StageOf, InStage
<1>2. Turn(p) /\ p \in PoolRecord
  BY TurnParts DEF Circle
<1>3. Collected(q) = Collected(p)
  BY DEF Collected
<1>4. Turn(q)
  BY <1>2, <1>3 DEF Turn, EndOf, Goal
<1> QED BY <1>1, <1>4, TurnParts DEF Circle

LEMMA AlikeIsCircle ==
  ASSUME NEW p, Circle(p), p.status # "none", NEW q \in PoolRecord, q.status # "none",
         Alike(p, q), PotIsWhatWasPaid(q), StageOf(q), EndOf(q)
  PROVE  Circle(q)
<1>1. KeepsTerms(q)
  BY CircleFacts DEF Alike, KeepsTerms
<1> QED BY <1>1, TurnsKept DEF Alike

-----------------------------------------------------------------------------
(* Payments *)

LEMMA BidIsCircle ==
  ASSUME NEW p, Circle(p), p.status # "none", NEW j \in Seats, NEW amount \in Amount,
         NEW q, q = [p EXCEPT !.bids[j] = amount]
  PROVE  Circle(q) /\ Holds(q) = Holds(p)
<1>1. p \in PoolRecord
  BY DEF Circle
<1>2. /\ q \in PoolRecord
  BY <1>1 DEF PoolRecord, SeatAmounts
<1>3. /\ Alike(p, q) /\ q.status = p.status /\ q.paid = p.paid /\ q.balance = p.balance
      /\ q.insurance = p.insurance /\ q.deposits = p.deposits /\ q.prepaid = p.prepaid
      /\ q.saved = p.saved /\ q.joined = p.joined /\ q.defaults = p.defaults
  BY <1>1 DEF PoolRecord, Alike
<1>4. Holds(q) = Holds(p)
  BY <1>3 DEF Holds
<1>5. PotIsWhatWasPaid(q) /\ StageOf(q) /\ EndOf(q)
  BY <1>3, <1>4, CircleFacts DEF PotIsWhatWasPaid, StageOf, EndOf, Alike, Goal
<1> QED BY <1>2, <1>3, <1>4, <1>5, AlikeIsCircle

(* An instalment adds to the pot what it adds to the member's payments. *)
LEMMA PayInIsCircle ==
  ASSUME NEW p, Circle(p), p.status = "active", ~Goal(p), NEW j \in Seats, NEW v \in Nat,
         v <= Missing(p, j), Holds(p) + v < Modulus, NEW q, q = PayIn(p, j, v)
  PROVE  Circle(q) /\ Holds(q) = Holds(p) + v
<1>1. p \in PoolRecord /\ p.paid \in SeatAmounts /\ p.balance \in Amount /\ p.contribution \in Amount
  BY DEF Circle, PoolRecord
<1>2. /\ p.balance \in Nat /\ Holds(p) \in Nat /\ SumTo(p.deposits, NumSeats) \in Nat
      /\ SumTo(p.prepaid, NumSeats) \in Nat /\ p.insurance \in Nat
      /\ Holds(p) = p.balance + SumTo(p.deposits, NumSeats) + SumTo(p.prepaid, NumSeats)
                      + p.insurance
  BY <1>1, HoldsType
<1>3. /\ PotIsWhatWasPaid(p) /\ StageOf(p) /\ EndOf(p) /\ p.contribution \in Nat
  BY CircleFacts
<1>4. /\ p.paid \in [Seats -> Nat] /\ p.paid[j] \in Nat /\ v <= p.contribution - p.paid[j]
      /\ p.balance = SumTo(p.paid, NumSeats) /\ p.contribution < Modulus
  BY <1>1, <1>3, SeatFacts DEF Missing, PotIsWhatWasPaid, Amount
<1>5. PICK x \in Amount : x = p.paid[j] + v /\ x <= p.contribution /\ x \in Nat
  <2>1. PICK y \in Nat, c \in Nat : y = p.paid[j] /\ c = p.contribution
    BY <1>3, <1>4
  <2>2. v \in Nat /\ y \in Nat /\ c \in Nat /\ v <= c - y /\ c < Modulus
    BY <1>4, <2>1
  <2>3. y + v \in Amount /\ y + v <= c /\ y + v \in Nat
    BY ONLY <2>2, SeatFacts DEF Amount
  <2> QED BY <2>1, <2>3
<1>6. PICK b \in Amount : b = p.balance + v /\ b = Plus(p.balance, v)
  BY <1>1, BalanceRoom, AddAmount
<1>0. PICK f \in SeatAmounts : f = [p.paid EXCEPT ![j] = x]
  BY <1>1, SetSeat
<1>7. q = [p EXCEPT !.paid = f, !.balance = b]
  BY <1>0, <1>5, <1>6 DEF PayIn
<1>t. q \in PoolRecord
  <2>1. [p EXCEPT !.paid = f, !.balance = b] \in PoolRecord
    BY <1>1, RecordPaid
  <2> QED BY ONLY <1>7, <2>1
<1>8. q \in PoolRecord /\ Alike(p, q) /\ q.status = p.status
  BY <1>1, <1>7, <1>t DEF PoolRecord, Alike
<1>9. /\ q.paid = f /\ q.balance = b
      /\ q.insurance = p.insurance /\ q.deposits = p.deposits /\ q.prepaid = p.prepaid
      /\ q.joined = p.joined /\ q.defaults = p.defaults
  BY <1>1, <1>7 DEF PoolRecord
<1>10. SumTo(q.paid, NumSeats) = SumTo(p.paid, NumSeats) - p.paid[j] + x
  BY <1>0, <1>1, <1>9, SetSeat
<1>11. b = SumTo(q.paid, NumSeats)
  BY <1>2, <1>4, <1>5, <1>6, <1>10
<1>12. Holds(q) = Holds(p) + v
  <2>1. Holds(q) = b + SumTo(p.deposits, NumSeats) + SumTo(p.prepaid, NumSeats) + p.insurance
    BY <1>9 DEF Holds
  <2> QED BY <1>2, <1>6, <2>1
<1>13. PotIsWhatWasPaid(q)
  <2>1. ASSUME NEW k \in Seats PROVE q.paid[k] <= q.contribution
    <3>1. CASE k = j
      BY <1>0, <1>4, <1>5, <1>8, <1>9, <3>1 DEF Alike
    <3>2. CASE k # j
      BY <1>0, <1>3, <1>4, <1>8, <1>9, <3>2 DEF Alike, PotIsWhatWasPaid
    <3> QED BY <3>1, <3>2
  <2> QED BY <1>8, <1>9, <1>11, <2>1 DEF PotIsWhatWasPaid, Alike, Goal
<1>14. StageOf(q) /\ EndOf(q)
  BY <1>3, <1>8, <1>9 DEF StageOf, EndOf, Alike, Goal
<1> QED BY <1>8, <1>12, <1>13, <1>14, AlikeIsCircle

(* Savings for a goal: the pot is what all members saved, and it is done   *)
(* when the target is reached.                                             *)
(* Seat j of goal circle p saves v. *)
SavedIn(p, j, v, st) ==
  [p EXCEPT !.saved[j] = Plus(@, v), !.balance = Plus(@, v), !.status = st]

LEMMA SaveIsCircle ==
  ASSUME NEW p, Circle(p), p.status = "active", Goal(p), NEW j \in Seats, NEW v \in Nat,
         Holds(p) + v < Modulus, NEW st \in {"active", "done"},
         NEW q, q = SavedIn(p, j, v, st)
  PROVE  Circle(q) /\ Holds(q) = Holds(p) + v
<1>1. p \in PoolRecord /\ p.saved \in SeatAmounts /\ p.balance \in Amount
  BY DEF Circle, PoolRecord
<1>2. /\ p.balance \in Nat /\ Holds(p) \in Nat /\ SumTo(p.deposits, NumSeats) \in Nat
      /\ SumTo(p.prepaid, NumSeats) \in Nat /\ p.insurance \in Nat
      /\ Holds(p) = p.balance + SumTo(p.deposits, NumSeats) + SumTo(p.prepaid, NumSeats)
                      + p.insurance
  BY <1>1, HoldsType
<1>3. PotIsWhatWasPaid(p) /\ StageOf(p) /\ EndOf(p)
  BY CircleFacts
<1>4. p.saved \in [Seats -> Nat] /\ p.balance = SumTo(p.saved, NumSeats)
  BY <1>1, <1>3, SeatFacts DEF PotIsWhatWasPaid
<1>5. p.saved[j] \in Nat /\ p.saved[j] <= p.balance
  BY <1>4, SeatSum
<1>v. v \in Nat
  OBVIOUS
<1>6. PICK x \in Amount : x = p.saved[j] + v /\ x = Plus(p.saved[j], v) /\ x \in Nat
  <2>1. p.balance \in Nat /\ p.balance + v < Modulus
    BY <1>1, BalanceRoom
  <2>2. p.saved[j] + v < Modulus
    BY ONLY <1>5, <1>v, <2>1, SeatFacts
  <2> QED BY <1>5, <2>2, AddAmount
<1>7. PICK b \in Amount : b = p.balance + v /\ b = Plus(p.balance, v)
  BY <1>1, BalanceRoom, AddAmount
<1>0. PICK f \in SeatAmounts : f = [p.saved EXCEPT ![j] = x]
  BY <1>1, SetSeat
<1>8. q = [p EXCEPT !.saved = f, !.balance = b, !.status = st]
  BY <1>0, <1>6, <1>7 DEF SavedIn
<1>t. q \in PoolRecord
  <2>1. [p EXCEPT !.saved = f, !.balance = b, !.status = st] \in PoolRecord
    BY <1>1, RecordSaved
  <2> QED BY ONLY <1>8, <2>1
<1>9. q \in PoolRecord /\ Alike(p, q) /\ q.status = st
  BY <1>1, <1>8, <1>t DEF PoolRecord, Alike
<1>10. /\ q.saved = f /\ q.balance = b /\ q.paid = p.paid
       /\ q.insurance = p.insurance /\ q.deposits = p.deposits /\ q.prepaid = p.prepaid
       /\ q.joined = p.joined /\ q.defaults = p.defaults
  BY <1>1, <1>8 DEF PoolRecord
<1>11. SumTo(q.saved, NumSeats) = SumTo(p.saved, NumSeats) - p.saved[j] + x
  BY <1>0, <1>1, <1>10, SetSeat
<1>12. b = SumTo(q.saved, NumSeats)
  BY <1>2, <1>4, <1>5, <1>6, <1>7, <1>11
<1>13. Holds(q) = Holds(p) + v
  <2>1. Holds(q) = b + SumTo(p.deposits, NumSeats) + SumTo(p.prepaid, NumSeats) + p.insurance
    BY <1>10 DEF Holds
  <2> QED BY <1>2, <1>7, <2>1
<1>14. PotIsWhatWasPaid(q)
  BY <1>3, <1>9, <1>10, <1>12 DEF PotIsWhatWasPaid, Alike, Goal
<1>15. StageOf(q) /\ EndOf(q)
  BY <1>3, <1>9, <1>10 DEF StageOf, EndOf, Alike, Goal
<1> QED BY <1>9, <1>13, <1>14, <1>15, AlikeIsCircle

(* Who withdraws takes what he saved. *)
LEMMA WithdrawIsCircle ==
  ASSUME NEW p, Circle(p), p.status \notin {"none", "forming"}, Goal(p), NEW j \in Seats,
         NEW st \in {p.status, "done"},
         NEW q, q = [p EXCEPT !.saved[j] = 0, !.balance = Minus(@, p.saved[j]),
                              !.withdrawn[j] = TRUE, !.status = st]
  PROVE  /\ p.saved[j] \in Nat /\ p.saved[j] <= Holds(p)
         /\ Circle(q) /\ Holds(q) = Holds(p) - p.saved[j]
<1>1. p \in PoolRecord /\ p.saved \in SeatAmounts /\ p.balance \in Amount
  BY DEF Circle, PoolRecord
<1>2. /\ p.balance \in Nat /\ Holds(p) \in Nat /\ SumTo(p.deposits, NumSeats) \in Nat
      /\ SumTo(p.prepaid, NumSeats) \in Nat /\ p.insurance \in Nat
      /\ Holds(p) = p.balance + SumTo(p.deposits, NumSeats) + SumTo(p.prepaid, NumSeats)
                      + p.insurance
  BY <1>1, HoldsType
<1>3. PotIsWhatWasPaid(p) /\ StageOf(p) /\ EndOf(p)
  BY CircleFacts
<1>4. p.saved \in [Seats -> Nat] /\ p.balance = SumTo(p.saved, NumSeats)
  BY <1>1, <1>3, SeatFacts DEF PotIsWhatWasPaid
<1>5. p.saved[j] \in Nat /\ p.saved[j] <= p.balance
  BY <1>4, SeatSum
<1>6. PICK z \in Amount : z = 0 /\ z \in Nat
  BY SeatFacts DEF Amount
<1>7. PICK b \in Amount : b = p.balance - p.saved[j] /\ b = Minus(p.balance, p.saved[j])
  <2>1. Minus(p.balance, p.saved[j]) = p.balance - p.saved[j]
    BY <1>1, <1>5, MinusExact
  <2>2. Minus(p.balance, p.saved[j]) \in Amount
    BY <1>2, <1>5, PlusMinusType
  <2> QED BY <2>1, <2>2
<1>0. PICK f \in SeatAmounts : f = [p.saved EXCEPT ![j] = z]
  BY <1>1, SetSeat
<1>w. PICK w \in SeatFlags : w = [p.withdrawn EXCEPT ![j] = TRUE]
  BY <1>1 DEF PoolRecord, SeatFlags
<1>8. q = [p EXCEPT !.saved = f, !.balance = b, !.withdrawn = w, !.status = st]
  BY <1>0, <1>6, <1>7, <1>w
<1>s. st \in {"none", "forming", "active", "done", "cancelled"}
  BY <1>1 DEF PoolRecord
<1>9. q \in PoolRecord /\ Alike(p, q) /\ q.status = st
  <2>0. PICK r \in PoolRecord : r = [p EXCEPT !.saved = f, !.balance = b, !.status = st]
    BY <1>1, <1>s DEF PoolRecord
  <2>a. q = [r EXCEPT !.withdrawn = w]
    BY <1>1, <1>8, <2>0 DEF PoolRecord
  <2>1. q \in PoolRecord
    BY <2>a DEF PoolRecord
  <2> QED BY <1>1, <1>8, <2>1 DEF PoolRecord, Alike
<1>10. /\ q.saved = f /\ q.balance = b /\ q.paid = p.paid
       /\ q.insurance = p.insurance /\ q.deposits = p.deposits /\ q.prepaid = p.prepaid
       /\ q.joined = p.joined /\ q.defaults = p.defaults
  BY <1>1, <1>8 DEF PoolRecord
<1>11. SumTo(q.saved, NumSeats) = SumTo(p.saved, NumSeats) - p.saved[j] + z
  BY <1>0, <1>1, <1>10, SetSeat
<1>12. b = SumTo(q.saved, NumSeats)
  BY <1>2, <1>4, <1>5, <1>6, <1>7, <1>11
<1>13. Holds(q) = Holds(p) - p.saved[j] /\ p.saved[j] <= Holds(p)
  <2>1. Holds(q) = b + SumTo(p.deposits, NumSeats) + SumTo(p.prepaid, NumSeats) + p.insurance
    BY <1>10 DEF Holds
  <2> QED BY <1>2, <1>5, <1>7, <2>1
<1>14. PotIsWhatWasPaid(q)
  BY <1>3, <1>9, <1>10, <1>12 DEF PotIsWhatWasPaid, Alike, Goal
<1>15. StageOf(q) /\ EndOf(q)
  <2>1. st = "cancelled" => p.status = "cancelled" /\ p.round = 0 /\ Holds(p) = 0
    BY <1>3 DEF EndOf
  <2>2. st = "cancelled" => Holds(q) = 0
    BY <1>2, <1>5, <1>13, <2>1
  <2>3. q.status # "forming" /\ Goal(q)
    BY <1>9 DEF Alike, Goal
  <2>4. StageOf(q)
    BY <1>3, <1>9, <1>10, <2>3 DEF StageOf, Alike, Goal
  <2> QED BY <1>9, <2>1, <2>2, <2>3, <2>4 DEF EndOf, Alike
<1> QED BY <1>5, <1>9, <1>13, <1>14, <1>15, AlikeIsCircle

(* Money set aside or taken back: only prepaid changes. *)
LEMMA PrepaidIsCircle ==
  ASSUME NEW p, Circle(p), p.status # "none", ~Goal(p), NEW j \in Seats, NEW v \in Amount,
         p.status \in {"forming", "active"} \/ v <= p.prepaid[j],
         NEW q, q = [p EXCEPT !.prepaid[j] = v]
  PROVE  /\ p.prepaid[j] \in Nat /\ p.prepaid[j] <= Holds(p)
         /\ Circle(q) /\ Holds(q) = Holds(p) - p.prepaid[j] + v
<1>1. p \in PoolRecord /\ p.prepaid \in SeatAmounts
  BY DEF Circle, PoolRecord
<1>2. /\ p.balance \in Nat /\ Holds(p) \in Nat /\ SumTo(p.deposits, NumSeats) \in Nat
      /\ SumTo(p.prepaid, NumSeats) \in Nat /\ p.insurance \in Nat
      /\ Holds(p) = p.balance + SumTo(p.deposits, NumSeats) + SumTo(p.prepaid, NumSeats)
                      + p.insurance
  BY <1>1, HoldsType
<1>3. PotIsWhatWasPaid(p) /\ StageOf(p) /\ EndOf(p)
  BY CircleFacts
<1>4. p.prepaid \in [Seats -> Nat] /\ v \in Nat
  BY <1>1, SeatFacts
<1>5. p.prepaid[j] \in Nat /\ p.prepaid[j] <= SumTo(p.prepaid, NumSeats)
  BY <1>4, SeatSum
<1>6. PICK f \in SeatAmounts : f = [p.prepaid EXCEPT ![j] = v]
  BY <1>1, SetSeat
<1>7. SumTo(f, NumSeats) = SumTo(p.prepaid, NumSeats) - p.prepaid[j] + v
  BY <1>1, <1>6, SetSeat
<1>8. q = [p EXCEPT !.prepaid = f]
  BY <1>6
<1>9. q \in PoolRecord /\ Alike(p, q) /\ q.status = p.status
  BY <1>1, <1>8 DEF PoolRecord, Alike
<1>10. /\ q.prepaid = f /\ q.balance = p.balance /\ q.paid = p.paid /\ q.saved = p.saved
       /\ q.insurance = p.insurance /\ q.deposits = p.deposits
       /\ q.joined = p.joined /\ q.defaults = p.defaults
  BY <1>1, <1>8 DEF PoolRecord
<1>11. Holds(q) = Holds(p) - p.prepaid[j] + v
  <2>1. Holds(q) = p.balance + SumTo(p.deposits, NumSeats) + SumTo(f, NumSeats) + p.insurance
    BY <1>10 DEF Holds
  <2> QED BY <1>2, <1>4, <1>5, <1>7, <2>1
<1>12. PotIsWhatWasPaid(q) /\ StageOf(q)
  BY <1>3, <1>9, <1>10 DEF PotIsWhatWasPaid, StageOf, Alike, Goal
<1>13. p.prepaid[j] <= Holds(p)
  BY <1>2, <1>5
<1>14. EndOf(q)
  <2>1. ASSUME p.status \in {"done", "cancelled"} PROVE Holds(q) = 0
    <3>1. Holds(p) = 0 /\ v <= p.prepaid[j]
      BY <1>3, <2>1 DEF EndOf
    <3> QED BY <1>4, <1>5, <1>11, <1>13, <3>1
  <2> QED BY <1>3, <1>9, <2>1 DEF EndOf, Alike, Goal
<1> QED BY <1>5, <1>9, <1>11, <1>12, <1>13, <1>14, AlikeIsCircle

(* What autopay takes from each member's money: the rest of this round, or *)
(* nothing.                                                                *)
Takes(p, take) ==
  /\ take \in [Seats -> Nat]
  /\ \A j \in Seats : take[j] <= p.prepaid[j] /\ p.paid[j] + take[j] <= p.contribution
  /\ Goal(p) => take = Nothing
  /\ Autopaid(p) = [p EXCEPT !.prepaid = [j \in Seats |-> @[j] - take[j]],
                             !.paid = [j \in Seats |-> @[j] + take[j]],
                             !.balance = Plus(@, SumTo(take, NumSeats))]

LEMMA AutopayTakes ==
  ASSUME NEW p, Circle(p), p.status = "active"
  PROVE  \E take : Takes(p, take)
<1> DEFINE due  == {j \in Seats : ~Paid(p, j) /\ p.prepaid[j] >= Missing(p, j)}
           take == [j \in Seats |-> IF j \in due THEN Missing(p, j) ELSE 0]
<1>1. p \in PoolRecord /\ p.paid \in SeatAmounts /\ p.prepaid \in SeatAmounts
  BY DEF Circle, PoolRecord
<1>2. /\ PotIsWhatWasPaid(p) /\ StageOf(p) /\ p.contribution \in Nat /\ p.contribution > 0
  BY CircleFacts
<1>3. ASSUME NEW j \in Seats
      PROVE  /\ p.paid[j] \in Nat /\ p.prepaid[j] \in Nat /\ p.paid[j] <= p.contribution
             /\ Missing(p, j) \in Nat /\ p.paid[j] + Missing(p, j) = p.contribution
  <2>1. p.paid[j] \in Nat /\ p.prepaid[j] \in Nat /\ p.paid[j] <= p.contribution
    BY <1>1, <1>2, SeatFacts DEF PotIsWhatWasPaid
  <2> QED BY <1>2, <2>1 DEF Missing
<1>4. ASSUME NEW j \in Seats
      PROVE  take[j] \in Nat /\ take[j] <= p.prepaid[j] /\ p.paid[j] + take[j] <= p.contribution
  <2>1. CASE j \in due
    BY <1>2, <1>3, <2>1
  <2>2. CASE j \notin due
    BY <1>2, <1>3, <2>2
  <2> QED BY <2>1, <2>2
<1>5. ASSUME Goal(p) PROVE take = Nothing
  <2>1. p.paid = Nothing /\ p.prepaid = Nothing
    BY <1>2, <1>5 DEF StageOf
  <2>2. ASSUME NEW j \in Seats PROVE j \notin due
    <3>1. p.paid[j] = 0 /\ p.prepaid[j] = 0
      BY <2>1 DEF Nothing
    <3> QED BY <1>2, <3>1 DEF Missing
  <2>3. \A j \in Seats : take[j] = 0
    BY <2>2
  <2> QED BY <2>3 DEF Nothing
<1>6. Autopaid(p) = [p EXCEPT !.prepaid = [j \in Seats |-> @[j] - take[j]],
                              !.paid = [j \in Seats |-> @[j] + take[j]],
                              !.balance = Plus(@, SumTo(take, NumSeats))]
  BY DEF Autopaid
<1>7. take = [j \in Seats |-> take[j]]
  OBVIOUS
<1> HIDE DEF take
<1>8. Takes(p, take)
  BY <1>4, <1>5, <1>6, <1>7 DEF Takes
<1> QED BY <1>8

(* Autopay moves money within the circle. *)
LEMMA AutopaidIsCircle ==
  ASSUME NEW p, Circle(p), p.status # "none", Holds(p) < Modulus, NEW q, q = Autopaid(p)
  PROVE  /\ Circle(q) /\ Holds(q) = Holds(p) /\ Alike(p, q) /\ q.status = p.status
         /\ q.deposits = p.deposits /\ q.defaults = p.defaults
<1>0. p \in PoolRecord
  BY DEF Circle
<1>1. CASE p.status # "active"
  <2>1. q = p
    BY <1>1 DEF Autopaid
  <2> QED BY <2>1 DEF Alike
<1>2. CASE p.status = "active"
  <2>1. PICK take : Takes(p, take)
    BY <1>2, AutopayTakes
  <2>2. p.paid \in SeatAmounts /\ p.prepaid \in SeatAmounts /\ p.contribution \in Amount
    BY <1>0 DEF PoolRecord
  <2>3. /\ p.balance \in Nat /\ Holds(p) \in Nat /\ SumTo(p.deposits, NumSeats) \in Nat
        /\ SumTo(p.prepaid, NumSeats) \in Nat /\ p.insurance \in Nat
        /\ Holds(p) = p.balance + SumTo(p.deposits, NumSeats) + SumTo(p.prepaid, NumSeats)
                        + p.insurance
    BY <1>0, HoldsType
  <2>4. PotIsWhatWasPaid(p) /\ StageOf(p) /\ EndOf(p) /\ p.contribution \in Nat
    BY <1>2, CircleFacts
  <2> DEFINE f == [j \in Seats |-> p.prepaid[j] - take[j]]
             g == [j \in Seats |-> p.paid[j] + take[j]]
             v == SumTo(take, NumSeats)
  <2>5. take \in [Seats -> Nat] /\ p.prepaid \in [Seats -> Nat] /\ p.paid \in [Seats -> Nat]
    BY <2>1, <2>2, SeatFacts DEF Takes
  <2>6. ASSUME NEW j \in Seats
        PROVE  /\ f[j] \in Nat /\ f[j] <= p.prepaid[j] /\ p.prepaid[j] = f[j] + take[j]
               /\ g[j] \in Nat /\ g[j] <= p.contribution /\ g[j] = p.paid[j] + take[j]
               /\ f[j] \in Amount /\ g[j] \in Amount
    <3>1. take[j] \in Nat /\ p.prepaid[j] \in Nat /\ p.paid[j] \in Nat
          /\ take[j] <= p.prepaid[j] /\ p.paid[j] + take[j] <= p.contribution
          /\ p.prepaid[j] < Modulus /\ p.contribution < Modulus
      BY <2>1, <2>2, <2>5, SeatFacts DEF Takes, SeatAmounts, Amount
    <3>2. f[j] = p.prepaid[j] - take[j] /\ g[j] = p.paid[j] + take[j]
      OBVIOUS
    <3>3. /\ f[j] \in Nat /\ f[j] <= p.prepaid[j] /\ p.prepaid[j] = f[j] + take[j]
          /\ g[j] \in Nat /\ g[j] <= p.contribution
      BY <2>4, <3>1, <3>2
    <3> HIDE DEF f, g
    <3>4. f[j] < Modulus /\ g[j] < Modulus
      BY <2>4, <3>1, <3>3, SeatFacts
    <3> QED BY <3>2, <3>3, <3>4, SeatFacts DEF Amount
  <2>7. f \in SeatAmounts /\ g \in SeatAmounts
    BY <2>6 DEF SeatAmounts
  <2>8. f \in [Seats -> Nat] /\ g \in [Seats -> Nat] /\ v \in Nat
    BY <2>5, <2>7, SeatFacts, SeatSum
  <2> HIDE DEF f, g, v
  <2>s. /\ NumSeats \in Nat /\ take \in [1..NumSeats -> Nat] /\ f \in [1..NumSeats -> Nat]
        /\ g \in [1..NumSeats -> Nat] /\ p.prepaid \in [1..NumSeats -> Nat]
        /\ p.paid \in [1..NumSeats -> Nat] /\ v = SumTo(take, NumSeats)
    BY <2>5, <2>8, SeatFacts DEF v
  <2>9. SumTo(p.prepaid, NumSeats) = SumTo(f, NumSeats) + v
    <3>1. \A j \in 1..NumSeats : p.prepaid[j] = f[j] + take[j]
      BY <2>6, SeatFacts
    <3> QED BY ONLY <2>s, <3>1, SumToPlus
  <2>10. SumTo(g, NumSeats) = SumTo(p.paid, NumSeats) + v
    <3>1. \A j \in 1..NumSeats : g[j] = p.paid[j] + take[j]
      BY <2>6, SeatFacts
    <3> QED BY ONLY <2>s, <3>1, SumToPlus
  <2>11. SumTo(f, NumSeats) \in Nat
    BY <2>8, SeatSum
  <2>12. PICK b \in Amount : b = p.balance + v /\ b = Plus(p.balance, v)
    <3>0. p.balance + v <= Holds(p)
      BY <2>3, <2>8, <2>9, <2>11
    <3>1. p.balance + v < Modulus
      BY <2>3, <2>8, <3>0, SeatFacts
    <3> QED BY <2>3, <2>8, <3>1, AddAmount
  <2>13. q = [p EXCEPT !.prepaid = f, !.paid = g, !.balance = b]
    BY <1>0, <2>1, <2>12 DEF Takes, f, g, v
  <2>t. q \in PoolRecord
    <3>1. [p EXCEPT !.prepaid = f, !.paid = g, !.balance = b] \in PoolRecord
      BY <1>0, <2>7, RecordAutopaid
    <3> QED BY ONLY <2>13, <3>1
  <2>14. q \in PoolRecord /\ Alike(p, q) /\ q.status = p.status
    BY <1>0, <2>13, <2>t DEF PoolRecord, Alike
  <2>15. /\ q.prepaid = f /\ q.paid = g /\ q.balance = b /\ q.saved = p.saved
         /\ q.insurance = p.insurance /\ q.deposits = p.deposits
         /\ q.joined = p.joined /\ q.defaults = p.defaults
    BY <1>0, <2>13 DEF PoolRecord
  <2>16. Holds(q) = Holds(p)
    <3>1. Holds(q) = b + SumTo(p.deposits, NumSeats) + SumTo(f, NumSeats) + p.insurance
      BY <2>15 DEF Holds
    <3> QED BY <2>3, <2>8, <2>9, <2>11, <2>12, <3>1
  <2>17. Goal(p) => f = Nothing /\ g = Nothing /\ v = 0
    <3>1. ASSUME Goal(p) PROVE f = Nothing /\ g = Nothing /\ v = 0
      <4>1. take = Nothing /\ p.paid = Nothing /\ p.prepaid = Nothing
        BY <2>1, <2>4, <3>1 DEF Takes, StageOf
      <4>2. v = 0
        BY <4>1, NothingSum DEF v
      <4> QED BY <4>1, <4>2 DEF f, g, Nothing
    <3> QED BY <3>1
  <2>18. PotIsWhatWasPaid(q)
    <3>1. \A j \in Seats : q.paid[j] <= q.contribution
      BY <2>6, <2>14, <2>15 DEF Alike
    <3>2. Goal(q) <=> Goal(p)
      BY <2>14 DEF Alike, Goal
    <3>3. CASE Goal(p)
      <4>1. q.balance = SumTo(q.saved, NumSeats)
        BY <2>3, <2>4, <2>12, <2>15, <2>17, <3>3 DEF PotIsWhatWasPaid
      <4> QED BY <3>1, <3>2, <3>3, <4>1 DEF PotIsWhatWasPaid
    <3>4. CASE ~Goal(p)
      <4>1. q.balance = SumTo(q.paid, NumSeats)
        BY <2>4, <2>10, <2>12, <2>15, <3>4 DEF PotIsWhatWasPaid
      <4> QED BY <3>1, <3>2, <3>4, <4>1 DEF PotIsWhatWasPaid
    <3> QED BY <3>3, <3>4
  <2>19. StageOf(q) /\ EndOf(q)
    BY <1>2, <2>4, <2>14, <2>15, <2>17 DEF StageOf, EndOf, Alike, Goal
  <2> QED BY <1>2, <2>14, <2>15, <2>16, <2>18, <2>19, AlikeIsCircle
<1> QED BY <1>1, <1>2

-----------------------------------------------------------------------------
(* Seats *)

(* One draw after another is a draw. *)
LEMMA TermsReseated ==
  ASSUME NEW p, KeepsTerms(p), NEW s \in Draws, NEW q,
         q.members = [k \in Seats |-> p.members[s[k]]],
         q.contribution = p.contribution, q.deposit = p.deposit
  PROVE  KeepsTerms(q)
<1>1. PICK t \in Offers, r \in Draws : /\ p.members = [k \in Seats |-> t.members[r[k]]]
                                       /\ p.contribution = t.contribution /\ p.deposit = t.deposit
  BY DEF KeepsTerms
<1>2. /\ s \in [Seats -> Seats] /\ r \in [Seats -> Seats]
      /\ \A j, k \in Seats : s[j] = s[k] => j = k
      /\ \A j, k \in Seats : r[j] = r[k] => j = k
  BY DEF Draws
<1>3. PICK d : d = [k \in Seats |-> r[s[k]]]
  OBVIOUS
<1>4. d \in Draws
  BY <1>2, <1>3 DEF Draws
<1>5. q.members = [k \in Seats |-> t.members[d[k]]]
  <2>1. \A k \in Seats : p.members[s[k]] = t.members[d[k]]
    BY <1>1, <1>2, <1>3
  <2> QED BY <2>1
<1>6. t \in Offers /\ q.contribution = t.contribution /\ q.deposit = t.deposit
  BY <1>1
<1> QED BY ONLY <1>4, <1>5, <1>6 DEF KeepsTerms

(* Everything tracked per member moves to his new seat. *)
IsReseated(p, q, s) ==
  /\ q.members = [k \in Seats |-> p.members[s[k]]]
  /\ q.joined = [k \in Seats |-> p.joined[s[k]]]
  /\ q.paid = [k \in Seats |-> p.paid[s[k]]]
  /\ q.claimed = [k \in Seats |-> p.claimed[s[k]]]
  /\ q.deposits = [k \in Seats |-> p.deposits[s[k]]]
  /\ q.defaults = [k \in Seats |-> p.defaults[s[k]]]
  /\ q.prepaid = [k \in Seats |-> p.prepaid[s[k]]]
  /\ q.saved = [k \in Seats |-> p.saved[s[k]]]
  /\ q.status = p.status /\ q.mode = p.mode /\ q.contribution = p.contribution
  /\ q.deposit = p.deposit /\ q.round = p.round /\ q.balance = p.balance
  /\ q.insurance = p.insurance

LEMMA ReseatedType ==
  ASSUME NEW p \in PoolRecord, NEW s \in Draws, NEW q, q = Reseated(p, s)
  PROVE  q \in PoolRecord /\ IsReseated(p, q, s)
<1>1. s \in [Seats -> Seats]
  BY DEF Draws
<1>2. PICK m \in SeatKeys : m = [k \in Seats |-> p.members[s[k]]]
  BY <1>1 DEF PoolRecord, SeatKeys
<1>3. PICK w \in SeatKeys : w = [k \in Seats |-> p.swapWith[s[k]]]
  BY <1>1 DEF PoolRecord, SeatKeys
<1>4. PICK jo \in SeatFlags : jo = [k \in Seats |-> p.joined[s[k]]]
  BY <1>1 DEF PoolRecord, SeatFlags
<1>5. PICK cl \in SeatFlags : cl = [k \in Seats |-> p.claimed[s[k]]]
  BY <1>1 DEF PoolRecord, SeatFlags
<1>6. PICK wi \in SeatFlags : wi = [k \in Seats |-> p.withdrawn[s[k]]]
  BY <1>1 DEF PoolRecord, SeatFlags
<1>7. PICK pa \in SeatAmounts : pa = [k \in Seats |-> p.paid[s[k]]]
  BY <1>1 DEF PoolRecord, SeatAmounts
<1>8. PICK pr \in SeatAmounts : pr = [k \in Seats |-> p.prepaid[s[k]]]
  BY <1>1 DEF PoolRecord, SeatAmounts
<1>9. PICK dp \in SeatAmounts : dp = [k \in Seats |-> p.deposits[s[k]]]
  BY <1>1 DEF PoolRecord, SeatAmounts
<1>10. PICK bi \in SeatAmounts : bi = [k \in Seats |-> p.bids[s[k]]]
  BY <1>1 DEF PoolRecord, SeatAmounts
<1>11. PICK sa \in SeatAmounts : sa = [k \in Seats |-> p.saved[s[k]]]
  BY <1>1 DEF PoolRecord, SeatAmounts
<1>12. PICK df \in [Seats -> Nat] : df = [k \in Seats |-> p.defaults[s[k]]]
  BY <1>1 DEF PoolRecord
<1>13. q = [p EXCEPT !.members = m, !.joined = jo, !.paid = pa, !.claimed = cl, !.deposits = dp,
                     !.defaults = df, !.prepaid = pr, !.bids = bi, !.saved = sa,
                     !.withdrawn = wi, !.swapWith = w]
  BY <1>2, <1>3, <1>4, <1>5, <1>6, <1>7, <1>8, <1>9, <1>10, <1>11, <1>12 DEF Reseated
<1>14. PICK a \in PoolRecord : a = [p EXCEPT !.members = m, !.joined = jo, !.paid = pa]
  BY DEF PoolRecord
<1>15. PICK b \in PoolRecord : b = [a EXCEPT !.claimed = cl, !.deposits = dp, !.defaults = df]
  BY DEF PoolRecord
<1>16. PICK c \in PoolRecord : c = [b EXCEPT !.prepaid = pr, !.bids = bi, !.saved = sa]
  BY DEF PoolRecord
<1>17. q = [c EXCEPT !.withdrawn = wi, !.swapWith = w]
  BY <1>13, <1>14, <1>15, <1>16 DEF PoolRecord
<1>18. q \in PoolRecord
  <2>1. [c EXCEPT !.withdrawn = wi, !.swapWith = w] \in PoolRecord
    BY RecordMoved
  <2> QED BY ONLY <1>17, <2>1
<1>19. /\ q.members = m /\ q.joined = jo /\ q.paid = pa /\ q.claimed = cl /\ q.deposits = dp
       /\ q.defaults = df /\ q.prepaid = pr /\ q.saved = sa
       /\ q.status = p.status /\ q.mode = p.mode /\ q.contribution = p.contribution
       /\ q.deposit = p.deposit /\ q.round = p.round /\ q.balance = p.balance
       /\ q.insurance = p.insurance
  BY <1>13 DEF PoolRecord
<1> QED BY <1>2, <1>4, <1>5, <1>7, <1>8, <1>9, <1>11, <1>12, <1>18, <1>19 DEF IsReseated

(* Exchanging seats nobody collected in, or all of them before the start,  *)
(* leaves a circle that holds the same.                                    *)
LEMMA ReseatedIsCircle ==
  ASSUME NEW p, Circle(p), p.status \in {"forming", "active"}, NEW s \in Draws,
         \A k \in Seats : p.claimed[s[k]] = p.claimed[k],
         NEW q \in PoolRecord, IsReseated(p, q, s)
  PROVE  Circle(q) /\ Holds(q) = Holds(p)
<1>1. /\ p \in PoolRecord /\ p.claimed \in SeatFlags /\ p.deposits \in SeatAmounts
      /\ p.prepaid \in SeatAmounts /\ p.paid \in SeatAmounts /\ p.saved \in SeatAmounts
  BY DEF Circle, PoolRecord
<1>2. s \in [Seats -> Seats]
  BY DEF Draws
<1>3. PotIsWhatWasPaid(p) /\ StageOf(p) /\ EndOf(p) /\ KeepsTerms(p)
  BY CircleFacts
<1>4. KeepsTerms(q)
  BY <1>3, TermsReseated DEF IsReseated
<1>5. q.claimed = p.claimed
  <2>1. \A k \in Seats : q.claimed[k] = p.claimed[k]
    BY DEF IsReseated
  <2> QED BY <1>1, <2>1 DEF IsReseated, SeatFlags
<1>6. /\ SumTo(q.deposits, NumSeats) = SumTo(p.deposits, NumSeats)
      /\ SumTo(q.prepaid, NumSeats) = SumTo(p.prepaid, NumSeats)
      /\ SumTo(q.paid, NumSeats) = SumTo(p.paid, NumSeats)
      /\ SumTo(q.saved, NumSeats) = SumTo(p.saved, NumSeats)
  <2>1. ASSUME NEW f \in SeatAmounts
        PROVE  SumTo([k \in Seats |-> f[s[k]]], NumSeats) = SumTo(f, NumSeats)
    <3>1. f \in [Seats -> Nat]
      BY SeatFacts
    <3> QED BY <3>1, ReseatedSum
  <2>2. SumTo(q.deposits, NumSeats) = SumTo(p.deposits, NumSeats)
    BY <1>1, <2>1 DEF IsReseated
  <2>3. SumTo(q.prepaid, NumSeats) = SumTo(p.prepaid, NumSeats)
    BY <1>1, <2>1 DEF IsReseated
  <2>4. SumTo(q.paid, NumSeats) = SumTo(p.paid, NumSeats)
    BY <1>1, <2>1 DEF IsReseated
  <2>5. SumTo(q.saved, NumSeats) = SumTo(p.saved, NumSeats)
    BY <1>1, <2>1 DEF IsReseated
  <2> QED BY <2>2, <2>3, <2>4, <2>5
<1>7. Holds(q) = Holds(p)
  BY <1>6 DEF Holds, IsReseated
<1>8. PotIsWhatWasPaid(q)
  <2>1. \A k \in Seats : q.paid[k] <= q.contribution
    BY <1>2, <1>3 DEF IsReseated, PotIsWhatWasPaid
  <2> QED BY <1>3, <1>6, <2>1 DEF PotIsWhatWasPaid, IsReseated, Goal
<1>9. ASSUME NEW f, f = Nothing PROVE [k \in Seats |-> f[s[k]]] = Nothing
  BY <1>2, <1>9 DEF Nothing
<1>10. StageOf(q)
  <2>1. \A k \in Seats : ~q.joined[k] => q.deposits[k] = 0
    BY <1>2, <1>3 DEF IsReseated, StageOf
  <2>2. \A k \in Seats : q.defaults[k] <= q.round
    BY <1>2, <1>3 DEF IsReseated, StageOf
  <2>3. Goal(q) => q.paid = Nothing /\ q.prepaid = Nothing
    BY <1>3, <1>9 DEF IsReseated, StageOf, Goal
  <2>4. q.status = "forming" => q.paid = Nothing /\ q.saved = Nothing
    BY <1>3, <1>9 DEF IsReseated, StageOf
  <2>5. q.status = "forming" => q.round = 0 /\ q.balance = 0 /\ q.insurance = 0 /\ q.claimed = Nobody
    BY <1>3, <1>5 DEF IsReseated, StageOf
  <2> QED BY <2>1, <2>2, <2>3, <2>4, <2>5 DEF StageOf
<1>11. EndOf(q)
  BY <1>3, <1>7 DEF EndOf, IsReseated, Goal
<1> QED BY <1>4, <1>5, <1>7, <1>8, <1>10, <1>11, TurnsKept DEF IsReseated

LEMMA SwapWithIsCircle ==
  ASSUME NEW p, Circle(p), p.status # "none", NEW w \in SeatKeys,
         NEW q, q = [p EXCEPT !.swapWith = w]
  PROVE  Circle(q) /\ Holds(q) = Holds(p) /\ Alike(p, q) /\ q.deposits = p.deposits
<1>1. p \in PoolRecord
  BY DEF Circle
<1>2. q \in PoolRecord
  BY <1>1 DEF PoolRecord
<1>3. /\ Alike(p, q) /\ q.status = p.status /\ q.paid = p.paid /\ q.balance = p.balance
      /\ q.insurance = p.insurance /\ q.deposits = p.deposits /\ q.prepaid = p.prepaid
      /\ q.saved = p.saved /\ q.joined = p.joined /\ q.defaults = p.defaults
  BY <1>1 DEF PoolRecord, Alike
<1>4. Holds(q) = Holds(p)
  BY <1>3 DEF Holds
<1>5. PotIsWhatWasPaid(q) /\ StageOf(q) /\ EndOf(q)
  BY <1>3, <1>4, CircleFacts DEF PotIsWhatWasPaid, StageOf, EndOf, Alike, Goal
<1> QED BY <1>2, <1>3, <1>4, <1>5, AlikeIsCircle

(* Two members exchange their seats. *)
LEMMA ExchangeIsDraw ==
  ASSUME NEW i \in Seats, NEW j \in Seats,
         NEW s, s = [k \in Seats |-> IF k = i THEN j ELSE IF k = j THEN i ELSE k]
  PROVE  s \in Draws
BY DEF Draws

(* Who joins a circle that forms leaves its deposit there. *)
LEMMA JoinIsCircle ==
  ASSUME NEW p, Circle(p), p.status = "forming", NEW j \in Seats, ~p.joined[j],
         NEW q, q = [p EXCEPT !.joined[j] = TRUE, !.deposits[j] = p.deposit]
  PROVE  /\ Circle(q) /\ Holds(q) = Holds(p) + p.deposit /\ Alike(p, q) /\ q.status = "forming"
         /\ \A k \in Seats : q.deposits[k] >= p.deposits[k]
<1>1. p \in PoolRecord /\ p.deposits \in SeatAmounts /\ p.deposit \in Amount /\ p.joined \in SeatFlags
  BY DEF Circle, PoolRecord
<1>2. /\ p.balance \in Nat /\ Holds(p) \in Nat /\ SumTo(p.deposits, NumSeats) \in Nat
      /\ SumTo(p.prepaid, NumSeats) \in Nat /\ p.insurance \in Nat
      /\ Holds(p) = p.balance + SumTo(p.deposits, NumSeats) + SumTo(p.prepaid, NumSeats)
                      + p.insurance
  BY <1>1, HoldsType
<1>3. PotIsWhatWasPaid(p) /\ StageOf(p) /\ EndOf(p) /\ p.deposit \in Nat
  BY CircleFacts
<1>4. p.deposits[j] = 0
  BY <1>3 DEF StageOf
<1>5. PICK f \in SeatAmounts : f = [p.deposits EXCEPT ![j] = p.deposit]
  BY <1>1, SetSeat
<1>6. PICK w \in SeatFlags : w = [p.joined EXCEPT ![j] = TRUE]
  BY <1>1 DEF SeatFlags
<1>7. q = [p EXCEPT !.joined = w, !.deposits = f]
  BY <1>5, <1>6
<1>t. q \in PoolRecord
  <2>1. [p EXCEPT !.joined = w, !.deposits = f] \in PoolRecord
    BY <1>1, RecordJoined
  <2> QED BY ONLY <1>7, <2>1
<1>8. q \in PoolRecord /\ Alike(p, q) /\ q.status = p.status
  BY <1>1, <1>7, <1>t DEF PoolRecord, Alike
<1>9. /\ q.deposits = f /\ q.joined = w /\ q.balance = p.balance /\ q.paid = p.paid
      /\ q.insurance = p.insurance /\ q.prepaid = p.prepaid /\ q.saved = p.saved
      /\ q.defaults = p.defaults
  BY <1>1, <1>7 DEF PoolRecord
<1>10. SumTo(f, NumSeats) = SumTo(p.deposits, NumSeats) + p.deposit
  <2>1. SumTo(f, NumSeats) = SumTo(p.deposits, NumSeats) - p.deposits[j] + p.deposit
    BY <1>1, <1>5, SetSeat
  <2> QED BY <1>2, <1>3, <1>4, <2>1
<1>11. Holds(q) = Holds(p) + p.deposit
  <2>1. Holds(q) = p.balance + SumTo(f, NumSeats) + SumTo(p.prepaid, NumSeats) + p.insurance
    BY <1>9 DEF Holds
  <2> QED BY <1>2, <1>3, <1>10, <2>1
<1>12. \A k \in Seats : ~w[k] => f[k] = 0
  BY <1>1, <1>3, <1>5, <1>6 DEF StageOf, SeatAmounts, SeatFlags
<1>13. PotIsWhatWasPaid(q) /\ StageOf(q) /\ EndOf(q)
  BY <1>3, <1>8, <1>9, <1>12 DEF PotIsWhatWasPaid, StageOf, EndOf, Alike, Goal
<1>14. ASSUME NEW k \in Seats PROVE q.deposits[k] >= p.deposits[k]
  <2>1. p.deposits[k] \in Nat
    BY <1>1, SeatFacts DEF SeatAmounts
  <2>2. CASE k = j
    BY <1>1, <1>3, <1>4, <1>5, <1>9, <2>2 DEF SeatAmounts
  <2>3. CASE k # j
    BY <1>1, <1>5, <1>9, <2>1, <2>3 DEF SeatAmounts
  <2> QED BY <2>2, <2>3
<1> QED BY <1>8, <1>11, <1>13, <1>14, AlikeIsCircle

(* The circle p started at time t. *)
Started(p, t) == [p EXCEPT !.status = "active", !.startedAt = t]

(* The circle starts. *)
LEMMA StartIsCircle ==
  ASSUME NEW p, Circle(p), p.status = "forming", NEW t \in Nat,
         NEW q, q = Started(p, t)
  PROVE  /\ Circle(q) /\ Holds(q) = Holds(p) /\ Alike(p, q) /\ q.status = "active"
         /\ q.deposits = p.deposits /\ q.claimed = Nobody
<1>1. p \in PoolRecord
  BY DEF Circle
<1>2. PotIsWhatWasPaid(p) /\ StageOf(p) /\ EndOf(p)
  BY CircleFacts
<1>3. q \in PoolRecord /\ q.status = "active"
  BY <1>1 DEF PoolRecord, Started
<1>4. /\ Alike(p, q) /\ q.paid = p.paid /\ q.balance = p.balance
      /\ q.insurance = p.insurance /\ q.deposits = p.deposits /\ q.prepaid = p.prepaid
      /\ q.saved = p.saved /\ q.joined = p.joined /\ q.defaults = p.defaults
  BY <1>1 DEF PoolRecord, Alike, Started
<1>5. Holds(q) = Holds(p)
  BY <1>4 DEF Holds
<1>6. PotIsWhatWasPaid(q) /\ StageOf(q) /\ q.claimed = Nobody
  BY <1>2, <1>3, <1>4 DEF PotIsWhatWasPaid, StageOf, Alike, Goal
<1>7. EndOf(q)
  <2>1. q.round = 0
    BY <1>2, <1>4 DEF StageOf, Alike
  <2> QED BY <1>3, <2>1, SeatFacts DEF EndOf
<1> QED BY <1>3, <1>4, <1>5, <1>6, <1>7, AlikeIsCircle

(* The creator of a circle that forms calls it off: everything goes back. *)
LEMMA CancelIsCircle ==
  ASSUME NEW p, Circle(p), p.status = "forming",
         NEW q, q = [p EXCEPT !.status = "cancelled", !.deposits = Nothing, !.prepaid = Nothing],
         NEW back, back = [j \in Seats |-> p.deposits[j] + p.prepaid[j]]
  PROVE  /\ Circle(q) /\ Holds(q) = 0 /\ back \in [Seats -> Nat]
         /\ SumTo(back, NumSeats) = Holds(p) /\ q.status = "cancelled" /\ q.deposits = Nothing
         /\ q.members = p.members
<1>1. p \in PoolRecord /\ p.deposits \in SeatAmounts /\ p.prepaid \in SeatAmounts
  BY DEF Circle, PoolRecord
<1>2. PotIsWhatWasPaid(p) /\ StageOf(p) /\ EndOf(p)
  BY CircleFacts
<1>3. p.balance = 0 /\ p.insurance = 0 /\ p.round = 0
  BY <1>2 DEF StageOf
<1>4. q \in PoolRecord /\ q.status = "cancelled"
  <2>1. [p EXCEPT !.status = "cancelled", !.deposits = Nothing, !.prepaid = Nothing] \in PoolRecord
    BY <1>1, NothingSum, RecordCancelled
  <2>2. q = [p EXCEPT !.status = "cancelled", !.deposits = Nothing, !.prepaid = Nothing]
    OBVIOUS
  <2>3. q \in PoolRecord
    BY ONLY <2>1, <2>2
  <2> QED BY <1>1, <2>3 DEF PoolRecord
<1>5. /\ Alike(p, q) /\ q.paid = p.paid /\ q.balance = p.balance
      /\ q.insurance = p.insurance /\ q.deposits = Nothing /\ q.prepaid = Nothing
      /\ q.saved = p.saved /\ q.joined = p.joined /\ q.defaults = p.defaults
  BY <1>1 DEF PoolRecord, Alike
<1>6. Holds(q) = 0
  BY <1>3, <1>5, NothingSum DEF Holds
<1>7. PotIsWhatWasPaid(q) /\ EndOf(q)
  BY <1>2, <1>3, <1>4, <1>5, <1>6 DEF PotIsWhatWasPaid, EndOf, Alike, Goal
<1>8. StageOf(q)
  <2>1. \A j \in Seats : q.deposits[j] = 0
    BY <1>5 DEF Nothing
  <2> QED BY <1>2, <1>4, <1>5, <2>1 DEF StageOf, Alike, Goal
<1>9. p.deposits \in [Seats -> Nat] /\ p.prepaid \in [Seats -> Nat]
  BY <1>1, SeatFacts
<1>10. back \in [Seats -> Nat] /\ \A j \in Seats : back[j] = p.deposits[j] + p.prepaid[j]
  BY <1>9
<1>11. SumTo(back, NumSeats) = SumTo(p.deposits, NumSeats) + SumTo(p.prepaid, NumSeats)
  BY <1>9, <1>10, SumToPlus, SeatFacts
<1>12. SumTo(back, NumSeats) = Holds(p)
  <2>1. SumTo(p.deposits, NumSeats) \in Nat /\ SumTo(p.prepaid, NumSeats) \in Nat
    BY <1>9, SeatSum
  <2>2. Holds(p) = 0 + SumTo(p.deposits, NumSeats) + SumTo(p.prepaid, NumSeats) + 0
    BY <1>3 DEF Holds
  <2> QED BY <1>11, <2>1, <2>2
<1> QED BY <1>4, <1>5, <1>6, <1>7, <1>8, <1>10, <1>12, AlikeIsCircle DEF Alike

LEMMA NoPoolType == NoPool \in PoolRecord
<1>1. /\ 0 \in Amount /\ 0 \in 0..BpsBase /\ 0 \in 0..NumSeats /\ 0 \in Nat
      /\ Never \in Nat \cup {Never} /\ NoMember \in Accounts \cup {NoMember}
  BY SeatFacts, BpsAssumption DEF Amount
<1>2. Nothing \in SeatAmounts /\ Nothing \in [Seats -> Nat]
  BY NothingSum DEF Nothing
<1>3. Nobody \in SeatFlags /\ [j \in Seats |-> NoMember] \in SeatKeys
  BY DEF Nobody, SeatFlags, SeatKeys
<1> QED BY <1>1, <1>2, <1>3 DEF PoolRecord, NoPool

(* A pool with other deposits is a pool. *)
LEMMA RecordDeposits ==
  ASSUME NEW r \in PoolRecord, NEW f \in SeatAmounts
  PROVE  [r EXCEPT !.deposits = f] \in PoolRecord
BY DEF PoolRecord

(* The circle its creator opens from seat j. *)
NewCircle(t, from, j) ==
  [NoPool EXCEPT !.status = "forming", !.creator = from, !.mode = t.mode,
     !.members = t.members, !.contribution = t.contribution,
     !.roundLen = t.roundLen, !.deposit = t.deposit, !.rate = t.rate,
     !.target = t.target, !.joined = [Nobody EXCEPT ![j] = TRUE],
     !.deposits = [Nothing EXCEPT ![j] = t.deposit]]

(* The circle a creator opens is one, with his deposit in it. *)
LEMMA CreateIsCircle ==
  ASSUME NEW t \in Offers, NEW from \in Accounts, NEW j \in Seats,
         NEW q, q = NewCircle(t, from, j)
  PROVE  Circle(q) /\ Holds(q) = t.deposit /\ t.deposit \in Amount
<1>1. /\ t.members \in [Seats -> Accounts] /\ t.mode \in {"rotation", "lottery", "bidding", "goal"}
      /\ t.contribution \in Amount /\ t.roundLen \in Nat /\ t.deposit \in Amount
      /\ t.rate \in 0..BpsBase /\ t.target \in Amount
  BY PoolAssumption DEF Terms
<1>2. PICK f \in SeatAmounts : f = [Nothing EXCEPT ![j] = t.deposit]
  BY <1>1, NothingSum, SetSeat
<1>3. PICK w \in SeatFlags : w = [Nobody EXCEPT ![j] = TRUE]
  BY DEF SeatFlags, Nobody
<1>4. /\ 0 \in Amount /\ 0 \in 0..NumSeats /\ Never \in Nat \cup {Never} /\ Nothing \in SeatAmounts
      /\ Nothing \in [Seats -> Nat] /\ Nobody \in SeatFlags /\ t.members \in SeatKeys
      /\ [k \in Seats |-> NoMember] \in SeatKeys
  BY <1>1, SeatFacts, NothingSum DEF Nothing, Nobody, SeatFlags, SeatKeys, Amount
<1>5. NoPool \in PoolRecord
  BY NoPoolType
<1>a. PICK a \in PoolRecord : a = [NoPool EXCEPT !.status = "forming", !.creator = from, !.mode = t.mode]
  BY <1>1, <1>5 DEF PoolRecord
<1>b. PICK b \in PoolRecord : b = [a EXCEPT !.members = t.members, !.contribution = t.contribution,
                                          !.roundLen = t.roundLen]
  BY <1>1, <1>4 DEF PoolRecord
<1>c. PICK c \in PoolRecord : c = [b EXCEPT !.deposit = t.deposit, !.rate = t.rate, !.target = t.target]
  BY <1>1 DEF PoolRecord
<1>e. q = [c EXCEPT !.joined = w, !.deposits = f]
  BY <1>2, <1>3, <1>5, <1>a, <1>b, <1>c DEF PoolRecord, NewCircle
<1>6. q \in PoolRecord
  <2>1. PICK r \in PoolRecord : r = [c EXCEPT !.joined = w]
    BY DEF PoolRecord
  <2>2. q = [r EXCEPT !.deposits = f]
    BY <1>e, <2>1 DEF PoolRecord
  <2>3. f \in SeatAmounts
    BY <1>3, <1>4
  <2>4. r \in PoolRecord
    OBVIOUS
  <2>5. [r EXCEPT !.deposits = f] \in PoolRecord
    BY <2>3, <2>4, RecordDeposits
  <2> QED BY ONLY <2>2, <2>5
<1>n. /\ NoPool.round = 0 /\ NoPool.balance = 0 /\ NoPool.insurance = 0 /\ NoPool.claimed = Nobody
      /\ NoPool.paid = Nothing /\ NoPool.prepaid = Nothing /\ NoPool.defaults = Nothing
      /\ NoPool.saved = Nothing
  BY DEF NoPool
<1>7. /\ q.status = "forming" /\ q.members = t.members /\ q.contribution = t.contribution
      /\ q.deposit = t.deposit /\ q.round = 0 /\ q.balance = 0 /\ q.insurance = 0
      /\ q.joined = w /\ q.claimed = Nobody /\ q.paid = Nothing /\ q.prepaid = Nothing
      /\ q.deposits = f /\ q.defaults = Nothing /\ q.saved = Nothing
  BY <1>2, <1>3, <1>5, <1>n DEF NewCircle
<1>8. KeepsTerms(q)
  <2>1. PICK s : s = [k \in Seats |-> k]
    OBVIOUS
  <2>2. s \in Draws
    BY <2>1 DEF Draws
  <2>3. q.members = [k \in Seats |-> t.members[s[k]]]
    BY <1>1, <1>7, <2>1
  <2> QED BY <1>7, <2>2, <2>3 DEF KeepsTerms
<1>9. PotIsWhatWasPaid(q)
  <2>1. t.contribution \in Nat
    BY <1>1, SeatFacts
  <2>2. \A k \in Seats : q.paid[k] <= q.contribution
    BY <1>7, <2>1 DEF Nothing
  <2> QED BY <1>7, <2>2, NothingSum DEF PotIsWhatWasPaid
<1>10. StageOf(q)
  <2>1. \A k \in Seats : ~w[k] => f[k] = 0
    BY <1>2, <1>3 DEF Nothing, Nobody
  <2>2. \A k \in Seats : q.defaults[k] <= q.round
    BY <1>7 DEF Nothing
  <2> QED BY <1>7, <2>1, <2>2 DEF StageOf
<1>11. Collected(q) = {} /\ 1..0 = {}
  BY <1>7 DEF Collected, Nobody
<1>12. Turn(q)
  BY <1>7, <1>11, FS_EmptySet DEF Turn
<1>13. Holds(q) = t.deposit
  <2>1. t.deposit \in Nat
    BY <1>1, SeatFacts
  <2>2. SumTo(f, NumSeats) = SumTo(Nothing, NumSeats) - Nothing[j] + t.deposit
    BY <1>1, <1>2, NothingSum, SetSeat
  <2>3. SumTo(f, NumSeats) = t.deposit
    BY <2>1, <2>2, NothingSum DEF Nothing
  <2>4. Holds(q) = 0 + SumTo(f, NumSeats) + SumTo(Nothing, NumSeats) + 0
    BY <1>7 DEF Holds
  <2> QED BY <2>1, <2>3, <2>4, NothingSum
<1>14. InStage(q)
  BY <1>7, <1>8, <1>10 DEF InStage, StageOf
<1> QED BY <1>1, <1>6, <1>9, <1>12, <1>13, <1>14, TurnParts DEF Circle

-----------------------------------------------------------------------------
(* Missed payments *)

(* No record of payments exceeds the contribution. *)
PaidUp == {p \in PoolRecord : \A j \in Seats : p.paid[j] <= p.contribution}

(* All that covering missed payments leaves alone. *)
Untouched(p, q) ==
  /\ Alike(p, q) /\ q.status = p.status /\ q.paid = p.paid /\ q.prepaid = p.prepaid
  /\ q.saved = p.saved /\ q.bids = p.bids /\ q.joined = p.joined
  /\ q.rate = p.rate /\ q.roundLen = p.roundLen

(* What covering does to one member. *)
SeatCovered(p, q, j) ==
  /\ q.deposits[j] <= p.deposits[j]
  /\ q.defaults[j] \in {p.defaults[j], p.defaults[j] + 1}
  /\ Scheduled(p) /\ q.deposits[j] < p.deposits[j] => q.defaults[j] = p.defaults[j] + 1
  /\ AllPaid(p) => q.deposits[j] = p.deposits[j]

(* The missed payment is noted. *)
NotedAgainst(p, n, j) ==
  /\ n \in PoolRecord /\ Untouched(p, n)
  /\ n.deposits = p.deposits /\ n.balance = p.balance /\ n.insurance = p.insurance
  /\ n.defaults[j] \in {p.defaults[j], p.defaults[j] + 1}
  /\ Scheduled(p) => n.defaults[j] = p.defaults[j] + 1
  /\ \A k \in Seats \ {j} : n.defaults[k] = p.defaults[k]

LEMMA Noted ==
  ASSUME NEW p \in PoolRecord, NEW j \in Seats
  PROVE  NotedAgainst(p, IF Scheduled(p) THEN [p EXCEPT !.defaults[j] = @ + 1] ELSE p, j)
<1> DEFINE n == IF Scheduled(p) THEN [p EXCEPT !.defaults[j] = @ + 1] ELSE p
<1> SUFFICES NotedAgainst(p, n, j)
  OBVIOUS
<1>1. CASE ~Scheduled(p)
  <2>1. n = p
    BY <1>1
  <2> HIDE DEF n
  <2> QED BY <1>1, <2>1 DEF NotedAgainst, Untouched, Alike
<1>2. CASE Scheduled(p)
  <2>1. p.defaults \in [Seats -> Nat]
    BY DEF PoolRecord
  <2>2. PICK d : d = [p.defaults EXCEPT ![j] = p.defaults[j] + 1]
    OBVIOUS
  <2>a. d \in [Seats -> Nat]
    BY <2>1, <2>2
  <2>3. n = [p EXCEPT !.defaults = d]
    BY <1>2, <2>2
  <2> HIDE DEF n
  <2>4. n \in PoolRecord
    BY <2>3, <2>a DEF PoolRecord
  <2>5. /\ Untouched(p, n) /\ n.deposits = p.deposits /\ n.balance = p.balance
        /\ n.insurance = p.insurance /\ n.defaults = d
    BY <2>3 DEF PoolRecord, Untouched, Alike
  <2>6. d[j] = p.defaults[j] + 1 /\ \A k \in Seats \ {j} : d[k] = p.defaults[k]
    BY <2>1, <2>2
  <2> QED BY <2>4, <2>5, <2>6 DEF NotedAgainst
<1> QED BY <1>1, <1>2

(* One missed payment moves money within the circle, or none. *)
LEMMA CoverSeatKeeps ==
  ASSUME NEW p \in PaidUp, NEW j \in Seats, NEW q, q = CoverSeat(p, j)
  PROVE  /\ q \in PaidUp /\ Untouched(p, q)
         /\ Holds(p) < Modulus => Holds(q) = Holds(p)
         /\ SeatCovered(p, q, j)
         /\ \A k \in Seats \ {j} : q.deposits[k] = p.deposits[k] /\ q.defaults[k] = p.defaults[k]
<1>0. p \in PoolRecord /\ p.paid[j] <= p.contribution
  BY DEF PaidUp
<1>1. /\ p.deposits \in SeatAmounts /\ p.balance \in Amount /\ p.insurance \in Amount
      /\ p.contribution \in Amount /\ p.paid \in SeatAmounts /\ p.defaults \in [Seats -> Nat]
  BY <1>0 DEF PoolRecord
<1>2. /\ p.balance \in Nat /\ Holds(p) \in Nat /\ SumTo(p.deposits, NumSeats) \in Nat
      /\ SumTo(p.prepaid, NumSeats) \in Nat /\ p.insurance \in Nat
      /\ Holds(p) = p.balance + SumTo(p.deposits, NumSeats) + SumTo(p.prepaid, NumSeats)
                      + p.insurance
  BY <1>0, HoldsType
<1>d. p.deposits \in [Seats -> Nat] /\ p.contribution \in Nat /\ p.paid[j] \in Nat
  BY <1>1, SeatFacts
<1>s. p.deposits[j] \in Nat /\ p.deposits[j] <= SumTo(p.deposits, NumSeats)
  BY <1>d, SeatSum
<1>3. PICK m \in Nat : m = Missing(p, j)
  BY <1>0, <1>d DEF Missing
<1>4. PICK n : n = IF Scheduled(p) THEN [p EXCEPT !.defaults[j] = @ + 1] ELSE p
  OBVIOUS
<1>5. /\ n \in PoolRecord /\ Untouched(p, n)
      /\ n.deposits = p.deposits /\ n.balance = p.balance /\ n.insurance = p.insurance
      /\ n.defaults[j] \in {p.defaults[j], p.defaults[j] + 1}
      /\ Scheduled(p) => n.defaults[j] = p.defaults[j] + 1
      /\ \A k \in Seats \ {j} : n.defaults[k] = p.defaults[k]
  BY <1>0, <1>4, Noted DEF NotedAgainst
<1>6. AllPaid(p) => Paid(p, j)
  BY DEF AllPaid
<1>7. ASSUME NEW r \in PoolRecord, Untouched(n, r) PROVE r \in PaidUp /\ Untouched(p, r)
  <2>1. Untouched(p, r)
    BY <1>5, <1>7 DEF Untouched, Alike
  <2>2. \A k \in Seats : p.paid[k] <= p.contribution
    BY DEF PaidUp
  <2> QED BY <2>1, <2>2 DEF Untouched, Alike, PaidUp
<1>8. CASE Paid(p, j)
  <2>1. q = p
    BY <1>8 DEF CoverSeat
  <2> QED BY <1>s, <2>1 DEF Untouched, Alike, SeatCovered
<1>9. CASE ~Paid(p, j) /\ p.deposits[j] >= m
  <2>1. q = [n EXCEPT !.deposits[j] = @ - m, !.balance = Plus(@, m)]
    BY <1>3, <1>4, <1>9 DEF CoverSeat
  <2>2. PICK x \in Amount : x = p.deposits[j] - m /\ x \in Nat
    <3>1. p.deposits[j] - m \in Nat /\ p.deposits[j] < Modulus
      BY <1>1, <1>s, <1>9, SeatFacts DEF SeatAmounts, Amount
    <3>2. p.deposits[j] - m < Modulus
      BY <1>s, <3>1, SeatFacts
    <3> QED BY <3>1, <3>2, SeatFacts DEF Amount
  <2>3. PICK b \in Amount : b = Plus(p.balance, m)
    BY <1>2, PlusMinusType
  <2>4. PICK f \in SeatAmounts : f = [p.deposits EXCEPT ![j] = x]
    BY <1>1, SetSeat
  <2>5. q = [n EXCEPT !.deposits = f, !.balance = b]
    BY <1>5, <2>1, <2>2, <2>3, <2>4
  <2>6. q \in PoolRecord
    <3>1. n \in PoolRecord
      BY <1>5
    <3>2. [n EXCEPT !.deposits = f, !.balance = b] \in PoolRecord
      BY <3>1, RecordCovered
    <3> QED BY ONLY <2>5, <3>2
  <2>7. /\ Untouched(n, q) /\ q.deposits = f /\ q.balance = b /\ q.insurance = n.insurance
        /\ q.defaults = n.defaults
    BY <1>5, <2>5 DEF PoolRecord, Untouched, Alike
  <2>8. q \in PaidUp /\ Untouched(p, q)
    BY <1>7, <2>6, <2>7
  <2>9. ASSUME Holds(p) < Modulus PROVE Holds(q) = Holds(p)
    <3>1. SumTo(f, NumSeats) = SumTo(p.deposits, NumSeats) - p.deposits[j] + x
      BY <1>1, <2>4, SetSeat
    <3>2. p.balance + m <= Holds(p)
      BY <1>2, <1>s, <1>9
    <3>3. p.balance + m < Modulus
      BY <1>2, <2>9, <3>2, SeatFacts
    <3>4. b = p.balance + m
      BY <1>2, <2>3, <3>3, PlusExact
    <3>5. Holds(q) = b + SumTo(f, NumSeats) + SumTo(p.prepaid, NumSeats) + p.insurance
      BY <1>5, <2>7, <2>8 DEF Holds, Untouched
    <3> QED BY <1>2, <1>s, <2>2, <3>1, <3>4, <3>5
  <2>10. f[j] = x /\ x <= p.deposits[j] /\ \A k \in Seats \ {j} : f[k] = p.deposits[k]
    BY <1>1, <1>s, <2>2, <2>4 DEF SeatAmounts
  <2>11. SeatCovered(p, q, j)
    BY <1>5, <1>6, <1>9, <2>7, <2>10 DEF SeatCovered
  <2> QED BY <1>5, <2>7, <2>8, <2>9, <2>10, <2>11
<1>10. CASE ~Paid(p, j) /\ ~(p.deposits[j] >= m) /\ p.insurance >= m
  <2>1. q = [n EXCEPT !.insurance = @ - m, !.balance = Plus(@, m)]
    BY <1>3, <1>4, <1>10 DEF CoverSeat
  <2>2. PICK x \in Amount : x = p.insurance - m /\ x \in Nat
    <3>0. p.insurance < Modulus
      BY <1>1, SeatFacts DEF Amount
    <3>1. p.insurance - m \in Nat /\ p.insurance < Modulus
      BY <1>2, <1>10, <3>0
    <3>2. p.insurance - m < Modulus
      BY <1>2, <3>1, SeatFacts
    <3> QED BY <3>1, <3>2, SeatFacts DEF Amount
  <2>3. PICK b \in Amount : b = Plus(p.balance, m)
    BY <1>2, PlusMinusType
  <2>5. q = [n EXCEPT !.insurance = x, !.balance = b]
    BY <1>5, <2>1, <2>2, <2>3
  <2>6. q \in PoolRecord
    <3>1. n \in PoolRecord
      BY <1>5
    <3>2. [n EXCEPT !.insurance = x, !.balance = b] \in PoolRecord
      BY <3>1, NothingSum, RecordCovered
    <3> QED BY ONLY <2>5, <3>2
  <2>7. /\ Untouched(n, q) /\ q.deposits = n.deposits /\ q.balance = b /\ q.insurance = x
        /\ q.defaults = n.defaults
    BY <1>5, <2>5 DEF PoolRecord, Untouched, Alike
  <2>8. q \in PaidUp /\ Untouched(p, q)
    BY <1>7, <2>6, <2>7
  <2>9. ASSUME Holds(p) < Modulus PROVE Holds(q) = Holds(p)
    <3>2. p.balance + m <= Holds(p)
      BY <1>2, <1>10
    <3>3. p.balance + m < Modulus
      BY <1>2, <2>9, <3>2, SeatFacts
    <3>4. b = p.balance + m
      BY <1>2, <2>3, <3>3, PlusExact
    <3>5. Holds(q) = b + SumTo(p.deposits, NumSeats) + SumTo(p.prepaid, NumSeats) + x
      BY <1>5, <2>7, <2>8 DEF Holds, Untouched
    <3> QED BY <1>2, <2>2, <3>4, <3>5
  <2>11. SeatCovered(p, q, j)
    BY <1>5, <1>6, <1>10, <1>s, <2>7 DEF SeatCovered
  <2> QED BY <1>5, <2>7, <2>8, <2>9, <2>11
<1>11. CASE ~Paid(p, j) /\ ~(p.deposits[j] >= m) /\ ~(p.insurance >= m)
  <2>1. q = n
    BY <1>3, <1>4, <1>11 DEF CoverSeat
  <2>2. Untouched(n, n)
    BY DEF Untouched, Alike
  <2>3. q \in PaidUp /\ Untouched(p, q)
    BY <1>5, <1>7, <2>1, <2>2
  <2>4. Holds(q) = Holds(p)
    BY <1>5, <2>1 DEF Holds, Untouched
  <2>5. SeatCovered(p, q, j)
    BY <1>5, <1>s, <2>1 DEF SeatCovered
  <2> QED BY <1>5, <2>1, <2>3, <2>4, <2>5
<1> QED BY <1>8, <1>9, <1>10, <1>11

(* Covering the seats one after another: the recursion unfolds. *)
CoversTo(p, S) ==
  /\ S \in [0..NumSeats -> PaidUp] /\ S[0] = p /\ Covered(p) = S[NumSeats]
  /\ \A k \in 1..NumSeats : S[k] = CoverSeat(S[k - 1], k)

LEMMA CoveredUnfold == ASSUME NEW p \in PaidUp PROVE \E S : CoversTo(p, S)
<1> DEFINE G == [x \in PaidUp \X (1..NumSeats) |-> CoverSeat(x[1], x[2])]
           P(S) == S = [k \in 0..NumSeats |-> IF k = 0 THEN p ELSE CoverSeat(S[k - 1], k)]
           C == CHOOSE S : P(S)
<1>0. NumSeats \in Nat /\ Seats = 1..NumSeats
  BY SeatFacts
<1>1. \A x \in PaidUp, k \in 1..NumSeats : CoverSeat(x, k) \in PaidUp
  BY <1>0, CoverSeatKeeps
<1>2. G \in [PaidUp \X (1..NumSeats) -> PaidUp]
  BY <1>1
<1>3. \A x \in PaidUp, k \in 1..NumSeats : G[<<x, k>>] = CoverSeat(x, k)
  OBVIOUS
<1> HIDE DEF G
<1>4. PICK S \in [0..NumSeats -> PaidUp] : S[0] = p /\ \A k \in 1..NumSeats : S[k] = G[<<S[k - 1], k>>]
  <2>1. Unrolls(NumSeats, PaidUp, p, G)
    BY <1>0, <1>2, IntervalRecursion
  <2> QED BY <2>1 DEF Unrolls
<1>5. ASSUME NEW k \in 1..NumSeats PROVE S[k] = CoverSeat(S[k - 1], k)
  <2>1. k - 1 \in 0..NumSeats
    BY <1>0
  <2> QED BY <1>3, <1>4, <2>1
<1>6. P(S)
  <2>1. \A k \in 0..NumSeats : k # 0 => k \in 1..NumSeats
    BY <1>0
  <2>2. \A k \in 0..NumSeats : S[k] = IF k = 0 THEN p ELSE CoverSeat(S[k - 1], k)
    BY <1>4, <1>5, <2>1
  <2> QED BY <2>2
<1>7. P(C)
  <2>1. \E X : P(X)
    BY <1>6
  <2> HIDE DEF P
  <2> QED BY <2>1
<1>8. Covered(p) = C[NumSeats]
  BY DEF Covered
<1> HIDE DEF C
<1> DEFINE T == {k \in 0..NumSeats : C[k] = S[k]}
<1>9. /\ C[0] = p /\ \A k \in 1..NumSeats : C[k] = CoverSeat(C[k - 1], k)
  <2>1. \A k \in 0..NumSeats : C[k] = IF k = 0 THEN p ELSE CoverSeat(C[k - 1], k)
    BY <1>7
  <2>2. 0 \in 0..NumSeats /\ \A k \in 1..NumSeats : k \in 0..NumSeats /\ k # 0
    BY <1>0
  <2> QED BY <2>1, <2>2
<1>10. 0 \in T
  BY <1>0, <1>4, <1>9
<1>11. ASSUME NEW k \in 1..NumSeats, k - 1 \in T PROVE k \in T
  <2>1. C[k - 1] = S[k - 1] /\ k \in 0..NumSeats
    BY <1>0, <1>11
  <2> QED BY <1>5, <1>9, <2>1
<1>12. \A k \in 1..NumSeats : k - 1 \in T => k \in T
  BY <1>11
<1>13. NumSeats \in T
  <2> HIDE DEF T
  <2>1. \A k \in 0..NumSeats : k \in T
    BY <1>0, <1>10, <1>12, IntervalInduction
  <2> QED BY <1>0, <2>1
<1>14. Covered(p) = S[NumSeats]
  BY <1>8, <1>13
<1>15. CoversTo(p, S)
  BY <1>4, <1>5, <1>14 DEF CoversTo
<1> QED BY <1>15

(* The circle after the first k seats were looked at. *)
CoveredSoFar(p, q, k) ==
  /\ Untouched(p, q) /\ Holds(q) = Holds(p)
  /\ \A j \in Seats :
       IF j <= k THEN SeatCovered(p, q, j)
       ELSE q.deposits[j] = p.deposits[j] /\ q.defaults[j] = p.defaults[j]

LEMMA CoveredKeeps ==
  ASSUME NEW p \in PaidUp, Holds(p) < Modulus
  PROVE  /\ Covered(p) \in PaidUp /\ Untouched(p, Covered(p)) /\ Holds(Covered(p)) = Holds(p)
         /\ \A j \in Seats : SeatCovered(p, Covered(p), j)
<1>1. PICK S : CoversTo(p, S)
  BY CoveredUnfold
<1>2. /\ S \in [0..NumSeats -> PaidUp] /\ S[0] = p /\ Covered(p) = S[NumSeats]
      /\ \A k \in 1..NumSeats : S[k] = CoverSeat(S[k - 1], k)
  BY <1>1 DEF CoversTo
<1>0. NumSeats \in Nat /\ Seats = 1..NumSeats
  BY SeatFacts
<1> DEFINE T == {k \in 0..NumSeats : CoveredSoFar(p, S[k], k)}
<1>3. 0 \in T
  <2>1. \A j \in Seats : ~(j <= 0)
    BY <1>0
  <2>2. CoveredSoFar(p, p, 0)
    BY <2>1 DEF CoveredSoFar, Untouched, Alike
  <2> QED BY <1>0, <1>2, <2>2
<1>4. ASSUME NEW k \in 1..NumSeats, k - 1 \in T PROVE k \in T
  <2>1. PICK x \in PaidUp : x = S[k - 1]
    BY <1>0, <1>2
  <2>2. PICK y \in PaidUp : y = S[k] /\ y = CoverSeat(x, k)
    BY <1>0, <1>2, <2>1
  <2>3. CoveredSoFar(p, x, k - 1)
    BY <1>4, <2>1
  <2>4. k \in Seats /\ Untouched(p, x) /\ Holds(x) = Holds(p)
    BY <1>0, <2>3 DEF CoveredSoFar
  <2>5. /\ Untouched(x, y) /\ Holds(y) = Holds(x) /\ SeatCovered(x, y, k)
        /\ \A j \in Seats \ {k} : y.deposits[j] = x.deposits[j] /\ y.defaults[j] = x.defaults[j]
    BY <2>2, <2>4, CoverSeatKeeps
  <2>6. Untouched(p, y)
    BY <2>4, <2>5 DEF Untouched, Alike
  <2>7. (Scheduled(x) <=> Scheduled(p)) /\ (AllPaid(x) <=> AllPaid(p))
    BY <2>4 DEF Untouched, Alike, Scheduled, AllPaid, Paid
  <2>8. ASSUME NEW j \in Seats
        PROVE  IF j <= k THEN SeatCovered(p, y, j)
               ELSE y.deposits[j] = p.deposits[j] /\ y.defaults[j] = p.defaults[j]
    <3>1. CASE j = k
      <4>1. ~(j <= k - 1) /\ j <= k
        BY <1>0, <3>1
      <4>2. x.deposits[j] = p.deposits[j] /\ x.defaults[j] = p.defaults[j]
        BY <2>3, <4>1 DEF CoveredSoFar
      <4> QED BY <2>5, <2>7, <3>1, <4>1, <4>2 DEF SeatCovered
    <3>2. CASE j # k
      <4>1. y.deposits[j] = x.deposits[j] /\ y.defaults[j] = x.defaults[j]
        BY <2>5, <3>2
      <4>2. j <= k <=> j <= k - 1
        BY <1>0, <3>2
      <4>3. IF j <= k - 1 THEN SeatCovered(p, x, j)
            ELSE x.deposits[j] = p.deposits[j] /\ x.defaults[j] = p.defaults[j]
        BY <2>3 DEF CoveredSoFar
      <4> QED BY <4>1, <4>2, <4>3 DEF SeatCovered
    <3> QED BY <3>1, <3>2
  <2>9. CoveredSoFar(p, y, k)
    BY <2>4, <2>5, <2>6, <2>8 DEF CoveredSoFar
  <2>10. k \in 0..NumSeats
    BY <1>0
  <2>11. CoveredSoFar(p, S[k], k)
    BY <2>2, <2>9
  <2> QED BY <2>10, <2>11
<1>5. \A k \in 1..NumSeats : k - 1 \in T => k \in T
  BY <1>4
<1>6. NumSeats \in T
  <2> HIDE DEF T
  <2>1. \A k \in 0..NumSeats : k \in T
    BY <1>0, <1>3, <1>5, IntervalInduction
  <2> QED BY <1>0, <2>1
<1>7. CoveredSoFar(p, Covered(p), NumSeats) /\ Covered(p) \in PaidUp
  BY <1>0, <1>2, <1>6
<1>8. \A j \in Seats : j <= NumSeats
  BY <1>0
<1> QED BY <1>7, <1>8 DEF CoveredSoFar

-----------------------------------------------------------------------------
(* Payouts *)

LEMMA DivBound ==
  ASSUME NEW x \in Nat, NEW n \in Nat, n > 0
  PROVE  x \div n \in Nat /\ (x \div n) * n <= x
OBVIOUS

(* All of v is shared out: the same to everyone and the rest to seat i. *)
LEMMA SharedOut ==
  ASSUME NEW i \in Seats, NEW v \in Nat, NEW share \in Nat, share * (NumSeats - 1) <= v,
         NEW pay, pay = [j \in Seats |-> IF j = i THEN v - share * (NumSeats - 1) ELSE share]
  PROVE  pay \in [Seats -> Nat] /\ SumTo(pay, NumSeats) = v
<1>1. NumSeats \in Nat /\ NumSeats >= 2 /\ Seats = 1..NumSeats
  BY SeatFacts
<1>2. PICK m \in Nat : m = share * (NumSeats - 1)
  BY <1>1
<1>3. m + share = share * NumSeats /\ m <= v /\ v - m \in Nat
  BY <1>1, <1>2
<1>4. PICK c \in [1..NumSeats -> Nat] : c = [j \in 1..NumSeats |-> share]
  OBVIOUS
<1>5. SumTo(c, NumSeats) = share * NumSeats
  BY <1>1, <1>4, SumToConst
<1>6. pay = [c EXCEPT ![i] = v - m] /\ c[i] = share
  BY <1>1, <1>2, <1>4
<1>7. SumTo([c EXCEPT ![i] = v - m], NumSeats) = SumTo(c, NumSeats) - c[i] + (v - m)
  BY <1>1, <1>3, SumToUpdate
<1>8. SumTo(pay, NumSeats) = (m + share) - share + (v - m)
  BY <1>3, <1>5, <1>6, <1>7
<1>9. pay \in [Seats -> Nat]
  BY <1>1, <1>3, <1>6
<1> QED BY <1>3, <1>8, <1>9

(* The round of circle q ends with a payout to seat i. *)
RoundEnd(q, i, cut) ==
  [q EXCEPT !.balance = 0, !.insurance = Plus(@, cut), !.claimed[i] = TRUE,
            !.round = @ + 1, !.paid = Nothing, !.bids = Nothing]

(* The circle n once seat i of p was paid, the missed payments covered in  *)
(* q and cut put aside as insurance.                                       *)
RoundPaid(p, q, i, cut, n) ==
  /\ n \in PoolRecord
  /\ n.mode = p.mode /\ n.members = p.members /\ n.contribution = p.contribution
  /\ n.deposit = p.deposit /\ n.status = p.status /\ n.joined = p.joined /\ n.saved = p.saved
  /\ n.round = p.round + 1 /\ n.claimed = [p.claimed EXCEPT ![i] = TRUE]
  /\ n.balance = 0 /\ n.insurance = q.insurance + cut
  /\ n.paid = Nothing /\ n.bids = Nothing
  /\ n.prepaid = q.prepaid /\ n.deposits = q.deposits /\ n.defaults = q.defaults

LEMMA RecordRound ==
  ASSUME NEW a \in PoolRecord, NEW r \in 0..NumSeats, NEW f \in SeatAmounts, NEW g \in SeatAmounts
  PROVE  [a EXCEPT !.round = r, !.paid = f, !.bids = g] \in PoolRecord
BY DEF PoolRecord

LEMMA RoundIsPaid ==
  ASSUME NEW p \in PoolRecord, p.round < NumSeats, NEW i \in Seats,
         NEW q \in PaidUp, Untouched(p, q), Holds(q) < Modulus,
         NEW cut \in Nat, cut <= q.balance,
         NEW n, n = RoundEnd(q, i, cut)
  PROVE  RoundPaid(p, q, i, cut, n) /\ Holds(n) = Holds(q) - (q.balance - cut)
<1>1. q \in PoolRecord
  BY DEF PaidUp
<1>2. /\ q.balance \in Nat /\ q.insurance \in Nat
      /\ SumTo(q.deposits, NumSeats) \in Nat /\ SumTo(q.prepaid, NumSeats) \in Nat
      /\ Holds(q) = q.balance + SumTo(q.deposits, NumSeats) + SumTo(q.prepaid, NumSeats)
                      + q.insurance
  BY <1>1, HoldsType
<1>3. q.insurance + cut < Modulus
  BY <1>2, SeatFacts
<1>4. PICK ins \in Amount : ins = Plus(q.insurance, cut) /\ ins = q.insurance + cut
  BY <1>2, <1>3, AddAmount
<1>5. PICK c \in SeatFlags : c = [q.claimed EXCEPT ![i] = TRUE]
  BY <1>1 DEF PoolRecord, SeatFlags
<1>6. q.round = p.round /\ p.round \in 0..NumSeats
  BY DEF Untouched, Alike, PoolRecord
<1>7. PICK r \in 0..NumSeats : r = q.round + 1
  BY <1>6, SeatFacts
<1>8. 0 \in Amount /\ Nothing \in SeatAmounts
  BY SeatFacts, NothingSum DEF Amount
<1>9. PICK a \in PoolRecord : a = [q EXCEPT !.balance = 0, !.insurance = ins, !.claimed = c]
  BY <1>1, <1>8 DEF PoolRecord
<1>10. n = [a EXCEPT !.round = r, !.paid = Nothing, !.bids = Nothing]
  BY <1>1, <1>4, <1>5, <1>7, <1>9 DEF PoolRecord, RoundEnd
<1>11. n \in PoolRecord
  <2>1. [a EXCEPT !.round = r, !.paid = Nothing, !.bids = Nothing] \in PoolRecord
    BY <1>8, RecordRound
  <2> QED BY ONLY <1>10, <2>1
<1>12. /\ a.mode = q.mode /\ a.members = q.members /\ a.contribution = q.contribution
       /\ a.deposit = q.deposit /\ a.status = q.status /\ a.joined = q.joined
       /\ a.saved = q.saved /\ a.claimed = c /\ a.balance = 0 /\ a.insurance = ins
       /\ a.prepaid = q.prepaid /\ a.deposits = q.deposits /\ a.defaults = q.defaults
  BY <1>1, <1>9 DEF PoolRecord
<1>13. /\ n.mode = q.mode /\ n.members = q.members /\ n.contribution = q.contribution
       /\ n.deposit = q.deposit /\ n.status = q.status /\ n.joined = q.joined
       /\ n.saved = q.saved /\ n.claimed = c /\ n.balance = 0 /\ n.insurance = ins
       /\ n.prepaid = q.prepaid /\ n.deposits = q.deposits /\ n.defaults = q.defaults
       /\ n.round = r /\ n.paid = Nothing /\ n.bids = Nothing
  BY <1>10, <1>12 DEF PoolRecord
<1>14. RoundPaid(p, q, i, cut, n)
  BY <1>4, <1>5, <1>6, <1>7, <1>11, <1>13 DEF RoundPaid, Untouched, Alike
<1>15. Holds(n) = 0 + SumTo(q.deposits, NumSeats) + SumTo(q.prepaid, NumSeats)
                    + (q.insurance + cut)
  BY <1>4, <1>13 DEF Holds
<1>16. Holds(n) = Holds(q) - (q.balance - cut)
  BY <1>2, <1>15
<1> QED BY <1>14, <1>16

(* One more member has collected, the next one where turns are fixed. *)
LEMMA OneMoreCollected ==
  ASSUME NEW p, Circle(p), p.status = "active", ~Goal(p), NEW i \in Seats,
         i = Recipient(p), NEW q, NEW cut, NEW n, RoundPaid(p, q, i, cut, n)
  PROVE  /\ Cardinality(Collected(n)) = n.round
         /\ n.mode \notin {"bidding", "goal"} => Collected(n) = 1..n.round
<1>1. p \in PoolRecord /\ InTurn(p)
  BY DEF Circle
<1>2. p.claimed \in [Seats -> BOOLEAN] /\ p.round \in Nat
  BY <1>1, SeatFacts DEF PoolRecord, SeatFlags
<1>3. /\ Cardinality(Collected(p)) = p.round /\ i \notin Collected(p)
      /\ p.mode \notin {"bidding", "goal"} => Collected(p) = 1..p.round
  BY <1>1 DEF InTurn
<1>4. n.claimed = [p.claimed EXCEPT ![i] = TRUE] /\ n.round = p.round + 1 /\ n.mode = p.mode
  BY DEF RoundPaid
<1>5. Collected(n) = Collected(p) \cup {i}
  BY <1>2, <1>4 DEF Collected
<1>6. Cardinality(Collected(n)) = Cardinality(Collected(p)) + 1
  <2>1. IsFiniteSet(Collected(p))
    BY CollectedSize
  <2> QED BY <1>3, <1>5, <2>1, FS_AddElement
<1>7. ASSUME n.mode \notin {"bidding", "goal"} PROVE Collected(n) = 1..n.round
  <2>1. i = p.round + 1
    BY <1>4, <1>7 DEF Recipient
  <2>2. Collected(n) = (1..p.round) \cup {p.round + 1}
    BY <1>3, <1>4, <1>5, <1>7, <2>1
  <2> QED BY <1>2, <1>4, <2>2
<1> QED BY <1>3, <1>4, <1>6, <1>7

(* All a circle must be after a payout but for how it ends. *)
LEMMA RoundIsInStage ==
  ASSUME NEW p, Circle(p), p.status = "active", ~Goal(p), NEW q \in PaidUp, Untouched(p, q),
         \A j \in Seats : SeatCovered(p, q, j),
         NEW i, NEW cut, NEW n, RoundPaid(p, q, i, cut, n)
  PROVE  KeepsTerms(n) /\ PotIsWhatWasPaid(n) /\ StageOf(n) /\ ~Goal(n) /\ n.status = "active"
<1>1. p \in PoolRecord /\ StageOf(p) /\ KeepsTerms(p) /\ p.contribution \in Nat
  BY CircleFacts
<1>2. /\ n.mode = p.mode /\ n.members = p.members /\ n.contribution = p.contribution
      /\ n.deposit = p.deposit /\ n.status = "active" /\ n.joined = p.joined
      /\ n.round = p.round + 1 /\ n.balance = 0 /\ n.paid = Nothing
      /\ n.deposits = q.deposits /\ n.defaults = q.defaults
  BY DEF RoundPaid
<1>3. KeepsTerms(n)
  BY <1>1, <1>2 DEF KeepsTerms
<1>4. ~Goal(n) /\ n.status = "active"
  BY <1>2 DEF Goal
<1>5. PotIsWhatWasPaid(n)
  <2>1. \A j \in Seats : n.paid[j] <= n.contribution
    BY <1>1, <1>2 DEF Nothing
  <2> QED BY <1>2, <1>4, <2>1, NothingSum DEF PotIsWhatWasPaid
<1>6. ASSUME NEW j \in Seats, ~n.joined[j] PROVE n.deposits[j] = 0
  <2>1. p.deposits[j] = 0 /\ q.deposits[j] <= p.deposits[j]
    BY <1>1, <1>2, <1>6 DEF StageOf, SeatCovered
  <2>2. q.deposits[j] \in Nat
    BY SeatFacts DEF PaidUp, PoolRecord
  <2> QED BY <1>2, <2>1, <2>2
<1>7. ASSUME NEW j \in Seats PROVE n.defaults[j] <= n.round
  <2>1. p.defaults[j] <= p.round /\ q.defaults[j] \in {p.defaults[j], p.defaults[j] + 1}
    BY <1>1 DEF StageOf, SeatCovered
  <2>2. p.defaults[j] \in Nat /\ p.round \in Nat
    BY <1>1, SeatFacts DEF PoolRecord
  <2> QED BY <1>2, <2>1, <2>2
<1>8. StageOf(n)
  BY <1>4, <1>6, <1>7 DEF StageOf
<1> QED BY <1>3, <1>4, <1>5, <1>8

(* The rounds that were paid out are the members who collected. *)
RoundsCollected(n) ==
  /\ Cardinality(Collected(n)) = n.round
  /\ n.mode \notin {"bidding", "goal"} => Collected(n) = 1..n.round

LEMMA RecordDone ==
  ASSUME NEW n \in PoolRecord, NEW f \in SeatAmounts, NEW g \in SeatAmounts
  PROVE  [n EXCEPT !.prepaid = f, !.deposits = g, !.insurance = 0] \in PoolRecord
<1>1. 0 \in Amount
  BY SeatFacts DEF Amount
<1> QED BY <1>1 DEF PoolRecord

(* The last payout ends the circle and leaves nothing in it. *)
LEMMA DoneIsCircle ==
  ASSUME NEW n \in PoolRecord, KeepsTerms(n), PotIsWhatWasPaid(n), StageOf(n), ~Goal(n),
         n.status = "active", n.balance = 0, n.round = NumSeats, RoundsCollected(n),
         NEW d, d = [n EXCEPT !.status = "done", !.prepaid = Nothing, !.deposits = Nothing,
                              !.insurance = 0]
  PROVE  /\ Circle(d) /\ Holds(d) = 0 /\ d.status = "done" /\ d.members = n.members
         /\ d.deposits = Nothing
<1>1. PICK a \in PoolRecord : a = [n EXCEPT !.prepaid = Nothing, !.deposits = Nothing, !.insurance = 0]
  BY NothingSum, RecordDone
<1>0. /\ n \in PoolRecord
      /\ d = [n EXCEPT !.status = "done", !.prepaid = Nothing, !.deposits = Nothing, !.insurance = 0]
  OBVIOUS
<1>2. d = [a EXCEPT !.status = "done"]
  BY ONLY <1>0, <1>1 DEF PoolRecord
<1>3. d \in PoolRecord
  <2>1. [a EXCEPT !.status = "done"] \in PoolRecord
    BY DEF PoolRecord
  <2> QED BY ONLY <1>2, <2>1
<1>4. /\ a.mode = n.mode /\ a.members = n.members /\ a.contribution = n.contribution
      /\ a.deposit = n.deposit /\ a.joined = n.joined /\ a.saved = n.saved
      /\ a.round = n.round /\ a.claimed = n.claimed /\ a.balance = 0 /\ a.insurance = 0
      /\ a.prepaid = Nothing /\ a.deposits = Nothing /\ a.defaults = n.defaults /\ a.paid = n.paid
  BY <1>1 DEF PoolRecord
<1>5. /\ d.mode = n.mode /\ d.members = n.members /\ d.contribution = n.contribution
      /\ d.deposit = n.deposit /\ d.joined = n.joined /\ d.saved = n.saved
      /\ d.round = n.round /\ d.claimed = n.claimed /\ d.balance = 0 /\ d.insurance = 0
      /\ d.prepaid = Nothing /\ d.deposits = Nothing /\ d.defaults = n.defaults /\ d.paid = n.paid
      /\ d.status = "done"
  BY <1>2, <1>4 DEF PoolRecord
<1>6. Holds(d) = 0
  <2>1. Holds(d) = 0 + SumTo(Nothing, NumSeats) + SumTo(Nothing, NumSeats) + 0
    BY <1>5 DEF Holds
  <2> QED BY <2>1, NothingSum
<1>7. KeepsTerms(d)
  <2>1. KeepsTerms(n) /\ d.members = n.members /\ d.contribution = n.contribution /\ d.deposit = n.deposit
    BY <1>5
  <2> QED BY ONLY <2>1 DEF KeepsTerms
<1>8. PotIsWhatWasPaid(d) /\ ~Goal(d)
  BY <1>5 DEF PotIsWhatWasPaid, Goal
<1>9. InStage(d)
  <2>1. \A j \in Seats : d.deposits[j] = 0
    BY <1>5 DEF Nothing
  <2>2. \A j \in Seats : d.defaults[j] <= d.round
    BY <1>5 DEF StageOf
  <2> QED BY <1>5, <1>7, <1>8, <2>1, <2>2 DEF InStage
<1>10. Turn(d)
  <2>1. Collected(d) = Collected(n)
    BY <1>5 DEF Collected
  <2> QED BY <1>5, <1>6, <2>1 DEF Turn, RoundsCollected
<1> QED BY <1>3, <1>5, <1>6, <1>8, <1>9, <1>10, TurnParts DEF Circle

(* Before the last payout the circle goes on. *)
LEMMA GoesOnAsCircle ==
  ASSUME NEW n \in PoolRecord, KeepsTerms(n), PotIsWhatWasPaid(n), StageOf(n), ~Goal(n),
         n.status = "active", n.round < NumSeats, RoundsCollected(n)
  PROVE  Circle(n)
<1>1. Turn(n)
  BY DEF Turn, RoundsCollected
<1>2. InStage(n)
  BY DEF StageOf, InStage
<1> QED BY <1>1, <1>2, TurnParts DEF Circle

(* What the last payout returns is all that is left. *)
LEMMA RestIsShared ==
  ASSUME NEW n \in PoolRecord, n.balance = 0,
         NEW each, each = n.insurance \div NumSeats,
         NEW rest, rest = [j \in Seats |->
           n.prepaid[j] + n.deposits[j]
             + (IF j = NumSeats THEN n.insurance - each * (NumSeats - 1) ELSE each)]
  PROVE  rest \in [Seats -> Nat] /\ SumTo(rest, NumSeats) = Holds(n)
<1>1. NumSeats \in Nat /\ NumSeats >= 2 /\ Seats = 1..NumSeats
  BY SeatFacts
<1>2. /\ n.insurance \in Nat /\ Holds(n) \in Nat
      /\ SumTo(n.deposits, NumSeats) \in Nat /\ SumTo(n.prepaid, NumSeats) \in Nat
      /\ Holds(n) = n.balance + SumTo(n.deposits, NumSeats) + SumTo(n.prepaid, NumSeats)
                      + n.insurance
  BY HoldsType
<1>3. n.prepaid \in [1..NumSeats -> Nat] /\ n.deposits \in [1..NumSeats -> Nat]
  BY SeatFacts DEF PoolRecord
<1>4. each \in Nat /\ each * (NumSeats - 1) <= n.insurance
  <2>1. each \in Nat /\ each * NumSeats <= n.insurance
    <3>1. NumSeats > 0
      BY <1>1
    <3>2. PICK s \in Nat, x \in Nat : s = NumSeats /\ x = n.insurance /\ s > 0
      BY <1>1, <1>2, <3>1
    <3>3. x \div s \in Nat /\ (x \div s) * s <= x
      BY ONLY <3>2, DivBound
    <3> QED BY <3>2, <3>3
  <2>2. each * (NumSeats - 1) = each * NumSeats - each /\ each * NumSeats \in Nat
        /\ each * (NumSeats - 1) \in Nat
    BY <1>1, <2>1
  <2> QED BY <1>2, <2>1, <2>2
<1>5. PICK b : b = [j \in Seats |-> IF j = NumSeats THEN n.insurance - each * (NumSeats - 1) ELSE each]
  OBVIOUS
<1>6. b \in [Seats -> Nat] /\ SumTo(b, NumSeats) = n.insurance
  <2>1. NumSeats \in Seats
    BY <1>1
  <2> QED BY <1>2, <1>4, <1>5, <2>1, SharedOut
<1>7. PICK c : c = [j \in 1..NumSeats |-> n.prepaid[j] + n.deposits[j]]
  OBVIOUS
<1>c. c \in [1..NumSeats -> Nat] /\ \A j \in 1..NumSeats : c[j] = n.prepaid[j] + n.deposits[j]
  <2>1. \A j \in 1..NumSeats : n.prepaid[j] \in Nat /\ n.deposits[j] \in Nat
    BY <1>3
  <2> QED BY <1>7, <2>1
<1>8. SumTo(c, NumSeats) = SumTo(n.prepaid, NumSeats) + SumTo(n.deposits, NumSeats)
  BY <1>1, <1>3, <1>c, SumToPlus
<1>9. \A j \in Seats : rest[j] = c[j] + b[j]
  BY <1>1, <1>5, <1>c
<1>10. rest \in [Seats -> Nat]
  <2>0. \A j \in Seats : c[j] + b[j] \in Nat
    BY ONLY <1>1, <1>6, <1>c
  <2>1. rest = [j \in Seats |-> rest[j]]
    OBVIOUS
  <2>2. \A j \in Seats : rest[j] \in Nat
    BY <1>9, <2>0
  <2> QED BY <2>1, <2>2
<1>11. SumTo(rest, NumSeats) = SumTo(c, NumSeats) + SumTo(b, NumSeats)
  <2>1. PICK r : r = rest
    OBVIOUS
  <2>2. /\ r \in [1..NumSeats -> Nat] /\ b \in [1..NumSeats -> Nat]
        /\ \A j \in 1..NumSeats : r[j] = c[j] + b[j]
    BY <1>1, <1>6, <1>9, <1>10, <2>1
  <2>3. SumTo(r, NumSeats) = SumTo(c, NumSeats) + SumTo(b, NumSeats)
    BY ONLY <1>1, <1>c, <2>2, SumToPlus
  <2> QED BY <2>1, <2>3
<1> QED BY <1>2, <1>6, <1>8, <1>10, <1>11

(* What a payout does to the members' deposits. *)
DepositsCovered(p, q) ==
  \/ \A j \in Seats : SeatCovered(p, q, j)
  \/ q.status = "done" /\ q.deposits = Nothing

LEMMA PayoutIsCircle ==
  ASSUME NEW p, Circle(p), p.status = "active", ~Goal(p), Holds(p) < Modulus,
         NEW i \in Seats, i = Recipient(p), NEW out, out = Payout(p, i)
  PROVE  /\ out.pay \in [Seats -> Nat] /\ Circle(out.pool) /\ out.pool \in PoolRecord
         /\ SumTo(out.pay, NumSeats) + Holds(out.pool) = Holds(p)
         /\ out.pool.members = p.members /\ DepositsCovered(p, out.pool)
<1> DEFINE q     == Covered(p)
           cut   == Cut(q.balance, q.rate)
           pot   == q.balance - cut
           offer == IF q.bids[i] < pot THEN q.bids[i] ELSE pot
           share == offer \div (NumSeats - 1)
           pay   == [j \in Seats |-> IF j = i THEN pot - share * (NumSeats - 1) ELSE share]
           n     == [q EXCEPT !.balance = 0, !.insurance = Plus(@, cut), !.claimed[i] = TRUE,
                              !.round = @ + 1, !.paid = Nothing, !.bids = Nothing]
           each  == n.insurance \div NumSeats
           rest  == [j \in Seats |->
                       n.prepaid[j] + n.deposits[j]
                         + (IF j = NumSeats THEN n.insurance - each * (NumSeats - 1) ELSE each)]
           d     == [n EXCEPT !.status = "done", !.prepaid = Nothing,
                              !.deposits = Nothing, !.insurance = 0]
<1>1. out = IF n.round < NumSeats
            THEN [pay |-> pay, pool |-> Autopaid(n)]
            ELSE [pay |-> [j \in Seats |-> pay[j] + rest[j]], pool |-> d]
  BY DEF Payout
<1>2. /\ p \in PoolRecord /\ EndOf(p) /\ PotIsWhatWasPaid(p)
  BY CircleFacts
<1>3. p \in PaidUp /\ p.round < NumSeats /\ p.round \in Nat
  BY <1>2, SeatFacts DEF PaidUp, PotIsWhatWasPaid, EndOf, PoolRecord
<1>4. q \in PaidUp /\ Untouched(p, q) /\ Holds(q) = Holds(p) /\ \A j \in Seats : SeatCovered(p, q, j)
  BY <1>3, CoveredKeeps
<1> HIDE DEF q
<1>5. q.balance \in Nat /\ q.rate \in 0..BpsBase /\ q.bids[i] \in Nat
  <2>1. q \in PoolRecord
    BY <1>4 DEF PaidUp
  <2> QED BY <2>1, SeatFacts DEF PoolRecord
<1>6. cut \in Nat /\ cut <= q.balance
  BY <1>5, CutBound
<1> HIDE DEF cut
<1>7. pot \in Nat /\ pot = q.balance - cut
  BY <1>5, <1>6
<1> HIDE DEF pot
<1>8. offer \in Nat /\ offer <= pot
  BY <1>5, <1>7
<1> HIDE DEF offer
<1>9. share \in Nat /\ share * (NumSeats - 1) <= pot
  <2>1. NumSeats - 1 \in Nat /\ NumSeats - 1 > 0
    BY SeatFacts
  <2>2. share \in Nat /\ share * (NumSeats - 1) <= offer
    BY <1>8, <2>1, DivBound
  <2>3. share * (NumSeats - 1) \in Nat
    BY <2>1, <2>2
  <2> HIDE DEF share
  <2> QED BY <1>7, <1>8, <2>2, <2>3
<1> HIDE DEF share
<1>10. pay \in [Seats -> Nat] /\ SumTo(pay, NumSeats) = pot
  BY <1>7, <1>9, SharedOut
<1>11. RoundPaid(p, q, i, cut, n) /\ Holds(n) = Holds(q) - (q.balance - cut)
  <2>1. n = RoundEnd(q, i, cut)
    BY DEF RoundEnd
  <2> HIDE DEF n
  <2>2. Holds(q) < Modulus
    BY <1>4
  <2> QED BY <1>2, <1>3, <1>4, <1>6, <2>1, <2>2, RoundIsPaid
<1>12. rest \in [Seats -> Nat] /\ SumTo(rest, NumSeats) = Holds(n)
  <2> HIDE DEF n
  <2>1. n \in PoolRecord /\ n.balance = 0
    BY <1>11 DEF RoundPaid
  <2> QED BY <2>1, RestIsShared
<1> HIDE DEF pay, n, rest
<1>13. /\ n \in PoolRecord /\ n.balance = 0 /\ n.members = p.members
       /\ n.deposits = q.deposits /\ n.defaults = q.defaults /\ n.round = p.round + 1
  BY <1>11 DEF RoundPaid
<1>14. KeepsTerms(n) /\ PotIsWhatWasPaid(n) /\ StageOf(n) /\ ~Goal(n) /\ n.status = "active"
  BY <1>4, <1>11, RoundIsInStage
<1>15. RoundsCollected(n)
  BY <1>11, OneMoreCollected DEF RoundsCollected
<1>16. Holds(n) \in Nat /\ pot + Holds(n) = Holds(p) /\ Holds(n) < Modulus
  <2>1. Holds(n) \in Nat /\ Holds(p) \in Nat
    BY <1>2, <1>13, HoldsType
  <2> QED BY <1>4, <1>7, <1>11, <2>1, SeatFacts
<1>17. CASE n.round < NumSeats
  <2>1. out.pay = pay /\ out.pool = Autopaid(n)
    BY <1>1, <1>17
  <2>2. Circle(n)
    BY <1>13, <1>14, <1>15, <1>17, GoesOnAsCircle
  <2>3. PICK r : r = Autopaid(n)
    OBVIOUS
  <2>4. /\ Circle(r) /\ Holds(r) = Holds(n) /\ Alike(n, r)
        /\ r.deposits = n.deposits /\ r.defaults = n.defaults
    BY <1>14, <1>16, <2>2, <2>3, AutopaidIsCircle
  <2>5. \A j \in Seats : SeatCovered(p, r, j)
    BY <1>4, <1>13, <2>4 DEF SeatCovered
  <2>6. r.members = p.members /\ r \in PoolRecord
    BY <1>13, <2>4 DEF Alike, Circle
  <2>7. SumTo(pay, NumSeats) + Holds(r) = Holds(p)
    BY <1>10, <1>16, <2>4
  <2> QED BY <1>10, <2>1, <2>3, <2>4, <2>5, <2>6, <2>7 DEF DepositsCovered
<1>18. CASE ~(n.round < NumSeats)
  <2>1. PICK all : all = [j \in Seats |-> pay[j] + rest[j]]
    OBVIOUS
  <2>2. out.pay = all /\ out.pool = d
    BY <1>1, <1>18, <2>1
  <2>3. n.round = NumSeats
    BY <1>3, <1>13, <1>18, SeatFacts
  <2>4. /\ Circle(d) /\ Holds(d) = 0 /\ d.status = "done" /\ d.members = n.members
        /\ d.deposits = Nothing
    BY <1>13, <1>14, <1>15, <2>3, DoneIsCircle
  <2> HIDE DEF d
  <2>5. all \in [Seats -> Nat] /\ \A j \in Seats : all[j] = pay[j] + rest[j]
    BY <1>10, <1>12, <2>1
  <2>6. SumTo(all, NumSeats) = SumTo(pay, NumSeats) + SumTo(rest, NumSeats)
    BY <1>10, <1>12, <2>5, SumToPlus, SeatFacts
  <2>7. SumTo(all, NumSeats) + Holds(d) = Holds(p)
    BY <1>7, <1>10, <1>12, <1>16, <2>4, <2>6
  <2>8. d.members = p.members /\ d \in PoolRecord
    BY <1>13, <2>4 DEF Circle
  <2> QED BY <2>2, <2>4, <2>5, <2>7, <2>8 DEF DepositsCovered
<1> QED BY <1>17, <1>18

-----------------------------------------------------------------------------
(* What a step does to the members' deposits *)

(* KeepsDeposit of all members, as a relation between two circles. *)
KeptDeposits(p, q) ==
  \A a \in Accounts :
    (p.status # "none" /\ Member(p, a) /\ DepositOf(q, a) < DepositOf(p, a)) =>
       \/ DefaultsOf(q, a) = DefaultsOf(p, a) + 1
       \/ q.status \in {"done", "cancelled"} /\ DepositOf(q, a) = 0

(* Everyone is still a member and has at least the deposit he had. *)
KeepsEach(p, q) ==
  \A a \in Accounts : Member(p, a) => Member(q, a) /\ DepositOf(q, a) >= DepositOf(p, a)

LEMMA DepositType ==
  ASSUME NEW p \in PoolRecord, NEW a, Member(p, a)
  PROVE  DepositOf(p, a) \in Nat
<1>1. SeatOf(p, a) \in Seats
  BY SeatOfType
<1>2. p.deposits \in SeatAmounts
  BY DEF PoolRecord
<1> QED BY <1>1, <1>2, SeatFacts DEF DepositOf, SeatAmounts

LEMMA KeepsEachKept ==
  ASSUME NEW p \in PoolRecord, NEW q \in PoolRecord, KeepsEach(p, q)
  PROVE  KeptDeposits(p, q)
<1>1. ASSUME NEW a \in Accounts, Member(p, a) PROVE ~(DepositOf(q, a) < DepositOf(p, a))
  <2>1. Member(q, a) /\ DepositOf(q, a) >= DepositOf(p, a)
    BY <1>1 DEF KeepsEach
  <2>2. DepositOf(q, a) \in Nat /\ DepositOf(p, a) \in Nat
    BY <1>1, <2>1, DepositType
  <2> QED BY <2>1, <2>2
<1> QED BY <1>1 DEF KeptDeposits

LEMMA KeepsEachTransitive ==
  ASSUME NEW p \in PoolRecord, NEW q \in PoolRecord, NEW r \in PoolRecord,
         KeepsEach(p, q), KeepsEach(q, r)
  PROVE  KeepsEach(p, r)
<1>1. ASSUME NEW a \in Accounts, Member(p, a) PROVE Member(r, a) /\ DepositOf(r, a) >= DepositOf(p, a)
  <2>1. Member(q, a) /\ DepositOf(q, a) >= DepositOf(p, a)
    BY <1>1 DEF KeepsEach
  <2>2. Member(r, a) /\ DepositOf(r, a) >= DepositOf(q, a)
    BY <2>1 DEF KeepsEach
  <2>3. DepositOf(q, a) \in Nat /\ DepositOf(p, a) \in Nat /\ DepositOf(r, a) \in Nat
    BY <1>1, <2>1, <2>2, DepositType
  <2> QED BY <2>1, <2>2, <2>3
<1> QED BY <1>1 DEF KeepsEach

LEMMA SameSeatsKeepEach ==
  ASSUME NEW p, NEW q, q.members = p.members,
         \A j \in Seats : q.deposits[j] >= p.deposits[j]
  PROVE  KeepsEach(p, q)
<1>1. ASSUME NEW a \in Accounts, Member(p, a) PROVE Member(q, a) /\ DepositOf(q, a) >= DepositOf(p, a)
  <2>1. Member(q, a) /\ SeatOf(q, a) = SeatOf(p, a)
    BY <1>1 DEF Member, SeatOf
  <2>2. SeatOf(p, a) \in Seats
    BY <1>1, SeatOfType
  <2> QED BY <2>1, <2>2 DEF DepositOf
<1> QED BY <1>1 DEF KeepsEach

LEMMA SameDepositsKeepEach ==
  ASSUME NEW p \in PoolRecord, NEW q, q.members = p.members, q.deposits = p.deposits
  PROVE  KeepsEach(p, q)
<1>1. \A j \in Seats : p.deposits[j] \in Nat
  BY SeatFacts DEF PoolRecord, SeatAmounts
<1>2. \A j \in Seats : q.deposits[j] >= p.deposits[j]
  BY <1>1
<1> QED BY <1>2, SameSeatsKeepEach

(* Who moves to another seat takes his deposit with him. *)
LEMMA ReseatedKeepsEach ==
  ASSUME NEW p \in PoolRecord, Apart(p.members), NEW s \in Draws, NEW q \in PoolRecord,
         IsReseated(p, q, s)
  PROVE  KeepsEach(p, q)
<1>1. /\ q.members = [k \in Seats |-> p.members[s[k]]]
      /\ q.deposits = [k \in Seats |-> p.deposits[s[k]]]
  BY DEF IsReseated
<1>2. ASSUME NEW a \in Accounts, Member(p, a) PROVE Member(q, a) /\ DepositOf(q, a) >= DepositOf(p, a)
  <2>1. PICK j \in Seats : j = SeatOf(p, a) /\ p.members[j] = a
    BY <1>2, SeatOfType
  <2>2. PICK k \in Seats : s[k] = j
    BY DrawIsOnto
  <2>3. q.members[k] = a
    BY <1>1, <2>1, <2>2
  <2>4. Apart(q.members)
    BY <1>1 DEF Apart, Draws
  <2>5. Member(q, a) /\ SeatOf(q, a) = k
    BY <2>3, <2>4, SeatOfMember
  <2>6. DepositOf(q, a) = DepositOf(p, a)
    BY <1>1, <2>1, <2>2, <2>5 DEF DepositOf
  <2> QED BY <1>2, <2>5, <2>6, DepositType
<1> QED BY <1>2 DEF KeepsEach

(* A deposit that was drawn on was drawn on for its owner's own default,   *)
(* or all of them were returned.                                           *)
LEMMA CoveredKeepsDeposits ==
  ASSUME NEW p \in PoolRecord, NEW q \in PoolRecord, q.members = p.members,
         DepositsCovered(p, q), AllPaid(p) \/ Scheduled(p)
  PROVE  KeptDeposits(p, q)
<1>1. ASSUME NEW a \in Accounts, Member(p, a), DepositOf(q, a) < DepositOf(p, a)
      PROVE  \/ DefaultsOf(q, a) = DefaultsOf(p, a) + 1
             \/ q.status \in {"done", "cancelled"} /\ DepositOf(q, a) = 0
  <2>1. PICK j \in Seats : j = SeatOf(p, a) /\ j = SeatOf(q, a)
    BY <1>1, SeatOfType DEF SeatOf
  <2>2. /\ DepositOf(p, a) = p.deposits[j] /\ DepositOf(q, a) = q.deposits[j]
        /\ DefaultsOf(p, a) = p.defaults[j] /\ DefaultsOf(q, a) = q.defaults[j]
    BY <2>1 DEF DepositOf, DefaultsOf
  <2>3. p.deposits[j] \in Nat
    BY <1>1, <2>2, DepositType
  <2>4. CASE SeatCovered(p, q, j)
    BY <1>1, <2>2, <2>3, <2>4 DEF SeatCovered
  <2>5. CASE q.status = "done" /\ q.deposits = Nothing
    BY <2>2, <2>5 DEF Nothing
  <2> QED BY <2>4, <2>5 DEF DepositsCovered
<1> QED BY <1>1 DEF KeptDeposits

LEMMA ReturnedKeepsDeposits ==
  ASSUME NEW p, NEW q, q.members = p.members, q.status = "cancelled", q.deposits = Nothing
  PROVE  KeptDeposits(p, q)
<1>1. ASSUME NEW a \in Accounts, Member(p, a) PROVE DepositOf(q, a) = 0
  <2>1. SeatOf(p, a) \in Seats /\ SeatOf(q, a) = SeatOf(p, a)
    BY <1>1, SeatOfType DEF SeatOf
  <2> QED BY <2>1 DEF DepositOf, Nothing
<1> QED BY <1>1 DEF KeptDeposits

-----------------------------------------------------------------------------
(* Steps *)

StepKeeps == Money' /\ Circle(pool') /\ KeptDeposits(pool, pool')

(* Who can pay v finds room for it in the circle. *)
LEMMA RoomFor ==
  ASSUME Money, pool \in PoolRecord, NEW from \in Accounts, NEW v \in Nat, NEW fee \in Nat,
         v + fee < Modulus, bal[from] >= Plus(v, fee)
  PROVE  Plus(v, fee) = v + fee /\ Holds(pool) + v < Modulus /\ v \in Amount
<1>1. Plus(v, fee) = v + fee
  BY PlusExact
<1>2. /\ TotalBalance \in Nat /\ Holds(pool) \in Nat /\ TotalBalance + Holds(pool) < Modulus
      /\ bal[from] \in Nat /\ bal[from] <= TotalBalance
  BY MoneyFacts
<1>3. v <= TotalBalance
  BY <1>1, <1>2
<1> QED BY <1>1, <1>2, <1>3, SeatFacts DEF Amount

(* A payment into the circle. *)
LEMMA PaysIn ==
  ASSUME Money, pool \in PoolRecord, NEW from \in Accounts, NEW v \in Nat, NEW fee \in Nat,
         v + fee < Modulus, NEW p \in PoolRecord, Holds(p) = Holds(pool) + v,
         PoolTx(from, Plus(v, fee), fee, bal, p)
  PROVE  Money'
<1>1. /\ bal[from] >= Plus(v, fee) /\ Settle(bal, supply, from, Plus(v, fee), fee)
      /\ pool' = p /\ now' = now
  BY DEF PoolTx, Admissible
<1>2. Plus(v, fee) = v + fee
  BY PlusExact
<1>3. PICK cost \in Nat : cost = v + fee
  OBVIOUS
<1>4. /\ TotalBalance \in Nat /\ Holds(pool) \in Nat /\ bal \in [Accounts -> Amount]
      /\ TotalBalance = SumTo(bal, NumAccounts) /\ bal[from] \in Nat
  BY MoneyFacts
<1>5. /\ fee <= cost /\ cost <= bal[from]
      /\ SumTo(bal, NumAccounts) + Holds(p) = TotalBalance + Holds(pool) + (cost - fee)
  BY <1>1, <1>2, <1>3, <1>4
<1>6. Settle(bal, supply, from, cost, fee)
  BY <1>1, <1>2, <1>3
<1> QED BY <1>1, <1>4, <1>5, <1>6, PoolMoney

(* A payment out of the circle, for a fee. *)
LEMMA PaysOut ==
  ASSUME Money, pool \in PoolRecord, NEW from \in Accounts, NEW fee \in Nat,
         NEW after \in [Accounts -> Amount], fee <= after[from], NEW p \in PoolRecord,
         SumTo(after, NumAccounts) + Holds(p) = TotalBalance + Holds(pool),
         Settle(after, supply, from, fee, fee), pool' = p, now' = now
  PROVE  Money'
<1>1. TotalBalance \in Nat /\ Holds(pool) \in Nat
  BY MoneyFacts
<1>2. SumTo(after, NumAccounts) + Holds(p) = TotalBalance + Holds(pool) + (fee - fee) /\ fee <= fee
  BY <1>1
<1> QED BY <1>2, PoolMoney

(* An operation that only costs its fee. *)
LEMMA PaysFee ==
  ASSUME Money, pool \in PoolRecord, NEW from \in Accounts, NEW fee \in Nat,
         NEW p \in PoolRecord, Holds(p) = Holds(pool), PoolTx(from, fee, fee, bal, p)
  PROVE  Money'
<1>1. bal[from] >= fee /\ Settle(bal, supply, from, fee, fee) /\ pool' = p /\ now' = now
  BY DEF PoolTx, Admissible
<1>2. /\ TotalBalance \in Nat /\ Holds(pool) \in Nat /\ bal \in [Accounts -> Amount]
      /\ TotalBalance = SumTo(bal, NumAccounts) /\ bal[from] \in Nat
  BY MoneyFacts
<1>3. fee <= bal[from] /\ SumTo(bal, NumAccounts) + Holds(p) = TotalBalance + Holds(pool)
  BY <1>1, <1>2
<1> QED BY <1>1, <1>2, <1>3, PaysOut

(* Fees and amounts are natural numbers. *)
LEMMA FeeFacts ==
  /\ \A fee \in Fees : fee \in Nat
  /\ \A v \in Amounts \cup {0} : v \in Nat /\ v \in Amount
BY AccountsAssumption DEF Amount

LEMMA BidKeeps ==
  ASSUME Money, Circle(pool), NEW from \in Accounts, NEW amount \in Amounts \cup {0},
         NEW fee \in Fees, PoolBid(from, amount, fee)
  PROVE  StepKeeps
<1>1. PICK j : j = SeatOf(pool, from)
  OBVIOUS
<1>2. /\ pool.status = "active" /\ Member(pool, from)
      /\ PoolTx(from, fee, fee, bal, [pool EXCEPT !.bids[j] = amount])
  BY <1>1 DEF PoolBid
<1>3. j \in Seats /\ amount \in Amount /\ fee \in Nat /\ pool \in PoolRecord
  BY <1>1, <1>2, SeatOfType, FeeFacts DEF Circle
<1>4. PICK q : q = [pool EXCEPT !.bids[j] = amount]
  OBVIOUS
<1>5. Circle(q) /\ Holds(q) = Holds(pool)
  BY <1>2, <1>3, <1>4, BidIsCircle
<1>6. q \in PoolRecord /\ PoolTx(from, fee, fee, bal, q)
  BY <1>2, <1>4, <1>5 DEF Circle
<1>7. Money'
  BY <1>3, <1>5, <1>6, PaysFee
<1>8. pool' = q
  BY <1>6 DEF PoolTx
<1>9. KeptDeposits(pool, q)
  <2>1. q.members = pool.members /\ q.deposits = pool.deposits
    BY <1>3, <1>4 DEF PoolRecord
  <2> QED BY <1>3, <1>6, <2>1, SameDepositsKeepEach, KeepsEachKept
<1> QED BY <1>5, <1>7, <1>8, <1>9 DEF StepKeeps

(* The contribution and the deposit were offered, so they fit with a fee. *)
LEMMA TermsFit ==
  ASSUME PoolCostsNeverWrap, NEW p, Circle(p), p.status # "none", NEW fee \in Fees
  PROVE  p.contribution + fee < Modulus /\ p.deposit + fee < Modulus
<1>1. KeepsTerms(p)
  BY CircleFacts
<1>2. PICK t \in Offers : p.contribution = t.contribution /\ p.deposit = t.deposit
  BY <1>1 DEF KeepsTerms
<1> QED BY <1>2 DEF PoolCostsNeverWrap

LEMMA ContributeKeeps ==
  ASSUME PoolCostsNeverWrap, Money, Circle(pool), NEW from \in Accounts,
         NEW amount \in Amounts \cup {0}, NEW fee \in Fees, PoolContribute(from, amount, fee)
  PROVE  StepKeeps
<1>1. PICK j, v : j = SeatOf(pool, from) /\ v = IF amount = 0 THEN Missing(pool, j) ELSE amount
  OBVIOUS
<1>2. /\ pool.status = "active" /\ ~Goal(pool) /\ Member(pool, from) /\ v <= Missing(pool, j)
      /\ PoolTx(from, Plus(v, fee), fee, bal, PayIn(pool, j, v))
  BY <1>1 DEF PoolContribute
<1>3. j \in Seats /\ fee \in Nat /\ pool \in PoolRecord /\ pool.contribution + fee < Modulus
  BY <1>1, <1>2, SeatOfType, FeeFacts, TermsFit DEF Circle
<1>4. v \in Nat /\ v + fee < Modulus
  <2>1. pool.paid[j] \in Nat /\ pool.contribution \in Nat /\ pool.paid[j] <= pool.contribution
    BY <1>3, SeatFacts DEF PoolRecord, SeatAmounts, Circle, PotIsWhatWasPaid
  <2>2. Missing(pool, j) \in Nat /\ Missing(pool, j) <= pool.contribution
    BY <2>1 DEF Missing
  <2>3. amount \in Nat
    BY FeeFacts
  <2>4. v \in Nat
    BY <1>1, <2>2, <2>3
  <2> QED BY <1>2, <1>3, <2>1, <2>2, <2>4, SeatFacts
<1>5. Holds(pool) + v < Modulus
  BY <1>2, <1>3, <1>4, RoomFor DEF PoolTx, Admissible
<1>6. PICK q : q = PayIn(pool, j, v)
  OBVIOUS
<1>7. Circle(q) /\ Holds(q) = Holds(pool) + v
  BY <1>2, <1>3, <1>4, <1>5, <1>6, PayInIsCircle
<1>8. q \in PoolRecord /\ PoolTx(from, Plus(v, fee), fee, bal, q) /\ pool' = q
  BY <1>2, <1>6, <1>7 DEF Circle, PoolTx
<1>9. Money'
  BY <1>3, <1>4, <1>7, <1>8, PaysIn
<1>10. KeptDeposits(pool, q)
  <2>1. q.members = pool.members /\ q.deposits = pool.deposits
    BY <1>3, <1>6 DEF PoolRecord, PayIn
  <2> QED BY <1>3, <1>8, <2>1, SameDepositsKeepEach, KeepsEachKept
<1> QED BY <1>7, <1>8, <1>9, <1>10 DEF StepKeeps

LEMMA SaveKeeps ==
  ASSUME PoolCostsNeverWrap, Money, Circle(pool), NEW from \in Accounts,
         NEW amount \in Amounts \cup {0}, NEW fee \in Fees, PoolSave(from, amount, fee)
  PROVE  StepKeeps
<1>1. PICK j, s : /\ j = SeatOf(pool, from)
                  /\ s = [pool EXCEPT !.saved[j] = Plus(@, amount), !.balance = Plus(@, amount)]
  OBVIOUS
<1>2. PICK q : q = IF s.balance >= pool.target THEN [s EXCEPT !.status = "done"] ELSE s
  OBVIOUS
<1>3. /\ pool.status = "active" /\ Goal(pool) /\ Member(pool, from) /\ amount # 0
      /\ PoolTx(from, Plus(amount, fee), fee, bal, q)
  BY <1>1, <1>2 DEF PoolSave
<1>4. /\ j \in Seats /\ fee \in Nat /\ pool \in PoolRecord /\ amount \in Nat
      /\ amount + fee < Modulus
  BY <1>1, <1>3, SeatOfType, FeeFacts DEF Circle, PoolCostsNeverWrap
<1>5. Holds(pool) + amount < Modulus
  BY <1>3, <1>4, RoomFor DEF PoolTx, Admissible
<1>6. PICK st \in {"active", "done"} : st = IF s.balance >= pool.target THEN "done" ELSE "active"
  OBVIOUS
<1>7. q = SavedIn(pool, j, amount, st)
  <2>1. CASE s.balance >= pool.target
    BY <1>1, <1>2, <1>4, <1>6, <2>1 DEF PoolRecord, SavedIn
  <2>2. CASE ~(s.balance >= pool.target)
    <3>1. q = s /\ st = pool.status
      BY <1>2, <1>3, <1>6, <2>2
    <3> QED BY <1>1, <1>4, <3>1 DEF PoolRecord, SavedIn
  <2> QED BY <2>1, <2>2
<1>8. Circle(q) /\ Holds(q) = Holds(pool) + amount
  BY <1>3, <1>4, <1>5, <1>7, SaveIsCircle
<1>9. q \in PoolRecord /\ pool' = q
  BY <1>3, <1>8 DEF Circle, PoolTx
<1>10. Money'
  BY <1>3, <1>4, <1>8, <1>9, PaysIn
<1>11. KeptDeposits(pool, q)
  <2>1. q.members = pool.members /\ q.deposits = pool.deposits
    BY <1>4, <1>7 DEF PoolRecord, SavedIn
  <2> QED BY <1>4, <1>9, <2>1, SameDepositsKeepEach, KeepsEachKept
<1> QED BY <1>8, <1>9, <1>10, <1>11 DEF StepKeeps

(* Money the circle holds can be paid to a member: no balance wraps. *)
LEMMA PaysMember ==
  ASSUME Money, pool \in PoolRecord, NEW from \in Accounts, NEW fee \in Nat, NEW v \in Nat,
         v <= Holds(pool), NEW p \in PoolRecord, Holds(p) = Holds(pool) - v,
         PoolTx(from, fee, fee, Credit(bal, from, v), p)
  PROVE  Money'
<1>1. PICK after : after = Credit(bal, from, v)
  OBVIOUS
<1>2. /\ bal[from] >= fee /\ Settle(after, supply, from, fee, fee) /\ pool' = p /\ now' = now
  BY <1>1 DEF PoolTx, Admissible
<1>3. /\ TotalBalance \in Nat /\ Holds(pool) \in Nat /\ TotalBalance + Holds(pool) < Modulus
      /\ bal \in [Accounts -> Amount] /\ TotalBalance = SumTo(bal, NumAccounts)
      /\ bal[from] \in Nat /\ bal[from] <= TotalBalance
  BY MoneyFacts
<1>4. bal[from] + v < Modulus
  BY <1>3, SeatFacts
<1>5. /\ after \in [Accounts -> Amount] /\ SumTo(after, NumAccounts) = TotalBalance + v
      /\ after[from] >= bal[from]
  BY <1>1, <1>3, <1>4, CreditSum
<1>6. fee <= after[from]
  <2>1. after[from] \in Nat
    BY <1>5, SeatFacts
  <2> QED BY <1>2, <1>3, <1>5, <2>1
<1>7. SumTo(after, NumAccounts) + Holds(p) = TotalBalance + Holds(pool)
  BY <1>3, <1>5
<1> QED BY <1>2, <1>5, <1>6, <1>7, PaysOut

LEMMA WithdrawKeeps ==
  ASSUME Money, Circle(pool), NEW from \in Accounts, NEW fee \in Fees, PoolWithdraw(from, fee)
  PROVE  StepKeeps
<1>1. PICK j, v : j = SeatOf(pool, from) /\ v = pool.saved[j]
  OBVIOUS
<1>2. PICK s : s = [pool EXCEPT !.saved[j] = 0, !.balance = Minus(@, v), !.withdrawn[j] = TRUE]
  OBVIOUS
<1>3. PICK q : q = IF \A k \in Seats : s.withdrawn[k] THEN [s EXCEPT !.status = "done"] ELSE s
  OBVIOUS
<1>4. /\ Goal(pool) /\ Member(pool, from) /\ v # 0
      /\ PoolTx(from, fee, fee, Credit(bal, from, v), q)
  BY <1>1, <1>2, <1>3 DEF PoolWithdraw
<1>5. j \in Seats /\ fee \in Nat /\ pool \in PoolRecord
  BY <1>1, <1>4, SeatOfType, FeeFacts DEF Circle
<1>6. pool.status \notin {"none", "forming"}
  <2>1. pool.saved # Nothing
    BY <1>1, <1>4, <1>5 DEF Nothing
  <2> QED BY <2>1 DEF Circle, InStage, NoPool
<1>7. PICK st \in {pool.status, "done"} :
        st = IF \A k \in Seats : s.withdrawn[k] THEN "done" ELSE pool.status
  OBVIOUS
<1>8. q = [pool EXCEPT !.saved[j] = 0, !.balance = Minus(@, pool.saved[j]),
                       !.withdrawn[j] = TRUE, !.status = st]
  BY <1>1, <1>2, <1>3, <1>5, <1>7 DEF PoolRecord
<1>9. v \in Nat /\ v <= Holds(pool) /\ Circle(q) /\ Holds(q) = Holds(pool) - v
  BY <1>1, <1>4, <1>5, <1>6, <1>8, WithdrawIsCircle
<1>10. q \in PoolRecord /\ pool' = q
  BY <1>4, <1>9 DEF Circle, PoolTx
<1>11. Money'
  BY <1>4, <1>5, <1>9, <1>10, PaysMember
<1>12. KeptDeposits(pool, q)
  <2>1. q.members = pool.members /\ q.deposits = pool.deposits
    BY <1>5, <1>8 DEF PoolRecord
  <2> QED BY <1>5, <1>10, <2>1, SameDepositsKeepEach, KeepsEachKept
<1> QED BY <1>9, <1>10, <1>11, <1>12 DEF StepKeeps

LEMMA AutopayKeeps ==
  ASSUME PoolCostsNeverWrap, Money, Circle(pool), NEW from \in Accounts,
         NEW amount \in Amounts \cup {0}, NEW fee \in Fees, PoolAutopay(from, amount, fee)
  PROVE  StepKeeps
<1>1. PICK j, s : j = SeatOf(pool, from) /\ s = [pool EXCEPT !.prepaid[j] = Plus(@, amount)]
  OBVIOUS
<1>2. PICK q : q = Autopaid(s)
  OBVIOUS
<1>3. /\ pool.status \in {"forming", "active"} /\ ~Goal(pool) /\ Member(pool, from) /\ amount # 0
      /\ PoolTx(from, Plus(amount, fee), fee, bal, q)
  BY <1>1, <1>2 DEF PoolAutopay
<1>4. /\ j \in Seats /\ fee \in Nat /\ pool \in PoolRecord /\ amount \in Nat
      /\ amount + fee < Modulus
  BY <1>1, <1>3, SeatOfType, FeeFacts DEF Circle, PoolCostsNeverWrap
<1>5. Holds(pool) + amount < Modulus
  BY <1>3, <1>4, RoomFor DEF PoolTx, Admissible
<1>6. PICK x \in Nat : x = pool.prepaid[j] /\ x <= Holds(pool)
  <2>1. pool.prepaid \in [Seats -> Nat]
    BY <1>4, SeatFacts DEF PoolRecord
  <2>2. pool.prepaid[j] \in Nat /\ pool.prepaid[j] <= SumTo(pool.prepaid, NumSeats)
    BY <1>4, <2>1, SeatSum
  <2> QED BY <1>4, <2>2, HoldsType
<1>7. x + amount < Modulus
  <2>1. PICK h \in Nat : h = Holds(pool)
    BY <1>4, HoldsType
  <2>2. amount \in Nat /\ h + amount < Modulus /\ x <= h /\ x \in Nat /\ h \in Nat
    BY <1>4, <1>5, <1>6, <2>1
  <2> QED BY ONLY <2>2, SeatFacts
<1>8. PICK v \in Amount : v = Plus(x, amount) /\ v = x + amount
  BY <1>4, <1>6, <1>7, AddAmount
<1>9. s = [pool EXCEPT !.prepaid[j] = v]
  BY <1>1, <1>4, <1>6, <1>8 DEF PoolRecord
<1>10. Circle(s) /\ Holds(s) = Holds(pool) - x + v
  BY <1>3, <1>4, <1>6, <1>9, PrepaidIsCircle
<1>11. Holds(s) = Holds(pool) + amount /\ s.status # "none"
  <2>1. s.status = pool.status
    BY <1>4, <1>9 DEF PoolRecord
  <2>2. Holds(pool) \in Nat
    BY <1>4, HoldsType
  <2> QED BY <1>3, <1>4, <1>6, <1>8, <1>10, <2>1, <2>2
<1>12. /\ Circle(q) /\ Holds(q) = Holds(s) /\ Alike(s, q) /\ q.deposits = s.deposits
  BY <1>2, <1>5, <1>10, <1>11, AutopaidIsCircle
<1>13. q \in PoolRecord /\ pool' = q /\ Holds(q) = Holds(pool) + amount
  BY <1>3, <1>11, <1>12 DEF Circle, PoolTx
<1>14. Money'
  BY <1>3, <1>4, <1>13, PaysIn
<1>15. KeptDeposits(pool, q)
  <2>1. s.members = pool.members /\ s.deposits = pool.deposits
    BY <1>4, <1>9 DEF PoolRecord
  <2>2. q.members = pool.members /\ q.deposits = pool.deposits
    BY <1>12, <2>1 DEF Alike
  <2> QED BY <1>4, <1>13, <2>2, SameDepositsKeepEach, KeepsEachKept
<1> QED BY <1>12, <1>13, <1>14, <1>15 DEF StepKeeps

LEMMA StopAutopayKeeps ==
  ASSUME Money, Circle(pool), NEW from \in Accounts, NEW fee \in Fees, PoolStopAutopay(from, fee)
  PROVE  StepKeeps
<1>1. PICK j, v : j = SeatOf(pool, from) /\ v = pool.prepaid[j]
  OBVIOUS
<1>2. PICK q : q = [pool EXCEPT !.prepaid[j] = 0]
  OBVIOUS
<1>3. Member(pool, from) /\ v # 0 /\ PoolTx(from, fee, fee, Credit(bal, from, v), q)
  BY <1>1, <1>2 DEF PoolStopAutopay
<1>4. j \in Seats /\ fee \in Nat /\ pool \in PoolRecord /\ 0 \in Amount /\ v \in Nat
  <2>1. j \in Seats /\ fee \in Nat /\ pool \in PoolRecord
    BY <1>1, <1>3, SeatOfType, FeeFacts DEF Circle
  <2>2. pool.prepaid \in [Seats -> Nat]
    BY <2>1, SeatFacts DEF PoolRecord
  <2>3. 0 \in Amount
    BY SeatFacts DEF Amount
  <2> QED BY <1>1, <2>1, <2>2, <2>3
<1>5. pool.status # "none" /\ ~Goal(pool)
  <2>1. pool.prepaid # Nothing
    BY <1>1, <1>3, <1>4 DEF Nothing
  <2> QED BY <2>1 DEF Circle, InStage, NoPool
<1>6. v <= Holds(pool) /\ Circle(q) /\ Holds(q) = Holds(pool) - v + 0
  BY <1>1, <1>2, <1>4, <1>5, PrepaidIsCircle
<1>7. q \in PoolRecord /\ pool' = q /\ Holds(q) = Holds(pool) - v
  BY <1>3, <1>4, <1>6, HoldsType DEF Circle, PoolTx
<1>8. Money'
  BY <1>3, <1>4, <1>6, <1>7, PaysMember
<1>9. KeptDeposits(pool, q)
  <2>1. q.members = pool.members /\ q.deposits = pool.deposits
    BY <1>2, <1>4 DEF PoolRecord
  <2> QED BY <1>4, <1>7, <2>1, SameDepositsKeepEach, KeepsEachKept
<1> QED BY <1>6, <1>7, <1>8, <1>9 DEF StepKeeps

LEMMA CancelKeeps ==
  ASSUME Money, Circle(pool), NEW from \in Accounts, NEW fee \in Fees, PoolCancel(from, fee)
  PROVE  StepKeeps
<1>1. PICK back : back = [j \in Seats |-> pool.deposits[j] + pool.prepaid[j]]
  OBVIOUS
<1>2. PICK q : q = [pool EXCEPT !.status = "cancelled", !.deposits = Nothing, !.prepaid = Nothing]
  OBVIOUS
<1>3. PICK after : after = CreditSeats(bal, pool, back)
  OBVIOUS
<1>4. pool.status = "forming" /\ PoolTx(from, fee, fee, after, q)
  BY <1>1, <1>2, <1>3 DEF PoolCancel
<1>5. /\ Circle(q) /\ Holds(q) = 0 /\ back \in [Seats -> Nat]
      /\ SumTo(back, NumSeats) = Holds(pool) /\ q.status = "cancelled" /\ q.deposits = Nothing
      /\ q.members = pool.members
  BY <1>1, <1>2, <1>4, CancelIsCircle
<1>6. pool \in PoolRecord /\ q \in PoolRecord /\ Apart(pool.members) /\ fee \in Nat
  BY <1>4, <1>5, CircleFacts, FeeFacts DEF Circle
<1>7. /\ TotalBalance \in Nat /\ Holds(pool) \in Nat /\ TotalBalance + Holds(pool) < Modulus
      /\ bal \in [Accounts -> Amount] /\ TotalBalance = SumTo(bal, NumAccounts)
      /\ bal[from] \in Nat
  BY <1>6, MoneyFacts
<1>8. /\ after \in [Accounts -> Amount]
      /\ SumTo(after, NumAccounts) = SumTo(bal, NumAccounts) + SumTo(back, NumSeats)
      /\ after[from] >= bal[from]
  BY <1>3, <1>5, <1>6, <1>7, CreditSeatsSum
<1>9. bal[from] >= fee /\ Settle(after, supply, from, fee, fee) /\ pool' = q /\ now' = now
  BY <1>4 DEF PoolTx, Admissible
<1>10. fee <= after[from] /\ SumTo(after, NumAccounts) + Holds(q) = TotalBalance + Holds(pool)
  <2>1. after[from] \in Nat
    BY <1>8, SeatFacts
  <2> QED BY <1>5, <1>6, <1>7, <1>8, <1>9, <2>1
<1>11. Money'
  BY <1>6, <1>8, <1>9, <1>10, PaysOut
<1>12. KeptDeposits(pool, q)
  BY <1>5, ReturnedKeepsDeposits
<1> QED BY <1>5, <1>9, <1>11, <1>12 DEF StepKeeps

(* The circle at the end of an agreed swap of seats i and j. *)
LEMMA SwapIsCircle ==
  ASSUME NEW p, Circle(p), p.status \in {"forming", "active"}, NEW i \in Seats, NEW j \in Seats,
         p.claimed[i] = p.claimed[j],
         NEW s, s = [k \in Seats |-> IF k = i THEN j ELSE IF k = j THEN i ELSE k],
         NEW r, r = Reseated(p, s), NEW q, q = [r EXCEPT !.swapWith = NoPool.swapWith]
  PROVE  Circle(q) /\ q \in PoolRecord /\ Holds(q) = Holds(p) /\ KeepsEach(p, q)
<1>1. p \in PoolRecord /\ Apart(p.members) /\ s \in Draws
  BY CircleFacts, ExchangeIsDraw
<1>2. r \in PoolRecord /\ IsReseated(p, r, s)
  BY <1>1, ReseatedType
<1>3. \A k \in Seats : p.claimed[s[k]] = p.claimed[k]
  OBVIOUS
<1>4. Circle(r) /\ Holds(r) = Holds(p)
  BY <1>1, <1>2, <1>3, ReseatedIsCircle
<1>5. r.status # "none"
  BY <1>2 DEF IsReseated
<1>6. PICK w \in SeatKeys : w = NoPool.swapWith
  BY DEF SeatKeys, NoPool
<1>7. q = [r EXCEPT !.swapWith = w]
  BY <1>6
<1>8. Circle(q) /\ Holds(q) = Holds(r) /\ Alike(r, q) /\ q.deposits = r.deposits
  BY <1>4, <1>5, <1>7, SwapWithIsCircle
<1>9. q \in PoolRecord /\ q.members = r.members
  BY <1>8 DEF Circle, Alike
<1>10. KeepsEach(p, r) /\ KeepsEach(r, q)
  BY <1>1, <1>2, <1>8, <1>9, ReseatedKeepsEach, SameDepositsKeepEach
<1> QED BY <1>1, <1>2, <1>4, <1>8, <1>9, <1>10, KeepsEachTransitive

LEMMA SwapKeeps ==
  ASSUME Money, Circle(pool), NEW from \in Accounts, NEW other \in Accounts, NEW fee \in Fees,
         PoolSwap(from, other, fee)
  PROVE  StepKeeps
<1>1. PICK i, j : i = SeatOf(pool, from) /\ j = SeatOf(pool, other)
  OBVIOUS
<1>2. PICK s : s = [k \in Seats |-> IF k = i THEN j ELSE IF k = j THEN i ELSE k]
  OBVIOUS
<1>3. PICK q : q = IF pool.swapWith[j] = from
                   THEN [Reseated(pool, s) EXCEPT !.swapWith = NoPool.swapWith]
                   ELSE [pool EXCEPT !.swapWith[i] = other]
  OBVIOUS
<1>4. /\ pool.status \in {"forming", "active"} /\ Member(pool, from) /\ Member(pool, other)
      /\ ~pool.claimed[i] /\ ~pool.claimed[j] /\ PoolTx(from, fee, fee, bal, q)
  BY <1>1, <1>2, <1>3 DEF PoolSwap
<1>5. i \in Seats /\ j \in Seats /\ fee \in Nat /\ pool \in PoolRecord
  BY <1>1, <1>4, SeatOfType, FeeFacts DEF Circle
<1>6. Circle(q) /\ q \in PoolRecord /\ Holds(q) = Holds(pool) /\ KeepsEach(pool, q)
  <2>1. CASE pool.swapWith[j] = from
    <3>1. pool.claimed[i] = pool.claimed[j]
      BY <1>4, <1>5 DEF PoolRecord, SeatFlags
    <3>2. PICK r : r = Reseated(pool, s)
      OBVIOUS
    <3>3. q = [r EXCEPT !.swapWith = NoPool.swapWith]
      BY <1>3, <2>1, <3>2
    <3> QED BY <1>2, <1>4, <1>5, <3>1, <3>2, <3>3, SwapIsCircle
  <2>2. CASE pool.swapWith[j] # from
    <3>1. PICK w \in SeatKeys : w = [pool.swapWith EXCEPT ![i] = other]
      BY <1>5 DEF PoolRecord, SeatKeys
    <3>2. q = [pool EXCEPT !.swapWith = w]
      BY <1>3, <1>5, <2>2, <3>1 DEF PoolRecord
    <3>3. Circle(q) /\ Holds(q) = Holds(pool) /\ Alike(pool, q) /\ q.deposits = pool.deposits
      BY <1>4, <3>2, SwapWithIsCircle
    <3>4. q \in PoolRecord /\ q.members = pool.members
      BY <3>3 DEF Circle, Alike
    <3> QED BY <1>5, <3>3, <3>4, SameDepositsKeepEach
  <2> QED BY <2>1, <2>2
<1>7. Money'
  BY <1>4, <1>5, <1>6, PaysFee
<1>8. pool' = q /\ KeptDeposits(pool, q)
  BY <1>4, <1>5, <1>6, KeepsEachKept DEF PoolTx
<1> QED BY <1>6, <1>7, <1>8 DEF StepKeeps

LEMMA CreateKeeps ==
  ASSUME PoolCostsNeverWrap, Money, Circle(pool), NEW from \in Accounts, NEW t \in Offers,
         NEW fee \in Fees, PoolCreate(from, t, fee)
  PROVE  StepKeeps
<1>1. PICK c : c = [NoPool EXCEPT !.status = "forming", !.creator = from, !.mode = t.mode,
                      !.members = t.members, !.contribution = t.contribution,
                      !.roundLen = t.roundLen, !.deposit = t.deposit, !.rate = t.rate,
                      !.target = t.target]
  OBVIOUS
<1>2. PICK j : j = SeatOf(c, from)
  OBVIOUS
<1>3. PICK q : q = [c EXCEPT !.joined[j] = TRUE, !.deposits[j] = t.deposit]
  OBVIOUS
<1>4. /\ Member(c, from) /\ pool.status = "none"
      /\ PoolTx(from, Plus(t.deposit, fee), fee, bal, q)
  BY <1>1, <1>2, <1>3 DEF PoolCreate
<1>5. j \in Seats /\ fee \in Nat /\ pool \in PoolRecord
  BY <1>2, <1>4, SeatOfType, FeeFacts DEF Circle
<1>6. q = NewCircle(t, from, j)
  BY <1>1, <1>3 DEF NewCircle, NoPool
<1>7. Circle(q) /\ Holds(q) = t.deposit /\ t.deposit \in Amount
  BY <1>5, <1>6, CreateIsCircle
<1>8. pool = NoPool /\ Holds(NoPool) = 0
  <2>1. pool = NoPool
    BY <1>4 DEF Circle, InStage
  <2>2. Holds(NoPool) = 0 + SumTo(Nothing, NumSeats) + SumTo(Nothing, NumSeats) + 0
    BY DEF Holds, NoPool
  <2> QED BY <2>1, <2>2, NothingSum
<1>9. t.deposit \in Nat /\ t.deposit + fee < Modulus /\ Holds(q) = Holds(pool) + t.deposit
  <2>1. t.deposit \in Nat
    BY <1>7, SeatFacts
  <2> QED BY <1>7, <1>8, <2>1 DEF PoolCostsNeverWrap
<1>10. q \in PoolRecord /\ pool' = q
  BY <1>4, <1>7 DEF Circle, PoolTx
<1>11. Money'
  BY <1>4, <1>5, <1>9, <1>10, PaysIn
<1>12. KeptDeposits(pool, q)
  BY <1>4 DEF KeptDeposits
<1> QED BY <1>7, <1>10, <1>11, <1>12 DEF StepKeeps

(* What joining leaves: a circle with one deposit more. *)
Joins(p, q) ==
  /\ Circle(q) /\ q \in PoolRecord /\ Holds(q) = Holds(p) + p.deposit /\ KeepsEach(p, q)

(* Once everyone joined the circle starts, and who has enough set aside    *)
(* pays the first round.                                                   *)
LEMMA StartJoins ==
  ASSUME NEW p \in PoolRecord, NEW a, Joins(p, a), a.status = "forming", Holds(a) < Modulus,
         NEW t \in Nat, NEW b, b = Started(a, t)
  PROVE  /\ Joins(p, Autopaid(b))
         /\ \A s \in Draws : Joins(p, Autopaid(Reseated(b, s)))
<1>1. Circle(a) /\ a \in PoolRecord /\ Holds(a) = Holds(p) + p.deposit /\ KeepsEach(p, a)
  BY DEF Joins
<1>2. /\ Circle(b) /\ Holds(b) = Holds(a) /\ Alike(a, b) /\ b.status = "active"
      /\ b.deposits = a.deposits /\ b.claimed = Nobody
  BY <1>1, StartIsCircle
<1>3. b \in PoolRecord /\ b.members = a.members /\ Apart(b.members)
  BY <1>2, CircleFacts DEF Circle, Alike
<1>4. KeepsEach(p, b)
  BY <1>1, <1>2, <1>3, SameDepositsKeepEach, KeepsEachTransitive
<1>5. ASSUME NEW c, Circle(c), c.status = "active", Holds(c) = Holds(b), KeepsEach(p, c)
      PROVE  Joins(p, Autopaid(c))
  <2>1. PICK q : q = Autopaid(c)
    OBVIOUS
  <2>2. Holds(c) < Modulus /\ c \in PoolRecord /\ Holds(c) = Holds(p) + p.deposit
    BY <1>1, <1>2, <1>5 DEF Circle
  <2>3. Circle(q) /\ Holds(q) = Holds(c) /\ Alike(c, q) /\ q.deposits = c.deposits
    BY <1>5, <2>1, <2>2, AutopaidIsCircle
  <2>4. q \in PoolRecord /\ q.members = c.members
    BY <2>3 DEF Circle, Alike
  <2>5. KeepsEach(p, q)
    BY <1>5, <2>2, <2>3, <2>4, SameDepositsKeepEach, KeepsEachTransitive
  <2> QED BY <2>1, <2>2, <2>3, <2>4, <2>5 DEF Joins
<1>6. Joins(p, Autopaid(b))
  BY <1>2, <1>4, <1>5
<1>7. ASSUME NEW s \in Draws PROVE Joins(p, Autopaid(Reseated(b, s)))
  <2>1. PICK c : c = Reseated(b, s)
    OBVIOUS
  <2>2. c \in PoolRecord /\ IsReseated(b, c, s)
    BY <1>3, <2>1, ReseatedType
  <2>3. \A k \in Seats : b.claimed[s[k]] = b.claimed[k]
    <3>1. \A k \in Seats : s[k] \in Seats
      BY DEF Draws
    <3>2. \A k \in Seats : b.claimed[k] = FALSE
      BY <1>2 DEF Nobody
    <3> QED BY ONLY <3>1, <3>2
  <2>4. Circle(c) /\ Holds(c) = Holds(b)
    BY <1>2, <2>2, <2>3, ReseatedIsCircle
  <2>5. KeepsEach(p, c)
    BY <1>3, <1>4, <2>2, ReseatedKeepsEach, KeepsEachTransitive
  <2>6. c.status = "active"
    BY <1>2, <2>2 DEF IsReseated
  <2> QED BY <1>5, <2>1, <2>4, <2>5, <2>6
<1> QED BY <1>6, <1>7

LEMMA JoinKeeps ==
  ASSUME PoolCostsNeverWrap, Money, Circle(pool), NEW from \in Accounts, NEW fee \in Fees,
         PoolJoin(from, fee)
  PROVE  StepKeeps
<1>1. PICK j : j = SeatOf(pool, from)
  OBVIOUS
<1>2. PICK a : a = [pool EXCEPT !.joined[j] = TRUE, !.deposits[j] = pool.deposit]
  OBVIOUS
<1>3. PICK b : b = Started(a, now)
  OBVIOUS
<1>4. pool.status = "forming" /\ Member(pool, from) /\ ~pool.joined[j]
  BY <1>1 DEF PoolJoin
<1>5. \/ PoolTx(from, Plus(pool.deposit, fee), fee, bal, a)
      \/ PoolTx(from, Plus(pool.deposit, fee), fee, bal, Autopaid(b))
      \/ \E s \in Draws : PoolTx(from, Plus(pool.deposit, fee), fee, bal, Autopaid(Reseated(b, s)))
  BY <1>1, <1>2, <1>3 DEF PoolJoin, Started
<1>6. /\ j \in Seats /\ fee \in Nat /\ pool \in PoolRecord /\ pool.deposit \in Nat
      /\ pool.deposit + fee < Modulus
  BY <1>1, <1>4, SeatOfType, FeeFacts, TermsFit, CircleFacts
<1>7. bal[from] >= Plus(pool.deposit, fee)
  BY <1>5 DEF PoolTx, Admissible
<1>8. Holds(pool) + pool.deposit < Modulus
  BY <1>6, <1>7, RoomFor
<1>9. /\ Circle(a) /\ Holds(a) = Holds(pool) + pool.deposit /\ Alike(pool, a)
      /\ a.status = "forming" /\ \A k \in Seats : a.deposits[k] >= pool.deposits[k]
  BY <1>2, <1>4, <1>6, JoinIsCircle
<1>10. Joins(pool, a)
  BY <1>9, SameSeatsKeepEach DEF Joins, Circle, Alike
<1>11. now \in Nat
  BY AccountsAssumption DEF Money, AccountsTypeOK
<1>12. /\ Joins(pool, Autopaid(b))
       /\ \A s \in Draws : Joins(pool, Autopaid(Reseated(b, s)))
  BY <1>3, <1>6, <1>8, <1>9, <1>10, <1>11, StartJoins
<1>13. PICK q : Joins(pool, q) /\ PoolTx(from, Plus(pool.deposit, fee), fee, bal, q)
  BY <1>5, <1>10, <1>12
<1>14. Circle(q) /\ q \in PoolRecord /\ Holds(q) = Holds(pool) + pool.deposit /\ KeepsEach(pool, q)
  BY <1>13 DEF Joins
<1>15. Money'
  BY <1>6, <1>13, <1>14, PaysIn
<1>16. pool' = q /\ KeptDeposits(pool, q)
  BY <1>6, <1>13, <1>14, KeepsEachKept DEF PoolTx
<1> QED BY <1>14, <1>15, <1>16 DEF StepKeeps

LEMMA ClaimKeeps ==
  ASSUME ClaimsCoverTheirFee, Money, Circle(pool), NEW from \in Accounts, NEW fee \in Fees,
         PoolClaim(from, fee)
  PROVE  StepKeeps
<1>1. PICK i, out : i = SeatOf(pool, from) /\ out = Payout(pool, i)
  OBVIOUS
<1>2. PICK after : after = CreditSeats(bal, pool, out.pay)
  OBVIOUS
<1>3. /\ pool.status = "active" /\ ~Goal(pool) /\ Member(pool, from) /\ i = Recipient(pool)
      /\ AllPaid(pool) \/ Scheduled(pool)
      /\ Settle(after, supply, from, fee, fee) /\ pool' = out.pool /\ now' = now
  BY <1>1, <1>2 DEF PoolClaim
<1>4. i \in Seats /\ pool.members[i] = from /\ fee \in Nat
  BY <1>1, <1>3, SeatOfType, FeeFacts
<1>5. pool \in PoolRecord /\ Apart(pool.members)
  BY <1>3, CircleFacts
<1>6. /\ TotalBalance \in Nat /\ Holds(pool) \in Nat /\ TotalBalance + Holds(pool) < Modulus
      /\ bal \in [Accounts -> Amount] /\ TotalBalance = SumTo(bal, NumAccounts)
  BY <1>5, MoneyFacts
<1>7. Holds(pool) < Modulus
  BY <1>6, SeatFacts
<1>8. /\ out.pay \in [Seats -> Nat] /\ Circle(out.pool) /\ out.pool \in PoolRecord
      /\ SumTo(out.pay, NumSeats) + Holds(out.pool) = Holds(pool)
      /\ out.pool.members = pool.members /\ DepositsCovered(pool, out.pool)
  BY <1>1, <1>3, <1>4, <1>7, PayoutIsCircle
<1>9. SumTo(out.pay, NumSeats) \in Nat /\ Holds(out.pool) \in Nat
  BY <1>8, SeatSum, HoldsType
<1>10. SumTo(bal, NumAccounts) + SumTo(out.pay, NumSeats) < Modulus
  BY <1>6, <1>8, <1>9, SeatFacts
<1>11. /\ after \in [Accounts -> Amount]
       /\ SumTo(after, NumAccounts) = SumTo(bal, NumAccounts) + SumTo(out.pay, NumSeats)
       /\ after[pool.members[i]] = bal[pool.members[i]] + out.pay[i]
  BY <1>2, <1>4, <1>5, <1>6, <1>8, <1>10, CreditSeatsSum
<1>12. fee <= after[from]
  <2>1. bal[from] + out.pay[i] >= fee
    BY <1>1 DEF ClaimsCoverTheirFee
  <2>2. bal[from] \in Nat /\ out.pay[i] \in Nat
    BY <1>4, <1>6, <1>8, SeatFacts
  <2> QED BY <1>4, <1>11, <2>1, <2>2
<1>13. SumTo(after, NumAccounts) + Holds(out.pool) = TotalBalance + Holds(pool)
  BY <1>6, <1>8, <1>9, <1>11
<1>14. Money'
  BY <1>3, <1>4, <1>5, <1>8, <1>11, <1>12, <1>13, PaysOut
<1>15. KeptDeposits(pool, out.pool)
  BY <1>3, <1>5, <1>8, CoveredKeepsDeposits
<1> QED BY <1>3, <1>8, <1>14, <1>15 DEF StepKeeps

-----------------------------------------------------------------------------
(* The invariant of the steps: the money of all accounts and the circle,   *)
(* and what the circle must be.                                            *)
PoolIInv == Money /\ Circle(pool)

LEMMA PoolInitInv == PoolInit => PoolIInv
<1> SUFFICES ASSUME PoolInit PROVE PoolIInv
  OBVIOUS
<1>1. pool = NoPool /\ AccountsInit
  BY DEF PoolInit
<1>2. AccountsInv
  BY <1>1, AccountsInitInv
<1>3. Holds(NoPool) = 0
  <2>1. Holds(NoPool) = 0 + SumTo(Nothing, NumSeats) + SumTo(Nothing, NumSeats) + 0
    BY DEF Holds, NoPool
  <2> QED BY <2>1, NothingSum
<1>4. Money
  <2>1. TotalBalance = supply /\ supply \in Nat
    BY <1>2, SeatFacts DEF AccountsInv, SupplyIsHeld, AccountsTypeOK
  <2>2. PoolConserved
    BY <1>1, <1>3, <2>1 DEF PoolConserved
  <2> QED BY <1>2, <2>2 DEF Money, AccountsInv
<1>5. NoPool \in PoolRecord
  BY NoPoolType
<1>6. /\ NoPool.paid = Nothing /\ NoPool.balance = 0 /\ NoPool.contribution = 0
      /\ NoPool.status = "none" /\ NoPool.mode = "rotation" /\ NoPool.round = 0
      /\ NoPool.deposits = Nothing /\ NoPool.defaults = Nothing /\ NoPool.claimed = Nobody
  BY DEF NoPool
<1>7. PotIsWhatWasPaid(NoPool)
  BY <1>6, NothingSum DEF PotIsWhatWasPaid, Goal, Nothing
<1>8. InStage(NoPool)
  <2>1. \A j \in Seats : Nothing[j] = 0
    BY DEF Nothing
  <2> QED BY <1>6, <2>1 DEF InStage, Goal
<1>9. Turn(NoPool)
  <2>1. Collected(NoPool) = {} /\ 1..0 = {}
    BY <1>6 DEF Collected, Nobody
  <2> QED BY <1>6, <2>1, FS_EmptySet DEF Turn, Goal
<1>10. Circle(NoPool)
  BY <1>5, <1>7, <1>8, <1>9, TurnParts DEF Circle
<1> QED BY <1>1, <1>4, <1>10 DEF PoolIInv

LEMMA PoolStepKeeps ==
  ASSUME PoolCostsNeverWrap, PoolIInv, ClaimsCoverTheirFee, PoolStep
  PROVE  StepKeeps
<1>1. Money /\ Circle(pool)
  BY DEF PoolIInv
<1>2. ASSUME NEW from \in Accounts, NEW t \in Offers, NEW fee \in Fees, PoolCreate(from, t, fee)
      PROVE  StepKeeps
  BY <1>1, <1>2, CreateKeeps
<1>3. ASSUME NEW from \in Accounts, NEW fee \in Fees,
             \/ PoolJoin(from, fee)
             \/ PoolClaim(from, fee)
             \/ PoolWithdraw(from, fee)
             \/ PoolStopAutopay(from, fee)
             \/ PoolCancel(from, fee)
      PROVE  StepKeeps
  BY <1>1, <1>3, JoinKeeps, ClaimKeeps, WithdrawKeeps, StopAutopayKeeps, CancelKeeps
<1>4. ASSUME NEW from \in Accounts, NEW fee \in Fees, NEW other \in Accounts,
             PoolSwap(from, other, fee)
      PROVE  StepKeeps
  BY <1>1, <1>4, SwapKeeps
<1>5. ASSUME NEW from \in Accounts, NEW fee \in Fees, NEW amount \in Amounts \cup {0},
             \/ PoolContribute(from, amount, fee)
             \/ PoolSave(from, amount, fee)
             \/ PoolBid(from, amount, fee)
             \/ PoolAutopay(from, amount, fee)
      PROVE  StepKeeps
  BY <1>1, <1>5, ContributeKeeps, SaveKeeps, BidKeeps, AutopayKeeps
<1> QED BY <1>2, <1>3, <1>4, <1>5 DEF PoolStep

LEMMA PoolTickKeeps == ASSUME PoolIInv, PoolTick PROVE StepKeeps
<1>1. Money /\ Circle(pool) /\ pool' = pool
  BY DEF PoolIInv, PoolTick
<1>2. bal' = bal /\ supply' = supply /\ burned' = burned /\ now' = now + 1 /\ now < MaxTime
  BY DEF PoolTick, Tick
<1>3. now' \in 0..MaxTime
  BY <1>1, <1>2, AccountsAssumption DEF Money, AccountsTypeOK
<1>4. Money'
  BY <1>1, <1>2, <1>3 DEF Money, AccountsTypeOK, PoolConserved, BurnedIsAccounted, TotalBalance
<1>5. pool \in PoolRecord
  BY <1>1 DEF Circle
<1>6. KeptDeposits(pool, pool')
  BY <1>1, <1>5, SameDepositsKeepEach, KeepsEachKept
<1> QED BY <1>1, <1>4, <1>6 DEF StepKeeps

LEMMA PoolNextInv ==
  ASSUME PoolCostsNeverWrap
  PROVE  PoolIInv /\ [PoolNext]_poolVars /\ [ClaimsCoverTheirFee]_poolVars => PoolIInv'
<1> SUFFICES ASSUME PoolIInv, [PoolNext]_poolVars, [ClaimsCoverTheirFee]_poolVars PROVE PoolIInv'
  OBVIOUS
<1>1. CASE UNCHANGED poolVars
  <2>1. bal' = bal /\ supply' = supply /\ burned' = burned /\ now' = now /\ pool' = pool
    BY <1>1 DEF poolVars
  <2>2. Money'
    BY <2>1 DEF PoolIInv, Money, AccountsTypeOK, PoolConserved, BurnedIsAccounted, TotalBalance
  <2>3. Circle(pool')
    BY <2>1 DEF PoolIInv
  <2> QED BY <2>2, <2>3 DEF PoolIInv
<1>2. CASE PoolNext /\ ClaimsCoverTheirFee
  <2>1. StepKeeps
    BY <1>2, PoolStepKeeps, PoolTickKeeps DEF PoolNext
  <2> QED BY <2>1 DEF StepKeeps, PoolIInv
<1> QED BY <1>1, <1>2

LEMMA PoolNextDeposits ==
  ASSUME PoolCostsNeverWrap
  PROVE  PoolIInv /\ [PoolNext]_poolVars /\ [ClaimsCoverTheirFee]_poolVars
           => [\A a \in Accounts : KeepsDeposit(a)]_poolVars
<1> SUFFICES ASSUME PoolIInv, PoolNext, ClaimsCoverTheirFee PROVE \A a \in Accounts : KeepsDeposit(a)
  OBVIOUS
<1>1. StepKeeps
  BY PoolStepKeeps, PoolTickKeeps DEF PoolNext
<1> QED BY <1>1 DEF StepKeeps, KeptDeposits, KeepsDeposit

(* Accounts and circle together always hold exactly the supply, and a      *)
(* circle's pot is what its members paid into the round, for any number of *)
(* members and accounts, any terms, any width of the amount type.  It      *)
(* holds while no cost and no fee of a claim wraps, which the code does    *)
(* not check.                                                              *)
THEOREM CirclesConserve ==
  ASSUME PoolCostsNeverWrap
  PROVE  PoolSpec /\ [][ClaimsCoverTheirFee]_poolVars => []PoolInv
<1>1. PoolInit => PoolIInv
  BY PoolInitInv
<1>2. PoolIInv /\ [PoolNext]_poolVars /\ [ClaimsCoverTheirFee]_poolVars => PoolIInv'
  BY PoolNextInv
<1>3. PoolIInv => PoolInv
  BY PoolParts DEF PoolIInv
<1> QED BY <1>1, <1>2, <1>3, PTL DEF PoolSpec

(* Everyone collects once and in turn in every mode with turns, and a      *)
(* circle that ended or was cancelled keeps nothing.                       *)
THEOREM CirclesPayInTurn ==
  ASSUME PoolCostsNeverWrap
  PROVE  PoolSpec /\ [][ClaimsCoverTheirFee]_poolVars => []EveryoneCollectsOnce
<1>1. PoolInit => PoolIInv
  BY PoolInitInv
<1>2. PoolIInv /\ [PoolNext]_poolVars /\ [ClaimsCoverTheirFee]_poolVars => PoolIInv'
  BY PoolNextInv
<1>3. PoolIInv => EveryoneCollectsOnce
  BY PoolParts DEF PoolIInv
<1> QED BY <1>1, <1>2, <1>3, PTL DEF PoolSpec

(* A deposit shrinks only for a default of its own member, noted against   *)
(* him, or when it is returned, whatever draws and swaps do to the seats.  *)
THEOREM DepositsAreOnesOwn ==
  ASSUME PoolCostsNeverWrap
  PROVE  PoolSpec /\ [][ClaimsCoverTheirFee]_poolVars => DepositsPayOwnDefaults
<1>1. PoolInit => PoolIInv
  BY PoolInitInv
<1>2. PoolIInv /\ [PoolNext]_poolVars /\ [ClaimsCoverTheirFee]_poolVars => PoolIInv'
  BY PoolNextInv
<1>3. PoolIInv /\ [PoolNext]_poolVars /\ [ClaimsCoverTheirFee]_poolVars
        => [\A a \in Accounts : KeepsDeposit(a)]_poolVars
  BY PoolNextDeposits
<1> QED BY <1>1, <1>2, <1>3, PTL DEF PoolSpec, DepositsPayOwnDefaults
=============================================================================
