-------------------------- MODULE LedgerProofs ------------------------------
(***************************************************************************)
(* The ledger conserves money: first accounts alone, then accounts with    *)
(* escrows, then both under social recovery, each for any number of        *)
(* accounts, escrows and recoveries and any width.                         *)
(***************************************************************************)
EXTENDS Recovery, SumsProofs, FiniteSetTheorems

-----------------------------------------------------------------------------
(* Accounts.  All balances together are the supply, and the supply fits the *)
(* width, so no unchecked addition can wrap.                                *)

(* Sums that fit the width are exact, and so are differences of what is there. *)
LEMMA PlusExact ==
  ASSUME NEW x \in Nat, NEW y \in Nat, x + y < Modulus
  PROVE  Plus(x, y) = x + y
BY AccountsAssumption DEF Plus

(* Subtracting no more than is there never wraps.                          *)
LEMMA MinusExact ==
  ASSUME NEW x \in Amount, NEW y \in Nat, y <= x
  PROVE  Minus(x, y) = x - y
BY AccountsAssumption DEF Minus, Amount

(* Sums and differences of amounts are amounts: they wrap at the width.    *)
LEMMA PlusMinusType ==
  ASSUME NEW x \in Int, NEW y \in Int
  PROVE  Plus(x, y) \in Amount /\ Minus(x, y) \in Amount
BY AccountsAssumption DEF Plus, Minus, Amount

(* A cut is at most the agreed rate of the amount, and so never            *)
(* more than the amount: the two-part formula rounds down.                 *)
LEMMA CutBound ==
  ASSUME NEW x \in Nat, NEW r \in 0..BpsBase
  PROVE  /\ Cut(x, r) \in Nat
         /\ Cut(x, r) * BpsBase <= x * r
         /\ Cut(x, r) <= x
<1> DEFINE B == BpsBase
           q == x \div B
           m == x % B
           d == (m * r) \div B
<1>1. B \in Nat \ {0} /\ r \in Nat /\ r <= B
  BY BpsAssumption
<1> HIDE DEF B
<1>2. q \in Nat /\ m \in Nat /\ m < B /\ x = q * B + m
  BY <1>1
<1> HIDE DEF q, m
<1>3. m * r \in Nat
  BY <1>1, <1>2
<1>4. d \in Nat /\ d * B <= m * r
  BY <1>1, <1>3
<1>5. Cut(x, r) = q * r + d
  BY DEF Cut, q, m, B
<1> HIDE DEF d
<1>6. (q * r + d) * B = (q * B) * r + d * B
  BY <1>1, <1>2, <1>4
<1>7. (q * B + m) * r = (q * B) * r + m * r
  BY <1>1, <1>2
<1>8. q * r \in Nat /\ (q * B) * r \in Nat /\ d * B \in Nat
  BY <1>1, <1>2, <1>4
<1>9. (q * r + d) * B <= x * r
  BY <1>2, <1>3, <1>4, <1>6, <1>7, <1>8
<1>10. m * r <= m * B /\ q * r <= q * B /\ m * B \in Nat /\ q * B \in Nat
  BY <1>1, <1>2
<1>11. d <= m
  <2> SUFFICES ASSUME d > m PROVE FALSE
    BY <1>2, <1>4
  <2>1. d * B >= (m + 1) * B /\ (m + 1) * B = m * B + B
    BY <1>1, <1>2, <1>4
  <2> QED BY <1>1, <1>2, <1>3, <1>4, <1>8, <1>10, <2>1
<1>12. q * r + d <= x
  BY <1>2, <1>4, <1>8, <1>10, <1>11
<1> QED BY <1>4, <1>5, <1>8, <1>9, <1>12 DEF B

(* The balances add up to a natural number, and none exceeds the sum. *)
LEMMA BalancesSum ==
  ASSUME NEW b \in [Accounts -> Amount]
  PROVE  /\ SumTo(b, NumAccounts) \in Nat
         /\ \A a \in Accounts : b[a] \in Nat /\ b[a] <= SumTo(b, NumAccounts)
<1>1. b \in [1..NumAccounts -> Nat] /\ NumAccounts \in Nat
  BY AccountsAssumption DEF Accounts, Amount
<1>2. SumTo(b, NumAccounts) \in Nat
  BY <1>1, SumToType
<1>3. \A a \in 1..NumAccounts : b[a] <= SumTo(b, NumAccounts)
  BY <1>1, SumToBound
<1> QED BY <1>1, <1>2, <1>3 DEF Accounts

(* A credit that fits adds its amount to the total of the balances. *)
LEMMA CreditSum ==
  ASSUME NEW b \in [Accounts -> Amount], NEW a \in Accounts, NEW v \in Nat,
         b[a] + v < Modulus
  PROVE  /\ Credit(b, a, v) \in [Accounts -> Amount]
         /\ SumTo(Credit(b, a, v), NumAccounts) = SumTo(b, NumAccounts) + v
         /\ \A c \in Accounts : Credit(b, a, v)[c] >= b[c]
<1>1. b \in [1..NumAccounts -> Nat] /\ NumAccounts \in Nat
  BY AccountsAssumption DEF Accounts, Amount
<1>2. b[a] <= SumTo(b, NumAccounts) /\ SumTo(b, NumAccounts) \in Nat /\ b[a] \in Nat
  BY BalancesSum
<1>3. Plus(b[a], v) = b[a] + v
  BY <1>2, PlusExact, AccountsAssumption
<1>4. Credit(b, a, v) = [b EXCEPT ![a] = b[a] + v]
  BY <1>3 DEF Credit
<1>5. SumTo([b EXCEPT ![a] = b[a] + v], NumAccounts)
        = SumTo(b, NumAccounts) - b[a] + (b[a] + v)
  <2> DEFINE w == b[a] + v
  <2>1. w \in Nat /\ a \in 1..NumAccounts
    BY <1>2 DEF Accounts
  <2> HIDE DEF w
  <2>2. SumTo([b EXCEPT ![a] = w], NumAccounts) = SumTo(b, NumAccounts) - b[a] + w
    BY <1>1, <2>1, SumToUpdate
  <2> QED BY <2>2 DEF w
<1>6. b[a] + v \in Amount
  BY <1>2, AccountsAssumption DEF Amount
<1>7. Credit(b, a, v) \in [Accounts -> Amount]
  BY <1>4, <1>6
<1>8. \A c \in Accounts : Credit(b, a, v)[c] >= b[c]
  BY <1>4, <1>1 DEF Accounts
<1> QED BY <1>2, <1>4, <1>5, <1>7, <1>8

(* A debit of what is there takes its amount from the total. *)
LEMMA DebitSum ==
  ASSUME NEW b \in [Accounts -> Amount], NEW a \in Accounts, NEW v \in Nat, v <= b[a]
  PROVE  /\ [b EXCEPT ![a] = Minus(@, v)] \in [Accounts -> Amount]
         /\ SumTo([b EXCEPT ![a] = Minus(@, v)], NumAccounts) = SumTo(b, NumAccounts) - v
<1>1. b \in [1..NumAccounts -> Nat] /\ NumAccounts \in Nat
  BY AccountsAssumption DEF Accounts, Amount
<1>2. SumTo(b, NumAccounts) \in Nat /\ b[a] \in Amount /\ b[a] \in Nat
  BY <1>1, SumToType DEF Accounts
<1>3. Minus(b[a], v) = b[a] - v
  BY <1>2, MinusExact
<1>4. [b EXCEPT ![a] = Minus(@, v)] = [b EXCEPT ![a] = b[a] - v]
  BY <1>3
<1>5. b[a] - v \in Nat /\ b[a] - v \in Amount
  BY <1>2, AccountsAssumption DEF Amount
<1>6. SumTo([b EXCEPT ![a] = b[a] - v], NumAccounts)
        = SumTo(b, NumAccounts) - b[a] + (b[a] - v)
  BY <1>1, <1>5, SumToUpdate DEF Accounts
<1> QED BY <1>2, <1>4, <1>5, <1>6

(* What apply does after the rule: the balances and the supply together    *)
(* lose exactly what the sender paid beyond the fee, whatever the asset.   *)
LEMMA SettleSum ==
  ASSUME NEW after \in [Accounts -> Amount], NEW sup \in Amount,
         NEW from \in Accounts, NEW cost \in Nat, NEW fee \in Nat,
         burned \in Amount, Settle(after, sup, from, cost, fee),
         cost <= after[from], fee <= cost, fee <= sup,
         SumTo(after, NumAccounts) - cost + fee < Modulus
  PROVE  /\ bal' \in [Accounts -> Amount]
         /\ supply' \in Amount
         /\ burned' \in Amount
         /\ SumTo(bal', NumAccounts) - supply'
              = SumTo(after, NumAccounts) - sup - (cost - fee)
         /\ supply' <= sup
         /\ Native => supply' = sup - fee /\ burned' = Plus(burned, fee)
<1> DEFINE debited == [after EXCEPT ![from] = Minus(@, cost)]
<1>1. /\ debited \in [Accounts -> Amount]
      /\ SumTo(debited, NumAccounts) = SumTo(after, NumAccounts) - cost
  BY DebitSum
<1>2. SumTo(after, NumAccounts) \in Nat /\ SumTo(debited, NumAccounts) \in Nat
  <2> HIDE DEF debited
  <2> QED BY <1>1, BalancesSum
<1>3. sup \in Nat /\ Modulus \in Nat /\ burned \in Int
  BY AccountsAssumption DEF Amount
<1>4. CASE Native
  <2>1. bal' = debited /\ supply' = Minus(sup, fee) /\ burned' = Plus(burned, fee)
    BY <1>4 DEF Settle
  <2>2. supply' = sup - fee
    BY <2>1, MinusExact
  <2>3. supply' \in Amount /\ burned' \in Amount
    BY <2>1, <1>3, PlusMinusType
  <2> HIDE DEF debited
  <2> QED BY <1>1, <1>2, <1>3, <2>1, <2>2, <2>3, <1>4
<1>5. CASE ~Native
  <2>1. bal' = Credit(debited, Issuer, fee) /\ supply' = sup /\ burned' = burned
    BY <1>5 DEF Settle
  <2>2. Issuer \in Accounts
    BY <1>5, AccountsAssumption DEF Native
  <2> HIDE DEF debited
  <2>3. debited[Issuer] + fee < Modulus
    BY <1>1, <1>2, <1>3, <2>2, BalancesSum
  <2>4. /\ bal' \in [Accounts -> Amount]
        /\ SumTo(bal', NumAccounts) = SumTo(debited, NumAccounts) + fee
    BY <1>1, <2>1, <2>2, <2>3, CreditSum
  <2> QED BY <1>1, <1>2, <1>3, <2>1, <2>4, <1>5
<1> QED BY <1>4, <1>5

(* The genesis state satisfies the invariant: the whole supply is one      *)
(* account's.                                                              *)
LEMMA AccountsInitInv == AccountsInit => AccountsInv
<1> SUFFICES ASSUME AccountsInit PROVE AccountsInv
  OBVIOUS
<1>1. SumTo(Genesis, NumAccounts) \in Nat
  BY BalancesSum, AccountsAssumption
<1>2. AccountsTypeOK
  BY <1>1, AccountsAssumption DEF AccountsInit, AccountsTypeOK, Amount
<1> QED BY <1>1, <1>2 DEF AccountsInit, AccountsInv, SupplyIsHeld, BurnedIsAccounted, TotalBalance

(* Transfer, Mint, Burn and the passing of time preserve the invariant.    *)
LEMMA AccountsStepInv == AccountsInv /\ [AccountsNext]_accountVars => AccountsInv'
<1> SUFFICES ASSUME AccountsInv, [AccountsNext]_accountVars PROVE AccountsInv'
  OBVIOUS
<1> DEFINE Sum == SumTo(bal, NumAccounts)
           Gen == SumTo(Genesis, NumAccounts)
<1>t. /\ bal \in [Accounts -> Amount] /\ supply \in Amount /\ burned \in Amount
      /\ now \in 0..MaxTime /\ Sum = supply
      /\ Native => supply + burned = Gen
      /\ Modulus \in Nat \ {0} /\ MaxTime \in Nat
      /\ Gen \in Nat /\ Gen < Modulus
      /\ Fees \subseteq Amount /\ Amounts \subseteq Amount
  BY AccountsAssumption, BalancesSum
     DEF AccountsInv, AccountsTypeOK, SupplyIsHeld, TotalBalance, BurnedIsAccounted
<1>b. \A a \in Accounts : bal[a] \in Nat /\ bal[a] <= supply
  BY <1>t, BalancesSum
<1>1. ASSUME NEW from \in Accounts, NEW to \in Accounts, NEW amount \in Amounts,
             NEW fee \in Fees, Transfer(from, to, amount, fee)
      PROVE  AccountsInv'
  <2> DEFINE after == Credit(bal, to, amount)
  <2>1. amount \in Nat /\ fee \in Nat /\ supply \in Nat /\ burned \in Nat
    BY <1>t DEF Amount
  <2>2. /\ from # to /\ amount + fee < Modulus /\ bal[to] + amount < Modulus
        /\ Plus(amount, fee) = amount + fee /\ bal[from] >= amount + fee
    BY <1>1, <2>1, PlusExact DEF Transfer, Admissible
  <2>3. /\ after \in [Accounts -> Amount]
        /\ SumTo(after, NumAccounts) = Sum + amount
        /\ after[from] >= bal[from]
    BY <1>t, <2>1, <2>2, CreditSum
  <2>4. Settle(after, supply, from, amount + fee, fee) /\ now' = now
    BY <1>1, <2>2 DEF Transfer
  <2> HIDE DEF after
  <2>5. /\ bal[from] \in Nat /\ after[from] \in Nat /\ bal[from] <= supply
        /\ fee <= supply /\ amount + fee <= after[from]
    BY <1>b, <2>1, <2>2, <2>3, BalancesSum
  <2>6. /\ bal' \in [Accounts -> Amount] /\ supply' \in Amount /\ burned' \in Amount
        /\ SumTo(bal', NumAccounts) - supply'
             = SumTo(after, NumAccounts) - supply - ((amount + fee) - fee)
        /\ Native => supply' = supply - fee /\ burned' = Plus(burned, fee)
    <3>1. SumTo(after, NumAccounts) - (amount + fee) + fee < Modulus
      BY <1>t, <2>1, <2>3 DEF Amount
    <3>2. amount + fee \in Nat /\ fee <= amount + fee
      BY <2>1
    <3> QED BY <1>t, <2>1, <2>3, <2>4, <2>5, <3>1, <3>2, SettleSum
  <2>7. SumTo(bal', NumAccounts) = supply'
    BY <1>t, <2>1, <2>3, <2>6, BalancesSum DEF Amount
  <2>8. Native => supply' + burned' = Gen
    BY <1>t, <2>1, <2>5, <2>6, PlusExact
  <2> QED BY <1>t, <2>4, <2>6, <2>7, <2>8
     DEF AccountsInv, AccountsTypeOK, SupplyIsHeld, TotalBalance, BurnedIsAccounted
<1>2. ASSUME NEW from \in Accounts, NEW to \in Accounts, NEW amount \in Amounts,
             Mint(from, to, amount)
      PROVE  AccountsInv'
  <2> DEFINE after == Credit(bal, to, amount)
  <2>1. amount \in Nat /\ supply \in Nat
    BY <1>t DEF Amount
  <2>2. /\ ~Native /\ supply + amount < Modulus /\ Plus(supply, amount) = supply + amount
        /\ bal[to] + amount < Modulus
    BY <1>2, <1>t, <1>b, <2>1, PlusExact DEF Mint
  <2>3. /\ after \in [Accounts -> Amount]
        /\ SumTo(after, NumAccounts) = Sum + amount
    BY <1>t, <2>1, <2>2, CreditSum
  <2>4. Settle(after, supply + amount, from, 0, 0) /\ now' = now
    BY <1>2, <2>2 DEF Mint
  <2> HIDE DEF after
  <2>5. supply + amount \in Amount /\ 0 <= after[from]
    BY <2>1, <2>2, <2>3, BalancesSum, <1>t DEF Amount
  <2>6. SumTo(after, NumAccounts) - 0 + 0 < Modulus
    BY <1>t, <2>1, <2>2, <2>3
  <2>7. /\ bal' \in [Accounts -> Amount] /\ supply' \in Amount /\ burned' \in Amount
        /\ SumTo(bal', NumAccounts) - supply'
             = SumTo(after, NumAccounts) - (supply + amount) - (0 - 0)
    BY <1>t, <2>3, <2>4, <2>5, <2>6, SettleSum, SMTT(30) DEF Amount
  <2>8. SumTo(bal', NumAccounts) = supply'
    BY <1>t, <2>1, <2>3, <2>7, BalancesSum DEF Amount
  <2> QED BY <1>t, <2>2, <2>4, <2>7, <2>8
     DEF AccountsInv, AccountsTypeOK, SupplyIsHeld, TotalBalance, BurnedIsAccounted
<1>3. ASSUME NEW from \in Accounts, NEW amount \in Amounts, NEW fee \in Fees,
             Burn(from, amount, fee)
      PROVE  AccountsInv'
  <2>1. amount \in Nat /\ fee \in Nat /\ supply \in Nat
    BY <1>t DEF Amount
  <2>2. /\ ~Native /\ amount + fee < Modulus
        /\ Plus(amount, fee) = amount + fee /\ bal[from] >= amount + fee
    BY <1>3, <2>1, PlusExact DEF Burn, Admissible
  <2>3. Minus(supply, amount) = supply - amount /\ supply - amount \in Amount
    BY <1>t, <1>b, <2>1, <2>2, MinusExact, PlusMinusType
  <2>4. Settle(bal, supply - amount, from, amount + fee, fee) /\ now' = now
    BY <1>3, <2>2, <2>3 DEF Burn
  <2>5. /\ fee <= supply - amount /\ amount + fee \in Nat /\ fee <= amount + fee
        /\ Sum - (amount + fee) + fee < Modulus
    BY <1>t, <1>b, <2>1, <2>2 DEF Amount
  <2>6. /\ bal' \in [Accounts -> Amount] /\ supply' \in Amount /\ burned' \in Amount
        /\ SumTo(bal', NumAccounts) - supply' = Sum - (supply - amount) - ((amount + fee) - fee)
    BY <1>t, <2>1, <2>2, <2>3, <2>4, <2>5, SettleSum
  <2>7. SumTo(bal', NumAccounts) = supply'
    BY <1>t, <2>1, <2>6, BalancesSum DEF Amount
  <2> QED BY <1>t, <2>2, <2>4, <2>6, <2>7
     DEF AccountsInv, AccountsTypeOK, SupplyIsHeld, TotalBalance, BurnedIsAccounted
<1>4. CASE Tick
  BY <1>4, <1>t DEF Tick, AccountsInv, AccountsTypeOK, SupplyIsHeld, TotalBalance, BurnedIsAccounted
<1>5. CASE UNCHANGED accountVars
  BY <1>5, <1>t DEF accountVars, AccountsInv, AccountsTypeOK, SupplyIsHeld, TotalBalance, BurnedIsAccounted
<1> QED BY <1>1, <1>2, <1>3, <1>4, <1>5 DEF AccountsNext

(* Every reachable state of the account layer is well typed, its supply    *)
(* counter is what the accounts hold, and burned fees are accounted for:   *)
(* no transfer, mint or burn makes or loses a unit, for every number of    *)
(* accounts, every width and both kinds of asset.                          *)
THEOREM AccountsConserve == AccountsSpec => []AccountsInv
<1>1. AccountsInit => AccountsInv
  BY AccountsInitInv
<1>2. AccountsInv /\ [AccountsNext]_accountVars => AccountsInv'
  BY AccountsStepInv
<1> QED BY <1>1, <1>2, PTL DEF AccountsSpec

-----------------------------------------------------------------------------
(* Escrows, with any milestones, provided total + fee fits the width        *)
(* (CostNeverWraps).  The inductive invariant EscrowInv adds to the         *)
(* conservation law the books of each escrow: an open escrow holds exactly  *)
(* its unreleased milestones, so what a rule pays out is there, and what it *)
(* credits is part of the supply, so the credit cannot wrap.                *)

(* The facts about a plan of milestones the proofs below use. *)
LEMMA PlanFacts ==
  ASSUME NEW m \in Plans
  PROVE  /\ Len(m) \in Nat \ {0}
         /\ m \in [1..Len(m) -> Nat]
         /\ Total(m) \in Amount
         /\ PartialSums(m, Len(m))[0] = 0
         /\ PartialSums(m, Len(m))[Len(m)] = Total(m)
         /\ \A k \in 0..Len(m) : /\ PartialSums(m, Len(m))[k] \in Nat
                                 /\ PartialSums(m, Len(m))[k] <= Total(m)
         /\ \A k \in 1..Len(m) :
              PartialSums(m, Len(m))[k] = PartialSums(m, Len(m))[k - 1] + m[k]
<1>1. m \in Seq(Amount \ {0}) /\ Len(m) > 0 /\ Total(m) < Modulus
  BY EscrowAssumption
<1>2. Len(m) \in Nat \ {0} /\ m \in [1..Len(m) -> Amount \ {0}]
  BY <1>1
<1>3. m \in [1..Len(m) -> Nat]
  BY <1>2 DEF Amount
<1>4. Total(m) \in Amount
  BY <1>1, <1>2, <1>3, SumToType, AccountsAssumption DEF Total, Amount
<1>5. /\ PartialSums(m, Len(m))[0] = 0
      /\ \A k \in 1..Len(m) :
           PartialSums(m, Len(m))[k] = PartialSums(m, Len(m))[k - 1] + m[k]
  BY <1>2, <1>3, PartialSumsUnfold
<1>6. \A k \in 0..Len(m) : /\ PartialSums(m, Len(m))[k] \in Nat
                           /\ PartialSums(m, Len(m))[k] <= Total(m)
  BY <1>2, <1>3, PartialSumsGrow DEF Total
<1>7. PartialSums(m, Len(m))[Len(m)] = Total(m)
  BY DEF Total, SumTo
<1> QED BY <1>2, <1>3, <1>4, <1>5, <1>6, <1>7

(* What the invariant says of the numbers. *)
LEMMA InvFacts ==
  ASSUME EscrowMoney
  PROVE  /\ bal \in [Accounts -> Amount] /\ supply \in Amount
         /\ burned \in Amount /\ now \in 0..MaxTime
         /\ supply \in Nat /\ Modulus \in Nat /\ supply < Modulus
         /\ Held \in [1..MaxEscrows -> Nat] /\ MaxEscrows \in Nat
         /\ TotalHeld \in Nat /\ TotalBalance \in Nat
         /\ TotalBalance + TotalHeld = supply
         /\ \A a \in Accounts : bal[a] \in Nat /\ bal[a] <= TotalBalance
         /\ \A i \in EscrowIds : /\ escrow[i] \in EscrowRecord
                                 /\ escrow[i].balance \in Nat
                                 /\ Held[i] = escrow[i].balance
                                 /\ escrow[i].balance <= TotalHeld
<1>1. EscrowTypeOK /\ EscrowConserved
  BY DEF EscrowMoney
<1>2. /\ bal \in [Accounts -> Amount] /\ supply \in Amount
      /\ burned \in Amount /\ now \in 0..MaxTime
      /\ \A i \in EscrowIds : escrow[i] \in EscrowRecord
      /\ TotalBalance + TotalHeld = supply
  BY <1>1 DEF EscrowTypeOK, AccountsTypeOK, EscrowConserved
<1>3. Modulus \in Nat /\ supply \in Nat /\ supply < Modulus /\ MaxEscrows \in Nat
  BY <1>2, AccountsAssumption, EscrowAssumption DEF Amount
<1>4. \A i \in EscrowIds : escrow[i].balance \in Nat /\ Held[i] = escrow[i].balance
  BY <1>2, AccountsAssumption DEF EscrowRecord, Amount, Held
<1>5. Held \in [1..MaxEscrows -> Nat]
  BY <1>4 DEF Held, EscrowIds
<1>6. TotalHeld \in Nat
  BY <1>3, <1>5, SumToType DEF TotalHeld
<1>7. \A i \in 1..MaxEscrows : Held[i] <= TotalHeld
  BY <1>3, <1>5, SumToBound DEF TotalHeld
<1>8. TotalBalance \in Nat /\ \A a \in Accounts : bal[a] \in Nat /\ bal[a] <= TotalBalance
  BY <1>2, BalancesSum DEF TotalBalance
<1> QED BY <1>2, <1>3, <1>4, <1>5, <1>6, <1>7, <1>8 DEF EscrowIds

(* Replacing one escrow changes what escrows hold by the difference. *)
LEMMA HeldUpdate ==
  ASSUME EscrowMoney, NEW i \in EscrowIds, NEW f \in EscrowRecord,
         escrow' = [escrow EXCEPT ![i] = f]
  PROVE  TotalHeld' = TotalHeld - escrow[i].balance + f.balance
<1>1. f.balance \in Nat
  BY AccountsAssumption DEF EscrowRecord, Amount
<1>2. /\ Held \in [1..MaxEscrows -> Nat] /\ MaxEscrows \in Nat
      /\ Held[i] = escrow[i].balance /\ i \in 1..MaxEscrows
      /\ escrow \in [EscrowIds -> EscrowRecord]
  BY InvFacts DEF EscrowIds, EscrowMoney, EscrowTypeOK
<1>3. Held' = [Held EXCEPT ![i] = f.balance]
  BY <1>2 DEF Held
<1> DEFINE w == f.balance
<1>4. SumTo([Held EXCEPT ![i] = w], MaxEscrows) = SumTo(Held, MaxEscrows) - Held[i] + w
  <2> HIDE DEF w
  <2> QED BY <1>1, <1>2, SumToUpdate DEF w
<1> QED BY <1>2, <1>3, <1>4 DEF TotalHeld

(* A fee that is taken from the supply and added to what was burned keeps   *)
(* the two together what genesis allocated.                                *)
LEMMA BurnedStep ==
  ASSUME EscrowMoney, NEW fee \in Nat, fee <= supply,
         Native => supply' = supply - fee /\ burned' = Plus(burned, fee)
  PROVE  BurnedIsAccounted'
<1> DEFINE Gen == SumTo(Genesis, NumAccounts)
<1> SUFFICES ASSUME Native PROVE supply' + burned' = Gen
  BY DEF BurnedIsAccounted, Native
<1>1. Gen \in Nat /\ Gen < Modulus /\ Modulus \in Nat
  BY AccountsAssumption, BalancesSum
<1>2. supply \in Nat /\ burned \in Nat /\ supply + burned = Gen
  BY InvFacts, AccountsAssumption DEF EscrowMoney, BurnedIsAccounted, Amount
<1> HIDE DEF Gen
<1>3. Plus(burned, fee) = burned + fee
  BY <1>1, <1>2, PlusExact
<1> QED BY <1>1, <1>2, <1>3

(* An operation that pays out "paid" from an escrow into the accounts, and *)
(* leaves good books, preserves the invariant.                             *)
LEMMA OperateInv ==
  ASSUME EscrowMoney, NEW who \in Accounts, NEW i \in EscrowIds, NEW fee \in FreeFees,
         NEW after \in [Accounts -> Amount], NEW paid \in Nat, NEW f \in EscrowRecord,
         SumTo(after, NumAccounts) = TotalBalance + paid,
         paid <= escrow[i].balance, f.balance = escrow[i].balance - paid,
         after[who] >= bal[who], Books(f),
         Operate(who, i, fee, after, f)
  PROVE  EscrowMoney'
<1>1. fee \in Nat /\ after[who] \in Nat
  BY AccountsAssumption DEF Amount
<1>2. /\ bal[who] >= fee /\ Settle(after, supply, who, fee, fee)
      /\ escrow' = [escrow EXCEPT ![i] = f] /\ now' = now
  BY DEF Operate, Admissible
<1>3. /\ fee <= after[who] /\ fee <= supply
      /\ SumTo(after, NumAccounts) - fee + fee < Modulus
  BY <1>1, <1>2, InvFacts, SMTT(30)
<1>4. /\ bal' \in [Accounts -> Amount] /\ supply' \in Amount /\ burned' \in Amount
      /\ SumTo(bal', NumAccounts) - supply'
           = SumTo(after, NumAccounts) - supply - (fee - fee)
      /\ Native => supply' = supply - fee /\ burned' = Plus(burned, fee)
  <2>1. supply \in Amount /\ burned \in Amount /\ fee <= fee
    BY <1>1, InvFacts
  <2> QED BY <1>1, <1>2, <1>3, <2>1, SettleSum
<1>5. TotalHeld' = TotalHeld - escrow[i].balance + f.balance
  BY <1>2, HeldUpdate
<1>6. TotalBalance' + TotalHeld' = supply'
  <2>1. TotalBalance' = SumTo(bal', NumAccounts) /\ TotalBalance' \in Nat
    BY <1>4, BalancesSum DEF TotalBalance
  <2>2. supply' \in Nat
    BY <1>4, AccountsAssumption DEF Amount
  <2>3. /\ TotalBalance \in Nat /\ TotalHeld \in Nat /\ supply \in Nat
        /\ TotalBalance + TotalHeld = supply /\ escrow[i].balance \in Nat
    BY InvFacts
  <2> QED BY <1>1, <1>4, <1>5, <2>1, <2>2, <2>3
<1>7. EscrowTypeOK'
  BY <1>2, <1>4, InvFacts DEF EscrowTypeOK, AccountsTypeOK, EscrowMoney
<1>8. \A j \in EscrowIds : Books(escrow'[j])
  BY <1>2 DEF EscrowMoney, EscrowTypeOK
<1>9. BurnedIsAccounted'
  BY <1>1, <1>3, <1>4, BurnedStep
<1> QED BY <1>6, <1>7, <1>8, <1>9 DEF EscrowMoney, EscrowConserved, Books

(* The facts about the escrow an operation works on. *)
LEMMA OpenFacts ==
  ASSUME EscrowMoney, NEW i \in EscrowIds, Open(escrow[i])
  PROVE  LET e   == escrow[i]
             n   == Len(e.milestones)
             out == PartialSums(e.milestones, n)[e.released]
             t   == Total(e.milestones)
         IN  /\ e \in EscrowRecord /\ e.status # "none" /\ e.status # "completed"
             /\ e.milestones \in Plans
             /\ e.buyer \in Accounts /\ e.seller \in Accounts /\ e.arbiter \in Accounts
             /\ n \in Nat /\ e.released \in 0..(n - 1)
             /\ out \in Nat /\ t \in Amount /\ out <= t
             /\ e.balance = t - out /\ e.arbiterFee = 0 /\ e.paidBuyer = 0
             /\ e.paidSeller = out
             /\ e.rate \in 0..BpsBase
             /\ e.balance \in Nat
<1> DEFINE e == escrow[i]
<1>1. e \in EscrowRecord /\ Books(e) /\ e.balance \in Nat
  BY InvFacts DEF EscrowMoney
<1>2. e.status \in OpenStatus
  BY DEF Open
<1> HIDE DEF e
<1>3. e.status # "none" /\ e.status # "completed"
  BY <1>2 DEF OpenStatus
<1>4. /\ e.milestones \in Plans
      /\ e.buyer \in Accounts /\ e.seller \in Accounts /\ e.arbiter \in Accounts
      /\ e.released \in 0..Len(e.milestones) /\ e.released # Len(e.milestones)
      /\ e.balance + e.paidSeller + e.paidBuyer + e.arbiterFee = Total(e.milestones)
      /\ e.balance = Total(e.milestones)
                      - PartialSums(e.milestones, Len(e.milestones))[e.released]
      /\ e.arbiterFee = 0 /\ e.paidBuyer = 0
  BY <1>1, <1>2, <1>3 DEF Books, Open
<1>5. /\ Len(e.milestones) \in Nat /\ Total(e.milestones) \in Amount
      /\ PartialSums(e.milestones, Len(e.milestones))[e.released] \in Nat
      /\ PartialSums(e.milestones, Len(e.milestones))[e.released] <= Total(e.milestones)
  BY <1>4, PlanFacts
<1>6. e.released \in 0..(Len(e.milestones) - 1)
  BY <1>4, <1>5
<1>7. e.paidSeller \in Nat /\ e.rate \in 0..BpsBase
  BY <1>1, AccountsAssumption DEF EscrowRecord, Amount
<1>8. e.paidSeller = PartialSums(e.milestones, Len(e.milestones))[e.released]
  BY <1>1, <1>4, <1>5, <1>7, AccountsAssumption DEF Amount
<1> QED BY <1>1, <1>3, <1>4, <1>5, <1>6, <1>7, <1>8 DEF e

(* Funding an escrow moves the total from the buyer into the escrow and    *)
(* burns the fee (apply and escrowOp "create").                            *)
LEMMA CreateInv ==
  ASSUME CostNeverWraps, EscrowMoney,
         NEW buyer \in Accounts, NEW seller \in Accounts, NEW arbiter \in Accounts,
         NEW m \in Plans, NEW shipBy \in ShipBys, NEW review \in Reviews,
         NEW rate \in Rates, NEW fee \in Fees,
         EscrowCreate(buyer, seller, arbiter, m, shipBy, review, rate, fee)
  PROVE  EscrowMoney'
<1> DEFINE f == [NoEscrow EXCEPT !.status = "funded", !.buyer = buyer,
                   !.seller = seller, !.arbiter = arbiter,
                   !.milestones = m, !.balance = Total(m),
                   !.shipBy = shipBy, !.review = review, !.rate = rate]
<1>1. PICK i \in EscrowIds : escrow[i].status = "none" /\ escrow' = [escrow EXCEPT ![i] = f]
  BY DEF EscrowCreate
<1>2. /\ fee \in Nat /\ Total(m) \in Amount /\ Total(m) \in Nat /\ Total(m) + fee < Modulus
  BY PlanFacts, AccountsAssumption DEF CostNeverWraps, Amount
<1>3. /\ Plus(Total(m), fee) = Total(m) + fee /\ bal[buyer] >= Total(m) + fee
      /\ Settle(bal, supply, buyer, Total(m) + fee, fee) /\ now' = now
      /\ buyer # seller
  BY <1>2, PlusExact DEF EscrowCreate, Admissible
<1>4. f \in EscrowRecord
  <2>1. /\ shipBy \in Nat /\ review \in Nat /\ rate \in 0..BpsBase /\ 0 \in Amount
        /\ 0 \in 0..BpsBase
    BY EscrowAssumption, BpsAssumption, AccountsAssumption DEF Amount
  <2> QED BY <1>2, <2>1 DEF EscrowRecord, NoEscrow, OpenStatus
<1>5. /\ f.status = "funded" /\ f.buyer = buyer /\ f.seller = seller /\ f.arbiter = arbiter
      /\ f.milestones = m /\ f.balance = Total(m) /\ f.released = 0
      /\ f.paidSeller = 0 /\ f.paidBuyer = 0 /\ f.arbiterFee = 0
  BY DEF NoEscrow
<1> HIDE DEF f
<1>6. Books(f)
  <2>1. /\ Len(m) \in Nat \ {0} /\ PartialSums(m, Len(m))[0] = 0
    BY PlanFacts
  <2> QED BY <1>2, <1>3, <1>5, <2>1 DEF Books, Open, OpenStatus, ClosedStatus
<1>7. escrow[i].balance = 0
  BY <1>1 DEF EscrowMoney, Books
<1>8. TotalHeld' = TotalHeld - 0 + Total(m)
  BY <1>1, <1>4, <1>5, <1>7, HeldUpdate
<1>9. /\ bal' \in [Accounts -> Amount] /\ supply' \in Amount /\ burned' \in Amount
      /\ SumTo(bal', NumAccounts) - supply'
           = TotalBalance - supply - ((Total(m) + fee) - fee)
      /\ Native => supply' = supply - fee /\ burned' = Plus(burned, fee)
      /\ fee <= supply
  <2>1. /\ bal \in [Accounts -> Amount] /\ supply \in Amount /\ burned \in Amount
        /\ Total(m) + fee \in Nat /\ fee <= Total(m) + fee /\ fee <= supply
        /\ SumTo(bal, NumAccounts) - (Total(m) + fee) + fee < Modulus
        /\ TotalBalance = SumTo(bal, NumAccounts)
    BY <1>2, <1>3, InvFacts DEF TotalBalance
  <2> QED BY <1>2, <1>3, <2>1, SettleSum
<1>10. TotalBalance' + TotalHeld' = supply'
  <2>1. TotalBalance' = SumTo(bal', NumAccounts) /\ TotalBalance' \in Nat
    BY <1>9, BalancesSum DEF TotalBalance
  <2>2. supply' \in Nat
    BY <1>9, AccountsAssumption DEF Amount
  <2>3. /\ TotalBalance \in Nat /\ TotalHeld \in Nat /\ supply \in Nat
        /\ TotalBalance + TotalHeld = supply
    BY InvFacts
  <2>4. SumTo(bal', NumAccounts) - supply'
          = TotalBalance - supply - ((Total(m) + fee) - fee)
    BY <1>9
  <2> QED BY <1>2, <1>8, <2>1, <2>2, <2>3, <2>4
<1>11. EscrowTypeOK'
  BY <1>1, <1>3, <1>4, <1>9, InvFacts DEF EscrowTypeOK, AccountsTypeOK, EscrowMoney
<1>12. \A j \in EscrowIds : Books(escrow'[j])
  BY <1>1, <1>6 DEF EscrowMoney, EscrowTypeOK
<1>13. BurnedIsAccounted'
  BY <1>2, <1>9, BurnedStep
<1> QED BY <1>10, <1>11, <1>12, <1>13 DEF EscrowMoney, EscrowConserved, Books

(* Dispatch and dispute move no money. *)
LEMMA StatusInv ==
  ASSUME EscrowMoney, NEW who \in Accounts, NEW i \in EscrowIds, NEW fee \in FreeFees,
         EscrowDispatch(who, i, fee) \/ EscrowDispute(who, i, fee)
  PROVE  EscrowMoney'
<1> DEFINE e == escrow[i]
<1>1. PICK s \in OpenStatus, at \in Nat :
        /\ Open(e)
        /\ Operate(who, i, fee, bal, [e EXCEPT !.status = s, !.dispatchedAt = at])
  <2>1. now \in Nat /\ e \in EscrowRecord
    BY InvFacts, AccountsAssumption
  <2>2. CASE EscrowDispatch(who, i, fee)
    BY <2>1, <2>2 DEF EscrowDispatch, OpenStatus
  <2>3. CASE EscrowDispute(who, i, fee)
    <3>1. [e EXCEPT !.status = "disputed"]
            = [e EXCEPT !.status = "disputed", !.dispatchedAt = e.dispatchedAt]
          /\ e.dispatchedAt \in Nat
      BY <2>1 DEF EscrowRecord
    <3>2. Open(e) /\ Operate(who, i, fee, bal, [e EXCEPT !.status = "disputed"])
      BY <2>3 DEF EscrowDispute
    <3> QED BY <3>1, <3>2 DEF OpenStatus
  <2> QED BY <2>2, <2>3
<1> DEFINE f == [e EXCEPT !.status = s, !.dispatchedAt = at]
<1>2. e \in EscrowRecord /\ Books(e) /\ e.balance \in Nat
  BY InvFacts DEF EscrowMoney
<1>3. f \in EscrowRecord
  BY <1>2 DEF EscrowRecord
<1>4. /\ f.status = s /\ f.buyer = e.buyer /\ f.seller = e.seller /\ f.arbiter = e.arbiter
      /\ f.milestones = e.milestones /\ f.balance = e.balance /\ f.released = e.released
      /\ f.paidSeller = e.paidSeller /\ f.paidBuyer = e.paidBuyer /\ f.arbiterFee = e.arbiterFee
  BY <1>2 DEF EscrowRecord
<1> HIDE DEF f
<1>5. Books(f)
  BY <1>1, <1>2, <1>4 DEF Books, Open, OpenStatus, ClosedStatus
<1>6. /\ bal \in [Accounts -> Amount] /\ SumTo(bal, NumAccounts) = TotalBalance + 0
      /\ 0 <= escrow[i].balance /\ f.balance = escrow[i].balance - 0 /\ bal[who] >= bal[who]
  BY <1>2, <1>4, InvFacts DEF TotalBalance
<1> QED BY <1>1, <1>3, <1>5, <1>6, OperateInv DEF f

(* Crediting what an escrow holds, or part of it, cannot wrap. *)
LEMMA PayOut ==
  ASSUME EscrowMoney, NEW i \in EscrowIds, NEW b \in [Accounts -> Amount],
         NEW sent \in Nat, NEW v \in Nat, NEW a \in Accounts,
         SumTo(b, NumAccounts) = TotalBalance + sent, sent + v <= escrow[i].balance,
         \A c \in Accounts : b[c] >= bal[c]
  PROVE  /\ Credit(b, a, v) \in [Accounts -> Amount]
         /\ SumTo(Credit(b, a, v), NumAccounts) = TotalBalance + (sent + v)
         /\ \A c \in Accounts : Credit(b, a, v)[c] >= bal[c]
<1>1. /\ b[a] \in Nat /\ b[a] <= SumTo(b, NumAccounts) /\ SumTo(b, NumAccounts) \in Nat
  BY BalancesSum
<1>2. /\ TotalBalance \in Nat /\ TotalHeld \in Nat /\ supply \in Nat /\ Modulus \in Nat
      /\ TotalBalance + TotalHeld = supply /\ supply < Modulus
      /\ escrow[i].balance \in Nat /\ escrow[i].balance <= TotalHeld
  BY InvFacts
<1>3. b[a] + v < Modulus
  BY <1>1, <1>2
<1>4. /\ Credit(b, a, v) \in [Accounts -> Amount]
      /\ SumTo(Credit(b, a, v), NumAccounts) = SumTo(b, NumAccounts) + v
      /\ \A c \in Accounts : Credit(b, a, v)[c] >= b[c]
  BY <1>3, CreditSum
<1>5. \A c \in Accounts : b[c] \in Nat /\ bal[c] \in Nat /\ Credit(b, a, v)[c] \in Nat
  BY <1>4, InvFacts, BalancesSum
<1>6. \A c \in Accounts : Credit(b, a, v)[c] >= bal[c]
  BY <1>4, <1>5
<1> QED BY <1>2, <1>4, <1>6

(* The escrow's side of a payment of at most its balance. *)
LEMMA PayRecord ==
  ASSUME NEW e \in EscrowRecord, NEW to, NEW v \in Nat, v <= e.balance,
         e.paidSeller + v < Modulus, e.paidBuyer + v < Modulus
  PROVE  /\ Pay(e, to, v) \in EscrowRecord
         /\ Pay(e, to, v).balance = e.balance - v
         /\ Pay(e, to, v).paidSeller = IF to = e.seller THEN e.paidSeller + v ELSE e.paidSeller
         /\ Pay(e, to, v).paidBuyer = IF to = e.seller THEN e.paidBuyer ELSE e.paidBuyer + v
         /\ Pay(e, to, v).status = e.status /\ Pay(e, to, v).buyer = e.buyer
         /\ Pay(e, to, v).seller = e.seller /\ Pay(e, to, v).arbiter = e.arbiter
         /\ Pay(e, to, v).milestones = e.milestones /\ Pay(e, to, v).released = e.released
         /\ Pay(e, to, v).arbiterFee = e.arbiterFee /\ Pay(e, to, v).rate = e.rate
<1>1. e.balance \in Amount /\ e.paidSeller \in Amount /\ e.paidBuyer \in Amount
  BY DEF EscrowRecord
<1>2. e.balance \in Nat /\ e.paidSeller \in Nat /\ e.paidBuyer \in Nat
  BY <1>1, AccountsAssumption DEF Amount
<1>3. Minus(e.balance, v) = e.balance - v /\ Minus(e.balance, v) \in Amount
  BY <1>1, <1>2, MinusExact, PlusMinusType
<1>4. /\ Plus(e.paidSeller, v) = e.paidSeller + v /\ Plus(e.paidSeller, v) \in Amount
      /\ Plus(e.paidBuyer, v) = e.paidBuyer + v /\ Plus(e.paidBuyer, v) \in Amount
  BY <1>2, PlusExact, PlusMinusType
<1>5. CASE to = e.seller
  BY <1>3, <1>4, <1>5 DEF Pay, EscrowRecord
<1>6. CASE to # e.seller
  BY <1>3, <1>4, <1>6 DEF Pay, EscrowRecord
<1> QED BY <1>5, <1>6

(* Releasing a milestone pays it to the seller, and the last one closes    *)
(* the escrow (escrowOp "release").                                        *)
LEMMA ReleaseInv ==
  ASSUME EscrowMoney, NEW who \in Accounts, NEW i \in EscrowIds, NEW fee \in FreeFees,
         EscrowRelease(who, i, fee)
  PROVE  EscrowMoney'
<1> DEFINE e == escrow[i]
           n == Len(e.milestones)
           P == PartialSums(e.milestones, n)
           t == Total(e.milestones)
           v == e.milestones[e.released + 1]
           g == Pay(e, e.seller, v)
           paid == [g EXCEPT !.released = @ + 1]
           f == IF e.released + 1 = n THEN [paid EXCEPT !.status = "completed"] ELSE paid
           after == Credit(bal, e.seller, v)
<1>1. Open(e) /\ Operate(who, i, fee, after, f)
  BY DEF EscrowRelease
<1>2. /\ e \in EscrowRecord /\ e.milestones \in Plans
      /\ e.buyer \in Accounts /\ e.seller \in Accounts /\ e.arbiter \in Accounts
      /\ e.status \in OpenStatus
      /\ n \in Nat /\ e.released \in 0..(n - 1) /\ t \in Amount
      /\ e.balance = t - P[e.released] /\ e.arbiterFee = 0 /\ e.paidBuyer = 0
      /\ e.paidSeller = P[e.released] /\ e.balance \in Nat
  BY <1>1, OpenFacts DEF Open
<1>3. /\ P[e.released] \in Nat /\ P[e.released + 1] \in Nat /\ P[e.released + 1] <= t
      /\ P[e.released + 1] = P[e.released] + v /\ v \in Nat /\ P[n] = t
      /\ e.released + 1 \in 1..n /\ e.released \in Nat
  <2>1. e.released + 1 \in 1..n /\ e.released \in 0..n /\ (e.released + 1) - 1 = e.released
    BY <1>2
  <2>2. /\ e.milestones \in [1..n -> Nat] /\ P[n] = t
        /\ \A k \in 0..n : P[k] \in Nat /\ P[k] <= t
        /\ \A k \in 1..n : P[k] = P[k - 1] + e.milestones[k]
    BY <1>2, PlanFacts
  <2>3. /\ P[e.released] \in Nat /\ P[e.released + 1] \in Nat /\ P[e.released + 1] <= t
        /\ P[e.released + 1] = P[(e.released + 1) - 1] + e.milestones[e.released + 1]
    <3> HIDE DEF P, t, n, e
    <3> QED BY <2>1, <2>2
  <2>4. v \in Nat
    BY <2>1, <2>2
  <2> QED BY <1>2, <2>1, <2>2, <2>3, <2>4, SMTT(30)
<1>4. t \in Nat /\ t < Modulus /\ Modulus \in Nat
  BY <1>2, AccountsAssumption DEF Amount
<1> HIDE DEF P, t, v, n
<1>v. v <= e.balance
  <2> HIDE DEF e
  <2> QED BY <1>2, <1>3, <1>4
<1>5. /\ after \in [Accounts -> Amount]
      /\ SumTo(after, NumAccounts) = TotalBalance + v /\ after[who] >= bal[who]
  <2>1. /\ bal \in [Accounts -> Amount] /\ SumTo(bal, NumAccounts) = TotalBalance + 0
        /\ \A c \in Accounts : bal[c] >= bal[c]
    BY InvFacts DEF TotalBalance
  <2>3. 0 + v <= escrow[i].balance
    BY <1>3, <1>v
  <2> HIDE DEF e
  <2>2. /\ after \in [Accounts -> Amount]
        /\ SumTo(after, NumAccounts) = TotalBalance + (0 + v)
        /\ \A c \in Accounts : after[c] >= bal[c]
    BY <1>2, <1>3, <2>1, <2>3, PayOut
  <2> QED BY <1>3, <2>2
<1> HIDE DEF after
<1>6. /\ g \in EscrowRecord /\ g.balance = e.balance - v
      /\ g.paidSeller = e.paidSeller + v /\ g.paidBuyer = e.paidBuyer
      /\ g.status = e.status /\ g.buyer = e.buyer /\ g.seller = e.seller
      /\ g.arbiter = e.arbiter /\ g.milestones = e.milestones
      /\ g.released = e.released /\ g.arbiterFee = e.arbiterFee
  <2>1. v <= e.balance /\ e.paidSeller + v < Modulus /\ e.paidBuyer + v < Modulus
    BY <1>2, <1>3, <1>4
  <2> HIDE DEF e
  <2> QED BY <1>2, <1>3, <2>1, PayRecord
<1> HIDE DEF g
<1>7. /\ f \in EscrowRecord /\ f.balance = e.balance - v
      /\ f.paidSeller = e.paidSeller + v /\ f.paidBuyer = e.paidBuyer
      /\ f.buyer = e.buyer /\ f.seller = e.seller
      /\ f.arbiter = e.arbiter /\ f.milestones = e.milestones
      /\ f.released = e.released + 1 /\ f.arbiterFee = e.arbiterFee
      /\ f.status = IF e.released + 1 = n THEN "completed" ELSE e.status
  <2>1. g.released + 1 \in Nat
    BY <1>3, <1>6
  <2> QED BY <1>6, <2>1 DEF EscrowRecord, ClosedStatus
<1> HIDE DEF f, e
<1>8. Books(f)
  <2>1. /\ Len(f.milestones) = n /\ Total(f.milestones) = t
        /\ PartialSums(f.milestones, n)[f.released] = P[e.released + 1]
    BY <1>7 DEF P, t, n
  <2>2. f.balance = t - P[e.released + 1] /\ f.paidSeller = P[e.released + 1]
    BY <1>2, <1>3, <1>4, <1>7
  <2>3. /\ f.milestones \in Plans /\ {f.buyer, f.seller, f.arbiter} \subseteq Accounts
        /\ f.released \in 0..n /\ f.released = e.released + 1
        /\ f.arbiterFee = 0 /\ f.paidBuyer = 0
    BY <1>2, <1>3, <1>7
  <2>4. f.balance + f.paidSeller + f.paidBuyer + f.arbiterFee = t
    BY <1>3, <1>4, <2>2, <2>3
  <2>5. CASE e.released + 1 = n
    <3>1. f.status = "completed" /\ f.balance = 0 /\ f.paidSeller = t
      BY <1>3, <1>4, <1>7, <2>2, <2>5
    <3> QED BY <1>3, <2>1, <2>2, <2>3, <2>4, <2>5, <3>1
         DEF Books, Open, OpenStatus, ClosedStatus
  <2>6. CASE e.released + 1 # n
    <3>1. f.status \in OpenStatus
      BY <1>2, <1>7, <2>6
    <3> QED BY <1>3, <2>1, <2>2, <2>3, <2>4, <2>6, <3>1
         DEF Books, Open, OpenStatus, ClosedStatus
  <2> QED BY <2>5, <2>6
<1> QED BY <1>1, <1>3, <1>5, <1>7, <1>8, <1>v, OperateInv DEF e

(* Refund and claim pay out the whole balance, to the buyer or to the seller. *)
LEMMA CloseInv ==
  ASSUME EscrowMoney, NEW who \in Accounts, NEW i \in EscrowIds, NEW fee \in FreeFees,
         EscrowRefund(who, i, fee) \/ EscrowClaim(who, i, fee)
  PROVE  EscrowMoney'
<1> DEFINE e == escrow[i]
           n == Len(e.milestones)
           out == PartialSums(e.milestones, n)[e.released]
           t == Total(e.milestones)
<1>1. Open(e)
  BY DEF EscrowRefund, EscrowClaim
<1>2. /\ e \in EscrowRecord /\ e.milestones \in Plans
      /\ e.buyer \in Accounts /\ e.seller \in Accounts /\ e.arbiter \in Accounts
      /\ e.rate \in 0..BpsBase
      /\ n \in Nat /\ e.released \in 0..(n - 1) /\ t \in Amount
      /\ out \in Nat /\ out <= t
      /\ e.balance = t - out /\ e.arbiterFee = 0 /\ e.paidBuyer = 0
      /\ e.paidSeller = out /\ e.balance \in Nat
  BY <1>1, OpenFacts
<1>3. t \in Nat /\ t < Modulus /\ Modulus \in Nat
  BY <1>2, AccountsAssumption DEF Amount
<1>4. ASSUME NEW to \in {e.buyer, e.seller}
      PROVE  /\ Credit(bal, to, e.balance) \in [Accounts -> Amount]
             /\ SumTo(Credit(bal, to, e.balance), NumAccounts) = TotalBalance + e.balance
             /\ Credit(bal, to, e.balance)[who] >= bal[who]
             /\ Pay(e, to, e.balance) \in EscrowRecord
             /\ Pay(e, to, e.balance).balance = 0
             /\ Pay(e, to, e.balance).paidSeller = IF to = e.seller THEN t ELSE out
             /\ Pay(e, to, e.balance).paidBuyer = IF to = e.seller THEN 0 ELSE t - out
             /\ Pay(e, to, e.balance).buyer = e.buyer
             /\ Pay(e, to, e.balance).seller = e.seller
             /\ Pay(e, to, e.balance).arbiter = e.arbiter
             /\ Pay(e, to, e.balance).milestones = e.milestones
             /\ Pay(e, to, e.balance).released = e.released
             /\ Pay(e, to, e.balance).arbiterFee = 0
  <2>1. /\ bal \in [Accounts -> Amount] /\ SumTo(bal, NumAccounts) = TotalBalance + 0
        /\ \A c \in Accounts : bal[c] >= bal[c]
    BY InvFacts DEF TotalBalance
  <2>2. to \in Accounts /\ 0 + e.balance <= escrow[i].balance
    BY <1>2
  <2> DEFINE v == e.balance
  <2>3. v \in Nat /\ v <= e.balance /\ e.paidSeller + v < Modulus /\ e.paidBuyer + v < Modulus
        /\ e.balance - v = 0 /\ e.paidSeller + v = t /\ e.paidBuyer + v = t - out
    <3> HIDE DEF e, t, out, n
    <3> QED BY <1>2, <1>3
  <2> HIDE DEF v, t, out, n
  <2>4. /\ Credit(bal, to, v) \in [Accounts -> Amount]
        /\ SumTo(Credit(bal, to, v), NumAccounts) = TotalBalance + (0 + v)
        /\ \A c \in Accounts : Credit(bal, to, v)[c] >= bal[c]
    BY <2>1, <2>2, <2>3, PayOut DEF v
  <2> HIDE DEF e
  <2>5. /\ Pay(e, to, v) \in EscrowRecord
        /\ Pay(e, to, v).balance = e.balance - v
        /\ Pay(e, to, v).paidSeller = IF to = e.seller THEN e.paidSeller + v ELSE e.paidSeller
        /\ Pay(e, to, v).paidBuyer = IF to = e.seller THEN e.paidBuyer ELSE e.paidBuyer + v
        /\ Pay(e, to, v).buyer = e.buyer
        /\ Pay(e, to, v).seller = e.seller /\ Pay(e, to, v).arbiter = e.arbiter
        /\ Pay(e, to, v).milestones = e.milestones /\ Pay(e, to, v).released = e.released
        /\ Pay(e, to, v).arbiterFee = e.arbiterFee
    BY <1>2, <2>3, PayRecord
  <2> QED BY <1>2, <2>3, <2>4, <2>5 DEF v
<1>5. CASE EscrowRefund(who, i, fee)
  <2> DEFINE g == Pay(e, e.buyer, e.balance)
             f == [g EXCEPT !.status = "refunded"]
             after == Credit(bal, e.buyer, e.balance)
  <2>1. Operate(who, i, fee, after, f)
    BY <1>5 DEF EscrowRefund
  <2>2. /\ after \in [Accounts -> Amount] /\ after[who] >= bal[who]
        /\ SumTo(after, NumAccounts) = TotalBalance + e.balance
        /\ g \in EscrowRecord /\ g.balance = 0
        /\ g.paidSeller = IF e.buyer = e.seller THEN t ELSE out
        /\ g.paidBuyer = IF e.buyer = e.seller THEN 0 ELSE t - out
        /\ g.buyer = e.buyer /\ g.seller = e.seller /\ g.arbiter = e.arbiter
        /\ g.milestones = e.milestones /\ g.released = e.released /\ g.arbiterFee = 0
    BY <1>2, <1>4
  <2> HIDE DEF g, after
  <2>3. /\ f \in EscrowRecord /\ f.balance = 0
        /\ f.paidSeller = IF e.buyer = e.seller THEN t ELSE out
        /\ f.paidBuyer = IF e.buyer = e.seller THEN 0 ELSE t - out
        /\ f.buyer = e.buyer /\ f.seller = e.seller /\ f.arbiter = e.arbiter
        /\ f.milestones = e.milestones /\ f.released = e.released /\ f.arbiterFee = 0
        /\ f.status = "refunded"
    BY <2>2 DEF EscrowRecord, ClosedStatus
  <2> HIDE DEF f
  <2>4. /\ Len(f.milestones) = n /\ Total(f.milestones) = t
        /\ PartialSums(f.milestones, n)[f.released] = out
    BY <2>3
  <2>5. /\ f.milestones \in Plans /\ {f.buyer, f.seller, f.arbiter} \subseteq Accounts
        /\ f.released \in 0..n /\ f.released # n
    BY <1>2, <2>3
  <2> HIDE DEF e, n, out, t
  <2>6. f.balance + f.paidSeller + f.paidBuyer + f.arbiterFee = t /\ f.paidSeller >= out
    BY <1>2, <1>3, <2>3
  <2>7. Books(f)
    BY <2>3, <2>4, <2>5, <2>6 DEF Books, Open, OpenStatus, ClosedStatus
  <2>8. f.balance = e.balance - e.balance /\ e.balance <= e.balance
    BY <1>2, <2>3
  <2> QED BY <1>2, <2>1, <2>2, <2>3, <2>7, <2>8, OperateInv DEF e
<1>6. CASE EscrowClaim(who, i, fee)
  <2> DEFINE g == Pay(e, e.seller, e.balance)
             f == [g EXCEPT !.released = n, !.status = "completed"]
             after == Credit(bal, e.seller, e.balance)
  <2>1. Operate(who, i, fee, after, f)
    BY <1>6 DEF EscrowClaim
  <2>2. /\ after \in [Accounts -> Amount] /\ after[who] >= bal[who]
        /\ SumTo(after, NumAccounts) = TotalBalance + e.balance
        /\ g \in EscrowRecord /\ g.balance = 0 /\ g.paidSeller = t /\ g.paidBuyer = 0
        /\ g.buyer = e.buyer /\ g.seller = e.seller /\ g.arbiter = e.arbiter
        /\ g.milestones = e.milestones /\ g.arbiterFee = 0
    BY <1>4
  <2> HIDE DEF g, after
  <2>3. /\ f \in EscrowRecord /\ f.balance = 0 /\ f.paidSeller = t /\ f.paidBuyer = 0
        /\ f.buyer = e.buyer /\ f.seller = e.seller /\ f.arbiter = e.arbiter
        /\ f.milestones = e.milestones /\ f.released = n /\ f.arbiterFee = 0
        /\ f.status = "completed"
    BY <1>2, <2>2 DEF EscrowRecord, ClosedStatus
  <2> HIDE DEF f
  <2>4. /\ Len(f.milestones) = n /\ Total(f.milestones) = t
        /\ PartialSums(f.milestones, n)[f.released] = t
    BY <1>2, <2>3, PlanFacts
  <2>5. /\ f.milestones \in Plans /\ {f.buyer, f.seller, f.arbiter} \subseteq Accounts
        /\ f.released \in 0..n /\ f.released = n
    BY <1>2, <2>3
  <2> HIDE DEF e, n, out, t
  <2>6. f.balance + f.paidSeller + f.paidBuyer + f.arbiterFee = t /\ f.paidSeller >= t
    BY <1>2, <1>3, <2>3
  <2>7. Books(f)
    BY <2>3, <2>4, <2>5, <2>6 DEF Books, Open, OpenStatus, ClosedStatus
  <2>8. f.balance = e.balance - e.balance /\ e.balance <= e.balance
    BY <1>2, <2>3
  <2> QED BY <1>2, <2>1, <2>2, <2>3, <2>7, <2>8, OperateInv DEF e
<1> QED BY <1>5, <1>6

(* A resolution splits all that is left between arbiter, seller and buyer  *)
(* (escrowOp "resolve").                                                   *)
LEMMA ResolveInv ==
  ASSUME EscrowMoney, NEW who \in Accounts, NEW i \in EscrowIds, NEW fee \in FreeFees,
         NEW toSeller \in Amount, EscrowResolve(who, i, toSeller, fee)
  PROVE  EscrowMoney'
<1> DEFINE e == escrow[i]
           n == Len(e.milestones)
           out == PartialSums(e.milestones, n)[e.released]
           t == Total(e.milestones)
           cut == Cut(e.balance, e.rate)
           toBuyer == e.balance - cut - toSeller
           g1 == [e EXCEPT !.balance = Minus(@, cut), !.arbiterFee = cut]
           g2 == Pay(g1, e.seller, toSeller)
           g3 == Pay(g2, e.buyer, toBuyer)
           f == [g3 EXCEPT !.status = "resolved"]
           b1 == Credit(bal, e.arbiter, cut)
           b2 == Credit(b1, e.seller, toSeller)
           b3 == Credit(b2, e.buyer, toBuyer)
<1>1. Open(e) /\ toSeller <= e.balance - cut /\ Operate(who, i, fee, b3, f)
  BY DEF EscrowResolve
<1>2. /\ e \in EscrowRecord /\ e.milestones \in Plans
      /\ e.buyer \in Accounts /\ e.seller \in Accounts /\ e.arbiter \in Accounts
      /\ e.rate \in 0..BpsBase
      /\ n \in Nat /\ e.released \in 0..(n - 1) /\ t \in Amount
      /\ out \in Nat /\ out <= t
      /\ e.balance = t - out /\ e.arbiterFee = 0 /\ e.paidBuyer = 0
      /\ e.paidSeller = out /\ e.balance \in Nat
  BY <1>1, OpenFacts
<1>3. t \in Nat /\ t < Modulus /\ Modulus \in Nat
  BY <1>2, AccountsAssumption DEF Amount
<1>4. cut \in Nat /\ cut <= e.balance /\ toSeller \in Nat /\ toBuyer \in Nat
      /\ cut + toSeller + toBuyer = e.balance /\ cut \in Amount
  <2>1. cut \in Nat /\ cut <= e.balance
    BY <1>2, CutBound
  <2>2. toSeller \in Nat
    BY <1>3 DEF Amount
  <2> HIDE DEF cut, e, t, out, n
  <2>3. toBuyer \in Nat /\ cut + toSeller + toBuyer = e.balance
    BY <1>1, <1>2, <2>1, <2>2
  <2>4. cut \in Amount
    BY <1>2, <1>3, <2>1 DEF Amount
  <2> QED BY <2>1, <2>2, <2>3, <2>4
<1> HIDE DEF cut, toBuyer
<1>5. /\ b1 \in [Accounts -> Amount] /\ SumTo(b1, NumAccounts) = TotalBalance + (0 + cut)
      /\ \A c \in Accounts : b1[c] >= bal[c]
  <2>1. /\ bal \in [Accounts -> Amount] /\ SumTo(bal, NumAccounts) = TotalBalance + 0
        /\ \A c \in Accounts : bal[c] >= bal[c]
    BY InvFacts DEF TotalBalance
  <2>2. 0 + cut <= escrow[i].balance
    BY <1>4
  <2> QED BY <1>2, <1>4, <2>1, <2>2, PayOut
<1> HIDE DEF b1
<1>6. /\ b2 \in [Accounts -> Amount] /\ SumTo(b2, NumAccounts) = TotalBalance + (cut + toSeller)
      /\ \A c \in Accounts : b2[c] >= bal[c]
  <2>1. cut + toSeller <= escrow[i].balance /\ SumTo(b1, NumAccounts) = TotalBalance + cut
    BY <1>2, <1>4, <1>5
  <2> QED BY <1>2, <1>4, <1>5, <2>1, PayOut
<1> HIDE DEF b2
<1>7. /\ b3 \in [Accounts -> Amount]
      /\ SumTo(b3, NumAccounts) = TotalBalance + ((cut + toSeller) + toBuyer)
      /\ \A c \in Accounts : b3[c] >= bal[c]
  <2>1. (cut + toSeller) + toBuyer <= escrow[i].balance /\ cut + toSeller \in Nat
    BY <1>2, <1>4
  <2> QED BY <1>2, <1>4, <1>6, <2>1, PayOut
<1> HIDE DEF b3
<1>8. /\ g1 \in EscrowRecord /\ g1.balance = e.balance - cut /\ g1.arbiterFee = cut
      /\ g1.paidSeller = e.paidSeller /\ g1.paidBuyer = 0
      /\ g1.buyer = e.buyer /\ g1.seller = e.seller /\ g1.arbiter = e.arbiter
      /\ g1.milestones = e.milestones /\ g1.released = e.released /\ g1.rate = e.rate
  <2>1. Minus(e.balance, cut) = e.balance - cut /\ Minus(e.balance, cut) \in Amount
    BY <1>2, <1>4, MinusExact, PlusMinusType DEF EscrowRecord
  <2> HIDE DEF e
  <2> QED BY <1>2, <1>4, <2>1 DEF EscrowRecord
<1> HIDE DEF g1
<1>9. /\ g2 \in EscrowRecord /\ g2.balance = e.balance - cut - toSeller /\ g2.arbiterFee = cut
      /\ g2.paidSeller = e.paidSeller + toSeller /\ g2.paidBuyer = 0
      /\ g2.buyer = e.buyer /\ g2.seller = e.seller /\ g2.arbiter = e.arbiter
      /\ g2.milestones = e.milestones /\ g2.released = e.released /\ g2.rate = e.rate
  <2> HIDE DEF e, t, out
  <2>1. /\ toSeller <= g1.balance /\ g1.paidSeller + toSeller < Modulus
        /\ g1.paidBuyer + toSeller < Modulus
    BY <1>2, <1>3, <1>4, <1>8, SMTT(30)
  <2>2. toSeller \in Nat /\ g1 \in EscrowRecord /\ e.seller = g1.seller
    BY <1>4, <1>8
  <2>3. /\ g2 \in EscrowRecord /\ g2.balance = g1.balance - toSeller
        /\ g2.paidSeller = g1.paidSeller + toSeller /\ g2.paidBuyer = g1.paidBuyer
        /\ g2.buyer = g1.buyer /\ g2.seller = g1.seller /\ g2.arbiter = g1.arbiter
        /\ g2.milestones = g1.milestones /\ g2.released = g1.released
        /\ g2.rate = g1.rate /\ g2.arbiterFee = g1.arbiterFee
    BY <2>1, <2>2, PayRecord
  <2> HIDE DEF g2
  <2> QED BY <1>8, <2>3
<1> HIDE DEF g2
<1>10. /\ g3 \in EscrowRecord /\ g3.balance = 0 /\ g3.arbiterFee = cut
       /\ g3.paidSeller \in Nat /\ g3.paidBuyer \in Nat /\ g3.paidSeller >= e.paidSeller
       /\ g3.paidSeller + g3.paidBuyer = e.paidSeller + toSeller + toBuyer
       /\ g3.buyer = e.buyer /\ g3.seller = e.seller /\ g3.arbiter = e.arbiter
       /\ g3.milestones = e.milestones /\ g3.released = e.released /\ g3.rate = e.rate
  <2> HIDE DEF e, t, out
  <2>0. /\ e.balance = t - out /\ e.paidSeller = out /\ out \in Nat /\ t \in Nat /\ t < Modulus
        /\ g2.balance = e.balance - cut - toSeller /\ g2.paidSeller = e.paidSeller + toSeller
        /\ g2.paidBuyer = 0 /\ cut \in Nat /\ toSeller \in Nat /\ toBuyer \in Nat
        /\ cut + toSeller + toBuyer = e.balance /\ Modulus \in Nat
    BY <1>2, <1>3, <1>4, <1>9
  <2>a. toBuyer <= g2.balance /\ g2.balance - toBuyer = 0 /\ g2.paidBuyer + toBuyer = toBuyer
    BY <2>0
  <2>b. /\ e.paidSeller \in Nat
        /\ e.paidSeller + toSeller \in Nat /\ e.paidSeller + toSeller >= e.paidSeller
    BY <2>0
  <2>c. g2.paidSeller + toBuyer < Modulus /\ g2.paidBuyer + toBuyer < Modulus
    BY <2>0
  <2>1. /\ toBuyer <= g2.balance /\ g2.paidSeller + toBuyer < Modulus
        /\ g2.paidBuyer + toBuyer < Modulus /\ g2.balance - toBuyer = 0
        /\ g2.paidBuyer + toBuyer = toBuyer /\ e.paidSeller \in Nat
        /\ e.paidSeller + toSeller \in Nat /\ e.paidSeller + toSeller >= e.paidSeller
    BY <2>a, <2>b, <2>c
  <2>2. /\ g3 \in EscrowRecord /\ g3.balance = 0 /\ g3.arbiterFee = cut
        /\ g3.paidSeller = IF e.buyer = e.seller THEN e.paidSeller + toSeller + toBuyer
                                                 ELSE e.paidSeller + toSeller
        /\ g3.paidBuyer = IF e.buyer = e.seller THEN 0 ELSE toBuyer
        /\ g3.buyer = e.buyer /\ g3.seller = e.seller /\ g3.arbiter = e.arbiter
        /\ g3.milestones = e.milestones /\ g3.released = e.released /\ g3.rate = e.rate
    BY <1>2, <1>4, <1>9, <2>1, PayRecord, SMTT(30)
  <2> HIDE DEF g3
  <2> QED BY <1>4, <2>1, <2>2
<1> HIDE DEF g3
<1>11. /\ f \in EscrowRecord /\ f.balance = 0 /\ f.arbiterFee = cut
       /\ f.paidSeller \in Nat /\ f.paidBuyer \in Nat /\ f.paidSeller >= e.paidSeller
       /\ f.paidSeller + f.paidBuyer = e.paidSeller + toSeller + toBuyer
       /\ f.buyer = e.buyer /\ f.seller = e.seller /\ f.arbiter = e.arbiter
       /\ f.milestones = e.milestones /\ f.released = e.released /\ f.rate = e.rate
       /\ f.status = "resolved"
  BY <1>10 DEF EscrowRecord, ClosedStatus
<1> HIDE DEF f
<1>12. Books(f)
  <2>1. /\ Len(f.milestones) = n /\ Total(f.milestones) = t
        /\ PartialSums(f.milestones, n)[f.released] = out
    BY <1>11
  <2>2. /\ f.milestones \in Plans /\ {f.buyer, f.seller, f.arbiter} \subseteq Accounts
        /\ f.released \in 0..n /\ f.released # n
    BY <1>2, <1>11
  <2>3. f.arbiterFee = Cut(t - out, f.rate)
    BY <1>2, <1>11 DEF cut
  <2> HIDE DEF e, n, out, t
  <2>4. f.balance + f.paidSeller + f.paidBuyer + f.arbiterFee = t /\ f.paidSeller >= out
    BY <1>2, <1>3, <1>4, <1>11
  <2> QED BY <1>11, <2>1, <2>2, <2>3, <2>4 DEF Books, Open, OpenStatus, ClosedStatus
<1>13. f.balance = e.balance - e.balance /\ e.balance <= e.balance
  BY <1>2, <1>11
<1>14. SumTo(b3, NumAccounts) = TotalBalance + e.balance
  BY <1>4, <1>7
<1> QED
  <2> HIDE DEF n, out, t
  <2> QED BY <1>1, <1>2, <1>7, <1>11, <1>12, <1>13, <1>14, OperateInv

(* The genesis state, without escrows, satisfies the invariant.            *)
LEMMA MoneyAtGenesis == EscrowInit => EscrowMoney
<1> SUFFICES ASSUME EscrowInit PROVE EscrowMoney
  OBVIOUS
<1>1. AccountsInv
  BY AccountsInitInv DEF EscrowInit
<1>2. NoEscrow \in EscrowRecord /\ NoEscrow.balance = 0 /\ Books(NoEscrow)
  <2>1. 0 \in Amount /\ 0 \in 0..BpsBase
    BY AccountsAssumption, BpsAssumption DEF Amount
  <2>2. NoEscrow \in EscrowRecord
    BY <2>1 DEF NoEscrow, EscrowRecord
  <2>3. NoEscrow.status = "none" /\ NoEscrow.balance = 0
    BY DEF NoEscrow
  <2> QED BY <2>2, <2>3 DEF Books, Open, OpenStatus, ClosedStatus
<1>3. escrow = [i \in EscrowIds |-> NoEscrow]
  BY DEF EscrowInit
<1>4. EscrowTypeOK
  BY <1>1, <1>2, <1>3 DEF EscrowTypeOK, AccountsInv
<1>5. TotalHeld = 0
  <2>1. Held \in [1..MaxEscrows -> Nat] /\ \A k \in 1..MaxEscrows : Held[k] = 0
    BY <1>2, <1>3 DEF Held, EscrowIds
  <2>2. MaxEscrows \in Nat
    BY EscrowAssumption
  <2> QED BY <2>1, <2>2, SumToZero DEF TotalHeld
<1>6. EscrowConserved
  <2>1. supply \in Nat
    BY <1>1, AccountsAssumption DEF AccountsInv, AccountsTypeOK, Amount
  <2> QED BY <1>1, <1>5, <2>1 DEF EscrowConserved, AccountsInv, SupplyIsHeld
<1>7. BurnedIsAccounted
  BY <1>1 DEF AccountsInv
<1> QED BY <1>2, <1>3, <1>4, <1>6, <1>7 DEF EscrowMoney

(* Every operation on escrows keeps the money and the books.               *)
LEMMA MoneyStep ==
  ASSUME CostNeverWraps, EscrowMoney, EscrowStep
  PROVE  EscrowMoney'
BY CreateInv, StatusInv, ReleaseInv, ResolveInv, CloseInv DEF EscrowStep

(* Who the parties of an escrow are does not change once it is created.    *)
SameParties(e, f) == f.buyer = e.buyer /\ f.seller = e.seller /\ f.arbiter = e.arbiter

(* A payment is booked without touching the roles or the status.           *)
LEMMA PayKeepsParties ==
  ASSUME NEW e \in EscrowRecord, NEW to, NEW v \in Int
  PROVE  Pay(e, to, v) \in EscrowRecord /\ SameParties(e, Pay(e, to, v))
<1>1. e.balance \in Int /\ e.paidSeller \in Int /\ e.paidBuyer \in Int
  BY AccountsAssumption DEF EscrowRecord, Amount
<1>2. Minus(e.balance, v) \in Amount /\ Plus(e.paidSeller, v) \in Amount /\ Plus(e.paidBuyer, v) \in Amount
  BY <1>1, PlusMinusType
<1> QED BY <1>2 DEF Pay, EscrowRecord, SameParties

(* What a step does to the parties of one escrow. *)
KeepsParties(i) ==
  \/ escrow[i].status # "none" /\ SameParties(escrow[i], escrow'[i])
  \/ escrow[i].status = "none" /\ escrow'[i].buyer # escrow'[i].seller
  \/ escrow'[i] = escrow[i]

LEMMA OperateKeeps ==
  ASSUME EscrowMoney, NEW i \in EscrowIds, NEW j \in EscrowIds, NEW f,
         escrow' = [escrow EXCEPT ![j] = f],
         \/ escrow[j].status # "none" /\ SameParties(escrow[j], f)
         \/ escrow[j].status = "none" /\ f.buyer # f.seller
  PROVE  KeepsParties(i)
BY DEF EscrowMoney, EscrowTypeOK, KeepsParties

(* No operation of an escrow changes its parties.                          *)
LEMMA StepKeepsParties ==
  ASSUME EscrowMoney, EscrowStep, NEW i \in EscrowIds
  PROVE  KeepsParties(i)
<1>1. ASSUME NEW buyer, NEW seller, NEW arbiter, NEW m, NEW s, NEW r, NEW rate, NEW fee,
             EscrowCreate(buyer, seller, arbiter, m, s, r, rate, fee)
      PROVE  KeepsParties(i)
  <2> DEFINE f == [NoEscrow EXCEPT !.status = "funded", !.buyer = buyer,
                     !.seller = seller, !.arbiter = arbiter,
                     !.milestones = m, !.balance = Total(m),
                     !.shipBy = s, !.review = r, !.rate = rate]
  <2>1. PICK j \in EscrowIds : escrow[j].status = "none" /\ escrow' = [escrow EXCEPT ![j] = f]
    BY <1>1 DEF EscrowCreate
  <2>2. f.buyer # f.seller
    BY <1>1 DEF EscrowCreate, NoEscrow
  <2> HIDE DEF f
  <2> QED BY <2>1, <2>2, OperateKeeps
<1>2. ASSUME NEW who \in Accounts, NEW j \in EscrowIds, NEW fee \in FreeFees, NEW v \in Amount,
             \/ EscrowDispatch(who, j, fee) \/ EscrowRelease(who, j, fee)
             \/ EscrowDispute(who, j, fee)  \/ EscrowResolve(who, j, v, fee)
             \/ EscrowRefund(who, j, fee)   \/ EscrowClaim(who, j, fee)
      PROVE  KeepsParties(i)
  <2> DEFINE e == escrow[j]
  <2>1. Open(e)
    BY <1>2 DEF EscrowDispatch, EscrowRelease, EscrowDispute, EscrowResolve, EscrowRefund, EscrowClaim
  <2>2. /\ e \in EscrowRecord /\ e.status # "none" /\ e.balance \in Int /\ v \in Int
        /\ e.milestones[e.released + 1] \in Int
    <3>1. e.milestones \in Plans /\ e.released \in 0..(Len(e.milestones) - 1)
      BY <2>1, OpenFacts
    <3>2. e.milestones \in [1..Len(e.milestones) -> Nat] /\ Len(e.milestones) \in Nat
      BY <3>1, PlanFacts
    <3>3. e \in EscrowRecord /\ e.status # "none" /\ e.balance \in Nat
      BY <2>1, OpenFacts
    <3>4. v \in Int
      BY AccountsAssumption DEF Amount
    <3>5. e.released + 1 \in 1..Len(e.milestones)
      BY <3>1, <3>2
    <3> HIDE DEF e
    <3> QED BY <3>2, <3>3, <3>4, <3>5
  <2>3. Cut(e.balance, e.rate) \in Nat
    BY <2>1, OpenFacts, CutBound
  <2>4. PICK f : escrow' = [escrow EXCEPT ![j] = f] /\ SameParties(e, f)
    <3> HIDE DEF e
    <3>1. ASSUME EscrowDispatch(who, j, fee) \/ EscrowDispute(who, j, fee)
          PROVE  \E f : escrow' = [escrow EXCEPT ![j] = f] /\ SameParties(e, f)
      <4>1. \A s, t : SameParties(e, [e EXCEPT !.status = s])
                      /\ SameParties(e, [e EXCEPT !.status = s, !.dispatchedAt = t])
        BY <2>2 DEF SameParties, EscrowRecord
      <4> QED BY <3>1, <4>1 DEF EscrowDispatch, EscrowDispute, Operate, e
    <3>2. ASSUME EscrowRelease(who, j, fee)
          PROVE  \E f : escrow' = [escrow EXCEPT ![j] = f] /\ SameParties(e, f)
      <4> DEFINE g == Pay(e, e.seller, e.milestones[e.released + 1])
                 paid == [g EXCEPT !.released = @ + 1]
                 f == IF e.released + 1 = Len(e.milestones)
                      THEN [paid EXCEPT !.status = "completed"] ELSE paid
      <4>1. escrow' = [escrow EXCEPT ![j] = f]
        BY <3>2 DEF EscrowRelease, Operate, e
      <4>2. g \in EscrowRecord /\ SameParties(e, g)
        BY <2>2, PayKeepsParties
      <4> HIDE DEF g
      <4>3. SameParties(e, f)
        BY <4>2 DEF SameParties, EscrowRecord
      <4> QED BY <4>1, <4>3
    <3>3. ASSUME EscrowRefund(who, j, fee) \/ EscrowClaim(who, j, fee)
          PROVE  \E f : escrow' = [escrow EXCEPT ![j] = f] /\ SameParties(e, f)
      <4> DEFINE g == Pay(e, e.buyer, e.balance)
                 h == Pay(e, e.seller, e.balance)
      <4>1. \/ escrow' = [escrow EXCEPT ![j] = [g EXCEPT !.status = "refunded"]]
            \/ escrow' = [escrow EXCEPT ![j] = [h EXCEPT !.released = Len(e.milestones),
                                                         !.status = "completed"]]
        BY <3>3 DEF EscrowRefund, EscrowClaim, Operate, e
      <4>2. g \in EscrowRecord /\ SameParties(e, g) /\ h \in EscrowRecord /\ SameParties(e, h)
        BY <2>2, PayKeepsParties
      <4> HIDE DEF g, h
      <4>3. /\ SameParties(e, [g EXCEPT !.status = "refunded"])
            /\ SameParties(e, [h EXCEPT !.released = Len(e.milestones), !.status = "completed"])
        BY <4>2 DEF SameParties, EscrowRecord
      <4> QED BY <4>1, <4>3
    <3>4. ASSUME EscrowResolve(who, j, v, fee)
          PROVE  \E f : escrow' = [escrow EXCEPT ![j] = f] /\ SameParties(e, f)
      <4> DEFINE cut == Cut(e.balance, e.rate)
                 arb == [e EXCEPT !.balance = Minus(@, cut), !.arbiterFee = cut]
                 g == Pay(arb, e.seller, v)
                 h == Pay(g, e.buyer, e.balance - cut - v)
      <4>1. escrow' = [escrow EXCEPT ![j] = [h EXCEPT !.status = "resolved"]]
        BY <3>4 DEF EscrowResolve, Operate, e
      <4>2. cut \in Amount
        <5>1. cut \in Nat /\ cut <= e.balance /\ e.balance \in Amount
          BY <2>1, <2>2, OpenFacts, CutBound DEF EscrowRecord, e
        <5> QED BY <5>1, AccountsAssumption DEF Amount
      <4>3. cut \in Int
        BY <2>3
      <4> HIDE DEF cut
      <4>4. arb \in EscrowRecord /\ SameParties(e, arb)
        BY <2>2, <4>2, <4>3, PlusMinusType DEF SameParties, EscrowRecord
      <4> HIDE DEF arb
      <4>5. g \in EscrowRecord /\ SameParties(arb, g)
        BY <2>2, <4>4, PayKeepsParties
      <4> HIDE DEF g
      <4>6. h \in EscrowRecord /\ SameParties(g, h)
        BY <2>2, <4>3, <4>5, PayKeepsParties
      <4> HIDE DEF h
      <4>7. SameParties(e, [h EXCEPT !.status = "resolved"])
        BY <4>4, <4>5, <4>6 DEF SameParties, EscrowRecord
      <4> QED BY <4>1, <4>7
    <3> QED BY <1>2, <3>1, <3>2, <3>3, <3>4
  <2> QED BY <2>2, <2>4, OperateKeeps
<1> QED BY <1>1, <1>2, AccountsAssumption DEF EscrowStep, Amount

(* The genesis state, without escrows, satisfies the invariant.            *)
LEMMA EscrowInitInv == EscrowInit => EscrowInv
<1>1. EscrowInit => PartiesDiffer
  BY DEF EscrowInit, PartiesDiffer, NoEscrow
<1> QED BY <1>1, MoneyAtGenesis DEF EscrowInv

(* The time of a block moves no money. *)
LEMMA MoneyWaits ==
  ASSUME EscrowMoney, UNCHANGED <<bal, supply, burned, escrow>>, now' \in 0..MaxTime
  PROVE  EscrowMoney'
BY DEF EscrowMoney, EscrowTypeOK, AccountsTypeOK, EscrowConserved,
       BurnedIsAccounted, TotalBalance, TotalHeld, Held, Books

(* Every operation of the ledger on accounts and escrows preserves the     *)
(* invariant.                                                              *)
LEMMA EscrowStepInv ==
  ASSUME CostNeverWraps
  PROVE  EscrowInv /\ [EscrowNext]_escrowVars => EscrowInv'
<1> SUFFICES ASSUME EscrowInv, [EscrowNext]_escrowVars PROVE EscrowInv'
  OBVIOUS
<1>0. EscrowMoney /\ PartiesDiffer
  BY DEF EscrowInv
<1>1. CASE EscrowStep
  <2>1. EscrowMoney'
    BY <1>0, <1>1, MoneyStep
  <2>2. \A i \in EscrowIds : KeepsParties(i)
    BY <1>0, <1>1, StepKeepsParties
  <2>3. PartiesDiffer'
    BY <1>0, <2>2 DEF PartiesDiffer, KeepsParties, SameParties
  <2> QED BY <2>1, <2>3 DEF EscrowInv
<1>2. CASE (Tick /\ UNCHANGED escrow) \/ UNCHANGED escrowVars
  <2>1. now' \in 0..MaxTime /\ UNCHANGED <<bal, supply, burned, escrow>>
    BY <1>0, <1>2, InvFacts, AccountsAssumption DEF Tick, escrowVars
  <2> QED BY <1>0, <2>1, MoneyWaits DEF EscrowInv, PartiesDiffer
<1> QED BY <1>1, <1>2 DEF EscrowNext

(* Accounts and escrows together always hold exactly the supply, burned    *)
(* fees are accounted for and every escrow's books are right, whatever the *)
(* buyers, sellers and arbiters do and in whatever order.                  *)
THEOREM EscrowsConserve ==
  ASSUME CostNeverWraps
  PROVE  EscrowSpec => []EscrowInv
<1>1. EscrowInit => EscrowInv
  BY EscrowInitInv
<1>2. EscrowInv /\ [EscrowNext]_escrowVars => EscrowInv'
  BY EscrowStepInv
<1> QED BY <1>1, <1>2, PTL DEF EscrowSpec

(* The books of an escrow give both statements about it. *)
LEMMA BooksGive == EscrowInv => HeldMatchesMilestones /\ OutcomeMatchesStatus
<1> SUFFICES ASSUME EscrowInv, NEW i \in EscrowIds
             PROVE  LET e == escrow[i]
                        t == Total(e.milestones)
                    IN  /\ Open(e) => /\ e.released < Len(e.milestones)
                                      /\ e.balance = Unreleased(e)
                        /\ ~Open(e) => e.balance = 0
                        /\ e.status # "none" =>
                             /\ e.balance + e.paidSeller + e.paidBuyer + e.arbiterFee = t
                             /\ e.status = "completed" => e.paidSeller = t
                             /\ e.status # "resolved" => e.arbiterFee = 0
                             /\ e.status = "refunded" => e.paidSeller = t - Unreleased(e)
                             /\ e.arbiterFee * BpsBase <= Unreleased(e) * e.rate
  BY DEF HeldMatchesMilestones, OutcomeMatchesStatus
<1> DEFINE e == escrow[i]
           n == Len(e.milestones)
           t == Total(e.milestones)
           out == PartialSums(e.milestones, n)[e.released]
<1>1. Books(e) /\ e \in EscrowRecord /\ (e.status # "none" => e.buyer # e.seller)
  BY InvFacts DEF EscrowInv, EscrowMoney, PartiesDiffer
<1>3. Unreleased(e) = t - out
  BY DEF Unreleased
<1> HIDE DEF e
<1>2. /\ e.balance \in Nat /\ e.paidSeller \in Nat /\ e.paidBuyer \in Nat
      /\ e.arbiterFee \in Nat /\ e.rate \in 0..BpsBase /\ BpsBase \in Nat
      /\ e.status \in {"none"} \cup OpenStatus \cup ClosedStatus
  <2>1. /\ e.balance \in Amount /\ e.paidSeller \in Amount /\ e.paidBuyer \in Amount
        /\ e.arbiterFee \in Amount /\ e.rate \in 0..BpsBase
        /\ e.status \in {"none"} \cup OpenStatus \cup ClosedStatus
    BY <1>1 DEF EscrowRecord
  <2>2. Amount \subseteq Nat /\ BpsBase \in Nat
    BY AccountsAssumption, BpsAssumption DEF Amount
  <2> QED BY <2>1, <2>2
<1>4. CASE e.status = "none"
  BY <1>1, <1>4 DEF Books, Open, OpenStatus, e
<1>5. CASE e.status # "none"
  <2>1. /\ e.milestones \in Plans /\ e.released \in 0..n
        /\ e.released = n <=> e.status = "completed"
        /\ e.paidSeller >= out
        /\ e.balance + e.paidSeller + e.paidBuyer + e.arbiterFee = t
        /\ Open(e) => e.balance = t - out /\ e.arbiterFee = 0
        /\ e.status \in ClosedStatus => e.balance = 0
        /\ e.status = "completed" => e.paidSeller = t
        /\ e.status = "refunded" => e.paidSeller = out /\ e.arbiterFee = 0
        /\ e.status = "resolved" => e.arbiterFee = Cut(t - out, e.rate)
    BY <1>1, <1>5 DEF Books
  <2>2. out \in Nat /\ t \in Nat /\ out <= t /\ n \in Nat
    BY <2>1, PlanFacts, AccountsAssumption DEF Amount
  <2>3. Open(e) <=> e.status \in OpenStatus
    BY DEF Open
  <2> HIDE DEF n, t, out
  <2>4. e.status \in ClosedStatus <=> ~Open(e)
    BY <1>2, <1>5, <2>3 DEF OpenStatus, ClosedStatus
  <2>5. e.status = "completed" => e.arbiterFee = 0
    BY <1>2, <2>1, <2>2, <2>4 DEF ClosedStatus
  <2>6. e.status # "resolved" => e.arbiterFee = 0
    BY <1>2, <1>5, <2>1, <2>3, <2>5 DEF OpenStatus, ClosedStatus
  <2>7. e.arbiterFee * BpsBase <= (t - out) * e.rate
    <3>1. t - out \in Nat
      BY <2>2
    <3>2. CASE e.status = "resolved"
      BY <1>2, <2>1, <3>1, <3>2, CutBound
    <3>3. CASE e.status # "resolved"
      <4>1. (t - out) * e.rate >= 0 /\ 0 * BpsBase = 0
        BY <1>2, <3>1
      <4> QED BY <2>6, <3>3, <4>1
    <3> QED BY <3>2, <3>3
  <2>8. Open(e) => e.released < n
    BY <2>1, <2>2, <2>3 DEF OpenStatus
  <2> QED BY <1>3, <2>1, <2>2, <2>4, <2>6, <2>7, <2>8 DEF e, n, t
<1> QED BY <1>4, <1>5

(* Every escrow's books balance: an open one holds its unreleased          *)
(* milestones, a closed one nothing, and who was paid what is decided by   *)
(* how it ended.                                                           *)
THEOREM EscrowBooksBalance ==
  ASSUME CostNeverWraps
  PROVE  EscrowSpec => [](HeldMatchesMilestones /\ OutcomeMatchesStatus)
<1>1. EscrowInit => EscrowInv
  BY EscrowInitInv
<1>2. EscrowInv /\ [EscrowNext]_escrowVars => EscrowInv'
  BY EscrowStepInv
<1>3. EscrowInv => HeldMatchesMilestones /\ OutcomeMatchesStatus
  BY BooksGive
<1> QED BY <1>1, <1>2, <1>3, PTL DEF EscrowSpec

(* The money of a disputed escrow leaves it only all at once, by the       *)
(* arbiter's resolution or back to the buyer: no release, claim or         *)
(* dispatch reaches a disputed escrow, and a refund leaves the seller what *)
(* he had before.                                                          *)
THEOREM DisputesFreeze ==
  ASSUME CostNeverWraps
  PROVE  EscrowSpec => DisputeFreezes
<1>1. EscrowInit => EscrowInv
  BY EscrowInitInv
<1>2. EscrowInv /\ [EscrowNext]_escrowVars => EscrowInv'
  BY EscrowStepInv
<1>3. EscrowInv /\ [EscrowNext]_escrowVars => [\A i \in EscrowIds : StaysFrozen(i)]_escrowVars
  <2> SUFFICES ASSUME EscrowInv, EscrowInv', EscrowNext, NEW i \in EscrowIds,
                      escrow[i].status = "disputed", escrow'[i] # escrow[i]
               PROVE  StaysFrozen(i)
    BY <1>2 DEF StaysFrozen
  <2> DEFINE e == escrow[i]
             f == escrow'[i]
  <2>1. /\ e.status = "disputed" /\ f # e
        /\ e \in EscrowRecord /\ f \in EscrowRecord
        /\ Books(e) /\ Books(f)
    BY DEF EscrowInv, EscrowMoney, EscrowTypeOK
  <2>2. escrow \in [EscrowIds -> EscrowRecord]
    BY DEF EscrowInv, EscrowMoney, EscrowTypeOK
  <2>3. f.status \in ClosedStatus => f.balance = 0
    BY <2>1 DEF Books
  <2>4. e.buyer # e.seller
    BY <2>1 DEF EscrowInv, PartiesDiffer
  <2>5. EscrowStep
    BY <2>1 DEF EscrowNext
  <2>6. \/ \E who \in Accounts, fee \in FreeFees : EscrowRefund(who, i, fee)
        \/ \E who \in Accounts, fee \in FreeFees, v \in Amount : EscrowResolve(who, i, v, fee)
    <3> HIDE DEF e, f
    <3>1. ASSUME NEW j \in EscrowIds, NEW g, escrow' = [escrow EXCEPT ![j] = g]
          PROVE  j = i
      BY <3>1, <2>1, <2>2 DEF e, f
    <3>2. ASSUME NEW buyer, NEW seller, NEW arbiter, NEW m, NEW s, NEW r, NEW rate, NEW fee,
                 EscrowCreate(buyer, seller, arbiter, m, s, r, rate, fee)
          PROVE  FALSE
      <4>1. PICK j \in EscrowIds :
              escrow[j].status = "none" /\ \E g : escrow' = [escrow EXCEPT ![j] = g]
        BY <3>2 DEF EscrowCreate
      <4> QED BY <4>1, <3>1, <2>1 DEF e
    <3>3. ASSUME NEW who, NEW j \in EscrowIds, NEW fee,
                 \/ EscrowDispatch(who, j, fee) \/ EscrowRelease(who, j, fee)
                 \/ EscrowDispute(who, j, fee)  \/ EscrowClaim(who, j, fee)
          PROVE  FALSE
      <4>1. escrow[j].status # "disputed"
        BY <3>3 DEF EscrowDispatch, EscrowRelease, EscrowDispute, EscrowClaim
      <4>2. \E g : escrow' = [escrow EXCEPT ![j] = g]
        BY <3>3 DEF EscrowDispatch, EscrowRelease, EscrowDispute, EscrowClaim, Operate
      <4> QED BY <4>1, <4>2, <3>1, <2>1 DEF e
    <3>4. ASSUME NEW who, NEW j \in EscrowIds, NEW fee, NEW v,
                 EscrowRefund(who, j, fee) \/ EscrowResolve(who, j, v, fee)
          PROVE  j = i
      <4>1. \E g : escrow' = [escrow EXCEPT ![j] = g]
        BY <3>4 DEF EscrowRefund, EscrowResolve, Operate
      <4> QED BY <4>1, <3>1
    <3> QED BY <2>5, <3>2, <3>3, <3>4 DEF EscrowStep
  <2>7. CASE \E who \in Accounts, fee \in FreeFees : EscrowRefund(who, i, fee)
    <3>1. f = [Pay(e, e.buyer, e.balance) EXCEPT !.status = "refunded"]
      BY <2>7, <2>2 DEF EscrowRefund, Operate
    <3>2. f.status = "refunded" /\ f.paidSeller = e.paidSeller
      BY <3>1, <2>1, <2>4 DEF Pay, EscrowRecord
    <3> QED BY <3>2, <2>3 DEF StaysFrozen, ClosedStatus
  <2>8. CASE \E who \in Accounts, fee \in FreeFees, v \in Amount : EscrowResolve(who, i, v, fee)
    <3>1. PICK v \in Amount : \E who \in Accounts, fee \in FreeFees : EscrowResolve(who, i, v, fee)
      BY <2>8
    <3> DEFINE cut == Cut(e.balance, e.rate)
               arb == [e EXCEPT !.balance = Minus(@, cut), !.arbiterFee = cut]
               g   == Pay(Pay(arb, e.seller, v), e.buyer, e.balance - cut - v)
    <3>2. escrow' = [escrow EXCEPT ![i] = [g EXCEPT !.status = "resolved"]]
      BY <3>1 DEF EscrowResolve, Operate
    <3> HIDE DEF g
    <3>3. f = [g EXCEPT !.status = "resolved"]
      BY <3>2, <2>2
    <3>4. f.status = "resolved"
      BY <3>3, <2>1 DEF EscrowRecord
    <3> QED BY <3>4, <2>3 DEF StaysFrozen, ClosedStatus
  <2> QED BY <2>6, <2>7, <2>8
<1> QED BY <1>1, <1>2, <1>3, PTL DEF EscrowSpec, DisputeFreezes

-----------------------------------------------------------------------------
(* The escrow rules of the ledger implement the life cycle of EscrowLife,  *)
(* for any number of escrows and any milestones: genesis shows unborn      *)
(* escrows, every operation shows as one step of one life, and time passes *)
(* unseen.  The step simulation needs the invariant for one thing only:    *)
(* that every entry is an escrow record, so that changing some of its      *)
(* fields leaves the others alone.                                         *)

(* Replacing one escrow replaces what is seen of it, and nothing else.     *)
LEMMA SeenUpdate ==
  ASSUME EscrowTypeOK, NEW i \in EscrowIds, NEW f, escrow' = [escrow EXCEPT ![i] = f]
  PROVE  /\ Seen' = [Seen EXCEPT ![i] = LifeOf(f)]
         /\ Seen[i] = LifeOf(escrow[i])
         /\ escrow[i] \in EscrowRecord
<1>1. escrow \in [EscrowIds -> EscrowRecord]
  BY DEF EscrowTypeOK
<1> QED BY <1>1 DEF Seen

(* What a step that changes status and released of escrow i shows.         *)
LEMMA SeenBecomes ==
  ASSUME EscrowTypeOK, NEW i \in EscrowIds, NEW f, escrow' = [escrow EXCEPT ![i] = f],
         f.milestones = escrow[i].milestones
  PROVE  Life!Become(i, f.status, f.released)
<1> DEFINE m == escrow[i].milestones
           n == Len(m)
<1>0. Seen[i] = [status |-> escrow[i].status, released |-> escrow[i].released, count |-> n]
  BY SeenUpdate DEF LifeOf
<1>1. LifeOf(f) = [status |-> f.status, released |-> f.released, count |-> Seen[i].count]
  <2>1. LifeOf(f) = [status |-> f.status, released |-> f.released, count |-> n]
    BY DEF LifeOf
  <2> HIDE DEF n
  <2> QED BY <1>0, <2>1
<1>2. Seen' = [Seen EXCEPT ![i] = LifeOf(f)]
  BY SeenUpdate
<1>3. i \in DOMAIN Seen
  BY DEF Seen
<1> QED BY <1>1, <1>2, <1>3 DEF Life!Become

(* Paying changes neither status nor milestones.                           *)
LEMMA PayKeeps ==
  ASSUME NEW e \in EscrowRecord, NEW to, NEW amount
  PROVE  LET f == Pay(e, to, amount)
         IN  /\ f.status = e.status /\ f.released = e.released
             /\ f.milestones = e.milestones /\ f.buyer = e.buyer /\ f.seller = e.seller
             /\ DOMAIN f = DOMAIN e
  BY DEF Pay, EscrowRecord

(* Funding an escrow shows as a birth.                                     *)
LEMMA CreateShows ==
  ASSUME EscrowTypeOK, NEW buyer, NEW seller, NEW arbiter, NEW m \in Plans, NEW shipBy,
         NEW review, NEW rate, NEW fee,
         EscrowCreate(buyer, seller, arbiter, m, shipBy, review, rate, fee)
  PROVE  \E i \in EscrowIds : Life!Born(i, Len(m))
<1> DEFINE f == [NoEscrow EXCEPT !.status = "funded", !.buyer = buyer,
                   !.seller = seller, !.arbiter = arbiter,
                   !.milestones = m, !.balance = Total(m),
                   !.shipBy = shipBy, !.review = review, !.rate = rate]
           n == Len(m)
<1>1. PICK i \in EscrowIds : escrow[i].status = "none" /\ escrow' = [escrow EXCEPT ![i] = f]
  BY DEF EscrowCreate
<1>2. f.status = "funded" /\ f.milestones = m /\ f.released = 0
  BY DEF NoEscrow
<1> HIDE DEF f
<1>3. Seen' = [Seen EXCEPT ![i] = LifeOf(f)] /\ Seen[i] = LifeOf(escrow[i])
  BY <1>1, SeenUpdate
<1>4. LifeOf(f) = [status |-> "funded", released |-> 0, count |-> n]
  BY <1>2 DEF LifeOf
<1>5. Seen[i].status = "none"
  BY <1>1, <1>3 DEF LifeOf
<1> HIDE DEF n
<1>6. Life!Born(i, n)
  BY <1>3, <1>4, <1>5 DEF Life!Born
<1> QED BY <1>6 DEF n

(* Every operation on an escrow shows as one move of its life.             *)
LEMMA OperationShows ==
  ASSUME EscrowTypeOK, NEW who, NEW i \in EscrowIds, NEW fee,
         \/ EscrowDispatch(who, i, fee) \/ EscrowRelease(who, i, fee)
         \/ EscrowDispute(who, i, fee)  \/ \E v \in Amount : EscrowResolve(who, i, v, fee)
         \/ EscrowRefund(who, i, fee)   \/ EscrowClaim(who, i, fee)
  PROVE  Life!Moves(i)
<1> DEFINE e == escrow[i]
           n == Len(e.milestones)
<1>1. e \in EscrowRecord /\ Seen[i] = [status |-> e.status, released |-> e.released, count |-> n]
  BY DEF EscrowTypeOK, Seen, LifeOf
<1> HIDE DEF n
<1>2. ASSUME NEW f, escrow' = [escrow EXCEPT ![i] = f], f.milestones = e.milestones
      PROVE  Life!Become(i, f.status, f.released)
  BY <1>2, SeenBecomes
<1>3. CASE EscrowDispatch(who, i, fee)
  <2> DEFINE f == [e EXCEPT !.status = "dispatched", !.dispatchedAt = now]
  <2>1. e.status = "funded" /\ escrow' = [escrow EXCEPT ![i] = f]
    BY <1>3 DEF EscrowDispatch, Operate
  <2>2. f.milestones = e.milestones /\ f.status = "dispatched" /\ f.released = e.released
    BY <1>1 DEF EscrowRecord
  <2> HIDE DEF e, f
  <2>3. Life!Become(i, "dispatched", e.released)
    BY <1>2, <2>1, <2>2 DEF e
  <2> QED BY <1>1, <2>1, <2>3 DEF Life!Moves, Life!Dispatched
<1>4. CASE EscrowDispute(who, i, fee)
  <2> DEFINE f == [e EXCEPT !.status = "disputed"]
  <2>1. /\ e.status \in {"funded", "dispatched"} /\ escrow' = [escrow EXCEPT ![i] = f]
    BY <1>4 DEF EscrowDispute, Operate, Open, OpenStatus
  <2>2. f.milestones = e.milestones /\ f.status = "disputed" /\ f.released = e.released
    BY <1>1 DEF EscrowRecord
  <2> HIDE DEF e, f
  <2>3. Life!Become(i, "disputed", e.released)
    BY <1>2, <2>1, <2>2 DEF e
  <2> QED BY <1>1, <2>1, <2>3 DEF Life!Moves, Life!Disputed, Life!Undisputed
<1>5. CASE EscrowRelease(who, i, fee)
  <2> DEFINE paid == Pay(e, e.seller, e.milestones[e.released + 1])
             g    == [paid EXCEPT !.released = @ + 1]
             f    == IF e.released + 1 = n THEN [g EXCEPT !.status = "completed"] ELSE g
  <2>1. /\ e.status \in {"funded", "dispatched"} /\ escrow' = [escrow EXCEPT ![i] = f]
    BY <1>5 DEF EscrowRelease, Operate, Open, OpenStatus, n
  <2>2. /\ paid.status = e.status /\ paid.released = e.released
        /\ paid.milestones = e.milestones
        /\ "status" \in DOMAIN paid /\ "released" \in DOMAIN paid /\ "milestones" \in DOMAIN paid
    <3>1. /\ "status" \in DOMAIN e /\ "released" \in DOMAIN e /\ "milestones" \in DOMAIN e
      BY <1>1 DEF EscrowRecord
    <3> QED BY <1>1, <3>1, PayKeeps
  <2> HIDE DEF e, paid
  <2>3. /\ g.status = e.status /\ g.released = e.released + 1 /\ g.milestones = e.milestones
        /\ "status" \in DOMAIN g /\ "released" \in DOMAIN g /\ "milestones" \in DOMAIN g
    BY <2>2
  <2> HIDE DEF g
  <2>4. /\ f.milestones = e.milestones /\ f.released = e.released + 1
        /\ f.status = IF e.released + 1 = n THEN "completed" ELSE e.status
    BY <2>3
  <2> HIDE DEF f
  <2>5. Life!Become(i, IF e.released + 1 = n THEN "completed" ELSE e.status, e.released + 1)
    BY <1>2, <2>1, <2>4 DEF e
  <2> QED BY <1>1, <2>1, <2>5 DEF Life!Moves, Life!Released, Life!Undisputed
<1>6. CASE \E v \in Amount : EscrowResolve(who, i, v, fee)
  <2>1. PICK v \in Amount : EscrowResolve(who, i, v, fee)
    BY <1>6
  <2> DEFINE cut == Cut(e.balance, e.rate)
             arb == [e EXCEPT !.balance = Minus(@, cut), !.arbiterFee = cut]
             p1  == Pay(arb, e.seller, v)
             p2  == Pay(p1, e.buyer, e.balance - cut - v)
             f   == [p2 EXCEPT !.status = "resolved"]
  <2>2. e.status = "disputed" /\ escrow' = [escrow EXCEPT ![i] = f]
    BY <2>1 DEF EscrowResolve, Operate
  <2> HIDE DEF e, cut
  <2>3. f.milestones = e.milestones /\ f.status = "resolved" /\ f.released = e.released
    BY <1>1, SMTT(60) DEF EscrowRecord, Pay
  <2> HIDE DEF f
  <2>4. Life!Become(i, "resolved", e.released)
    BY <1>2, <2>2, <2>3 DEF e
  <2> QED BY <1>1, <2>2, <2>4 DEF Life!Moves, Life!Resolved
<1>7. CASE EscrowRefund(who, i, fee)
  <2> DEFINE f == [Pay(e, e.buyer, e.balance) EXCEPT !.status = "refunded"]
  <2>1. e.status \in {"funded", "dispatched", "disputed"} /\ escrow' = [escrow EXCEPT ![i] = f]
    BY <1>7 DEF EscrowRefund, Operate, Open, OpenStatus
  <2> HIDE DEF e
  <2>2. f.milestones = e.milestones /\ f.status = "refunded" /\ f.released = e.released
    BY <1>1 DEF EscrowRecord, Pay
  <2> HIDE DEF f
  <2>3. Life!Become(i, "refunded", e.released)
    BY <1>2, <2>1, <2>2 DEF e
  <2> QED BY <1>1, <2>1, <2>3 DEF Life!Moves, Life!Refunded, Life!Live, Life!Undisputed
<1>8. CASE EscrowClaim(who, i, fee)
  <2> DEFINE f == [Pay(e, e.seller, e.balance) EXCEPT !.released = n, !.status = "completed"]
  <2>1. e.status = "dispatched" /\ escrow' = [escrow EXCEPT ![i] = f]
    BY <1>8 DEF EscrowClaim, Operate, n
  <2> HIDE DEF e
  <2>2. f.milestones = e.milestones /\ f.status = "completed" /\ f.released = n
    BY <1>1 DEF EscrowRecord, Pay
  <2> HIDE DEF f
  <2>3. Life!Become(i, "completed", n)
    BY <1>2, <2>1, <2>2 DEF e
  <2> QED BY <1>1, <2>1, <2>3 DEF Life!Moves, Life!Claimed
<1> QED BY <1>3, <1>4, <1>5, <1>6, <1>7, <1>8

(* Every step of the ledger is a step of one life, or unseen.              *)
LEMMA StepShows ==
  ASSUME EscrowTypeOK, [EscrowNext]_escrowVars
  PROVE  [Life!LifeNext]_Seen
<1>1. CASE EscrowStep
  <2>1. CASE \E buyer, seller, arbiter \in Accounts, m \in Plans, s \in ShipBys,
               r \in Reviews, rate \in Rates, fee \in Fees :
               EscrowCreate(buyer, seller, arbiter, m, s, r, rate, fee)
    <3>1. \E m \in Plans : \E i \in EscrowIds : Life!Born(i, Len(m))
      BY <2>1, CreateShows
    <3> QED BY <3>1 DEF Life!LifeNext
  <2>2. CASE \E who \in Accounts, i \in EscrowIds, fee \in FreeFees :
               \/ EscrowDispatch(who, i, fee) \/ EscrowRelease(who, i, fee)
               \/ EscrowDispute(who, i, fee)
               \/ \E v \in Amount : EscrowResolve(who, i, v, fee)
               \/ EscrowRefund(who, i, fee)   \/ EscrowClaim(who, i, fee)
    <3>1. \E i \in EscrowIds : Life!Moves(i)
      BY <2>2, OperationShows
    <3> QED BY <3>1 DEF Life!LifeNext
  <2> QED BY <1>1, <2>1, <2>2 DEF EscrowStep
<1>2. CASE UNCHANGED escrow
  BY <1>2 DEF Seen, LifeOf
<1> QED BY <1>1, <1>2 DEF EscrowNext, escrowVars

(* The escrow rules implement the life cycle an observer of the chain      *)
(* relies on.                                                              *)
THEOREM EscrowsImplementLife ==
  ASSUME CostNeverWraps
  PROVE  EscrowSpec => ImplementsLife
<1>1. EscrowInit => Life!LifeInit
  <2> SUFFICES ASSUME EscrowInit PROVE Life!LifeInit
    OBVIOUS
  <2>1. LifeOf(NoEscrow) = Life!Unborn
    BY DEF LifeOf, NoEscrow, Life!Unborn
  <2>2. escrow = [i \in EscrowIds |-> NoEscrow]
    BY DEF EscrowInit
  <2> QED BY <2>1, <2>2 DEF Life!LifeInit, Seen
<1>2. EscrowSpec => []EscrowInv
  BY EscrowsConserve
<1>3. EscrowInv /\ [EscrowNext]_escrowVars => [Life!LifeNext]_Seen
  BY StepShows DEF EscrowInv, EscrowMoney
<1> QED BY <1>1, <1>2, <1>3, PTL DEF EscrowSpec, ImplementsLife, Life!LifeSpec

-----------------------------------------------------------------------------
(* Recovery keeps the money of accounts and escrows, the safety window and  *)
(* the seats of circles, for any number of guardians and recoveries, as     *)
(* long as its steps are free of fees (StepsAreFree) and no cost wraps      *)
(* (CostNeverWraps).  A recovery can make buyer and seller of an escrow one *)
(* key, so of module Escrow's invariant only EscrowMoney holds here.        *)

(* What the invariant says of the guardianship g of account a at time t. *)
GuardIs(g, a, t) ==
  /\ g \in GuardRecord /\ IsFiniteSet(g.guardians)
  /\ g.guardians # {} => g.threshold \in 1..Cardinality(g.guardians) /\ g.delay > 0
  /\ g.pending # NoRecovery =>
       /\ g.guardians # {}
       /\ g.pending.newOwner \in Accounts /\ g.pending.newOwner # a
       /\ g.pending.approvals \subseteq g.guardians
       /\ g.pending.readyAt # 0 <=> Cardinality(g.pending.approvals) >= g.threshold
       /\ g.pending.readyAt # 0 => g.pending.readyAt <= t + g.delay

GuardsOK == /\ guard \in [Accounts -> GuardRecord]
            /\ \A a \in Accounts : GuardIs(guard[a], a, now)

Keys == /\ recoveredTo \in [Accounts -> Accounts \cup {NoIssuer}]
        /\ recoveries \in 0..MaxRecoveries

SeatsHold == circle \in CircleRecord /\ SeatsStayApart

LEMMA InvParts == RecoveryInv <=> EscrowMoney /\ GuardsOK /\ Keys /\ SeatsHold
<1>1. EscrowMoney => AccountsTypeOK
  BY DEF EscrowMoney, EscrowTypeOK
<1>2. RecoveryInv => GuardsOK
  <2> SUFFICES ASSUME RecoveryInv, NEW a \in Accounts PROVE GuardIs(guard[a], a, now)
    BY DEF RecoveryInv, GuardTypeOK, GuardsOK
  <2>1. guard[a] \in GuardRecord
    BY DEF RecoveryInv, GuardTypeOK
  <2> QED BY <2>1 DEF RecoveryInv, GuardTypeOK, GuardsAreReal, WindowRunsFromQuorum, GuardIs, Guarded, Pending
<1>3. GuardsOK /\ Keys /\ AccountsTypeOK => GuardTypeOK /\ GuardsAreReal /\ WindowRunsFromQuorum
  BY DEF GuardTypeOK, GuardsAreReal, WindowRunsFromQuorum, GuardIs, GuardsOK, Keys, Guarded, Pending
<1> QED BY <1>1, <1>2, <1>3 DEF RecoveryInv, GuardTypeOK, Keys, SeatsHold

-----------------------------------------------------------------------------
(* Guardianships *)

LEMMA NoGuardIs == ASSUME NEW a \in Accounts, NEW t PROVE GuardIs(NoGuard, a, t)
BY FS_EmptySet DEF GuardIs, NoGuard, NoRecovery, GuardRecord, RecoveryRecord

(* A guardianship without a recovery is one for every account at any time. *)
LEMMA ClearedIs ==
  ASSUME NEW g, NEW a, NEW b, NEW t, NEW u, GuardIs(g, a, t)
  PROVE  GuardIs([g EXCEPT !.pending = NoRecovery], b, u)
BY DEF GuardIs, NoRecovery, GuardRecord, RecoveryRecord

(* A window that began does not depend on the time that passed since. *)
LEMMA LaterIs ==
  ASSUME NEW g, NEW a, NEW t \in Nat, NEW u \in Nat, t <= u, GuardIs(g, a, t)
  PROVE  GuardIs(g, a, u)
BY DEF GuardIs, GuardRecord, RecoveryRecord

(* Approvals by guardians for another key, with a window that runs only    *)
(* after a quorum, make a good guardianship once WithQuorum saw them.      *)
LEMMA QuorumIs ==
  ASSUME NEW g, NEW a, NEW p \in RecoveryRecord, now \in Nat,
         GuardIs(g, a, now), g.guardians # {},
         p.newOwner \in Accounts, p.newOwner # a, p.approvals \subseteq g.guardians,
         p.readyAt # 0 => /\ Cardinality(p.approvals) >= g.threshold
                          /\ p.readyAt <= now + g.delay
  PROVE  GuardIs([g EXCEPT !.pending = WithQuorum(g, p)], a, now)
<1>1. /\ g \in GuardRecord /\ IsFiniteSet(g.guardians) /\ g.threshold \in Nat /\ g.delay \in Nat
      /\ g.delay > 0 /\ g.threshold \in 1..Cardinality(g.guardians)
  BY DEF GuardIs, GuardRecord
<1>2. Cardinality(p.approvals) \in Nat
  BY <1>1, FS_Subset, FS_CardinalityType
<1> DEFINE q == WithQuorum(g, p)
<1>3. /\ q \in RecoveryRecord /\ q.newOwner = p.newOwner /\ q.approvals = p.approvals
      /\ q.readyAt = IF Cardinality(p.approvals) >= g.threshold /\ p.readyAt = 0
                     THEN now + g.delay ELSE p.readyAt
  BY <1>1 DEF WithQuorum, RecoveryRecord
<1> HIDE DEF q
<1>4. q.readyAt # 0 <=> Cardinality(q.approvals) >= g.threshold
  BY <1>1, <1>2, <1>3 DEF RecoveryRecord
<1>5. q.readyAt # 0 => q.readyAt <= now + g.delay
  BY <1>1, <1>3 DEF RecoveryRecord
<1> DEFINE h == [g EXCEPT !.pending = q]
<1>6. /\ h \in GuardRecord /\ h.guardians = g.guardians /\ h.threshold = g.threshold
      /\ h.delay = g.delay /\ h.pending = q
  BY <1>1, <1>3 DEF GuardRecord
<1> HIDE DEF h
<1>7. GuardIs(h, a, now)
  BY <1>1, <1>3, <1>4, <1>5, <1>6 DEF GuardIs
<1> QED BY <1>7 DEF h, q

(* A step that gives one account a good guardianship. *)
LEMMA OneGuard ==
  ASSUME GuardsOK, NEW a \in Accounts, NEW g, GuardIs(g, a, now),
         guard' = [guard EXCEPT ![a] = g], now' = now
  PROVE  GuardsOK'
<1>1. g \in GuardRecord
  BY DEF GuardIs
<1>2. guard' \in [Accounts -> GuardRecord]
  BY <1>1 DEF GuardsOK
<1>3. ASSUME NEW b \in Accounts PROVE GuardIs(guard'[b], b, now)
  BY DEF GuardsOK
<1> QED BY <1>2, <1>3 DEF GuardsOK

-----------------------------------------------------------------------------
(* Money *)

(* What apply does after a rule that moves no money between accounts and   *)
(* escrows: the sender's fee is taken, and escrows hold what they held.    *)
LEMMA FeeKeepsMoney ==
  ASSUME EscrowMoney, NEW after \in [Accounts -> Amount], NEW from \in Accounts,
         NEW fee \in Amount, SumTo(after, NumAccounts) = TotalBalance, fee <= after[from],
         Settle(after, supply, from, fee, fee), now' = now,
         escrow' \in [EscrowIds -> EscrowRecord], Held' = Held,
         \A i \in EscrowIds : Books(escrow'[i])
  PROVE  EscrowMoney'
<1>1. /\ fee \in Nat /\ after[from] \in Nat /\ after[from] <= TotalBalance
  BY BalancesSum, AccountsAssumption DEF Amount
<1>2. /\ supply \in Amount /\ burned \in Amount /\ supply \in Nat /\ supply < Modulus
      /\ TotalBalance \in Nat /\ TotalHeld \in Nat /\ TotalBalance + TotalHeld = supply
      /\ now \in 0..MaxTime
  BY InvFacts
<1>3. fee <= supply /\ SumTo(after, NumAccounts) - fee + fee < Modulus /\ fee <= fee
  BY <1>1, <1>2, AccountsAssumption
<1>4. /\ bal' \in [Accounts -> Amount] /\ supply' \in Amount /\ burned' \in Amount
      /\ SumTo(bal', NumAccounts) - supply'
           = SumTo(after, NumAccounts) - supply - (fee - fee)
      /\ Native => supply' = supply - fee /\ burned' = Plus(burned, fee)
  BY <1>1, <1>2, <1>3, SettleSum
<1>5. TotalBalance' \in Nat /\ TotalBalance' = SumTo(bal', NumAccounts) /\ supply' \in Nat
  BY <1>4, BalancesSum, AccountsAssumption DEF TotalBalance, Amount
<1>6. TotalHeld' = TotalHeld
  BY DEF TotalHeld
<1>7. TotalBalance' + TotalHeld' = supply'
  BY <1>1, <1>2, <1>4, <1>5, <1>6
<1>8. BurnedIsAccounted'
  BY <1>1, <1>3, <1>4, BurnedStep
<1>9. EscrowTypeOK'
  BY <1>2, <1>4 DEF EscrowTypeOK, AccountsTypeOK
<1>10. \A i \in EscrowIds : Books(escrow[i])'
  BY DEF Books
<1> QED BY <1>7, <1>8, <1>9, <1>10 DEF EscrowMoney, EscrowConserved

(* A step of a recovery other than finish costs at most its fee. *)
LEMMA FeeOnly ==
  ASSUME EscrowMoney, NEW from \in Accounts, NEW fee \in Amount,
         bal[from] >= fee, Settle(bal, supply, from, fee, fee), UNCHANGED <<now, escrow>>
  PROVE  EscrowMoney'
<1>1. bal \in [Accounts -> Amount] /\ SumTo(bal, NumAccounts) = TotalBalance
  BY InvFacts DEF TotalBalance
<1>2. escrow' \in [EscrowIds -> EscrowRecord] /\ \A i \in EscrowIds : Books(escrow'[i])
  BY DEF EscrowMoney, EscrowTypeOK
<1>3. Held' = Held /\ now' = now
  BY DEF Held
<1>4. fee <= bal[from]
  BY <1>1, AccountsAssumption DEF Amount
<1> QED BY <1>1, <1>2, <1>3, <1>4, FeeKeepsMoney

(* moveAccount moves a balance whole. *)
LEMMA MovedBalance ==
  ASSUME EscrowMoney, NEW old \in Accounts, NEW new \in Accounts, old # new
  PROVE  /\ MoveBalance(old, new) \in [Accounts -> Amount]
         /\ SumTo(MoveBalance(old, new), NumAccounts) = TotalBalance
         /\ MoveBalance(old, new)[old] = 0
         /\ \A c \in Accounts \ {old} : MoveBalance(old, new)[c] >= bal[c]
<1> DEFINE v == bal[old]
           without == [bal EXCEPT ![old] = 0]
           b == Credit(bal, new, v)
<1>1. /\ bal \in [Accounts -> Amount] /\ v \in Amount /\ v \in Nat /\ 0 \in Amount /\ Modulus \in Nat
      /\ bal \in [1..NumAccounts -> Nat] /\ NumAccounts \in Nat
      /\ TotalBalance \in Nat /\ TotalBalance < Modulus /\ TotalBalance = SumTo(bal, NumAccounts)
      /\ old \in 1..NumAccounts /\ bal[new] \in Nat
  <2>1. bal \in [Accounts -> Amount]
    BY InvFacts
  <2>2. bal \in [1..NumAccounts -> Nat] /\ NumAccounts \in Nat /\ v \in Nat /\ 0 \in Amount /\ bal[new] \in Nat
    BY <2>1, AccountsAssumption DEF Accounts, Amount
  <2>3. TotalBalance \in Nat /\ TotalBalance < Modulus
    BY InvFacts, AccountsAssumption
  <2> QED BY <2>1, <2>2, <2>3, AccountsAssumption DEF Accounts, TotalBalance
<1>z. PICK z \in Nat : z = 0
  OBVIOUS
<1>2. SumTo(without, NumAccounts) = TotalBalance - v + 0
  <2>1. SumTo([bal EXCEPT ![old] = z], NumAccounts) = SumTo(bal, NumAccounts) - bal[old] + z
    BY <1>1, SumToUpdate
  <2> QED BY <1>1, <1>z, <2>1
<1>3. without \in [Accounts -> Amount] /\ without[new] = bal[new]
  BY <1>1
<1>4. bal[new] <= TotalBalance - v
  <2> HIDE DEF without, v
  <2>1. without[new] <= SumTo(without, NumAccounts)
    BY <1>3, BalancesSum
  <2> QED BY <1>1, <1>2, <1>3, <2>1
<1>5. bal[new] + v < Modulus
  <2> HIDE DEF v
  <2> QED BY <1>1, <1>4
<1>6. /\ b \in [Accounts -> Amount] /\ SumTo(b, NumAccounts) = TotalBalance + v
      /\ \A c \in Accounts : b[c] >= bal[c]
  <2> HIDE DEF v
  <2> QED BY <1>1, <1>5, CreditSum
<1>7. b[old] = v
  BY <1>1 DEF Credit
<1> HIDE DEF b
<1>8. SumTo([b EXCEPT ![old] = 0], NumAccounts) = TotalBalance + v - v + 0
  <2>1. b \in [1..NumAccounts -> Nat]
    BY <1>6, AccountsAssumption DEF Accounts, Amount
  <2>2. SumTo([b EXCEPT ![old] = z], NumAccounts) = SumTo(b, NumAccounts) - b[old] + z
    BY <1>1, <2>1, SumToUpdate
  <2>3. [b EXCEPT ![old] = z] = [b EXCEPT ![old] = 0]
    BY <1>z
  <2> HIDE DEF v
  <2> QED BY <1>1, <1>6, <1>7, <1>z, <2>2, <2>3
<1>9. MoveBalance(old, new) = [b EXCEPT ![old] = 0]
  BY DEF MoveBalance, b
<1> HIDE DEF v
<1> QED BY <1>1, <1>6, <1>8, <1>9

-----------------------------------------------------------------------------
(* The steps of a recovery but finish. *)

LEMMA TimeType == ASSUME EscrowMoney PROVE now \in Nat /\ now \in 0..MaxTime /\ Modulus \in Nat
BY InvFacts, AccountsAssumption

(* The owner names guardians, who are others, while no recovery runs.      *)
LEMMA SetKeeps ==
  ASSUME EscrowMoney, GuardsOK, NEW from \in Accounts, NEW G \in GuardianSets,
         NEW delay \in Delays, NEW fee \in Fees, NEW threshold \in 1..Cardinality(G),
         GuardSet(from, G, threshold, delay, fee), escrow' = escrow
  PROVE  EscrowMoney' /\ GuardsOK' /\ UNCHANGED <<recoveredTo, recoveries>>
<1> DEFINE g == [guardians |-> G, threshold |-> threshold, delay |-> delay, pending |-> NoRecovery]
<1>1. /\ G \subseteq Accounts /\ G # {} /\ IsFiniteSet(G) /\ delay \in Nat /\ delay > 0
      /\ threshold \in Nat
  BY GuardAssumption
<1>2. /\ g.guardians = G /\ g.threshold = threshold /\ g.delay = delay
      /\ g.pending = NoRecovery /\ g \in GuardRecord
  BY <1>1 DEF GuardRecord, RecoveryRecord, NoRecovery
<1>3. /\ guard' = [guard EXCEPT ![from] = g] /\ bal[from] >= fee /\ now' = now
      /\ Settle(bal, supply, from, fee, fee) /\ UNCHANGED <<recoveredTo, recoveries>>
  BY DEF GuardSet, Admissible
<1> HIDE DEF g
<1>4. GuardIs(g, from, now)
  BY <1>1, <1>2 DEF GuardIs
<1>5. fee \in Amount
  BY AccountsAssumption
<1>6. GuardsOK'
  BY <1>3, <1>4, OneGuard
<1>7. EscrowMoney'
  BY <1>3, <1>5, FeeOnly
<1> QED BY <1>3, <1>6, <1>7

(* What start, approve and cancel make of the recovery of an account.      *)
PendingAfter(a, q) ==
  /\ guard' = [guard EXCEPT ![a] = [guard[a] EXCEPT !.pending = q]]
  /\ UNCHANGED <<recoveredTo, recoveries>>

(* Start, approve and cancel leave a good guardianship; their fee is all   *)
(* they take.                                                              *)
LEMMA PendingKeeps ==
  ASSUME EscrowMoney, GuardsOK, NEW from \in Accounts, NEW a \in Accounts, NEW q,
         NEW fee \in FreeFees, GuardTx(from, fee, bal), PendingAfter(a, q), escrow' = escrow,
         GuardIs([guard[a] EXCEPT !.pending = q], a, now)
  PROVE  EscrowMoney' /\ GuardsOK'
<1>1. /\ bal[from] >= fee /\ now' = now /\ Settle(bal, supply, from, fee, fee)
  BY DEF GuardTx, Admissible
<1>2. fee \in Amount
  BY AccountsAssumption
<1>3. EscrowMoney'
  BY <1>1, <1>2, FeeOnly
<1> DEFINE g == [guard[a] EXCEPT !.pending = q]
<1>4. guard' = [guard EXCEPT ![a] = g] /\ GuardIs(g, a, now)
  BY DEF PendingAfter
<1> HIDE DEF g
<1>5. GuardsOK'
  BY <1>1, <1>4, OneGuard
<1> QED BY <1>3, <1>5

(* The first approval of a recovery. *)
LEMMA StartIs ==
  ASSUME GuardsOK, EscrowMoney, NEW from \in Accounts, NEW a \in Accounts,
         NEW newOwner \in Accounts, NEW fee, GuardStart(from, a, newOwner, fee)
  PROVE  \E q : /\ PendingAfter(a, q) /\ GuardTx(from, fee, bal) /\ ~Pending(a)
                /\ GuardIs([guard[a] EXCEPT !.pending = q], a, now)
<1> DEFINE p == [newOwner |-> newOwner, approvals |-> {from}, readyAt |-> 0]
           q == WithQuorum(guard[a], p)
<1>1. /\ newOwner # a /\ from \in guard[a].guardians /\ ~Pending(a) /\ GuardTx(from, fee, bal)
      /\ PendingAfter(a, q)
  BY DEF GuardStart, PendingAfter, GuardsOK
<1>2. p \in RecoveryRecord /\ p.newOwner = newOwner /\ p.approvals = {from} /\ p.readyAt = 0
  BY DEF RecoveryRecord
<1> HIDE DEF p
<1>3. GuardIs(guard[a], a, now) /\ now \in Nat
  BY TimeType DEF GuardsOK
<1> DEFINE g == guard[a]
<1>4. /\ GuardIs(g, a, now) /\ g.guardians # {} /\ p.approvals \subseteq g.guardians
  BY <1>1, <1>2, <1>3
<1> HIDE DEF g
<1>5. GuardIs([g EXCEPT !.pending = WithQuorum(g, p)], a, now)
  BY <1>1, <1>2, <1>3, <1>4, QuorumIs
<1> QED BY <1>1, <1>5 DEF g

(* A further approval of a recovery: the guardian had not approved it, so  *)
(* that a quorum counts each guardian once.                                *)
LEMMA ApproveIs ==
  ASSUME GuardsOK, EscrowMoney, NEW from \in Accounts, NEW a \in Accounts,
         NEW newOwner \in Accounts, NEW fee, GuardApprove(from, a, newOwner, fee)
  PROVE  \E q : /\ PendingAfter(a, q) /\ GuardTx(from, fee, bal) /\ Pending(a)
                /\ GuardIs([guard[a] EXCEPT !.pending = q], a, now)
                /\ q.newOwner = guard[a].pending.newOwner
                /\ guard[a].pending.approvals \subseteq q.approvals
                /\ guard[a].pending.readyAt # 0 => q.readyAt = guard[a].pending.readyAt
<1> DEFINE g == guard[a]
           p == [g.pending EXCEPT !.approvals = g.pending.approvals \cup {from}]
           q == WithQuorum(g, p)
<1>1. /\ from \in g.guardians /\ Pending(a) /\ from \notin g.pending.approvals
      /\ GuardTx(from, fee, bal) /\ PendingAfter(a, q)
  <2>1. /\ from \in g.guardians /\ Pending(a) /\ from \notin g.pending.approvals
        /\ GuardTx(from, fee, bal) /\ UNCHANGED <<recoveredTo, recoveries>>
    BY DEF GuardApprove, Approvals
  <2>2. guard' = [guard EXCEPT ![a] = [guard[a] EXCEPT !.pending = q]]
    BY DEF GuardApprove, GuardsOK
  <2> QED BY <2>1, <2>2 DEF PendingAfter
<1>2. GuardIs(g, a, now) /\ now \in Nat
  BY TimeType DEF GuardsOK
<1>3. g.pending # NoRecovery
  BY <1>1 DEF Pending
<1> HIDE DEF g
<1>4. /\ g.pending \in RecoveryRecord /\ g.guardians \subseteq Accounts /\ IsFiniteSet(g.guardians)
      /\ g.threshold \in Nat /\ g.delay \in Nat
      /\ g.pending.newOwner \in Accounts /\ g.pending.newOwner # a
      /\ g.pending.approvals \subseteq g.guardians
      /\ g.pending.readyAt # 0 <=> Cardinality(g.pending.approvals) >= g.threshold
      /\ g.pending.readyAt # 0 => g.pending.readyAt <= now + g.delay
  BY <1>2, <1>3 DEF GuardIs, GuardRecord
<1>5. /\ p \in RecoveryRecord /\ p.newOwner = g.pending.newOwner
      /\ p.approvals = g.pending.approvals \cup {from} /\ p.readyAt = g.pending.readyAt
  BY <1>4 DEF RecoveryRecord
<1>6. IsFiniteSet(g.pending.approvals) /\ Cardinality(g.pending.approvals) \in Nat
  BY <1>4, FS_Subset, FS_CardinalityType
<1>7. Cardinality(g.pending.approvals \cup {from}) = Cardinality(g.pending.approvals) + 1
  BY <1>1, <1>6, FS_AddElement
<1> HIDE DEF p
<1>8. p.readyAt # 0 => Cardinality(p.approvals) >= g.threshold /\ p.readyAt <= now + g.delay
  BY <1>4, <1>5, <1>6, <1>7
<1>9. p.approvals \subseteq g.guardians /\ g.guardians # {}
  BY <1>1, <1>4, <1>5
<1>10. GuardIs([g EXCEPT !.pending = WithQuorum(g, p)], a, now)
  BY <1>2, <1>4, <1>5, <1>8, <1>9, QuorumIs
<1>11. /\ q.newOwner = p.newOwner /\ q.approvals = p.approvals
       /\ p.readyAt # 0 => q.readyAt = p.readyAt
  BY <1>5 DEF WithQuorum, RecoveryRecord
<1> QED BY <1>1, <1>5, <1>10, <1>11 DEF g, q

(* Cancel takes back a recovery whole. *)
LEMMA CancelIs ==
  ASSUME GuardsOK, NEW from \in Accounts, NEW fee, GuardCancel(from, fee)
  PROVE  /\ PendingAfter(from, NoRecovery) /\ GuardTx(from, fee, bal)
         /\ GuardIs([guard[from] EXCEPT !.pending = NoRecovery], from, now)
<1>1. PendingAfter(from, NoRecovery) /\ GuardTx(from, fee, bal)
  BY DEF GuardCancel, PendingAfter, GuardsOK
<1>2. GuardIs(guard[from], from, now)
  BY DEF GuardsOK
<1> QED BY <1>1, <1>2, ClearedIs

(* No step before finish moves money, a key or a window.                   *)
LEMMA GuardStepKeeps ==
  ASSUME EscrowMoney, GuardsOK, GuardStep, escrow' = escrow
  PROVE  EscrowMoney' /\ GuardsOK' /\ UNCHANGED <<recoveredTo, recoveries>>
<1>1. ASSUME NEW from \in Accounts, NEW G \in GuardianSets, NEW delay \in Delays, NEW fee \in Fees,
             NEW threshold \in 1..Cardinality(G), GuardSet(from, G, threshold, delay, fee)
      PROVE  EscrowMoney' /\ GuardsOK' /\ UNCHANGED <<recoveredTo, recoveries>>
  BY <1>1, SetKeeps
<1>2. ASSUME NEW from \in Accounts, NEW a \in Accounts, NEW newOwner \in Accounts, NEW fee \in FreeFees,
             GuardStart(from, a, newOwner, fee) \/ GuardApprove(from, a, newOwner, fee)
      PROVE  EscrowMoney' /\ GuardsOK' /\ UNCHANGED <<recoveredTo, recoveries>>
  <2>1. PICK q : /\ PendingAfter(a, q) /\ GuardTx(from, fee, bal)
                 /\ GuardIs([guard[a] EXCEPT !.pending = q], a, now)
    BY <1>2, StartIs, ApproveIs
  <2>2. UNCHANGED <<recoveredTo, recoveries>>
    BY <2>1 DEF PendingAfter
  <2> QED BY <2>1, <2>2, PendingKeeps
<1>3. ASSUME NEW from \in Accounts, NEW fee \in FreeFees, GuardCancel(from, fee)
      PROVE  EscrowMoney' /\ GuardsOK' /\ UNCHANGED <<recoveredTo, recoveries>>
  <2>1. /\ PendingAfter(from, NoRecovery) /\ GuardTx(from, fee, bal)
        /\ GuardIs([guard[from] EXCEPT !.pending = NoRecovery], from, now)
    BY <1>3, CancelIs
  <2>2. UNCHANGED <<recoveredTo, recoveries>>
    BY <2>1 DEF PendingAfter
  <2> QED BY <2>1, <2>2, PendingKeeps
<1> QED BY <1>1, <1>2, <1>3 DEF GuardStep

-----------------------------------------------------------------------------
(* Finish: moveAccount over balances, guardians, escrows and seats. *)

Heir(r, old, new) == IF r = old THEN new ELSE r

Inherited(e, old, new) ==
  [e EXCEPT !.buyer = Heir(@, old, new), !.seller = Heir(@, old, new), !.arbiter = Heir(@, old, new)]

(* Roles that were one key stay one key, so the books stay right.          *)
LEMMA MovedBooks ==
  ASSUME NEW e \in EscrowRecord, Books(e), NEW old \in Accounts, NEW new \in Accounts,
         NEW f, f = Inherited(e, old, new)
  PROVE  /\ f \in EscrowRecord /\ Books(f) /\ f.balance = e.balance /\ f.status = e.status
         /\ f.buyer = Heir(e.buyer, old, new) /\ f.seller = Heir(e.seller, old, new)
         /\ f.arbiter = Heir(e.arbiter, old, new)
<1>1. /\ f \in EscrowRecord /\ f.buyer = Heir(e.buyer, old, new)
      /\ f.seller = Heir(e.seller, old, new) /\ f.arbiter = Heir(e.arbiter, old, new)
      /\ f.status = e.status /\ f.milestones = e.milestones /\ f.balance = e.balance
      /\ f.released = e.released /\ f.paidSeller = e.paidSeller /\ f.paidBuyer = e.paidBuyer
      /\ f.arbiterFee = e.arbiterFee /\ f.rate = e.rate
  <2>1. PICK b \in Accounts \cup {NoIssuer} : b = Heir(e.buyer, old, new)
    BY DEF EscrowRecord, Heir
  <2>2. PICK s \in Accounts \cup {NoIssuer} : s = Heir(e.seller, old, new)
    BY DEF EscrowRecord, Heir
  <2>3. PICK a \in Accounts \cup {NoIssuer} : a = Heir(e.arbiter, old, new)
    BY DEF EscrowRecord, Heir
  <2>4. f = [e EXCEPT !.buyer = b, !.seller = s, !.arbiter = a]
    BY <2>1, <2>2, <2>3 DEF Inherited
  <2>5. f \in EscrowRecord
    BY <2>4 DEF EscrowRecord
  <2> QED BY <2>1, <2>2, <2>3, <2>4, <2>5 DEF EscrowRecord
<1>2. /\ {e.buyer, e.seller, e.arbiter} \subseteq Accounts => {f.buyer, f.seller, f.arbiter} \subseteq Accounts
      /\ f.buyer # f.seller => e.buyer # e.seller
  BY <1>1 DEF Heir
<1>3. Books(f)
  BY <1>1, <1>2 DEF Books, Open
<1> QED BY <1>1, <1>3

LEMMA MovedRoles ==
  ASSUME EscrowMoney, NEW old \in Accounts, NEW new \in Accounts, escrow' = MoveRoles(old, new)
  PROVE  /\ escrow' \in [EscrowIds -> EscrowRecord] /\ Held' = Held
         /\ \A i \in EscrowIds :
              /\ Books(escrow'[i])
              /\ escrow'[i].balance = escrow[i].balance /\ escrow'[i].status = escrow[i].status
              /\ escrow'[i].buyer = Heir(escrow[i].buyer, old, new)
              /\ escrow'[i].seller = Heir(escrow[i].seller, old, new)
              /\ escrow'[i].arbiter = Heir(escrow[i].arbiter, old, new)
<1>1. ASSUME NEW i \in EscrowIds
      PROVE  /\ escrow'[i] \in EscrowRecord /\ Books(escrow'[i])
             /\ escrow'[i].balance = escrow[i].balance /\ escrow'[i].status = escrow[i].status
             /\ escrow'[i].buyer = Heir(escrow[i].buyer, old, new)
             /\ escrow'[i].seller = Heir(escrow[i].seller, old, new)
             /\ escrow'[i].arbiter = Heir(escrow[i].arbiter, old, new)
  <2>1. PICK e \in EscrowRecord : e = escrow[i] /\ Books(e)
    BY InvFacts DEF EscrowMoney
  <2>2. PICK f : f = escrow'[i]
    OBVIOUS
  <2>3. f = Inherited(e, old, new)
    BY <2>1, <2>2 DEF MoveRoles, Heir, Inherited
  <2>4. /\ f \in EscrowRecord /\ Books(f) /\ f.balance = e.balance /\ f.status = e.status
        /\ f.buyer = Heir(e.buyer, old, new) /\ f.seller = Heir(e.seller, old, new)
        /\ f.arbiter = Heir(e.arbiter, old, new)
    BY <2>1, <2>3, MovedBooks
  <2> QED BY <2>1, <2>2, <2>4
<1>2. escrow' = [i \in EscrowIds |-> escrow'[i]]
  BY DEF MoveRoles
<1>3. Held' = Held
  BY <1>1 DEF Held
<1> QED BY <1>1, <1>2, <1>3

(* The new key has the old one's guardians, and no recovery of either is   *)
(* left.                                                                   *)
LEMMA MovedGuards ==
  ASSUME GuardsOK, NEW old \in Accounts, NEW new \in Accounts, old # new,
         guard' = MoveGuard(old, new), now' = now
  PROVE  /\ GuardsOK'
         /\ \A c \in Accounts : guard'[c] = guard[c] \/ guard'[c].pending = NoRecovery
<1>1. PICK g : g = guard[old] /\ GuardIs(g, old, now)
  BY DEF GuardsOK
<1>2. PICK h : h = [g EXCEPT !.pending = NoRecovery]
  OBVIOUS
<1>3. GuardIs(h, new, now) /\ GuardIs(NoGuard, old, now)
  BY <1>1, <1>2, ClearedIs, NoGuardIs
<1>4. guard' = [guard EXCEPT ![new] = h, ![old] = NoGuard]
  BY <1>1, <1>2 DEF MoveGuard
<1>5. h \in GuardRecord /\ NoGuard \in GuardRecord
  BY <1>3 DEF GuardIs
<1>6. guard' \in [Accounts -> GuardRecord]
  BY <1>4, <1>5 DEF GuardsOK
<1>7. ASSUME NEW c \in Accounts PROVE GuardIs(guard'[c], c, now)
  BY <1>3, <1>4 DEF GuardsOK
<1>8. h.pending = NoRecovery /\ NoGuard.pending = NoRecovery
  BY <1>1, <1>2 DEF GuardIs, GuardRecord, NoGuard
<1>9. \A c \in Accounts : guard'[c] = guard[c] \/ guard'[c].pending = NoRecovery
  BY <1>4, <1>8 DEF GuardsOK
<1>10. GuardsOK'
  BY <1>6, <1>7 DEF GuardsOK
<1> QED BY <1>9, <1>10

(* A seat is handed over only to a key that has none. *)
LEMMA MovedSeats ==
  ASSUME SeatsHold, NEW old \in Accounts, NEW new \in Accounts, circle' = MoveSeats(old, new)
  PROVE  /\ SeatsHold'
         /\ \A k \in DOMAIN circle.members :
              circle'.members[k] \in {circle.members[k], Heir(circle.members[k], old, new)}
<1>1. PICK c \in CircleRecord : c = circle
  BY DEF SeatsHold
<1>2. /\ \A j, k \in DOMAIN c.members : c.members[j] = c.members[k] => j = k
      /\ \E k \in DOMAIN c.members : c.members[k] = c.creator
      /\ c.members \in Seq(Accounts) /\ c.creator \in Accounts
      /\ \A k \in DOMAIN c.members : c.members[k] \in Accounts
  BY <1>1 DEF SeatsHold, SeatsStayApart, CircleRecord
<1>3. CASE \E k \in DOMAIN c.members : c.members[k] = new
  <2>1. circle' = circle
    BY <1>1, <1>3 DEF MoveSeats
  <2> QED BY <2>1 DEF SeatsHold, SeatsStayApart
<1>4. CASE \A k \in DOMAIN c.members : c.members[k] # new
  <2>1. PICK ms : ms = [k \in DOMAIN c.members |-> Heir(c.members[k], old, new)]
    OBVIOUS
  <2>2. circle' = [members |-> ms, creator |-> Heir(c.creator, old, new)]
    BY <1>1, <1>4, <2>1 DEF MoveSeats, Heir
  <2>3. circle'.members = ms /\ circle'.creator = Heir(c.creator, old, new)
    BY <2>2
  <2>4. DOMAIN c.members = 1..Len(c.members) /\ Len(c.members) \in Nat
    BY <1>2
  <2>5. \A k \in DOMAIN c.members : ms[k] = Heir(c.members[k], old, new) /\ ms[k] \in Accounts
    BY <1>2, <2>1 DEF Heir
  <2>6. DOMAIN ms = DOMAIN c.members
    BY <2>1
  <2>7. ms \in Seq(Accounts)
    <3>1. ms \in [1..Len(c.members) -> Accounts]
      BY <2>1, <2>4, <2>5
    <3> QED BY ONLY <2>4, <3>1
  <2>8. Heir(c.creator, old, new) \in Accounts
    BY <1>2 DEF Heir
  <2>9. circle' \in CircleRecord
    BY <2>2, <2>7, <2>8 DEF CircleRecord
  <2>10. \A j, k \in DOMAIN ms : ms[j] = ms[k] => j = k
    BY <1>2, <1>4, <2>5, <2>6 DEF Heir
  <2>11. \E k \in DOMAIN ms : ms[k] = Heir(c.creator, old, new)
    BY <1>2, <2>5, <2>6
  <2>12. SeatsStayApart'
    BY <2>3, <2>10, <2>11 DEF SeatsStayApart
  <2> QED BY <1>1, <2>3, <2>5, <2>9, <2>12 DEF SeatsHold
<1> QED BY <1>3, <1>4

(* The key a recovery goes to, once its window has passed. *)
LEMMA FinishableFacts ==
  ASSUME EscrowMoney, GuardsOK, NEW a \in Accounts, Finishable(a)
  PROVE  /\ guard[a].pending.newOwner \in Accounts /\ guard[a].pending.newOwner # a
         /\ guard[a].pending.readyAt \in 1..now /\ Pending(a)
<1>1. PICK g : g = guard[a] /\ GuardIs(g, a, now)
  BY DEF GuardsOK
<1>2. now \in Nat
  BY TimeType
<1>3. g.pending # NoRecovery /\ Cardinality(g.pending.approvals) >= g.threshold /\ now >= g.pending.readyAt
  BY <1>1 DEF Finishable, Pending, Approvals
<1>4. g.pending.readyAt \in Nat
  BY <1>1 DEF GuardIs, GuardRecord, RecoveryRecord
<1>5. g.pending.newOwner \in Accounts /\ g.pending.newOwner # a /\ g.pending.readyAt # 0
  BY <1>1, <1>3 DEF GuardIs
<1> QED BY <1>1, <1>2, <1>3, <1>4, <1>5 DEF Finishable

(* Taking no fee leaves the balances as moveAccount made them. *)
LEMMA FreeSettle ==
  ASSUME NEW after \in [Accounts -> Amount], NEW from \in Accounts,
         Settle(after, supply, from, 0, 0)
  PROVE  bal' = after
<1>1. \A c \in Accounts : Minus(after[c], 0) = after[c] /\ Plus(after[c], 0) = after[c]
  BY AccountsAssumption DEF Minus, Plus, Amount
<1>2. [after EXCEPT ![from] = Minus(@, 0)] = after
  BY <1>1
<1>3. Issuer \in Accounts => Credit(after, Issuer, 0) = after
  BY <1>1 DEF Credit
<1> QED BY <1>2, <1>3, AccountsAssumption DEF Settle, Native

(* What finish does, as one fact for the invariant and the action          *)
(* properties.                                                             *)
Finishes(a, new) ==
  /\ Finishable(a) /\ new = guard[a].pending.newOwner /\ new \in Accounts /\ new # a
  /\ recoveries' = recoveries + 1 /\ recoveries < MaxRecoveries
  /\ recoveredTo' = [recoveredTo EXCEPT ![a] = new]
  /\ guard' = MoveGuard(a, new) /\ bal' = MoveBalance(a, new) /\ now' = now
  /\ escrow' = MoveRoles(a, new) /\ circle' = MoveSeats(a, new)

LEMMA FinishKeeps ==
  ASSUME StepsAreFree, EscrowMoney, GuardsOK, Keys, SeatsHold, NEW from \in Accounts, NEW a \in Accounts,
         NEW fee \in FreeFees, RecoveryFinish(from, a, fee)
  PROVE  EscrowMoney' /\ GuardsOK' /\ Keys' /\ SeatsHold' /\ \E new : Finishes(a, new)
<1>1. fee = 0
  BY DEF StepsAreFree
<1>2. PICK new : new = guard[a].pending.newOwner
  OBVIOUS
<1>3. /\ recoveries < MaxRecoveries /\ Finishable(a) /\ guard' = MoveGuard(a, new)
      /\ recoveredTo' = [recoveredTo EXCEPT ![a] = new] /\ recoveries' = recoveries + 1
      /\ Settle(MoveBalance(a, new), supply, from, 0, 0) /\ now' = now
      /\ escrow' = MoveRoles(a, new) /\ circle' = MoveSeats(a, new)
  BY <1>1, <1>2 DEF RecoveryFinish, GuardFinish, GuardTx
<1>4. new \in Accounts /\ new # a
  BY <1>2, <1>3, FinishableFacts
<1>5. /\ MoveBalance(a, new) \in [Accounts -> Amount]
      /\ SumTo(MoveBalance(a, new), NumAccounts) = TotalBalance
  BY <1>4, MovedBalance
<1>6. /\ escrow' \in [EscrowIds -> EscrowRecord] /\ Held' = Held
      /\ \A i \in EscrowIds : Books(escrow'[i])
  BY <1>3, <1>4, MovedRoles
<1>7. PICK after \in [Accounts -> Amount] : after = MoveBalance(a, new)
  BY <1>5
<1>8. EscrowMoney'
  <2>1. 0 \in Amount /\ 0 <= after[from]
    BY AccountsAssumption DEF Amount
  <2>2. SumTo(after, NumAccounts) = TotalBalance /\ Settle(after, supply, from, 0, 0)
    BY <1>3, <1>5, <1>7
  <2>3. PICK z \in Amount : z = 0
    BY <2>1
  <2>4. z <= after[from] /\ Settle(after, supply, from, z, z)
    BY <2>1, <2>2, <2>3
  <2> QED BY <1>3, <1>6, <2>2, <2>4, FeeKeepsMoney
<1>9. bal' = MoveBalance(a, new)
  BY <1>3, <1>7, FreeSettle
<1>10. GuardsOK'
  BY <1>3, <1>4, MovedGuards
<1>11. SeatsHold'
  BY <1>3, <1>4, MovedSeats
<1>12. Keys'
  BY <1>3, <1>4, GuardAssumption DEF Keys
<1> QED BY <1>2, <1>3, <1>4, <1>8, <1>9, <1>10, <1>11, <1>12 DEF Finishes

-----------------------------------------------------------------------------
LEMMA EscrowStepTime == EscrowStep => now' = now
<1>1. ASSUME NEW who, NEW i, NEW fee, NEW after, NEW e, Operate(who, i, fee, after, e)
      PROVE  now' = now
  BY <1>1 DEF Operate
<1>2. ASSUME NEW buyer, NEW seller, NEW arbiter, NEW m, NEW s, NEW r, NEW rate, NEW fee,
             EscrowCreate(buyer, seller, arbiter, m, s, r, rate, fee)
      PROVE  now' = now
  BY <1>2 DEF EscrowCreate
<1>3. ASSUME NEW who, NEW i, NEW fee, NEW v,
             \/ EscrowDispatch(who, i, fee) \/ EscrowRelease(who, i, fee)
             \/ EscrowDispute(who, i, fee)  \/ EscrowResolve(who, i, v, fee)
             \/ EscrowRefund(who, i, fee)   \/ EscrowClaim(who, i, fee)
      PROVE  now' = now
  BY <1>1, <1>3 DEF EscrowDispatch, EscrowRelease, EscrowDispute, EscrowResolve, EscrowRefund,
                    EscrowClaim
<1> QED BY <1>2, <1>3 DEF EscrowStep

LEMMA GuardsWait ==
  ASSUME GuardsOK, guard' = guard, NEW t \in Nat, NEW u \in Nat, t = now, u = now', t <= u
  PROVE  GuardsOK'
<1>1. ASSUME NEW a \in Accounts PROVE GuardIs(guard[a], a, u)
  <2>1. PICK g : g = guard[a] /\ GuardIs(g, a, t)
    BY DEF GuardsOK
  <2> QED BY <2>1, LaterIs
<1> QED BY <1>1 DEF GuardsOK

LEMMA RecoveryStarts == RecoveryInit => RecoveryInv
<1> SUFFICES ASSUME RecoveryInit PROVE EscrowMoney /\ GuardsOK /\ Keys /\ SeatsHold
  BY InvParts
<1>1. EscrowMoney
  BY MoneyAtGenesis DEF RecoveryInit
<1>2. GuardsOK
  <2>1. guard = [a \in Accounts |-> NoGuard]
    BY DEF RecoveryInit, GuardInit
  <2>2. \A a \in Accounts : GuardIs(NoGuard, a, now)
    BY NoGuardIs
  <2> QED BY <2>1, <2>2 DEF GuardsOK, GuardIs
<1>3. Keys
  BY GuardAssumption DEF RecoveryInit, GuardInit, Keys
<1>4. SeatsHold
  BY CirclesAssumption DEF RecoveryInit, SeatsHold, SeatsStayApart
<1> QED BY <1>1, <1>2, <1>3, <1>4

LEMMA RecoveryStep ==
  ASSUME CostNeverWraps, StepsAreFree
  PROVE  RecoveryInv /\ [RecoveryNext]_recoveryEscrowVars => RecoveryInv'
<1> SUFFICES ASSUME RecoveryInv, [RecoveryNext]_recoveryEscrowVars
             PROVE  EscrowMoney' /\ GuardsOK' /\ Keys' /\ SeatsHold'
  BY InvParts, PTL
<1>0. EscrowMoney /\ GuardsOK /\ Keys /\ SeatsHold
  BY InvParts
<1>1. CASE GuardStep /\ UNCHANGED <<escrow, circle>>
  <2>1. EscrowMoney' /\ GuardsOK' /\ UNCHANGED <<recoveredTo, recoveries>>
    BY <1>0, <1>1, GuardStepKeeps
  <2> QED BY <1>0, <1>1, <2>1 DEF Keys, SeatsHold, SeatsStayApart
<1>2. CASE \E from, a \in Accounts, fee \in FreeFees : RecoveryFinish(from, a, fee)
  BY <1>0, <1>2, FinishKeeps
<1>3. CASE EscrowStep /\ UNCHANGED recoveryVars /\ UNCHANGED circle
  <2>1. EscrowMoney'
    BY <1>0, <1>3, MoneyStep
  <2>2. now' = now
    BY <1>3, EscrowStepTime
  <2> QED BY <1>0, <1>3, <2>1, <2>2 DEF recoveryVars, Keys, SeatsHold, SeatsStayApart, GuardsOK
<1>4. CASE Tick /\ UNCHANGED <<guard, recoveredTo, recoveries, escrow, circle>>
  <2>1. now \in Nat /\ now' \in Nat /\ now <= now' /\ now' \in 0..MaxTime
    BY <1>0, <1>4, TimeType, AccountsAssumption DEF Tick
  <2>2. GuardsOK'
    BY <1>0, <1>4, <2>1, GuardsWait
  <2>3. EscrowMoney'
    BY <1>0, <1>4, <2>1, MoneyWaits DEF Tick
  <2> QED BY <1>0, <1>4, <2>2, <2>3 DEF Keys, SeatsHold, SeatsStayApart
<1>5. CASE UNCHANGED recoveryEscrowVars
  <2>1. now' \in 0..MaxTime /\ UNCHANGED <<bal, supply, burned, escrow>>
    BY <1>0, <1>5, TimeType DEF recoveryEscrowVars
  <2>2. EscrowMoney'
    BY <1>0, <2>1, MoneyWaits
  <2> QED BY <1>0, <1>5, <2>2 DEF recoveryEscrowVars, GuardsOK, Keys, SeatsHold, SeatsStayApart
<1> QED BY <1>1, <1>2, <1>3, <1>4, <1>5 DEF RecoveryNext

(* Recoveries started, approved, cancelled and finished in any order, over *)
(* accounts that are parties, guardians and members at once, keep all      *)
(* money, run every safety window exactly from the quorum of the present   *)
(* recovery and leave every seat to one key.                               *)
THEOREM RecoveryKeepsMoney ==
  ASSUME CostNeverWraps, StepsAreFree
  PROVE  RecoverySpec => []RecoveryInv
<1>1. RecoveryInv /\ [RecoveryNext]_recoveryEscrowVars => RecoveryInv'
  BY RecoveryStep
<1> QED BY <1>1, RecoveryStarts, PTL DEF RecoverySpec

-----------------------------------------------------------------------------
(* Every step leaves the recovery and the money of account a as they were, *)
(* changes its recovery within its terms, or is a finish.                  *)
LEMMA FaithOfGuardStep ==
  ASSUME EscrowMoney, GuardsOK, Keys, GuardStep, escrow' = escrow, NEW a \in Accounts
  PROVE  KeepsFaith(a)
<1>0. ~(recoveries' > recoveries)
  <2>1. recoveries' = recoveries /\ recoveries \in Int
    BY GuardStepKeeps, GuardAssumption DEF Keys
  <2> QED BY <2>1
<1>1. ASSUME NEW from \in Accounts, NEW G \in GuardianSets, NEW delay \in Delays, NEW fee \in Fees,
             NEW threshold \in 1..Cardinality(G), GuardSet(from, G, threshold, delay, fee)
      PROVE  KeepsFaith(a)
  <2> DEFINE g == [guardians |-> G, threshold |-> threshold, delay |-> delay, pending |-> NoRecovery]
  <2>1. guard' = [guard EXCEPT ![from] = g] /\ g.pending = NoRecovery
    BY <1>1 DEF GuardSet
  <2> HIDE DEF g
  <2>2. guard'[a] = guard[a] \/ guard'[a].pending = NoRecovery
    BY <2>1 DEF GuardsOK
  <2> QED BY <1>0, <2>2 DEF KeepsFaith
<1>2. ASSUME NEW b \in Accounts, NEW q, PendingAfter(b, q),
             \/ ~Pending(b) \/ q = NoRecovery
             \/ /\ q.newOwner = guard[b].pending.newOwner
                /\ guard[b].pending.approvals \subseteq q.approvals
                /\ guard[b].pending.readyAt # 0 => q.readyAt = guard[b].pending.readyAt
      PROVE  KeepsFaith(a)
  <2>1. PICK g \in GuardRecord : g = guard[b]
    BY DEF GuardsOK
  <2>2. PICK h : h = [g EXCEPT !.pending = q]
    OBVIOUS
  <2>3. h.pending = q /\ h.guardians = g.guardians /\ h.threshold = g.threshold
    BY <2>2 DEF GuardRecord
  <2>4. guard' = [guard EXCEPT ![b] = h]
    BY <1>2, <2>1, <2>2 DEF PendingAfter
  <2>5. CASE a = b
    <3>1. guard'[a] = h /\ guard[a] = g
      BY <2>1, <2>4, <2>5 DEF GuardsOK
    <3>2. (Pending(a) /\ h.pending # NoRecovery) =>
             /\ h.pending.newOwner = g.pending.newOwner
             /\ h.guardians = g.guardians /\ h.threshold = g.threshold
             /\ g.pending.approvals \subseteq h.pending.approvals
             /\ g.pending.readyAt # 0 => h.pending.readyAt = g.pending.readyAt
      BY <1>2, <2>1, <2>3, <2>5
    <3> QED BY <1>0, <3>1, <3>2 DEF KeepsFaith
  <2>6. CASE a # b
    BY <1>0, <2>4, <2>6 DEF KeepsFaith, GuardsOK
  <2> QED BY <2>5, <2>6
<1>3. ASSUME NEW from \in Accounts, NEW b \in Accounts, NEW newOwner \in Accounts, NEW fee \in FreeFees,
             GuardStart(from, b, newOwner, fee) \/ GuardApprove(from, b, newOwner, fee)
      PROVE  KeepsFaith(a)
  <2>1. CASE GuardStart(from, b, newOwner, fee)
    <3>1. PICK q : PendingAfter(b, q) /\ ~Pending(b)
      BY <2>1, StartIs
    <3> QED BY <1>2, <3>1
  <2>2. CASE GuardApprove(from, b, newOwner, fee)
    <3>1. PICK q : /\ PendingAfter(b, q) /\ GuardTx(from, fee, bal) /\ Pending(b)
                   /\ GuardIs([guard[b] EXCEPT !.pending = q], b, now)
                   /\ q.newOwner = guard[b].pending.newOwner
                   /\ guard[b].pending.approvals \subseteq q.approvals
                   /\ guard[b].pending.readyAt # 0 => q.readyAt = guard[b].pending.readyAt
      BY <2>2, ApproveIs
    <3> QED BY <1>2, <3>1
  <2> QED BY <1>3, <2>1, <2>2
<1>4. ASSUME NEW from \in Accounts, NEW fee \in FreeFees, GuardCancel(from, fee)
      PROVE  KeepsFaith(a)
  <2>1. PendingAfter(from, NoRecovery)
    BY <1>4, CancelIs
  <2> QED BY <1>2, <2>1
<1> QED BY <1>1, <1>3, <1>4 DEF GuardStep

LEMMA FaithOfFinish ==
  ASSUME EscrowMoney, GuardsOK, Keys, NEW old \in Accounts, NEW new, Finishes(old, new),
         NEW a \in Accounts
  PROVE  KeepsFaith(a)
<1>1. /\ Finishable(old) /\ new = guard[old].pending.newOwner /\ new \in Accounts /\ old # new
      /\ guard' = MoveGuard(old, new) /\ now' = now /\ bal' = MoveBalance(old, new)
      /\ recoveredTo' = [recoveredTo EXCEPT ![old] = new]
  BY DEF Finishes
<1>2. guard'[a] = guard[a] \/ guard'[a].pending = NoRecovery
  BY <1>1, MovedGuards
<1>3. bal'[old] = 0 /\ \A c \in Accounts \ {old} : bal'[c] >= bal[c] /\ bal' \in [Accounts -> Amount]
  BY <1>1, MovedBalance
<1>4. guard[old].pending.readyAt \in 1..now /\ Pending(old)
  BY <1>1, FinishableFacts
<1>5. bal \in [Accounts -> Amount]
  BY InvFacts
<1>6. CASE a = old
  <2>1. recoveredTo'[a] = guard[a].pending.newOwner
    BY <1>1, <1>6 DEF Keys
  <2> QED BY <1>2, <1>3, <1>4, <1>6, <2>1 DEF KeepsFaith
<1>7. CASE a # old
  <2>1. ~(bal'[a] < bal[a])
    BY <1>3, <1>5, <1>7, AccountsAssumption DEF Amount
  <2> QED BY <1>2, <2>1 DEF KeepsFaith
<1> QED BY <1>6, <1>7

(* Every step keeps faith with account a. *)
LEMMA StepKeepsFaith ==
  ASSUME StepsAreFree, RecoveryInv, [RecoveryNext]_recoveryEscrowVars, NEW a \in Accounts
  PROVE  KeepsFaith(a)
<1>1. EscrowMoney /\ GuardsOK /\ Keys /\ SeatsHold
  BY InvParts
<1>2. ASSUME UNCHANGED <<guard, recoveries>> PROVE KeepsFaith(a)
  <2>1. recoveries \in Int
    BY <1>1, GuardAssumption DEF Keys
  <2>2. ~(recoveries' > recoveries)
    BY <1>2, <2>1
  <2>3. guard'[a] = guard[a]
    BY <1>2
  <2> QED BY <2>2, <2>3 DEF KeepsFaith
<1>3. CASE GuardStep /\ UNCHANGED <<escrow, circle>>
  BY <1>1, <1>3, FaithOfGuardStep
<1>4. ASSUME NEW from \in Accounts, NEW old \in Accounts, NEW fee \in FreeFees,
             RecoveryFinish(from, old, fee)
      PROVE  KeepsFaith(a)
  <2>1. PICK new : Finishes(old, new)
    BY <1>1, <1>4, FinishKeeps
  <2> QED BY <1>1, <2>1, FaithOfFinish
<1>5. CASE EscrowStep /\ UNCHANGED recoveryVars /\ UNCHANGED circle
  BY <1>2, <1>5 DEF recoveryVars
<1>6. CASE Tick /\ UNCHANGED <<guard, recoveredTo, recoveries, escrow, circle>>
  BY <1>2, <1>6
<1>7. CASE UNCHANGED recoveryEscrowVars
  BY <1>2, <1>7 DEF recoveryEscrowVars
<1> QED BY <1>3, <1>4, <1>5, <1>6, <1>7 DEF RecoveryNext

(* What a guardian approved is what finish carries out: the key and the    *)
(* quorum rule of a pending recovery are fixed, its approvals only         *)
(* accumulate and its window does not restart; and the money of an account *)
(* leaves it without its own transaction only after the window.            *)
THEOREM RecoveryHonoursApprovals ==
  ASSUME CostNeverWraps, StepsAreFree
  PROVE  RecoverySpec => RecoveryKeepsFaith
<1>1. RecoveryInv /\ [RecoveryNext]_recoveryEscrowVars
        => [\A a \in Accounts : KeepsFaith(a)]_guardVars
  BY StepKeepsFaith
<1> QED BY <1>1, RecoveryKeepsMoney, PTL DEF RecoverySpec, RecoveryKeepsFaith

-----------------------------------------------------------------------------
(* A finish leaves each role and seat where it was, or gives it to the     *)
(* heir of a recovery out of its window.                                   *)
LEMMA FinishInherits ==
  ASSUME Keys, NEW old \in Accounts, NEW new, Finishes(old, new), NEW k
  PROVE  Inherits(k, k) /\ Inherits(k, Heir(k, old, new))
<1>1. Finishable(old) /\ new = guard[old].pending.newOwner /\ recoveredTo'[old] = new
  BY DEF Finishes, Keys
<1> QED BY <1>1 DEF Inherits, Heir

LEMMA RolesAtFinish ==
  ASSUME EscrowMoney, Keys, SeatsHold, NEW old \in Accounts, NEW new, Finishes(old, new)
  PROVE  (\A i \in EscrowIds : KeepsRoles(i)) /\ KeepsSeats
<1>1. /\ new \in Accounts /\ escrow' = MoveRoles(old, new) /\ circle' = MoveSeats(old, new)
  BY DEF Finishes
<1>2. ASSUME NEW i \in EscrowIds PROVE KeepsRoles(i)
  <2>1. /\ escrow'[i].balance = escrow[i].balance /\ escrow'[i].status = escrow[i].status
        /\ escrow'[i].buyer = Heir(escrow[i].buyer, old, new)
        /\ escrow'[i].seller = Heir(escrow[i].seller, old, new)
        /\ escrow'[i].arbiter = Heir(escrow[i].arbiter, old, new)
    BY <1>1, MovedRoles
  <2>2. \A k : Inherits(k, Heir(k, old, new))
    BY FinishInherits
  <2> QED BY <2>1, <2>2 DEF KeepsRoles
<1>3. KeepsSeats
  <2>1. \A k \in DOMAIN circle.members :
           circle'.members[k] \in {circle.members[k], Heir(circle.members[k], old, new)}
    BY <1>1, MovedSeats
  <2>2. \A k : Inherits(k, k) /\ Inherits(k, Heir(k, old, new))
    BY FinishInherits
  <2> QED BY <2>1, <2>2 DEF KeepsSeats
<1> QED BY <1>2, <1>3

LEMMA StepKeepsRoles ==
  ASSUME StepsAreFree, RecoveryInv, [RecoveryNext]_recoveryEscrowVars
  PROVE  (\A i \in EscrowIds : KeepsRoles(i)) /\ KeepsSeats
<1>1. EscrowMoney /\ GuardsOK /\ Keys /\ SeatsHold
  BY InvParts
<1>2. ASSUME recoveries' = recoveries
      PROVE  ~(recoveries' > recoveries)
  BY <1>1, <1>2, GuardAssumption DEF Keys
<1>3. ASSUME recoveries' = recoveries, circle' = circle,
             \A i \in EscrowIds : Open(escrow[i]) => SameParties(escrow[i], escrow'[i])
      PROVE  (\A i \in EscrowIds : KeepsRoles(i)) /\ KeepsSeats
  BY <1>2, <1>3 DEF KeepsRoles, KeepsSeats, Inherits, SameParties
<1>4. ASSUME recoveries' = recoveries, circle' = circle, escrow' = escrow
      PROVE  (\A i \in EscrowIds : KeepsRoles(i)) /\ KeepsSeats
  BY <1>3, <1>4 DEF SameParties
<1>5. CASE GuardStep /\ UNCHANGED <<escrow, circle>>
  BY <1>1, <1>4, <1>5, GuardStepKeeps
<1>6. ASSUME NEW from \in Accounts, NEW old \in Accounts, NEW fee \in FreeFees,
             RecoveryFinish(from, old, fee)
      PROVE  (\A i \in EscrowIds : KeepsRoles(i)) /\ KeepsSeats
  <2>1. PICK new : Finishes(old, new)
    BY <1>1, <1>6, FinishKeeps
  <2> QED BY <1>1, <2>1, RolesAtFinish
<1>7. CASE EscrowStep /\ UNCHANGED recoveryVars /\ UNCHANGED circle
  <2>1. ASSUME NEW i \in EscrowIds, Open(escrow[i]) PROVE SameParties(escrow[i], escrow'[i])
    <3>1. KeepsParties(i)
      BY <1>1, <1>7, StepKeepsParties
    <3>2. escrow[i].status # "none"
      BY <2>1 DEF Open, OpenStatus
    <3> QED BY <3>1, <3>2 DEF KeepsParties, SameParties
  <2> QED BY <1>3, <1>7, <2>1 DEF recoveryVars
<1>8. CASE Tick /\ UNCHANGED <<guard, recoveredTo, recoveries, escrow, circle>>
  BY <1>4, <1>8
<1>9. CASE UNCHANGED recoveryEscrowVars
  BY <1>4, <1>9 DEF recoveryEscrowVars
<1> QED BY <1>5, <1>6, <1>7, <1>8, <1>9 DEF RecoveryNext

(* A role in an open escrow, or a seat in a circle, leaves its holder only *)
(* by the finish of a recovery of that holder, out of its window, and goes *)
(* to the approved key.                                                    *)
THEOREM RolesFollowRecovery ==
  ASSUME CostNeverWraps, StepsAreFree
  PROVE  RecoverySpec => RolesMoveByRecovery
<1>1. RecoveryInv /\ [RecoveryNext]_recoveryEscrowVars
        => [(\A i \in EscrowIds : KeepsRoles(i)) /\ KeepsSeats]_recoveryEscrowVars
  BY StepKeepsRoles
<1> QED BY <1>1, RecoveryKeepsMoney, PTL DEF RecoverySpec, RolesMoveByRecovery
=============================================================================
