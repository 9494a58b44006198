------------------------------ MODULE Accounts ------------------------------
(***************************************************************************)
(* The account layer of the ledger (node/ledger/ledger.go): balances, the  *)
(* supply counters and the envelope every transaction goes through in      *)
(* State.apply, with the three rules that touch nothing else: transfer,    *)
(* mint and burn.                                                          *)
(*                                                                         *)
(* The module is the ledger projected on ONE asset.  A transaction pays    *)
(* its amount and its fee in a single asset and every rule refuses an      *)
(* object kept in another one, so the projections do not interact.  Issuer *)
(* = NoIssuer is the projection on ORP, whose fees are burned; any other   *)
(* Issuer is the projection on an issued asset, whose fees the issuer      *)
(* receives.  Nonces order one sender's transactions and are read by no    *)
(* rule: they are the subject of module Chain.                             *)
(*                                                                         *)
(* Amounts are uint64 in the code.  Modulus stands for 2^64, and Plus and  *)
(* Minus wrap exactly where the code's additions and subtractions would.   *)
(***************************************************************************)
EXTENDS Integers, Sums

CONSTANTS NumAccounts, \* addresses that occur
          Modulus,     \* 2^64 in the code
          Issuer,      \* the asset's issuer, NoIssuer for ORP
          MinFee,      \* genesis min_fee of the asset
          Fees,        \* fees senders attach where a fee is required
          FreeFees,    \* fees senders attach where none is required
          Amounts,     \* amounts senders choose
          Genesis,     \* balances at the start
          MaxTime      \* bound on the block clock

NoIssuer == 0
Accounts == 1..NumAccounts
Amount   == 0..(Modulus - 1)
Native   == Issuer = NoIssuer

ASSUME AccountsAssumption ==
  /\ NumAccounts \in Nat
  /\ Modulus \in Nat \ {0}
  /\ Issuer \in Accounts \cup {NoIssuer}
  /\ MinFee \in Amount
  /\ Fees \subseteq Amount
  /\ FreeFees \subseteq Amount
  /\ Amounts \subseteq Amount
  /\ Genesis \in [Accounts -> Amount]
  /\ SumTo(Genesis, NumAccounts) < Modulus   \* State.Credit refuses the rest
  /\ MaxTime \in Nat

VARIABLES bal,     \* Account.Balance, or Account.Assets[asset]
          supply,  \* State.Supply, or State.AssetSupply[asset]
          burned,  \* State.Burned
          now      \* State.Now, the time of the block being executed

accountVars == <<bal, supply, burned, now>>

Plus(x, y)  == (x + y) % Modulus
Minus(x, y) == (x - y) % Modulus

AccountsInit ==
  /\ bal = Genesis
  /\ supply = SumTo(Genesis, NumAccounts)
  /\ burned = 0
  /\ now = 0

(* State.credit: no overflow check of its own. *)
Credit(b, a, v) == [b EXCEPT ![a] = Plus(@, v)]

(* What apply demands of the sender before it looks at the rule. *)
Admissible(from, fee, cost, feeFree) ==
  /\ feeFree \/ fee >= MinFee
  /\ bal[from] >= cost

(* Mutant of Settle: the fee is taken on top of a cost that contains it. *)
SettleFeeTwice(after, sup, from, cost, fee) ==
  LET debited == [after EXCEPT ![from] = @ - cost - fee]
  IN  IF Native
      THEN bal' = debited /\ supply' = Minus(sup, fee) /\ burned' = Plus(burned, fee)
      ELSE bal' = Credit(debited, Issuer, fee) /\ supply' = sup /\ UNCHANGED burned

(* What apply does once the rule accepted: the rule's effect came first and *)
(* left the balances "after" and the supply "sup"; then the cost is taken   *)
(* from the sender's balance as it is by now, and the fee is disposed of.   *)
Settle(after, sup, from, cost, fee) ==
  LET debited == [after EXCEPT ![from] = Minus(@, cost)]
  IN  IF Native
      THEN /\ bal' = debited
           /\ supply' = Minus(sup, fee)
           /\ burned' = Plus(burned, fee)
      ELSE /\ bal' = Credit(debited, Issuer, fee)
           /\ supply' = sup
           /\ UNCHANGED burned

Transfer(from, to, amount, fee) ==
  /\ from # to /\ amount > 0 /\ amount + fee < Modulus      \* checkTransfer
  /\ Admissible(from, fee, Plus(amount, fee), FALSE)
  /\ bal[to] + amount < Modulus                             \* ErrOverflow
  /\ Settle(Credit(bal, to, amount), supply, from, Plus(amount, fee), fee)
  /\ UNCHANGED now

(* A mint carries no fee and costs its sender nothing. *)
Mint(from, to, amount) ==
  /\ ~Native /\ amount > 0                                  \* checkMint
  /\ from = Issuer
  /\ supply + amount < Modulus                              \* ErrOverflow
  /\ Settle(Credit(bal, to, amount), Plus(supply, amount), from, 0, 0)
  /\ UNCHANGED now

Burn(from, amount, fee) ==
  /\ ~Native /\ amount > 0 /\ amount + fee < Modulus        \* checkBurn
  /\ Admissible(from, fee, Plus(amount, fee), FALSE)
  /\ Settle(bal, Minus(supply, amount), from, Plus(amount, fee), fee)
  /\ UNCHANGED now

(* A later block: its time is past the time of the block before it. *)
Tick ==
  /\ now < MaxTime
  /\ now' = now + 1
  /\ UNCHANGED <<bal, supply, burned>>

AccountsNext ==
  \/ \E from, to \in Accounts, amount \in Amounts :
       \/ Mint(from, to, amount)
       \/ \E fee \in Fees : Transfer(from, to, amount, fee)
  \/ \E from \in Accounts, amount \in Amounts, fee \in Fees : Burn(from, amount, fee)
  \/ Tick

AccountsSpec == AccountsInit /\ [][AccountsNext]_accountVars

(* The counters and balances of State stay within the width of the amount  *)
(* type, and the height of the block is a natural number.                  *)
AccountsTypeOK ==
  /\ bal \in [Accounts -> Amount]
  /\ supply \in Amount
  /\ burned \in Amount
  /\ now \in 0..MaxTime

(* What all accounts hold together. *)
TotalBalance == SumTo(bal, NumAccounts)

(* The supply counter is what the accounts hold: the comment on            *)
(* State.Supply, for a ledger without pools and escrows.  It fails as soon *)
(* as a credit wraps or a fee is taken from one counter and not the other. *)
SupplyIsHeld == TotalBalance = supply

(* Burning a fee moves it from one counter to the other: what was burned   *)
(* and what is left of ORP is what genesis allocated.                      *)
BurnedIsAccounted == Native => supply + burned = SumTo(Genesis, NumAccounts)

(* No transfer, mint or burn makes or loses a unit and no amount wraps.    *)
(* This is the inductive invariant: each conjunct needs the others,        *)
(* because only a balance bounded by the supply is safe from wrapping.     *)
AccountsInv == AccountsTypeOK /\ SupplyIsHeld /\ BurnedIsAccounted
=============================================================================
