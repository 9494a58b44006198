------------------------------ MODULE Gateway -------------------------------
(***************************************************************************)
(* The NGN gateway (apps/gateway: main.go, provider.go): deposits that     *)
(* become minted NGN, withdrawals that burn NGN and pay naira, refunds.    *)
(*                                                                         *)
(* Three goroutines matter.  The watcher visits withdrawals one after the  *)
(* other, a webhook may settle a failed payout at the same time, and       *)
(* settleDeposit is called by both and by getDeposit; mintMu lets one of   *)
(* them at a time decide about a mint.  deposits.json and withdrawals.json *)
(* are written atomically with every change.  The payment provider and the *)
(* node are external: they answer truthfully unless faults says otherwise. *)
(* An amount is one unit, and the withdrawal fee is left out.              *)
(***************************************************************************)
EXTENDS Integers, FiniteSets

CONSTANTS Deposits,     \* deposit references
          Withdrawals,  \* withdrawal ids
          FaultSets,    \* what may go wrong together, see FaultKinds
          MaxCrashes,   \* bound on crashes of the gateway
          MaxMints      \* bound on mints of one reference

FaultKinds == {"crash",      \* the gateway dies between two of its steps
               "refused",    \* the node does not take a mint
               "lostReply",  \* a call took effect but its answer is lost
               "lostTx",     \* a mint the node took never reaches a block
               "slowNode",   \* a mint is not in a block when next looked for
               "noHistory",  \* History fails
               "badStatus"}  \* PayoutStatus fails though the payout exists

Ids  == Deposits \cup Withdrawals
NoId == 0

ASSUME GatewayAssumption ==
  /\ Ids \subseteq Nat \ {NoId} /\ IsFiniteSet(Ids)
  /\ Deposits \cap Withdrawals = {}
  /\ FaultSets \subseteq SUBSET FaultKinds
  /\ MaxCrashes \in Nat /\ MaxMints \in Nat

VARIABLES charge,   \* the collection at the provider
          dep,      \* Deposit.Status
          overdue,  \* the deposit is more than 48 hours old
          burned,   \* the withdrawal's burn is on-chain
          payout,   \* the payout at the provider
          wd,       \* Withdrawal.Status
          age,      \* of a withdrawal: fresh, 30 minutes, 7 days
          mints,    \* a reference's mints in the node's mempool and on-chain
          job,      \* what each goroutine is in the middle of
          crashes,  \* crashes so far
          faults    \* what may go wrong in this behaviour; never changes

gatewayVars == <<charge, dep, overdue, burned, payout, wd, age, mints, job, crashes, faults>>

Goroutines == {"settler", "watcher", "hook"}
Idle       == [id |-> NoId, step |-> "idle"]
At(k, step)     == job[k].step = step
Goto(id, step)  == [id |-> id, step |-> step]

GatewayInit ==
  /\ charge = [d \in Deposits |-> "open"]
  /\ dep = [d \in Deposits |-> "none"]
  /\ overdue = [d \in Deposits |-> FALSE]
  /\ burned = [w \in Withdrawals |-> FALSE]
  /\ payout = [w \in Withdrawals |-> "none"]
  /\ wd = [w \in Withdrawals |-> "none"]
  /\ age = [w \in Withdrawals |-> "fresh"]
  /\ mints = [id \in Ids |-> [pending |-> 0, done |-> 0]]
  /\ job = [k \in Goroutines |-> Idle]
  /\ crashes = 0
  /\ faults \in FaultSets

-----------------------------------------------------------------------------
(* The world: customers, the provider, the clock, the node.                *)

Charge(d) ==
  /\ dep[d] # "none" /\ charge[d] = "open"
  /\ \E st \in {"paid", "short", "failed"} : charge' = [charge EXCEPT ![d] = st]
  /\ UNCHANGED <<dep, overdue, burned, payout, wd, age, mints, job, crashes, faults>>

PayoutSettles(w) ==
  /\ payout[w] = "pending"
  /\ \E st \in {"success", "failed"} : payout' = [payout EXCEPT ![w] = st]
  /\ UNCHANGED <<charge, dep, overdue, burned, wd, age, mints, job, crashes, faults>>

(* The wallet's burn, with the memo that createWithdrawal returned. *)
Burn(w) ==
  /\ wd[w] # "none" /\ ~burned[w]
  /\ burned' = [burned EXCEPT ![w] = TRUE]
  /\ UNCHANGED <<charge, dep, overdue, payout, wd, age, mints, job, crashes, faults>>

DepositAges(d) ==
  /\ dep[d] # "none" /\ ~overdue[d]
  /\ overdue' = [overdue EXCEPT ![d] = TRUE]
  /\ UNCHANGED <<charge, dep, burned, payout, wd, age, mints, job, crashes, faults>>

WithdrawalAges(w) ==
  /\ wd[w] # "none" /\ age[w] # "closed"
  /\ age' = [age EXCEPT ![w] = IF @ = "fresh" THEN "stale" ELSE "closed"]
  /\ UNCHANGED <<charge, dep, overdue, burned, payout, wd, mints, job, crashes, faults>>

NodeCommits(id) ==
  /\ mints[id].pending > 0
  /\ mints' = [mints EXCEPT ![id].pending = @ - 1, ![id].done = @ + 1]
  /\ UNCHANGED <<charge, dep, overdue, burned, payout, wd, age, job, crashes, faults>>

NodeLoses(id) ==
  /\ "lostTx" \in faults /\ mints[id].pending > 0
  /\ mints' = [mints EXCEPT ![id].pending = @ - 1]
  /\ UNCHANGED <<charge, dep, overdue, burned, payout, wd, age, job, crashes, faults>>

-----------------------------------------------------------------------------
CreateDeposit(d) ==
  /\ dep[d] = "none"
  /\ dep' = [dep EXCEPT ![d] = "pending"]
  /\ UNCHANGED <<charge, overdue, burned, payout, wd, age, mints, job, crashes, faults>>

CreateWithdrawal(w) ==
  /\ wd[w] = "none"
  /\ wd' = [wd EXCEPT ![w] = "awaiting_burn"]
  /\ UNCHANGED <<charge, dep, overdue, burned, payout, age, mints, job, crashes, faults>>

(* mintMu is held from the search for an earlier mint to the record of the *)
(* new one.                                                                *)
MintMuFree == \A k \in Goroutines : job[k].step \notin {"absent", "submitted"}

(* A node in time has committed or lost a mint before the reference is     *)
(* looked for again.                                                       *)
InTime(id) == mints[id].pending = 0 \/ "slowNode" \in faults

(* Mutant of Found: no search for an earlier mint. *)
FoundNever(id) == {FALSE}

(* findMint: what History shows; an error reads as "no such mint".         *)
Found(id) == {mints[id].done > 0} \cup IF "noHistory" \in faults THEN {FALSE} ELSE {}

(* Mutant of Collected: the amount received is not compared. *)
CollectedAny(d) == charge[d] \in {"paid", "short"}

(* The provider reports success and no less than the amount to mint. *)
Collected(d) == charge[d] = "paid"

(* settleDeposit up to the mint.  A paid charge stays paid, so asking the  *)
(* provider and searching the history are one step.                        *)
Settle(d) ==
  /\ MintMuFree /\ dep[d] = "pending" /\ InTime(d)
  /\ \/ /\ \/ charge[d] \in {"failed", "short"}
           \/ charge[d] = "open" /\ overdue[d]
        /\ dep' = [dep EXCEPT ![d] = "failed"]
        /\ UNCHANGED job
     \/ /\ Collected(d)
        /\ \E found \in Found(d) :
             IF found THEN dep' = [dep EXCEPT ![d] = "minted"] /\ UNCHANGED job
                      ELSE /\ job' = [job EXCEPT !["settler"] = Goto(d, "absent")]
                           /\ UNCHANGED dep
  /\ UNCHANGED <<charge, overdue, burned, payout, wd, age, mints, crashes, faults>>

(* SignAndSubmit of the mint: the node takes it, and if the answer is lost *)
(* the caller sees an error and gives up, as when the node refuses.  The   *)
(* watcher then goes on with its round.                                    *)
SubmitMint(k) ==
  LET id == job[k].id IN
  /\ At(k, "absent") /\ mints[id].pending + mints[id].done < MaxMints
  /\ mints' = [mints EXCEPT ![id].pending = @ + 1]
  /\ \/ job' = [job EXCEPT ![k] = Goto(id, "submitted")]
     \/ "lostReply" \in faults /\ job' = [job EXCEPT ![k] = Idle]
  /\ UNCHANGED <<charge, dep, overdue, burned, payout, wd, age, crashes, faults>>

(* Mutant of MintRefused: the error is not followed by a return. *)
RefusedIsRecorded(k) ==
  /\ "refused" \in faults /\ At(k, "absent")
  /\ job' = [job EXCEPT ![k] = Goto(job[k].id, "submitted")]
  /\ UNCHANGED <<charge, dep, overdue, burned, payout, wd, age, mints, crashes, faults>>

MintRefused(k) ==
  /\ "refused" \in faults /\ At(k, "absent")
  /\ job' = [job EXCEPT ![k] = Idle]
  /\ UNCHANGED <<charge, dep, overdue, burned, payout, wd, age, mints, crashes, faults>>

(* WaitCommitted returned or gave up: either way the deposit is minted. *)
RecordMint ==
  LET d == job["settler"].id IN
  /\ At("settler", "submitted") /\ InTime(d)
  /\ dep' = [dep EXCEPT ![d] = "minted"]
  /\ job' = [job EXCEPT !["settler"] = Idle]
  /\ UNCHANGED <<charge, overdue, burned, payout, wd, age, mints, crashes, faults>>

-----------------------------------------------------------------------------
(* Mutant of BurnFound: an open quote is paid without its burn. *)
BurnAssumed(w) == wd[w] = "awaiting_burn"

(* processWithdrawals.  A burn is matched by memo, asset and exact amount,  *)
(* within seven days of the quote.                                         *)
BurnFound(w) == burned[w]

Expire(w) ==
  /\ At("watcher", "idle") /\ wd[w] = "awaiting_burn" /\ ~BurnFound(w) /\ age[w] # "fresh"
  /\ wd' = [wd EXCEPT ![w] = "expired"]
  /\ UNCHANGED <<charge, dep, overdue, burned, payout, age, mints, job, crashes, faults>>

MarkProcessing(w) ==
  /\ At("watcher", "idle") /\ BurnFound(w)
  /\ wd[w] = "awaiting_burn" \/ (wd[w] = "expired" /\ age[w] # "closed")
  /\ wd' = [wd EXCEPT ![w] = "processing"]
  /\ job' = [job EXCEPT !["watcher"] = Goto(w, "pay")]
  /\ UNCHANGED <<charge, dep, overdue, burned, payout, age, mints, crashes, faults>>

(* Payout: the provider starts the transfer, or answers that it cannot.    *)
Payout ==
  LET w == job["watcher"].id IN
  /\ At("watcher", "pay")
  /\ \E st \in {"none", "pending", "success", "failed"}, lost \in BOOLEAN :
       /\ lost => "lostReply" \in faults
       /\ payout' = [payout EXCEPT ![w] = st]
       /\ job' = [job EXCEPT !["watcher"] =
                    CASE lost \/ st \in {"none", "failed"} -> Goto(w, "check")
                      [] ~lost /\ st = "success"           -> Goto(w, "paid")
                      [] ~lost /\ st = "pending"           -> Idle]
  /\ UNCHANGED <<charge, dep, overdue, burned, wd, age, mints, crashes, faults>>

(* The withdrawal's provider is no longer configured. *)
NoProvider ==
  /\ At("watcher", "pay")
  /\ job' = [job EXCEPT !["watcher"].step = "refund"]
  /\ UNCHANGED <<charge, dep, overdue, burned, payout, wd, age, mints, crashes, faults>>

RecordPaid ==
  LET w == job["watcher"].id IN
  /\ At("watcher", "paid")
  /\ wd' = [wd EXCEPT ![w] = "paid"]
  /\ job' = [job EXCEPT !["watcher"] = Idle]
  /\ UNCHANGED <<charge, dep, overdue, burned, payout, age, mints, crashes, faults>>

(* The in-flight list is made at the start of a round; the withdrawal may  *)
(* be settled by a webhook before the watcher gets to it.                  *)
ListInFlight(w) ==
  /\ At("watcher", "idle") /\ wd[w] = "processing"
  /\ job' = [job EXCEPT !["watcher"] = Goto(w, "poll")]
  /\ UNCHANGED <<charge, dep, overdue, burned, payout, wd, age, mints, crashes, faults>>

(* PayoutStatus: an error when there is no payout. *)
Reported(w) ==
  {IF payout[w] = "none" THEN "error" ELSE payout[w]}
    \cup IF "badStatus" \in faults THEN {"error"} ELSE {}

(* Mutant of Poll: only a success is acted on. *)
PollIgnoresFailed ==
  LET w == job["watcher"].id IN
  /\ At("watcher", "poll")
  /\ \E st \in Reported(w) :
       job' = [job EXCEPT !["watcher"] = IF st = "success" THEN Goto(w, "paid") ELSE Idle]
  /\ UNCHANGED <<charge, dep, overdue, burned, payout, wd, age, mints, crashes, faults>>

Poll ==
  LET w == job["watcher"].id IN
  /\ At("watcher", "poll")
  /\ \E st \in Reported(w) :
       job' = [job EXCEPT !["watcher"] = CASE st = "success" -> Goto(w, "paid")
                                           [] st = "failed"  -> Goto(w, "refund")
                                           [] OTHER          -> Idle]
  /\ UNCHANGED <<charge, dep, overdue, burned, payout, wd, age, mints, crashes, faults>>

(* Mutant of SettleFailedPayout: refunds without asking. *)
RefundAtOnce(k) ==
  /\ At(k, "check")
  /\ job' = [job EXCEPT ![k] = Goto(job[k].id, "refund")]
  /\ UNCHANGED <<charge, dep, overdue, burned, payout, wd, age, mints, crashes, faults>>

(* settleFailedPayout: refund unless a live payout is reported. *)
SettleFailedPayout(k) ==
  LET w == job[k].id IN
  /\ At(k, "check")
  /\ \E st \in Reported(w) :
       job' = [job EXCEPT ![k] = IF st \in {"error", "failed"} THEN Goto(w, "refund") ELSE Idle]
  /\ UNCHANGED <<charge, dep, overdue, burned, payout, wd, age, mints, crashes, faults>>

Refund(k) ==
  LET w == job[k].id IN
  /\ At(k, "refund") /\ MintMuFree /\ InTime(w)
  /\ IF wd[w] \in {"refunded", "paid"}
     THEN job' = [job EXCEPT ![k] = Idle] /\ UNCHANGED wd
     ELSE \E found \in Found(w) :
            IF found
            THEN /\ wd' = [wd EXCEPT ![w] = "refunded"]
                 /\ job' = [job EXCEPT ![k] = Idle]
            ELSE job' = [job EXCEPT ![k] = Goto(w, "absent")] /\ UNCHANGED wd
  /\ UNCHANGED <<charge, dep, overdue, burned, payout, age, mints, crashes, faults>>

(* A refund does not wait for its mint to be committed. *)
RecordRefund(k) ==
  LET w == job[k].id IN
  /\ k # "settler" /\ At(k, "submitted")
  /\ wd' = [wd EXCEPT ![w] = "refunded"]
  /\ job' = [job EXCEPT ![k] = Idle]
  /\ UNCHANGED <<charge, dep, overdue, burned, payout, age, mints, crashes, faults>>

-----------------------------------------------------------------------------
(* webhook, delivered late, more than once or never. *)
HookSuccess(w) ==
  /\ payout[w] = "success" /\ wd[w] = "processing"
  /\ wd' = [wd EXCEPT ![w] = "paid"]
  /\ UNCHANGED <<charge, dep, overdue, burned, payout, age, mints, job, crashes, faults>>

HookFailed(w) ==
  /\ payout[w] = "failed" /\ At("hook", "idle")
  /\ job' = [job EXCEPT !["hook"] = Goto(w, "check")]
  /\ UNCHANGED <<charge, dep, overdue, burned, payout, wd, age, mints, crashes, faults>>

Crash ==
  /\ "crash" \in faults /\ crashes < MaxCrashes
  /\ \E k \in Goroutines : job[k] # Idle
  /\ crashes' = crashes + 1
  /\ job' = [k \in Goroutines |-> Idle]
  /\ UNCHANGED <<charge, dep, overdue, burned, payout, wd, age, mints, faults>>

GatewayNext ==
  \/ \E d \in Deposits : CreateDeposit(d) \/ Charge(d) \/ DepositAges(d) \/ Settle(d)
  \/ \E id \in Ids : NodeCommits(id) \/ NodeLoses(id)
  \/ \E w \in Withdrawals :
       \/ CreateWithdrawal(w) \/ Burn(w) \/ WithdrawalAges(w) \/ PayoutSettles(w)
       \/ Expire(w) \/ MarkProcessing(w) \/ ListInFlight(w)
       \/ HookSuccess(w) \/ HookFailed(w)
  \/ \E k \in Goroutines : SubmitMint(k) \/ MintRefused(k)
  \/ RecordMint \/ Payout \/ NoProvider \/ RecordPaid \/ Poll
  \/ \E k \in Goroutines \ {"settler"} : SettleFailedPayout(k) \/ Refund(k) \/ RecordRefund(k)
  \/ Crash

GatewaySpec == GatewayInit /\ [][GatewayNext]_gatewayVars

(* The watcher comes round every three seconds and visits every open       *)
(* deposit and withdrawal; a goroutine goes on with what it is doing, and  *)
(* a Go mutex does not starve a waiter.  A node that is up commits what it *)
(* took and a provider ends a pending transfer.  Webhooks are not assumed, *)
(* and nobody has to pay or burn.                                          *)
GatewayFairness ==
  /\ \A d \in Deposits : SF_gatewayVars(~overdue[d] /\ Settle(d))
  /\ \A id \in Ids : WF_gatewayVars(NodeCommits(id))
  /\ \A w \in Withdrawals : /\ WF_gatewayVars(PayoutSettles(w))
                            /\ SF_gatewayVars(MarkProcessing(w))
                            /\ SF_gatewayVars(ListInFlight(w))
  /\ \A k \in Goroutines : SF_gatewayVars(SubmitMint(k))
  /\ WF_gatewayVars(RecordMint) /\ WF_gatewayVars(Payout \/ NoProvider)
  /\ WF_gatewayVars(RecordPaid) /\ WF_gatewayVars(Poll)
  /\ \A k \in {"watcher", "hook"} : /\ WF_gatewayVars(SettleFailedPayout(k))
                                    /\ SF_gatewayVars(Refund(k))
                                    /\ WF_gatewayVars(RecordRefund(k))

GatewayFairSpec == GatewaySpec /\ GatewayFairness

-----------------------------------------------------------------------------
(* Deposits, withdrawals, the transactions on the node and the transfers   *)
(* at the provider have one of the statuses the gateway gives or reads.    *)
GatewayTypeOK ==
  /\ charge \in [Deposits -> {"open", "paid", "short", "failed"}]
  /\ dep \in [Deposits -> {"none", "pending", "minted", "failed"}]
  /\ overdue \in [Deposits -> BOOLEAN]
  /\ burned \in [Withdrawals -> BOOLEAN]
  /\ payout \in [Withdrawals -> {"none", "pending", "success", "failed"}]
  /\ wd \in [Withdrawals -> {"none", "awaiting_burn", "expired", "processing", "paid", "refunded"}]
  /\ age \in [Withdrawals -> {"fresh", "stale", "closed"}]
  /\ mints \in [Ids -> [pending : 0..MaxMints, done : 0..MaxMints]]
  /\ job \in [Goroutines -> [id : Ids \cup {NoId},
                             step : {"idle", "absent", "submitted", "pay", "paid",
                                     "check", "poll", "refund"}]]
  /\ crashes \in 0..MaxCrashes
  /\ faults \in FaultSets

Minted(id) == mints[id].pending + mints[id].done

(* "Every NGN unit on-chain is minted only after Paystack confirms the     *)
(* matching naira was collected" (main.go:5): a deposit is minted only for *)
(* a charge the provider reports paid in full, whatever else fails.        *)
MintedOnlyWhenPaid == \A d \in Deposits : Minted(d) > 0 => charge[d] = "paid"

(* Naira leaves, or NGN is minted back, only against a burn that is        *)
(* on-chain (createWithdrawal: "Naira is only paid once that burn is       *)
(* on-chain"), whatever else fails.                                        *)
PaidOutAfterBurn ==
  \A w \in Withdrawals : (payout[w] # "none" \/ Minted(w) > 0) => burned[w]

MintsOnce == \A id \in Ids : Minted(id) <= 1

(* settleDeposit "mints exactly once" (main.go:294) and so does refund: no *)
(* reference is minted twice, over crashes, lost answers and retries by    *)
(* watcher, webhook and getDeposit, while the history searched for an      *)
(* earlier mint can be read and is up to date.                             *)
MintsAtMostOnce == faults \cap {"slowNode", "noHistory"} = {} => MintsOnce

(* The same without the condition, as the comment at main.go:294 has it:   *)
(* "verifies a charge with Paystack and mints exactly once".               *)
MintsExactlyOnce == MintsOnce

(* The other half: a deposit shown as minted has its mint on-chain or on   *)
(* its way there, unless the node lost a transaction it had taken.         *)
MintedIsOnChain ==
  "lostTx" \notin faults => \A d \in Deposits : dep[d] = "minted" => Minted(d) > 0

Live(w) == payout[w] \in {"pending", "success"}

PaidOnce == \A w \in Withdrawals : ~(Minted(w) > 0 /\ Live(w))

(* settleFailedPayout "refunds only once the provider confirms there is no *)
(* live payout" (main.go:634): nobody gets the naira and the NGN back,     *)
(* while an error of PayoutStatus means what provider.go:27 says it means. *)
NeverPaidAndRefunded == "badStatus" \notin faults => PaidOnce

(* Every unit ever minted, a reference's own numbered from 1. *)
UnitsMinted == {u \in Ids \X (1..MaxMints) : u[2] <= Minted(u[1])}

(* "Supply must never exceed the reserve" (reserve, main.go:728): what was *)
(* minted and paid out never exceeds what was received and burned.         *)
ReserveCoversSupply ==
  faults \cap {"slowNode", "noHistory", "badStatus"} = {} =>
    Cardinality(UnitsMinted) + Cardinality({w \in Withdrawals : Live(w)})
      <= Cardinality({d \in Deposits : charge[d] = "paid"})
           + Cardinality({w \in Withdrawals : burned[w]})

(* The faults the gateway is built to survive. *)
UsualFaults == {"crash", "refused", "lostReply"}

(* "a missed webhook never strands a payment" (main.go:268): a charge paid *)
(* within 48 hours ends as a mint on-chain.                                *)
PaidIsMinted ==
  \A d \in Deposits :
    (faults \subseteq UsualFaults /\ dep[d] = "pending" /\ charge[d] = "paid" /\ ~overdue[d])
      ~> ((dep[d] = "minted" /\ mints[d].done > 0) \/ overdue[d])

(* The watcher gave the withdrawal up: it is processing, the provider has  *)
(* no transfer for it and no goroutine is about to start or refund one.    *)
Abandoned(w) ==
  /\ wd[w] = "processing" /\ payout[w] = "none"
  /\ \A k \in Goroutines : job[k].id = w => At(k, "poll")

(* "processing -> paid | refunded" (main.go:434), "so user funds are never *)
(* lost" (main.go:570): a burn within the seven days is paid or refunded,  *)
(* over crashes, refused mints and lost answers, unless the gateway marked *)
(* it and then neither started its payout nor refunded it.                 *)
BurnedIsSettled ==
  \A w \in Withdrawals :
    (faults \subseteq UsualFaults /\ burned[w] /\ age[w] # "closed")
      ~> (wd[w] \in {"paid", "refunded"} \/ age[w] = "closed" \/ Abandoned(w))

(* Without a crash, a refusal or a lost answer nothing is given up.        *)
NothingAbandoned == faults = {} => \A w \in Withdrawals : ~Abandoned(w)

(* What a goroutine in the middle of something may rely on, though others  *)
(* moved since it looked.  One of them at a time is between the search for *)
(* an earlier mint and the record of the new one.                          *)
JobsAreFounded ==
  /\ \A k \in Goroutines : At(k, "idle") => job[k] = Idle
  /\ job["settler"].step \in {"idle", "absent", "submitted"}
  /\ job["hook"].step \in {"idle", "check", "refund", "absent", "submitted"}
  /\ \A j, k \in Goroutines :
       {job[j].step, job[k].step} \subseteq {"absent", "submitted"} => j = k
  /\ LET d == job["settler"].id
     IN  ~At("settler", "idle") => d \in Deposits /\ charge[d] = "paid" /\ dep[d] = "pending"
  /\ \A k \in Goroutines \ {"settler"} :
       ~At(k, "idle") => /\ job[k].id \in Withdrawals
                         /\ wd[job[k].id] \in {"processing", "paid", "refunded"}

(* Before a withdrawal is processed nothing was paid for it and nobody     *)
(* works on it, and the watcher that is about to start its payout is the   *)
(* only one that does.                                                     *)
OnePayoutEach ==
  /\ \A w \in Withdrawals :
       IF wd[w] \in {"none", "awaiting_burn", "expired"}
       THEN payout[w] = "none" /\ Minted(w) = 0
       ELSE burned[w]
  /\ LET w == job["watcher"].id
     IN  At("watcher", "pay") => /\ wd[w] = "processing" /\ payout[w] = "none"
                                 /\ Minted(w) = 0 /\ job["hook"].id # w

(* What the search for a mint and the question about a payout have shown   *)
(* stays true until it is acted on, while nothing fails that would make    *)
(* the answer wrong.                                                       *)
AnswersHold ==
  /\ \A id \in Ids : Minted(id) <= MaxMints
  /\ faults \cap {"slowNode", "noHistory"} = {} =>
       \A k \in Goroutines : At(k, "absent") => Minted(job[k].id) = 0
  /\ "lostTx" \notin faults /\ At("settler", "submitted") => Minted(job["settler"].id) > 0
  /\ "badStatus" \notin faults =>
       \A k \in Goroutines \ {"settler"} :
         job[k].step \in {"refund", "absent", "submitted"} => ~Live(job[k].id)

(* Neither side of the gateway moves before the other: naira and NGN are   *)
(* created only against what was received, what is shown as done is done,  *)
(* and nothing is dropped while nothing fails.                             *)
GatewayInv ==
  /\ GatewayTypeOK
  /\ MintedOnlyWhenPaid /\ PaidOutAfterBurn /\ MintedIsOnChain /\ NothingAbandoned
  /\ JobsAreFounded /\ OnePayoutEach /\ AnswersHold
=============================================================================
