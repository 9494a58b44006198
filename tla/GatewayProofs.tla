--------------------------- MODULE GatewayProofs ---------------------------
(***************************************************************************)
(* The gateway neither mints twice nor pays twice, for any number of       *)
(* deposits and withdrawals, any number of crashes and any faults.         *)
(*                                                                         *)
(* No mint and no payout is repeated because of what the goroutine that    *)
(* makes it has seen before; the invariant therefore follows each of them  *)
(* from the look to the act (JobsAreFounded, OnePayoutEach, AnswersHold),  *)
(* and is inductive together with what it is for.                          *)
(***************************************************************************)
EXTENDS Gateway, FiniteSetTheorems, TLAPS

GatewayBooks == GatewayInv /\ MintsAtMostOnce /\ NeverPaidAndRefunded

LEMMA GatewayInitBooks == GatewayInit => GatewayBooks
<1> USE GatewayAssumption DEF Ids, NoId, Goroutines, Idle, At, Minted, Live
<1> SUFFICES ASSUME GatewayInit PROVE GatewayBooks
  OBVIOUS
<1>1. GatewayTypeOK
  BY DEF GatewayInit, GatewayTypeOK
<1>2. MintedOnlyWhenPaid /\ PaidOutAfterBurn /\ MintedIsOnChain /\ NothingAbandoned
  BY DEF GatewayInit, MintedOnlyWhenPaid, PaidOutAfterBurn, MintedIsOnChain,
         NothingAbandoned, Abandoned
<1>3. JobsAreFounded /\ OnePayoutEach /\ AnswersHold
  BY DEF GatewayInit, JobsAreFounded, OnePayoutEach, AnswersHold
<1>4. MintsAtMostOnce /\ NeverPaidAndRefunded
  BY DEF GatewayInit, MintsAtMostOnce, MintsOnce, NeverPaidAndRefunded, PaidOnce
<1> QED BY <1>1, <1>2, <1>3, <1>4 DEF GatewayBooks, GatewayInv

-----------------------------------------------------------------------------
(* Customers, the provider, the clock and the node move one record each,   *)
(* and none of them takes back what a goroutine relies on: a charge that   *)
(* was paid, a burn, a mint that was seen.                                 *)
LEMMA WorldKeepsBooks ==
  ASSUME GatewayBooks,
         \/ \E d \in Deposits : CreateDeposit(d) \/ Charge(d) \/ DepositAges(d)
         \/ \E id \in Ids : NodeCommits(id) \/ NodeLoses(id)
         \/ \E w \in Withdrawals :
              CreateWithdrawal(w) \/ Burn(w) \/ WithdrawalAges(w) \/ PayoutSettles(w)
  PROVE  GatewayBooks'
<1> USE GatewayAssumption
    DEF GatewayBooks, GatewayInv, GatewayTypeOK, MintedOnlyWhenPaid, PaidOutAfterBurn,
        MintedIsOnChain, NothingAbandoned, JobsAreFounded, OnePayoutEach, AnswersHold,
        MintsAtMostOnce, MintsOnce, NeverPaidAndRefunded, PaidOnce, Abandoned,
        Ids, NoId, Goroutines, Idle, At, Minted, Live
<1>1. ASSUME NEW d \in Deposits, CreateDeposit(d)     PROVE GatewayBooks'
  BY <1>1, SMTT(200) DEF CreateDeposit
<1>2. ASSUME NEW d \in Deposits, Charge(d)            PROVE GatewayBooks'
  BY <1>2, SMTT(200) DEF Charge
<1>3. ASSUME NEW d \in Deposits, DepositAges(d)       PROVE GatewayBooks'
  BY <1>3, SMTT(200) DEF DepositAges
<1>4. ASSUME NEW id \in Ids, NodeCommits(id)          PROVE GatewayBooks'
  <2>1. /\ charge' = charge /\ dep' = dep /\ overdue' = overdue /\ burned' = burned
        /\ payout' = payout /\ wd' = wd /\ age' = age /\ job' = job /\ crashes' = crashes
        /\ faults' = faults
    BY <1>4 DEF NodeCommits
  <2>2. GatewayTypeOK'
    BY <1>4, <2>1, SMTT(60) DEF NodeCommits
  <2>3. \A i \in Ids : Minted(i)' = Minted(i)
    BY <1>4 DEF NodeCommits
  <2>4. (\A w \in Withdrawals : Minted(w)' = Minted(w)) /\ (\A d \in Deposits : Minted(d)' = Minted(d))
    BY <2>3
  <2> HIDE DEF Minted, GatewayTypeOK
  <2>5. MintedOnlyWhenPaid' /\ PaidOutAfterBurn' /\ MintedIsOnChain' /\ NothingAbandoned'
    BY <2>1, <2>4
  <2>6. JobsAreFounded'
    BY <2>1
  <2>7. OnePayoutEach'
    BY <2>1, <2>4
  <2>8. AnswersHold'
    BY <2>1, <2>3
  <2>9. MintsAtMostOnce' /\ NeverPaidAndRefunded'
    BY <2>1, <2>3, <2>4
  <2> HIDE DEF JobsAreFounded, OnePayoutEach, AnswersHold, NothingAbandoned, MintsAtMostOnce
  <2> QED BY <2>2, <2>5, <2>6, <2>7, <2>8, <2>9
<1>5. ASSUME NEW id \in Ids, NodeLoses(id)            PROVE GatewayBooks'
  BY <1>5, SMTT(200) DEF NodeLoses
<1>6. ASSUME NEW w \in Withdrawals, CreateWithdrawal(w) PROVE GatewayBooks'
  BY <1>6, SMTT(200) DEF CreateWithdrawal
<1>7. ASSUME NEW w \in Withdrawals, Burn(w)           PROVE GatewayBooks'
  BY <1>7, SMTT(200) DEF Burn
<1>8. ASSUME NEW w \in Withdrawals, WithdrawalAges(w) PROVE GatewayBooks'
  BY <1>8, SMTT(200) DEF WithdrawalAges
<1>9. ASSUME NEW w \in Withdrawals, PayoutSettles(w)  PROVE GatewayBooks'
  BY <1>9, SMTT(200) DEF PayoutSettles
<1> QED BY <1>1, <1>2, <1>3, <1>4, <1>5, <1>6, <1>7, <1>8, <1>9

(* settleDeposit decides about a mint only while nobody else does; that it *)
(* found none means there is none, if the history is complete.             *)
LEMMA SettleKeepsBooks ==
  ASSUME GatewayBooks, NEW d \in Deposits, Settle(d)
  PROVE  GatewayBooks'
<1> USE GatewayAssumption
    DEF GatewayBooks, GatewayInv, GatewayTypeOK, MintedOnlyWhenPaid, PaidOutAfterBurn,
        MintedIsOnChain, NothingAbandoned, JobsAreFounded, OnePayoutEach, AnswersHold,
        MintsAtMostOnce, MintsOnce, NeverPaidAndRefunded, PaidOnce, Abandoned,
        Ids, NoId, Goroutines, Idle, At, Goto, Minted, Live
<1>1. /\ dep[d] = "pending" /\ \A k \in Goroutines : job[k].step \notin {"absent", "submitted"}
      /\ UNCHANGED <<charge, overdue, burned, payout, wd, age, mints, crashes, faults>>
  BY DEF Settle, MintMuFree
<1>2. \/ dep' = [dep EXCEPT ![d] = "failed"] /\ job' = job
      \/ /\ charge[d] = "paid" /\ mints[d].done > 0
         /\ dep' = [dep EXCEPT ![d] = "minted"] /\ job' = job
      \/ /\ charge[d] = "paid" /\ dep' = dep
         /\ job' = [job EXCEPT !["settler"] = Goto(d, "absent")]
         /\ faults \cap {"slowNode", "noHistory"} = {} => Minted(d) = 0
  <2>1. CASE ~Collected(d)
    BY <2>1 DEF Settle
  <2>2. CASE Collected(d) /\ \E found \in Found(d) :
               found /\ dep' = [dep EXCEPT ![d] = "minted"] /\ job' = job
    BY <2>2 DEF Collected, Found
  <2>3. CASE Collected(d) /\ \E found \in Found(d) :
               ~found /\ dep' = dep /\ job' = [job EXCEPT !["settler"] = Goto(d, "absent")]
    <3>1. ASSUME faults \cap {"slowNode", "noHistory"} = {} PROVE Minted(d) = 0
      <4>1. mints[d].pending = 0 /\ "noHistory" \notin faults
        BY <3>1 DEF Settle, InTime
      <4>2. ~(mints[d].done > 0)
        BY <2>3, <4>1 DEF Found
      <4> QED BY <4>1, <4>2
    <3> QED BY <2>3, <3>1 DEF Collected
  <2> QED BY <2>1, <2>2, <2>3 DEF Settle
<1>3. CASE job' = job
  BY <1>1, <1>2, <1>3, SMTT(200)
<1>4. CASE /\ charge[d] = "paid" /\ dep' = dep
           /\ job' = [job EXCEPT !["settler"] = Goto(d, "absent")]
           /\ faults \cap {"slowNode", "noHistory"} = {} => Minted(d) = 0
  BY <1>1, <1>4, SMTT(200)
<1> QED BY <1>2, <1>3, <1>4

(* One more mint of a reference below its bound. *)
LEMMA OneMoreMint ==
  ASSUME mints \in [Ids -> [pending : 0..MaxMints, done : 0..MaxMints]],
         NEW id \in Ids, Minted(id) < MaxMints,
         mints' = [mints EXCEPT ![id].pending = @ + 1]
  PROVE  /\ mints' \in [Ids -> [pending : 0..MaxMints, done : 0..MaxMints]]
         /\ Minted(id)' = Minted(id) + 1
         /\ \A i \in Ids : Minted(i) \in Nat
         /\ \A i \in Ids \ {id} : Minted(i)' = Minted(i)
<1> DEFINE m == mints[id]
<1>1. MaxMints \in Nat /\ m.pending \in 0..MaxMints /\ m.done \in 0..MaxMints
  BY GatewayAssumption
<1>2. m.pending + m.done < MaxMints
  BY DEF Minted
<1>3. [m EXCEPT !.pending = @ + 1] = [pending |-> m.pending + 1, done |-> m.done]
  OBVIOUS
<1>4. mints' = [mints EXCEPT ![id] = [pending |-> m.pending + 1, done |-> m.done]]
  BY <1>3
<1> HIDE DEF m
<1> QED BY <1>1, <1>2, <1>4 DEF Minted, m

(* A mint is submitted by the one goroutine that looked for it in vain.    *)
LEMMA SubmitKeepsBooks ==
  ASSUME GatewayBooks, NEW k \in Goroutines, SubmitMint(k)
  PROVE  GatewayBooks'
<1>0. /\ GatewayTypeOK /\ MintedOnlyWhenPaid /\ PaidOutAfterBurn /\ MintedIsOnChain
      /\ NothingAbandoned /\ JobsAreFounded /\ OnePayoutEach /\ AnswersHold
      /\ MintsAtMostOnce /\ NeverPaidAndRefunded
  BY DEF GatewayBooks, GatewayInv
<1>1. /\ At(k, "absent")
      /\ UNCHANGED <<charge, dep, overdue, burned, payout, wd, age, crashes, faults>>
  BY DEF SubmitMint
<1>2. PICK id \in Ids : /\ id = job[k].id
                        /\ k = "settler" => id \in Deposits /\ charge[id] = "paid"
                        /\ k # "settler" => /\ id \in Withdrawals
                                            /\ wd[id] \in {"processing", "paid", "refunded"}
  BY <1>0, <1>1 DEF JobsAreFounded, At, Ids, Goroutines
<1>3. \/ job' = [job EXCEPT ![k] = Goto(id, "submitted")]
      \/ "lostReply" \in faults /\ job' = [job EXCEPT ![k] = Idle]
  BY <1>2 DEF SubmitMint
<1>4. /\ mints' \in [Ids -> [pending : 0..MaxMints, done : 0..MaxMints]]
      /\ Minted(id)' = Minted(id) + 1
      /\ \A i \in Ids : Minted(i) \in Nat
      /\ \A i \in Ids \ {id} : Minted(i)' = Minted(i)
      /\ Minted(id) < MaxMints
  <2>1. Minted(id) < MaxMints /\ mints' = [mints EXCEPT ![id].pending = @ + 1]
    BY <1>2 DEF SubmitMint, Minted
  <2>2. mints \in [Ids -> [pending : 0..MaxMints, done : 0..MaxMints]]
    BY <1>0 DEF GatewayTypeOK
  <2> QED BY <2>1, <2>2, OneMoreMint
<1> USE GatewayAssumption DEF Ids, NoId, Goroutines, Idle, At, Goto, Live
<1>5. GatewayTypeOK'
  BY <1>0, <1>1, <1>2, <1>3, <1>4 DEF GatewayTypeOK
<1>6. JobsAreFounded'
  <2>1. CASE job' = [job EXCEPT ![k] = Idle]
    BY <1>0, <1>1, <2>1 DEF JobsAreFounded, GatewayTypeOK
  <2>2. CASE job' = [job EXCEPT ![k] = Goto(id, "submitted")]
    <3>1. \A j \in Goroutines : /\ job'[j].id = job[j].id
                                /\ j # k => job'[j] = job[j]
      BY <1>0, <1>2, <2>2 DEF GatewayTypeOK
    <3>2. job'[k] = Goto(id, "submitted")
      BY <1>0, <2>2 DEF GatewayTypeOK
    <3> QED BY <1>0, <1>1, <3>1, <3>2 DEF JobsAreFounded
  <2> QED BY <1>3, <2>1, <2>2
<1>7. MintedOnlyWhenPaid'
  BY <1>0, <1>1, <1>2, <1>4 DEF MintedOnlyWhenPaid
<1>8. PaidOutAfterBurn'
  BY <1>0, <1>1, <1>2, <1>4 DEF PaidOutAfterBurn, OnePayoutEach
<1>9. MintedIsOnChain'
  BY <1>0, <1>1, <1>4 DEF MintedIsOnChain
<1>10. NothingAbandoned'
  BY <1>0, <1>1, <1>2, <1>3 DEF NothingAbandoned, Abandoned, GatewayTypeOK
<1>11. OnePayoutEach'
  <2>1. id # job["watcher"].id \/ ~At("watcher", "pay")
    BY <1>0, <1>1, <1>2 DEF JobsAreFounded, OnePayoutEach
  <2> QED BY <1>0, <1>1, <1>2, <1>3, <1>4, <2>1 DEF OnePayoutEach, GatewayTypeOK, JobsAreFounded
<1>12. AnswersHold'
  <2>1. \A j \in Goroutines : j # k => job'[j] = job[j] /\ ~At(j, "absent") /\ ~At(j, "submitted")
    BY <1>0, <1>1, <1>3 DEF JobsAreFounded, GatewayTypeOK
  <2>2. \A i \in Ids : Minted(i)' <= MaxMints
    BY <1>0, <1>4 DEF AnswersHold
  <2>3. \A j \in Goroutines : ~At(j, "absent")'
    BY <1>0, <1>3, <2>1 DEF GatewayTypeOK
  <2>4. At("settler", "submitted")' => Minted(job["settler"].id)' > 0
    BY <1>0, <1>2, <1>3, <1>4, <2>1 DEF GatewayTypeOK
  <2>5. "badStatus" \notin faults =>
          \A j \in Goroutines \ {"settler"} :
            job'[j].step \in {"refund", "absent", "submitted"} => ~Live(job[j].id)'
    BY <1>0, <1>1, <1>2, <1>3, <2>1 DEF AnswersHold, GatewayTypeOK
  <2> QED BY <1>1, <2>2, <2>3, <2>4, <2>5 DEF AnswersHold
<1>13. MintsAtMostOnce'
  BY <1>0, <1>1, <1>2, <1>4 DEF MintsAtMostOnce, MintsOnce, AnswersHold
<1>14. NeverPaidAndRefunded'
  BY <1>0, <1>1, <1>2, <1>4 DEF NeverPaidAndRefunded, PaidOnce, AnswersHold
<1> QED BY <1>5, <1>6, <1>7, <1>8, <1>9, <1>10, <1>11, <1>12, <1>13, <1>14
        DEF GatewayBooks, GatewayInv

(* The other steps around a mint. *)
LEMMA RecordKeepsBooks ==
  ASSUME GatewayBooks, RecordMint \/ \E k \in Goroutines : MintRefused(k)
  PROVE  GatewayBooks'
<1> USE GatewayAssumption
    DEF GatewayBooks, GatewayInv, GatewayTypeOK, MintedOnlyWhenPaid, PaidOutAfterBurn,
        MintedIsOnChain, NothingAbandoned, JobsAreFounded, OnePayoutEach, AnswersHold,
        MintsAtMostOnce, MintsOnce, NeverPaidAndRefunded, PaidOnce, Abandoned,
        Ids, NoId, Goroutines, Idle, At, Goto, Minted, Live
<1>1. CASE RecordMint
  BY <1>1, SMTT(200) DEF RecordMint
<1>2. ASSUME NEW k \in Goroutines, MintRefused(k) PROVE GatewayBooks'
  BY <1>2, SMTT(200) DEF MintRefused
<1> HIDE DEF GatewayBooks
<1> QED BY <1>1, <1>2

-----------------------------------------------------------------------------
(* Goroutine k, at work on withdrawal w, turns to r and leaves w as st.    *)
MovesOn(k, w, r, st) ==
  /\ k \in {"watcher", "hook"} /\ w = job[k].id /\ ~At(k, "idle") /\ ~At(k, "pay")
  /\ r \in {Idle, Goto(w, "paid"), Goto(w, "refund"), Goto(w, "absent")}
  /\ st \in {wd[w], "paid", "refunded"}
  /\ job' = [job EXCEPT ![k] = r] /\ wd' = [wd EXCEPT ![w] = st]
  /\ UNCHANGED <<charge, dep, overdue, burned, payout, age, mints, crashes, faults>>
  /\ r = Goto(w, "paid") => k = "watcher"
  /\ r = Idle => st # "processing" \/ payout[w] # "none" \/ At(k, "poll")
  /\ r \in {Goto(w, "refund"), Goto(w, "absent")} => ("badStatus" \notin faults => ~Live(w))
  /\ r = Goto(w, "absent") =>
       /\ \A j \in Goroutines : job[j].step \notin {"absent", "submitted"}
       /\ faults \cap {"slowNode", "noHistory"} = {} => Minted(w) = 0

LEMMA MovesKeepBooks ==
  ASSUME GatewayBooks, NEW k, NEW w \in Withdrawals, NEW r, NEW st, MovesOn(k, w, r, st)
  PROVE  GatewayBooks'
<1> USE GatewayAssumption DEF Goroutines
<1>0. /\ GatewayTypeOK /\ JobsAreFounded /\ OnePayoutEach /\ AnswersHold /\ NothingAbandoned
      /\ MintedOnlyWhenPaid /\ PaidOutAfterBurn /\ MintedIsOnChain
      /\ MintsAtMostOnce /\ NeverPaidAndRefunded
  BY DEF GatewayBooks, GatewayInv
<1>1. /\ charge' = charge /\ dep' = dep /\ overdue' = overdue /\ burned' = burned
      /\ payout' = payout /\ age' = age /\ mints' = mints /\ crashes' = crashes /\ faults' = faults
  BY DEF MovesOn
<1>2. /\ k \in Goroutines /\ k # "settler" /\ job' = [job EXCEPT ![k] = r] /\ w = job[k].id
      /\ r \in {Idle, Goto(w, "paid"), Goto(w, "refund"), Goto(w, "absent")}
      /\ ~At(k, "idle") /\ ~At(k, "pay")
  BY DEF MovesOn
<1>3. wd' = [wd EXCEPT ![w] = st] /\ wd[w] \in {"processing", "paid", "refunded"}
  BY <1>0, <1>2 DEF MovesOn, JobsAreFounded
<1>4. st \in {"processing", "paid", "refunded"} /\ (st = "processing" => wd[w] = "processing")
  BY <1>3 DEF MovesOn
<1>5. w \in Ids /\ NoId \notin Ids /\ job \in [Goroutines -> [id : Ids \cup {NoId},
                             step : {"idle", "absent", "submitted", "pay", "paid",
                                     "check", "poll", "refund"}]]
      /\ wd \in [Withdrawals -> {"none", "awaiting_burn", "expired", "processing", "paid", "refunded"}]
  BY <1>0 DEF Ids, NoId, GatewayTypeOK
<1>6. /\ job'[k] = r /\ \A j \in Goroutines : j # k => job'[j] = job[j]
      /\ r \in [id : Ids \cup {NoId}, step : {"idle", "paid", "refund", "absent"}]
      /\ r.step = "idle" => r = Idle
      /\ r # Idle => r.id = w
      /\ r.step = "idle" \/ r # Idle
  BY <1>2, <1>5 DEF Idle, Goto
<1>7. wd'[w] = st /\ \A v \in Withdrawals : v # w => wd'[v] = wd[v]
  BY <1>3, <1>5
<1>8. GatewayTypeOK'
  <2>1. wd' \in [Withdrawals -> {"none", "awaiting_burn", "expired", "processing", "paid", "refunded"}]
    BY <1>3, <1>4, <1>5
  <2>2. job' \in [Goroutines -> [id : Ids \cup {NoId},
                             step : {"idle", "absent", "submitted", "pay", "paid",
                                     "check", "poll", "refund"}]]
    <3>1. r \in [id : Ids \cup {NoId}, step : {"idle", "absent", "submitted", "pay", "paid",
                                     "check", "poll", "refund"}]
      BY <1>6
    <3> QED BY <1>2, <1>5, <3>1
  <2> QED BY <1>0, <1>1, <2>1, <2>2 DEF GatewayTypeOK
<1>9. MintedOnlyWhenPaid' /\ PaidOutAfterBurn' /\ MintedIsOnChain'
  BY <1>0, <1>1 DEF MintedOnlyWhenPaid, PaidOutAfterBurn, MintedIsOnChain, Minted
<1>10. MintsAtMostOnce' /\ NeverPaidAndRefunded'
  BY <1>0, <1>1 DEF MintsAtMostOnce, NeverPaidAndRefunded, MintsOnce, PaidOnce, Minted, Live
<1>11. JobsAreFounded'
  <2>1. \A j \in Goroutines : At(j, "idle")' => job'[j] = Idle
    BY <1>0, <1>6 DEF JobsAreFounded, At
  <2>2. r.step = "absent" => r = Goto(w, "absent")
    BY <1>2 DEF Goto, Idle
  <2>3. \A i, j \in Goroutines :
          {job'[i].step, job'[j].step} \subseteq {"absent", "submitted"} => i = j
    BY <1>0, <1>6, <2>2 DEF JobsAreFounded, MovesOn
  <2>4. /\ job'["settler"] = job["settler"]
        /\ job'["hook"].step \in {"idle", "check", "refund", "absent", "submitted"}
    <3>1. r.step = "paid" => r = Goto(w, "paid")
      BY <1>2 DEF Goto, Idle
    <3>2. k = "hook" => r.step # "paid"
      BY <3>1 DEF MovesOn
    <3> QED BY <1>0, <1>2, <1>6, <3>2 DEF JobsAreFounded
  <2>5. \A j \in Goroutines \ {"settler"} :
          ~At(j, "idle")' => /\ job'[j].id \in Withdrawals
                             /\ wd'[job'[j].id] \in {"processing", "paid", "refunded"}
    <3>1. ASSUME NEW j \in Goroutines \ {"settler"}, ~At(j, "idle")'
          PROVE  /\ job'[j].id \in Withdrawals
                 /\ wd'[job'[j].id] \in {"processing", "paid", "refunded"}
      <4>1. CASE j = k
        BY <1>4, <1>6, <1>7, <3>1, <4>1 DEF At
      <4>2. CASE j # k
        BY <1>0, <1>4, <1>6, <1>7, <3>1, <4>2 DEF At, JobsAreFounded
      <4> QED BY <4>1, <4>2
    <3> QED BY <3>1
  <2> QED BY <1>0, <1>1, <2>1, <2>3, <2>4, <2>5 DEF JobsAreFounded, At
<1>12. OnePayoutEach'
  <2>1. \A v \in Withdrawals :
          IF wd'[v] \in {"none", "awaiting_burn", "expired"}
          THEN payout[v] = "none" /\ Minted(v) = 0
          ELSE burned[v]
    BY <1>0, <1>3, <1>4, <1>7 DEF OnePayoutEach
  <2>2. ASSUME At("watcher", "pay")'
        PROVE  LET v == job'["watcher"].id
               IN  wd'[v] = "processing" /\ payout[v] = "none" /\ Minted(v) = 0 /\ job'["hook"].id # v
    <3>1. k = "hook" /\ job'["watcher"] = job["watcher"]
      BY <1>2, <1>6, <2>2 DEF At, MovesOn, Idle, Goto
    <3>2. PICK v \in Withdrawals : v = job["watcher"].id
      BY <1>0, <2>2, <3>1 DEF At, JobsAreFounded
    <3>3. wd[v] = "processing" /\ payout[v] = "none" /\ Minted(v) = 0 /\ job["hook"].id # v
      BY <1>0, <2>2, <3>1, <3>2 DEF At, OnePayoutEach
    <3>4. v # w /\ v # NoId
      BY <1>2, <1>5, <3>1, <3>3 DEF Ids
    <3>5. job'["hook"].id # v
      BY <1>6, <3>1, <3>4 DEF Idle
    <3> QED BY <1>7, <3>1, <3>2, <3>3, <3>4, <3>5
  <2> QED BY <1>1, <2>1, <2>2 DEF OnePayoutEach, Minted
<1>13. AnswersHold'
  <2>1. \A id \in Ids : Minted(id)' = Minted(id)
    BY <1>1 DEF Minted
  <2>2. ASSUME faults \cap {"slowNode", "noHistory"} = {}, NEW j \in Goroutines, At(j, "absent")'
        PROVE  Minted(job'[j].id) = 0
    <3>1. CASE j = k
      BY <1>2, <1>6, <2>2, <3>1 DEF At, MovesOn, Goto, Idle
    <3>2. CASE j # k
      BY <1>0, <1>6, <2>2, <3>2 DEF At, AnswersHold
    <3> QED BY <3>1, <3>2
  <2>3. ASSUME "badStatus" \notin faults, NEW j \in Goroutines \ {"settler"},
               job'[j].step \in {"refund", "absent", "submitted"}
        PROVE  ~Live(job'[j].id)
    <3>1. CASE j = k
      BY <1>2, <1>6, <2>3, <3>1 DEF MovesOn, Goto, Idle
    <3>2. CASE j # k
      BY <1>0, <1>6, <2>3, <3>2 DEF AnswersHold
    <3> QED BY <3>1, <3>2
  <2>4. job'["settler"] = job["settler"]
    BY <1>2, <1>6
  <2> QED BY <1>0, <1>1, <2>1, <2>2, <2>3, <2>4 DEF AnswersHold, At, Live, Minted
<1>14. NothingAbandoned'
  <2> SUFFICES ASSUME faults = {}, NEW v \in Withdrawals, Abandoned(v)' PROVE FALSE
    BY <1>1 DEF NothingAbandoned
  <2>1. /\ wd'[v] = "processing" /\ payout[v] = "none"
        /\ \A j \in Goroutines : job'[j].id = v => job'[j].step = "poll"
    BY <1>1 DEF Abandoned, At
  <2>2. ~Abandoned(v)
    BY <1>0 DEF NothingAbandoned
  <2>3. wd[v] = "processing"
    BY <1>4, <1>7, <2>1
  <2>4. PICK i \in Goroutines : job[i].id = v /\ job[i].step # "poll"
    BY <2>1, <2>2, <2>3 DEF Abandoned, At
  <2>5. i = k
    BY <1>6, <2>1, <2>4
  <2>6. r = Idle
    BY <1>2, <1>6, <2>1, <2>4, <2>5
  <2> QED BY <1>2, <1>7, <2>1, <2>4, <2>5, <2>6 DEF MovesOn, At
<1> QED BY <1>8, <1>9, <1>10, <1>11, <1>12, <1>13, <1>14 DEF GatewayBooks, GatewayInv

(* The watcher marks a withdrawal before it starts the payout, so that it  *)
(* never starts a second one; webhook and watcher may both come to a       *)
(* withdrawal later, but then only ask about it.                           *)
LEMMA WatcherKeepsBooks ==
  ASSUME GatewayBooks,
         \/ \E w \in Withdrawals : Expire(w) \/ MarkProcessing(w) \/ ListInFlight(w)
         \/ Payout \/ NoProvider \/ RecordPaid \/ Poll
  PROVE  GatewayBooks'
<1> USE GatewayAssumption
    DEF GatewayBooks, GatewayInv, GatewayTypeOK, MintedOnlyWhenPaid, PaidOutAfterBurn,
        MintedIsOnChain, NothingAbandoned, JobsAreFounded, OnePayoutEach, AnswersHold,
        MintsAtMostOnce, MintsOnce, NeverPaidAndRefunded, PaidOnce, Abandoned,
        Ids, NoId, Goroutines, Idle, At, Goto, Minted, Live
<1>1. ASSUME NEW w \in Withdrawals, Expire(w)         PROVE GatewayBooks'
  BY <1>1, SMTT(200) DEF Expire
<1>2. ASSUME NEW w \in Withdrawals, MarkProcessing(w) PROVE GatewayBooks'
  BY <1>2, SMTT(200) DEF MarkProcessing, BurnFound
<1>3. ASSUME NEW w \in Withdrawals, ListInFlight(w)   PROVE GatewayBooks'
  BY <1>3, SMTT(200) DEF ListInFlight
<1>4. CASE Payout
  <2>1. PICK w \in Withdrawals : w = job["watcher"].id
    BY <1>4 DEF Payout
  <2>2. /\ At("watcher", "pay") /\ burned[w] /\ Minted(w) = 0 /\ job["hook"].id # w
        /\ wd[w] = "processing"
        /\ UNCHANGED <<charge, dep, overdue, burned, wd, age, mints, crashes, faults>>
    BY <1>4, <2>1 DEF Payout
  <2>3. PICK st \in {"none", "pending", "success", "failed"}, r \in {Idle, Goto(w, "check"), Goto(w, "paid")} :
          /\ payout' = [payout EXCEPT ![w] = st]
          /\ job' = [job EXCEPT !["watcher"] = r]
          /\ st = "none" => r = Goto(w, "check")
    <3>1. PICK st \in {"none", "pending", "success", "failed"}, lost \in BOOLEAN :
            /\ payout' = [payout EXCEPT ![w] = st]
            /\ job' = [job EXCEPT !["watcher"] =
                         CASE lost \/ st \in {"none", "failed"} -> Goto(w, "check")
                           [] ~lost /\ st = "success"           -> Goto(w, "paid")
                           [] ~lost /\ st = "pending"           -> Idle]
      <4> HIDE DEF GatewayBooks, At, Idle, Goto
      <4> QED BY <1>4, <2>1 DEF Payout
    <3>2. CASE lost \/ st \in {"none", "failed"}
      BY <3>1, <3>2
    <3>3. CASE ~lost /\ st = "success"
      BY <3>1, <3>3
    <3>4. CASE ~lost /\ st = "pending"
      BY <3>1, <3>4
    <3> QED BY <3>2, <3>3, <3>4
  <2>4. GatewayTypeOK' /\ JobsAreFounded' /\ OnePayoutEach'
    BY <2>1, <2>2, <2>3, SMTT(200)
  <2>5. MintedOnlyWhenPaid' /\ PaidOutAfterBurn' /\ MintedIsOnChain' /\ NothingAbandoned'
    BY <2>1, <2>2, <2>3, SMTT(200)
  <2>6. AnswersHold' /\ MintsAtMostOnce' /\ NeverPaidAndRefunded'
    BY <2>1, <2>2, <2>3, SMTT(200)
  <2> QED BY <2>4, <2>5, <2>6
<1>5. CASE NoProvider
  BY <1>5, SMTT(200) DEF NoProvider
<1>6. CASE RecordPaid
  <2>1. PICK w \in Withdrawals : w = job["watcher"].id /\ At("watcher", "paid")
    BY <1>6 DEF RecordPaid
  <2>2. MovesOn("watcher", w, Idle, "paid")
    <3> HIDE DEF GatewayBooks
    <3> QED BY <1>6, <2>1 DEF RecordPaid, MovesOn
  <2> HIDE DEF GatewayBooks
  <2> QED BY <2>2, MovesKeepBooks
<1>7. CASE Poll
  <2>1. PICK w \in Withdrawals : w = job["watcher"].id /\ At("watcher", "poll")
    BY <1>7 DEF Poll
  <2>2. GatewayTypeOK
    BY DEF GatewayBooks
  <2> HIDE DEF GatewayBooks, Goto, Idle
  <2>3. PICK st \in Reported(w) :
          job' = [job EXCEPT !["watcher"] = CASE st = "success" -> Goto(w, "paid")
                                              [] st = "failed"  -> Goto(w, "refund")
                                              [] OTHER          -> Idle]
    BY <1>7, <2>1 DEF Poll
  <2>4. \/ st = (IF payout[w] = "none" THEN "error" ELSE payout[w])
        \/ st = "error" /\ "badStatus" \in faults
    BY <2>3 DEF Reported
  <2>5. UNCHANGED <<charge, dep, overdue, burned, payout, wd, age, mints, crashes, faults>>
    BY <1>7 DEF Poll
  <2>6. CASE st = "success"
    <3>1. MovesOn("watcher", w, Goto(w, "paid"), wd[w])
      BY <2>1, <2>2, <2>3, <2>5, <2>6 DEF MovesOn, Goto, Idle
    <3> QED BY <3>1, MovesKeepBooks
  <2>7. CASE st = "failed"
    <3>1. payout[w] = "failed"
      BY <2>4, <2>7
    <3>2. MovesOn("watcher", w, Goto(w, "refund"), wd[w])
      BY <2>1, <2>2, <2>3, <2>5, <2>7, <3>1 DEF MovesOn, Goto, Idle, Live
    <3> QED BY <3>2, MovesKeepBooks
  <2>8. CASE st \notin {"success", "failed"}
    <3>1. MovesOn("watcher", w, Idle, wd[w])
      BY <2>1, <2>2, <2>3, <2>5, <2>8 DEF MovesOn, Idle, Goto
    <3> QED BY <3>1, MovesKeepBooks
  <2> QED BY <2>6, <2>7, <2>8
<1> QED BY <1>1, <1>2, <1>3, <1>4, <1>5, <1>6, <1>7

(* A refund is made only of what no live payout was reported for, and      *)
(* after a search for an earlier refund.                                   *)
LEMMA RefundKeepsBooks ==
  ASSUME GatewayBooks, NEW k \in Goroutines \ {"settler"},
         SettleFailedPayout(k) \/ Refund(k) \/ RecordRefund(k)
  PROVE  GatewayBooks'
<1> USE GatewayAssumption DEF Goroutines
<1>0. GatewayTypeOK /\ JobsAreFounded /\ AnswersHold
  BY DEF GatewayBooks, GatewayInv
<1>1. CASE SettleFailedPayout(k)
  <2>1. /\ At(k, "check")
        /\ UNCHANGED <<charge, dep, overdue, burned, payout, wd, age, mints, crashes, faults>>
    BY <1>1 DEF SettleFailedPayout
  <2>2. PICK w \in Withdrawals : w = job[k].id
    BY <1>0, <2>1 DEF JobsAreFounded, At
  <2>3. \/ /\ job' = [job EXCEPT ![k] = Idle]
           /\ payout[w] # "none"
        \/ /\ job' = [job EXCEPT ![k] = Goto(w, "refund")]
           /\ payout[w] \notin {"success", "pending"} \/ "badStatus" \in faults
    <3>1. PICK st \in Reported(w) :
            job' = [job EXCEPT ![k] = IF st \in {"error", "failed"} THEN Goto(w, "refund") ELSE Idle]
      BY <1>1, <2>2 DEF SettleFailedPayout
    <3>2. \/ st = (IF payout[w] = "none" THEN "error" ELSE payout[w])
          \/ st = "error" /\ "badStatus" \in faults
      BY <3>1 DEF Reported
    <3> QED BY <3>1, <3>2
  <2>4. CASE job' = [job EXCEPT ![k] = Idle] /\ payout[w] # "none"
    <3>1. MovesOn(k, w, Idle, wd[w])
      BY <1>0, <2>1, <2>2, <2>4 DEF MovesOn, At, Idle, Goto, GatewayTypeOK
    <3> QED BY <3>1, MovesKeepBooks
  <2>5. CASE /\ job' = [job EXCEPT ![k] = Goto(w, "refund")]
             /\ payout[w] \notin {"success", "pending"} \/ "badStatus" \in faults
    <3>1. MovesOn(k, w, Goto(w, "refund"), wd[w])
      BY <1>0, <2>1, <2>2, <2>5 DEF MovesOn, At, Goto, Idle, Live, GatewayTypeOK
    <3> QED BY <3>1, MovesKeepBooks
  <2> QED BY <2>3, <2>4, <2>5
<1>2. CASE Refund(k)
  <2>1. /\ At(k, "refund") /\ \A j \in Goroutines : job[j].step \notin {"absent", "submitted"}
        /\ UNCHANGED <<charge, dep, overdue, burned, payout, age, mints, crashes, faults>>
    BY <1>2 DEF Refund, MintMuFree
  <2>2. PICK w \in Withdrawals : w = job[k].id
    BY <1>0, <2>1 DEF JobsAreFounded, At
  <2>3. \/ job' = [job EXCEPT ![k] = Idle] /\ wd' = [wd EXCEPT ![w] = "refunded"]
        \/ job' = [job EXCEPT ![k] = Idle] /\ wd[w] # "processing" /\ wd' = wd
        \/ /\ job' = [job EXCEPT ![k] = Goto(w, "absent")] /\ wd' = wd
           /\ \E found \in Found(w) : ~found
    BY <1>2, <2>2 DEF Refund
  <2>4. CASE job' = [job EXCEPT ![k] = Idle] /\ wd' = [wd EXCEPT ![w] = "refunded"]
    <3>1. MovesOn(k, w, Idle, "refunded")
      BY <2>1, <2>2, <2>4 DEF MovesOn, At, Idle, Goto
    <3> QED BY <3>1, MovesKeepBooks
  <2>5. CASE job' = [job EXCEPT ![k] = Idle] /\ wd[w] # "processing" /\ wd' = wd
    <3>1. MovesOn(k, w, Idle, wd[w])
      BY <1>0, <2>1, <2>2, <2>5 DEF MovesOn, At, Idle, Goto, GatewayTypeOK
    <3> QED BY <3>1, MovesKeepBooks
  <2>6. CASE /\ job' = [job EXCEPT ![k] = Goto(w, "absent")] /\ wd' = wd
             /\ \E found \in Found(w) : ~found
    <3>1. ASSUME faults \cap {"slowNode", "noHistory"} = {} PROVE Minted(w) = 0
      <4>1. mints[w].pending = 0 /\ "noHistory" \notin faults
        BY <1>2, <2>2, <3>1 DEF Refund, InTime
      <4>2. ~(mints[w].done > 0)
        BY <2>6, <4>1 DEF Found
      <4>3. mints[w].done \in 0..MaxMints
        BY <1>0 DEF GatewayTypeOK, Ids
      <4> QED BY <4>1, <4>2, <4>3 DEF Minted
    <3>2. "badStatus" \notin faults => ~Live(w)
      BY <1>0, <2>1, <2>2 DEF AnswersHold, At
    <3>3. MovesOn(k, w, Goto(w, "absent"), wd[w])
      BY <1>0, <2>1, <2>2, <2>6, <3>1, <3>2 DEF MovesOn, At, Goto, Idle, GatewayTypeOK
    <3> QED BY <3>3, MovesKeepBooks
  <2> QED BY <2>3, <2>4, <2>5, <2>6
<1>3. CASE RecordRefund(k)
  <2>1. PICK w \in Withdrawals : w = job[k].id /\ At(k, "submitted")
    BY <1>0, <1>3 DEF RecordRefund, JobsAreFounded, At
  <2>2. MovesOn(k, w, Idle, "refunded")
    BY <1>3, <2>1 DEF RecordRefund, MovesOn, At, Idle, Goto
  <2> QED BY <2>2, MovesKeepBooks
<1> QED BY <1>1, <1>2, <1>3

(* A webhook, and a crash of the gateway: what a goroutine was doing is    *)
(* forgotten, the records stay.                                            *)
LEMMA HookAndCrashKeepBooks ==
  ASSUME GatewayBooks,
         Crash \/ \E w \in Withdrawals : HookSuccess(w) \/ HookFailed(w)
  PROVE  GatewayBooks'
<1> USE GatewayAssumption
    DEF GatewayBooks, GatewayInv, GatewayTypeOK, MintedOnlyWhenPaid, PaidOutAfterBurn,
        MintedIsOnChain, NothingAbandoned, JobsAreFounded, OnePayoutEach, AnswersHold,
        MintsAtMostOnce, MintsOnce, NeverPaidAndRefunded, PaidOnce, Abandoned,
        Ids, NoId, Goroutines, Idle, At, Goto, Minted, Live
<1>1. CASE Crash
  BY <1>1, SMTT(200) DEF Crash
<1>2. ASSUME NEW w \in Withdrawals, HookFailed(w) PROVE GatewayBooks'
  BY <1>2, SMTT(200) DEF HookFailed
<1>3. ASSUME NEW w \in Withdrawals, HookSuccess(w) PROVE GatewayBooks'
  <2>1. GatewayTypeOK' /\ JobsAreFounded' /\ OnePayoutEach'
    BY <1>3, SMTT(200) DEF HookSuccess
  <2>2. MintedOnlyWhenPaid' /\ PaidOutAfterBurn' /\ MintedIsOnChain' /\ NothingAbandoned'
    BY <1>3, SMTT(200) DEF HookSuccess
  <2>3. AnswersHold' /\ MintsAtMostOnce' /\ NeverPaidAndRefunded'
    BY <1>3, SMTT(200) DEF HookSuccess
  <2> QED BY <2>1, <2>2, <2>3
<1> QED BY <1>1, <1>2, <1>3

LEMMA GatewayStepBooks == GatewayBooks /\ [GatewayNext]_gatewayVars => GatewayBooks'
<1> SUFFICES ASSUME GatewayBooks, [GatewayNext]_gatewayVars PROVE GatewayBooks'
  OBVIOUS
<1>1. CASE UNCHANGED gatewayVars
  BY <1>1 DEF gatewayVars, GatewayBooks, GatewayInv, GatewayTypeOK, MintedOnlyWhenPaid,
       PaidOutAfterBurn, MintedIsOnChain, NothingAbandoned, JobsAreFounded, OnePayoutEach,
       AnswersHold, MintsAtMostOnce, MintsOnce, NeverPaidAndRefunded, PaidOnce, Abandoned,
       At, Minted, Live
<1>2. CASE GatewayNext
  BY <1>2, WorldKeepsBooks, SettleKeepsBooks, SubmitKeepsBooks, RecordKeepsBooks,
     WatcherKeepsBooks, RefundKeepsBooks, HookAndCrashKeepBooks DEF GatewayNext
<1> QED BY <1>1, <1>2

LEMMA DisjointUnion ==
  ASSUME NEW A, NEW B, IsFiniteSet(A), IsFiniteSet(B), A \cap B = {}
  PROVE  /\ IsFiniteSet(A \cup B)
         /\ Cardinality(A \cup B) = Cardinality(A) + Cardinality(B)
<1>1. Cardinality(A \cup B) = Cardinality(A) + Cardinality(B) - Cardinality(A \cap B)
  BY FS_Union
<1>2. Cardinality(A \cap B) = 0
  BY FS_EmptySet
<1>3. Cardinality(A) \in Nat /\ Cardinality(B) \in Nat
  BY FS_CardinalityType
<1> QED BY <1>1, <1>2, <1>3, FS_Union

(* What is minted or paid is covered, reference by reference, by what was  *)
(* collected or burned under the same reference; hence in sum.             *)
LEMMA BooksCoverSupply == GatewayBooks => ReserveCoversSupply
<1> SUFFICES ASSUME GatewayBooks, faults \cap {"slowNode", "noHistory", "badStatus"} = {}
             PROVE  Cardinality(UnitsMinted) + Cardinality({w \in Withdrawals : Live(w)})
                      <= Cardinality({d \in Deposits : charge[d] = "paid"})
                           + Cardinality({w \in Withdrawals : burned[w]})
  BY DEF ReserveCoversSupply
<1> DEFINE MD == {d \in Deposits : Minted(d) = 1}
           MW == {w \in Withdrawals : Minted(w) = 1}
           L  == {w \in Withdrawals : Live(w)}
           PD == {d \in Deposits : charge[d] = "paid"}
           BW == {w \in Withdrawals : burned[w]}
<1>1. /\ GatewayTypeOK /\ MintedOnlyWhenPaid /\ PaidOutAfterBurn
      /\ MintsOnce /\ PaidOnce
  BY DEF GatewayBooks, GatewayInv, MintsAtMostOnce, NeverPaidAndRefunded
<1>2. MD \subseteq PD /\ MW \subseteq BW /\ L \subseteq BW /\ MW \cap L = {}
  BY <1>1 DEF MintedOnlyWhenPaid, PaidOutAfterBurn, PaidOnce, Live
<1>3. IsFiniteSet(Deposits) /\ IsFiniteSet(Withdrawals)
  BY GatewayAssumption, FS_Subset DEF Ids
<1>4. /\ IsFiniteSet(PD) /\ IsFiniteSet(BW) /\ IsFiniteSet(MD) /\ IsFiniteSet(MW) /\ IsFiniteSet(L)
  BY <1>3, FS_Subset
<1>5. UnitsMinted = (MD \cup MW) \X {1}
  <2>1. \A id \in Ids : Minted(id) \in {0, 1} /\ Minted(id) <= MaxMints
    <3> SUFFICES ASSUME NEW id \in Ids PROVE Minted(id) \in {0, 1} /\ Minted(id) <= MaxMints
      OBVIOUS
    <3>1. Minted(id) \in Nat
      <4>1. mints[id] \in [pending : 0..MaxMints, done : 0..MaxMints]
        BY <1>1 DEF GatewayTypeOK
      <4> QED BY <4>1, GatewayAssumption DEF Minted
    <3>2. Minted(id) <= MaxMints
      BY DEF GatewayBooks, GatewayInv, AnswersHold
    <3>3. Minted(id) <= 1
      BY <1>1 DEF MintsOnce
    <3> QED BY <3>1, <3>2, <3>3
  <2>2. MD \cup MW = {id \in Ids : Minted(id) = 1}
    BY DEF Ids
  <2>3. \A id \in Ids, n \in 1..MaxMints : n <= Minted(id) <=> Minted(id) = 1 /\ n = 1
    BY <2>1, GatewayAssumption
  <2>4. \A id \in Ids : Minted(id) = 1 => 1 \in 1..MaxMints
    BY <2>1, GatewayAssumption
  <2> HIDE DEF MD, MW
  <2>5. UnitsMinted \subseteq (MD \cup MW) \X {1}
    BY <2>2, <2>3 DEF UnitsMinted
  <2>6. (MD \cup MW) \X {1} \subseteq UnitsMinted
    BY <2>2, <2>3, <2>4 DEF UnitsMinted
  <2> QED BY <2>5, <2>6
<1>6. Cardinality(UnitsMinted) = Cardinality(MD) + Cardinality(MW)
  <2>1. MD \cap MW = {}
    BY GatewayAssumption
  <2>2. Cardinality(MD \cup MW) = Cardinality(MD) + Cardinality(MW) /\ IsFiniteSet(MD \cup MW)
    <3> HIDE DEF MD, MW
    <3> QED BY <1>4, <2>1, DisjointUnion
  <2> HIDE DEF MD, MW
  <2>3. Cardinality((MD \cup MW) \X {1}) = Cardinality(MD \cup MW) * Cardinality({1})
    BY <2>2, FS_Product, FS_Singleton
  <2>4. Cardinality({1}) = 1
    BY FS_Singleton
  <2> QED BY <1>5, <2>2, <2>3, <2>4, <1>4, FS_CardinalityType
<1>7. Cardinality(MD) <= Cardinality(PD)
  BY <1>2, <1>4, FS_Subset
<1>8. Cardinality(MW) + Cardinality(L) <= Cardinality(BW)
  <2>1. Cardinality(MW \cup L) = Cardinality(MW) + Cardinality(L)
    <3> HIDE DEF MW, L
    <3> QED BY <1>2, <1>4, DisjointUnion
  <2>2. Cardinality(MW \cup L) <= Cardinality(BW)
    <3>1. MW \cup L \subseteq BW
      BY <1>2
    <3> QED BY <1>4, <3>1, FS_Subset
  <2> QED BY <2>1, <2>2
<1> HIDE DEF MD, MW, L, PD, BW
<1>9. /\ Cardinality(MD) \in Nat /\ Cardinality(MW) \in Nat /\ Cardinality(L) \in Nat
      /\ Cardinality(PD) \in Nat /\ Cardinality(BW) \in Nat
  BY <1>4, FS_CardinalityType
<1>10. Cardinality(UnitsMinted) + Cardinality(L) <= Cardinality(PD) + Cardinality(BW)
  BY <1>6, <1>7, <1>8, <1>9
<1> QED BY <1>10 DEF L, PD, BW

-----------------------------------------------------------------------------
(* Over any crashes, refused mints, lost answers and concurrent retries by  *)
(* watcher, webhook and getDeposit, naira and NGN are created only against  *)
(* what was received, and every goroutine acts on what is still true.       *)
THEOREM GatewayKeepsBooks == GatewaySpec => []GatewayInv
<1>1. GatewayBooks => GatewayInv
  BY DEF GatewayBooks
<1> QED BY <1>1, GatewayInitBooks, GatewayStepBooks, PTL DEF GatewaySpec

(* "mints exactly once" (main.go:294), with its condition: no reference is  *)
(* minted twice as long as the history searched is readable and up to date. *)
THEOREM GatewayMintsOnce == GatewaySpec => []MintsAtMostOnce
<1>1. GatewayBooks => MintsAtMostOnce
  BY DEF GatewayBooks
<1> QED BY <1>1, GatewayInitBooks, GatewayStepBooks, PTL DEF GatewaySpec

(* Nobody gets naira and the NGN back for one withdrawal, as long as an     *)
(* error of PayoutStatus means that there is no payout.                     *)
THEOREM GatewayPaysOnce == GatewaySpec => []NeverPaidAndRefunded
<1>1. GatewayBooks => NeverPaidAndRefunded
  BY DEF GatewayBooks
<1> QED BY <1>1, GatewayInitBooks, GatewayStepBooks, PTL DEF GatewaySpec

(* "Supply must never exceed the reserve" (main.go:728), under the two      *)
(* conditions above.                                                        *)
THEOREM GatewayReserveHolds == GatewaySpec => []ReserveCoversSupply
  BY GatewayInitBooks, GatewayStepBooks, BooksCoverSupply, PTL DEF GatewaySpec
=============================================================================
