------------------------------- MODULE Orders -------------------------------
(***************************************************************************)
(* Invoices and escrow requests of the ORPay backend (invoices.go,         *)
(* escrows.go, escrowlinks.go, webhooks.go in apps/orpay/backend).  An app *)
(* asks for a payment or for an escrow; customers pay on the chain; one    *)
(* goroutine, watchInvoices, looks at the chain, settles what it finds and *)
(* posts webhooks to the app.                                              *)
(*                                                                         *)
(* The stores are durable and each Update is atomic; what the watcher read *)
(* before, from the node or a store, is in "job" and is lost in a crash.   *)
(* Deadlines run out by actions of their own, so no clock is kept; the     *)
(* back-off of a webhook is only a delay, like the watcher's own pace.  A  *)
(* payment is the invoice its memo names and whether it covers it (asset   *)
(* and amount); the chain's escrows follow EscrowLife.                     *)
(***************************************************************************)
EXTENDS Naturals, Sequences, SequencesExt, FiniteSets

CONSTANTS Invoices,     \* invoices that may be created
          Requests,     \* escrow requests that may be created
          Scenarios,    \* the sets of these that are placed together
          Counts,       \* numbers of milestones
          HistoryLimit, \* payments the node's history shows (500)
          MaxTries,     \* len(hookBackoff)
          MaxPayments,  \* bound on payments made
          MaxCrashes,   \* bound on crashes of the backend
          MaxResets     \* bound on resets of the chain

ASSUME OrdersAssumption ==
  /\ Invoices \cap Requests = {} /\ Counts \subseteq Nat \ {0}
  /\ \A open \in Scenarios : open \subseteq Invoices \cup Requests
  /\ HistoryLimit \in Nat \ {0} /\ MaxTries \in Nat \ {0}
  /\ MaxPayments \in Nat /\ MaxCrashes \in Nat /\ MaxResets \in Nat

VARIABLES
  inv,      \* the invoice store
  req,      \* the escrow request store
  open,     \* the invoices and requests that are placed in this behaviour
  job,      \* what the watcher is in the middle of
  pays,     \* payments to the merchant on the chain, oldest first
  life,     \* on-chain escrows that name a request in their ref
  ship,     \* of each: has DispatchedAt been set
  fit,      \* of each: are arbiter, milestones and accepted terms the request's
  told,     \* per request, the events ever queued
  arrived,  \* per request, has its oldest owed event reached the app
  faults    \* crashes and resets so far

stores  == <<inv, req, open>>
chain   == <<pays, life, ship, fit>>
history == <<told, arrived>>
vars    == <<stores, job, chain, history, faults>>

Life == INSTANCE EscrowLife WITH Ids <- Requests

NoInvoice == [status |-> "none", overdue |-> FALSE, hook |-> FALSE, tries |-> 0]
Unseen    == [status |-> "none", released |-> 0, ship |-> FALSE, era |-> 0]
NoRequest == [status |-> "none", overdue |-> FALSE, seen |-> Unseen,
              events |-> <<>>, tries |-> 0]
Idle      == [at |-> "idle", todo |-> {}, covered |-> {}, cur |-> 0, obs |-> Unseen,
              reply |-> "none"]

OrdersInit ==
  /\ inv = [i \in Invoices |-> NoInvoice]
  /\ req = [r \in Requests |-> NoRequest]
  /\ open \in Scenarios /\ job = Idle /\ pays = <<>>
  /\ life = [r \in Requests |-> Life!Unborn]
  /\ ship = [r \in Requests |-> FALSE] /\ fit = [r \in Requests |-> FALSE]
  /\ told = [r \in Requests |-> <<>>] /\ arrived = [r \in Requests |-> FALSE]
  /\ faults = [crash |-> 0, reset |-> 0]

-----------------------------------------------------------------------------
(* Handlers. *)

CreateCheckout(i) ==
  /\ i \in open /\ inv[i].status = "none"
  /\ inv' = [inv EXCEPT ![i].status = "pending"]
  /\ UNCHANGED <<req, open, job, chain, history, faults>>

(* createEscrowRequest for an app, createEscrowLink for a person. *)
NewEscrowRequest(r) ==
  /\ r \in open /\ req[r].status = "none"
  /\ req' = [req EXCEPT ![r].status = "awaiting"]
  /\ UNCHANGED <<inv, open, job, chain, history, faults>>

(* cancelAppEscrow, cancelEscrowLink. *)
Cancel(r) ==
  /\ req[r].status = "awaiting"
  /\ req' = [req EXCEPT ![r].status = "cancelled"]
  /\ UNCHANGED <<inv, open, job, chain, history, faults>>

-----------------------------------------------------------------------------
(* The world: deadlines pass, customers and parties act on  *)
(* the chain, which may be reset: an escrow of an earlier era is gone.     *)
(* Nobody looks at a deadline once the order is settled, at an escrow that *)
(* does not fit its request, or at any but the one a request is linked to:  *)
(* these are left where they are.                                           *)

Watched(r) == req[r].seen = Unseen \/ req[r].seen.era = faults.reset

InvoiceDeadline(i) ==
  /\ inv[i].status = "pending" /\ ~inv[i].overdue
  /\ inv' = [inv EXCEPT ![i].overdue = TRUE]
  /\ UNCHANGED <<req, open, job, chain, history, faults>>

RequestDeadline(r) ==
  /\ req[r].status = "awaiting" /\ ~req[r].overdue
  /\ req' = [req EXCEPT ![r].overdue = TRUE]
  /\ UNCHANGED <<inv, open, job, chain, history, faults>>

PayInvoice(i, enough) ==
  /\ Len(pays) < MaxPayments /\ inv[i].status # "none"
  /\ pays' = Append(pays, [memo |-> i, enough |-> enough])
  /\ UNCHANGED <<stores, job, life, ship, fit, history, faults>>

Fund(r, n, fits) ==
  /\ req[r].status # "none" /\ Watched(r)
  /\ Life!Born(r, n)
  /\ fit' = [fit EXCEPT ![r] = fits]
  /\ UNCHANGED <<stores, job, pays, ship, history, faults>>

Proceed(r) ==
  /\ fit[r] /\ Watched(r) /\ Life!Moves(r)
  /\ ship' = [ship EXCEPT ![r] = @ \/ life'[r].status = "dispatched"]
  /\ UNCHANGED <<stores, job, pays, fit, history, faults>>

ChainReset ==
  /\ faults.reset < MaxResets
  /\ faults' = [faults EXCEPT !.reset = @ + 1]
  /\ pays' = <<>> /\ life' = [r \in Requests |-> Life!Unborn]
  /\ ship' = [r \in Requests |-> FALSE]
  /\ UNCHANGED <<stores, job, fit, history>>

-----------------------------------------------------------------------------
(* The watcher.  A round is checkInvoices, checkEscrows, deliverWebhooks   *)
(* and deliverEscrowEvents; its parts do not depend on each other, so they *)
(* come in any order here, each reading first and storing later.           *)

(* The node's answer to History: its last HistoryLimit payments; the       *)
(* invoices one of them covers (firstCovering).                            *)
Covered ==
  LET window == SubSeq(pays, IF Len(pays) > HistoryLimit THEN Len(pays) - HistoryLimit + 1 ELSE 1, Len(pays))
  IN  {window[k].memo : k \in {k \in DOMAIN window : window[k].enough}}

Pending == {i \in Invoices : inv[i].status = "pending"}

(* Mutant of LookInvoices: a full page of history is taken for none. *)
LookInvoicesPaged ==
  /\ job = Idle
  /\ Pending # {}
  /\ job' = [Idle EXCEPT !.at = "invoices", !.todo = Pending, !.covered = IF Len(pays) < HistoryLimit THEN Covered ELSE {}]
  /\ UNCHANGED <<stores, chain, history, faults>>

(* checkInvoices reads the history, or the node fails and it gives up. *)
LookInvoices ==
  /\ job = Idle
  /\ Pending # {}
  /\ job' = [Idle EXCEPT !.at = "invoices", !.todo = Pending, !.covered = Covered]
  /\ UNCHANGED <<stores, chain, history, faults>>

(* The status the watcher gives a pending invoice. *)
Settled(i) ==
  IF i \in job.covered THEN "paid"
  ELSE IF inv[i].overdue THEN "expired"
  ELSE "pending"

SettleInvoices ==
  /\ job.at = "invoices"
  /\ inv' = [i \in Invoices |->
       IF i \in job.todo /\ inv[i].status = "pending" /\ Settled(i) # "pending"
       THEN [inv[i] EXCEPT !.status = Settled(i), !.hook = TRUE, !.tries = 0]
       ELSE inv[i]]
  /\ job' = Idle
  /\ UNCHANGED <<req, open, chain, history, faults>>

(* checkEscrows looks at what may still change: findFunding, or Escrow(id) *)
(* once the request is linked.  An error skips the request in this round.  *)
LookRequest(r) ==
  /\ job = Idle
  /\ \/ req[r].status = "awaiting"
     \/ req[r].status = "linked" /\ req[r].seen.status \in Life!Live
  /\ LET known  == req[r].seen # Unseen
         onNode == /\ life[r].status # "none"
                   /\ IF known THEN req[r].seen.era = faults.reset ELSE fit[r]
         obs    == [status |-> IF onNode THEN life[r].status
                               ELSE IF known THEN "missing" ELSE "none",
                    released |-> IF onNode THEN life[r].released ELSE 0,
                    ship |-> onNode /\ ship[r],
                    era |-> IF onNode THEN faults.reset ELSE 0]
     IN  job' = [Idle EXCEPT !.at = "request", !.cur = r, !.obs = obs]
  /\ UNCHANGED <<stores, chain, history, faults>>

(* Mutant of Changes: one event however many milestones were released. *)
ChangesOnce(prev, cur) ==
  (IF ~prev.ship /\ cur.ship THEN <<"dispatched">> ELSE <<>>)
  \o (IF prev.released < cur.released THEN <<"released">> ELSE <<>>)
  \o (IF prev.status # "disputed" /\ cur.status = "disputed" THEN <<"disputed">> ELSE <<>>)
  \o (IF prev.status # cur.status /\ cur.status \notin Life!Live THEN <<cur.status>> ELSE <<>>)

(* What happened between two observations, in the order of escrowEvents. *)
Changes(prev, cur) ==
  (IF ~prev.ship /\ cur.ship THEN <<"dispatched">> ELSE <<>>)
  \o [k \in 1..(cur.released - prev.released) |-> "released"]
  \o (IF prev.status # "disputed" /\ cur.status = "disputed" THEN <<"disputed">> ELSE <<>>)
  \o (IF prev.status # cur.status /\ cur.status \notin Life!Live THEN <<cur.status>> ELSE <<>>)

EscrowEvents(prev, cur) ==
  IF prev = Unseen THEN <<"funded">> \o Changes([Unseen EXCEPT !.status = "funded"], cur)
                   ELSE Changes(prev, cur)

(* The Update of request r with what the node said. *)
Observe(r, obs) ==
  LET q    == req[r]
      news == CASE obs.status = "missing" -> <<>>
                [] obs.status = "none" ->
                     IF q.status = "awaiting" /\ q.overdue THEN <<"expired">> ELSE <<>>
                [] OTHER -> EscrowEvents(q.seen, obs)
      next == CASE obs.status = "missing" -> [q EXCEPT !.status = "missing"]
                [] obs.status = "none" ->
                     IF q.status = "awaiting" /\ q.overdue THEN [q EXCEPT !.status = "expired"] ELSE q
                [] OTHER -> [q EXCEPT !.status = IF q.seen = Unseen THEN "linked" ELSE @, !.seen = obs]
  IN  /\ req' = [req EXCEPT ![r] = [next EXCEPT !.events = @ \o news]]
      /\ told' = [told EXCEPT ![r] = @ \o news]

ApplyRequest ==
  /\ job.at = "request"
  /\ Observe(job.cur, job.obs)
  /\ job' = Idle
  /\ UNCHANGED <<inv, open, chain, arrived, faults>>

Replies == {"ok", "failed", "no url"}

Owes(x) == IF x \in Invoices THEN inv[x].hook ELSE req[x].events # <<>>

(* postWebhook, postEvent: the endpoint takes the event and answers 2xx, or *)
(* the post fails, before or after the event arrived.  There may be no URL: *)
(* updateApp can clear an app's at any time, a person's link has no app.    *)
Post(x, arrives, reply) ==
  /\ job = Idle /\ Owes(x)
  /\ reply = "ok" => arrives
  /\ reply = "no url" => ~arrives
  /\ job' = [Idle EXCEPT !.at = "posted", !.cur = x, !.reply = reply]
  /\ arrived' = IF arrives /\ x \in Requests THEN [arrived EXCEPT ![x] = TRUE] ELSE arrived
  /\ UNCHANGED <<stores, chain, told, faults>>

(* The last of the attempts hookBackoff allows has failed. *)
GivenUp(x) == job.reply = "failed" /\ x.tries + 1 >= MaxTries

UpdateHook ==
  /\ job.at = "posted" /\ job.cur \in Invoices
  /\ LET i == job.cur IN
     inv' = IF job.reply = "failed"
            THEN [inv EXCEPT ![i].tries = @ + 1, ![i].hook = ~GivenUp(inv[i])]
            ELSE [inv EXCEPT ![i].hook = FALSE]
  /\ job' = Idle
  /\ UNCHANGED <<req, open, chain, history, faults>>

(* The head of the queue is done with. *)
Popped(r) == [req[r] EXCEPT !.events = Tail(@), !.tries = 0]

(* Mutant of AfterPost: what failed is not tried again. *)
AfterPostOnce(r) == Popped(r)

(* Mutant of AfterPost: failures are not counted. *)
AfterPostForever(r) == IF job.reply = "failed" THEN req[r] ELSE Popped(r)

(* The request after its head was posted. *)
AfterPost(r) ==
  IF job.reply = "failed" /\ ~GivenUp(req[r])
  THEN [req[r] EXCEPT !.tries = @ + 1]
  ELSE Popped(r)

UpdateEvent ==
  /\ job.at = "posted" /\ job.cur \in Requests
  /\ LET r == job.cur IN
     /\ req' = [req EXCEPT ![r] = AfterPost(r)]
     /\ arrived' = [arrived EXCEPT ![r] = @ /\ AfterPost(r).events = req[r].events]
  /\ job' = Idle
  /\ UNCHANGED <<inv, open, chain, told, faults>>

(* The process dies and starts again from its files. *)
Crash ==
  /\ faults.crash < MaxCrashes /\ job # Idle
  /\ faults' = [faults EXCEPT !.crash = @ + 1]
  /\ job' = Idle
  /\ UNCHANGED <<stores, chain, history>>

-----------------------------------------------------------------------------
Delivery(x) == \E arrives \in BOOLEAN, reply \in Replies : Post(x, arrives, reply)

StoreStep == SettleInvoices \/ ApplyRequest \/ UpdateHook \/ UpdateEvent

OrdersNext ==
  \/ \E i \in Invoices : CreateCheckout(i) \/ InvoiceDeadline(i) \/ \E e \in BOOLEAN : PayInvoice(i, e)
  \/ \E r \in Requests : \/ NewEscrowRequest(r) \/ Cancel(r) \/ RequestDeadline(r) \/ Proceed(r)
                         \/ \E n \in Counts, f \in BOOLEAN : Fund(r, n, f)
  \/ ChainReset \/ Crash
  \/ LookInvoices \/ \E r \in Requests : LookRequest(r)
  \/ \E x \in Invoices \cup Requests : Delivery(x)
  \/ StoreStep

OrdersSpec == OrdersInit /\ [][OrdersNext]_vars

(* The watcher runs on a ticker and its calls time out, so a round ends    *)
(* and the next one comes to every invoice, request and webhook again; a   *)
(* node that fails now and then answers now and then.  Nobody has to pay,  *)
(* and the app's endpoint may fail for ever.                               *)
OrdersFairness ==
  /\ WF_vars(StoreStep)
  /\ SF_vars(LookInvoices)
  /\ \A r \in Requests : SF_vars(LookRequest(r))
  /\ \A x \in Invoices \cup Requests : SF_vars(Delivery(x))

OrdersFairSpec == OrdersSpec /\ OrdersFairness

-----------------------------------------------------------------------------
Observation == [status : {"none", "missing", "completed", "refunded", "resolved"} \cup Life!Live,
                released : Nat, ship : BOOLEAN, era : 0..MaxResets]

EventTypes == {"funded", "dispatched", "released", "disputed",
               "completed", "refunded", "resolved", "expired"}

(* The stores hold records of the types Invoice and EscrowRequest. *)
OrdersTypeOK ==
  /\ inv \in [Invoices -> [status : {"none", "pending", "paid", "expired"},
                           overdue : BOOLEAN, hook : BOOLEAN, tries : 0..MaxTries]]
  /\ req \in [Requests -> [status : {"none", "awaiting", "linked", "expired", "cancelled", "missing"},
                           overdue : BOOLEAN, seen : Observation, events : Seq(EventTypes),
                           tries : 0..MaxTries - 1]]

Count(s, e) == Cardinality({k \in DOMAIN s : s[k] = e})

Endings == {"completed", "refunded", "resolved"}

(* The events ever queued for a request tell exactly what was observed of   *)
(* its escrow, however the polls fell between the steps on the chain, the   *)
(* cancellations and the crashes: funded first and once, dispatched if it   *)
(* was, one event per released milestone, how it ended once and last.  A    *)
(* request nobody was seen to fund has told nothing but that it expired     *)
(* (checkEscrows, escrowEvents).                                            *)
StoryIsTrue ==
  \A r \in Requests :
    LET q == req[r]
        t == told[r]
    IN  /\ q.seen = Unseen =>
             /\ q.status \in {"none", "awaiting", "expired", "cancelled"}
             /\ t = IF q.status = "expired" THEN <<"expired">> ELSE <<>>
        /\ q.seen # Unseen =>
             /\ q.status \in {"linked", "missing"}
             /\ t[1] = "funded" /\ Count(t, "funded") = 1 /\ Count(t, "expired") = 0
             /\ Count(t, "dispatched") = IF q.seen.ship THEN 1 ELSE 0
             /\ Count(t, "released") = q.seen.released
             /\ q.seen.status = "disputed" => Count(t, "disputed") = 1
             /\ \A e \in Endings :
                  Count(t, e) = IF q.seen.status = e /\ t[Len(t)] = e THEN 1 ELSE 0

(* The stores are well formed, no event is tried more often than allowed,  *)
(* and what was told is true.                                              *)
OrdersInv == OrdersTypeOK /\ StoryIsTrue

(* Webhooks of a request leave its queue from the front only, in the order *)
(* of the events, and never before one reached the app, over any crash      *)
(* between the post and the Update that records it; the exceptions are an   *)
(* event whose last attempt failed and an app without a URL ("sends owed    *)
(* escrow webhooks in order", escrows.go:458).                              *)
InOrder(r) ==
  LET owed == req[r].events IN
  \/ IsPrefix(owed, req'[r].events)
  \/ /\ req'[r].events = Tail(owed)
     /\ arrived[r] \/ job.reply = "no url" \/ req[r].tries + 1 = MaxTries

DeliveredInOrder == [][\A r \in Requests : InOrder(r)]_vars

(* A pending invoice with a covering payment in sight is settled as paid   *)
(* unless its deadline passes first.                                        *)
CoveredIsPaid ==
  \A i \in Invoices :
    (inv[i].status = "pending" /\ i \in Covered) ~>
      (inv[i].status = "paid" \/ inv[i].overdue \/ i \notin Covered)

(* An escrow that fits an awaiting request is noticed, as long as the chain *)
(* keeps it and the request is neither cancelled nor past its deadline; and *)
(* every queue of webhooks is emptied in the end, whatever the endpoint     *)
(* does.                                                                    *)
FundedIsFollowed ==
  \A r \in Requests :
    /\ (req[r].status = "awaiting" /\ life[r].status # "none" /\ fit[r]) ~>
         (req[r].status # "awaiting" \/ life[r].status = "none")
    /\ (req[r].events # <<>>) ~> (req[r].events = <<>>)
=============================================================================
