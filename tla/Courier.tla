------------------------------ MODULE Courier ------------------------------
(***************************************************************************)
(* Delivery tracking of the ORPay backend (courier.go).  Couriers post     *)
(* signed updates to a webhook; those with an API are polled by one        *)
(* goroutine, watchDeliveries.  Both end in recordDelivery, which replaces *)
(* what was known by what it is given.                                     *)
(*                                                                         *)
(* One order is modelled, with the request's cached view of its escrow     *)
(* (checkEscrows in Orders).  Updates travel on their own: one may arrive  *)
(* late, twice or never.  A poll takes three steps: it collects the orders *)
(* to ask for, asks, and records the answer.                               *)
(***************************************************************************)
EXTENDS Naturals, Sequences

CONSTANTS Route,      \* the parcel's status codes in turn, each as the words it contains
          MaxUpdates, \* bound on webhook updates
          MaxCrashes  \* bound on crashes

VARIABLES
  parcel,    \* how far along the route the parcel is
  order,     \* the cached escrow: "none", "dispatched" (with tracking) or "closed"
  delivery,  \* the Delivery recorded with the request, "none" if nil
  poll,      \* what watchDeliveries is doing
  polled,    \* has the courier an API (s.trackers)
  notices,   \* how often buyer and seller were told of the delivery
  trips      \* updates received and crashes so far

courier == <<parcel, order, delivery, poll, polled, notices, trips>>

Resting == [at |-> "idle", state |-> "none"]

CourierInit ==
  /\ parcel = 1 /\ order = "none" /\ delivery = "none"
  /\ poll = Resting /\ polled \in BOOLEAN
  /\ notices = 0 /\ trips = [updates |-> 0, crashes |-> 0]

NormaliseState(words) ==
  IF "deliver" \in words /\ "out" \notin words THEN "delivered"
  ELSE IF "out_for" \in words THEN "out_for_delivery"
  ELSE IF "fail" \in words \/ "return" \in words THEN "failed"
  ELSE IF "pre" \in words THEN "pre_transit"
  ELSE "in_transit"

-----------------------------------------------------------------------------
(* The parcel, and the escrow as the backend sees it. *)

ParcelMoves ==
  /\ parcel < Len(Route)
  /\ parcel' = parcel + 1
  /\ UNCHANGED <<order, delivery, poll, polled, notices, trips>>

OrderMoves ==
  /\ order' = IF order = "none" THEN "dispatched" ELSE "closed"
  /\ UNCHANGED <<parcel, delivery, poll, polled, notices, trips>>

-----------------------------------------------------------------------------
(* recordDelivery: nothing matches before the escrow's tracking is known.   *)
RecordDelivery(state) ==
  IF order = "none" THEN UNCHANGED <<delivery, notices>>
  ELSE /\ delivery' = state
       /\ notices' = notices + IF delivery # state /\ state = "delivered" THEN 1 ELSE 0

(* courierWebhook: an update sent when the parcel was at step k. *)
CourierWebhook(k) ==
  /\ k <= parcel /\ trips.updates < MaxUpdates
  /\ RecordDelivery(NormaliseState(Route[k]))
  /\ trips' = [trips EXCEPT !.updates = @ + 1]
  /\ UNCHANGED <<parcel, order, poll, polled>>

(* Mutant of ToAsk: an order is asked for until something is known of it. *)
ToAskOnce == polled /\ order = "dispatched" /\ delivery = "none"

ToAsk == polled /\ order = "dispatched" /\ delivery # "delivered"

(* watchDeliveries. *)
Collect ==
  /\ poll.at = "idle" /\ ToAsk
  /\ poll' = [poll EXCEPT !.at = "ask"]
  /\ UNCHANGED <<parcel, order, delivery, polled, notices, trips>>

Ask ==
  /\ poll.at = "ask"
  /\ poll' = [at |-> "answered", state |-> NormaliseState(Route[parcel])]
  /\ UNCHANGED <<parcel, order, delivery, polled, notices, trips>>

Answered ==
  /\ poll.at = "answered"
  /\ RecordDelivery(poll.state)
  /\ poll' = Resting
  /\ UNCHANGED <<parcel, order, polled, trips>>

CourierCrash ==
  /\ trips.crashes < MaxCrashes
  /\ trips' = [trips EXCEPT !.crashes = @ + 1]
  /\ poll' = Resting
  /\ UNCHANGED <<parcel, order, delivery, polled, notices>>

WatchDeliveries == Collect \/ Ask \/ Answered

CourierNext ==
  \/ ParcelMoves \/ (order # "closed" /\ OrderMoves)
  \/ \E k \in 1..Len(Route) : CourierWebhook(k)
  \/ WatchDeliveries \/ CourierCrash

-----------------------------------------------------------------------------
(* With a courier that is polled, a parcel that has arrived is recorded as  *)
(* delivered and stays so, and both sides have been told, as long as the    *)
(* escrow is open to be released: a late update may put an earlier state in *)
(* its place, and so may the answer to an earlier question, but not for     *)
(* good.  (Without polling the last update to arrive stands.)               *)
DeliveryIsNoticed ==
  polled => <>[](parcel = Len(Route) /\ order = "dispatched" => delivery = "delivered" /\ notices > 0)
=============================================================================
