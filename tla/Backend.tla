------------------------------ MODULE Backend ------------------------------
(***************************************************************************)
(* The parts of the ORPay backend that do not share state: invites to      *)
(* circles, ratings, push notifications, delivery tracking and limits.     *)
(* They are separate stores behind one HTTP server.  A behaviour exercises *)
(* one of them, because steps of two that share no variable commute.       *)
(***************************************************************************)
EXTENDS Integers, FiniteSets

CONSTANTS Drafts, Wallets, Options, Slots, Pools, MaxPast,
          People, Applicants, Admins, Deals, Requests, MaxMoves,
          Devices, MaxSubs, Roles, Topics, Counts, Seat,
          MaxTxs, MaxRounds, MaxMonths, MaxFaults,
          Route, MaxUpdates, MaxCrashes,
          Burst, PerToken, SweepEvery, Cooldown, Handlers, MaxClock, MaxSlips

ASSUME BackendAssumption ==
  /\ IsFiniteSet(Wallets) /\ Slots \subseteq Nat \ {0}
  /\ Applicants \subseteq People /\ DOMAIN Admins \subseteq Nat
  /\ Counts \subseteq Nat \ {0}
  /\ {Burst, PerToken, SweepEvery, Cooldown} \subseteq Nat

VARIABLES
  part,                                                      \* the store in use
  drafts, look, pools, agreed, past,
  arbiters, reviews, rate, deals, had,
  subs, seen, scan, role, topic, txs, life, ship, circle, live, months, told, got, faults,
  parcel, order, delivery, poll, polled, notices, trips,
  using, clock, bucket, sweep, allowed, drip, last, paid, slips

I == INSTANCE Invites
M == INSTANCE Market
P == INSTANCE Push
C == INSTANCE Courier
L == INSTANCE Limits

invites == <<drafts, look, pools, agreed, past>>
market  == <<arbiters, reviews, rate, deals, had>>
push    == <<subs, seen, scan, role, topic, txs, life, ship, circle, live, months, told, got, faults>>
courier == <<parcel, order, delivery, poll, polled, notices, trips>>
limits  == <<using, clock, bucket, sweep, allowed, drip, last, paid, slips>>
vars    == <<part, invites, market, push, courier, limits>>

BackendInit ==
  /\ part \in {"invites", "market", "push", "courier", "limits"}
  /\ I!InvitesInit /\ M!MarketInit
  /\ P!PushInit /\ (part = "push" \/ (topic = "money" /\ role = "seller"))
  /\ C!CourierInit /\ (part = "courier" \/ polled)
  /\ L!LimitsInit /\ (part = "limits" \/ using = "faucet")

BackendNext ==
  /\ UNCHANGED part
  /\ \/ part = "invites" /\ I!InvitesNext /\ UNCHANGED <<market, push, courier, limits>>
     \/ part = "market" /\ M!MarketNext /\ UNCHANGED <<invites, push, courier, limits>>
     \/ part = "push" /\ P!PushNext /\ UNCHANGED <<invites, market, courier, limits>>
     \/ part = "courier" /\ C!CourierNext /\ UNCHANGED <<invites, market, push, limits>>
     \/ part = "limits" /\ L!LimitsNext /\ UNCHANGED <<invites, market, push, courier>>

(* The two goroutines tick for as long as the process runs. *)
BackendFairSpec ==
  /\ BackendInit /\ [][BackendNext]_vars
  /\ WF_vars(part = "push" /\ P!Watch /\ UNCHANGED <<part, invites, market, courier, limits>>)
  /\ WF_vars(part = "courier" /\ C!WatchDeliveries /\ UNCHANGED <<part, invites, market, push, limits>>)

-----------------------------------------------------------------------------
(* The properties of the parts, each explained in its module.               *)

(* A circle's draft lists the wallets that agreed to it, each once, and     *)
(* started means that the chain had such a pool (startedDraft).             *)
CircleHasJoinedMembers == I!CircleHasJoinedMembers

(* Every rating comes from an escrow that ended, at most one for each       *)
(* seller or party it has had (rateSeller, rateArbiter).                    *)
ReviewsAreBought == M!ReviewsAreBought

(* No payment or change of an escrow is announced twice (pushEvents).       *)
AnnouncedOnce == P!AnnouncedOnce

(* A payment is announced on every subscribed device (watchPush, notify).   *)
PaymentIsAnnounced == P!PaymentIsAnnounced

(* A parcel that has arrived ends up recorded as delivered, whatever        *)
(* updates come late (watchDeliveries, recordDelivery).                     *)
DeliveryIsNoticed == (part = "courier") => C!DeliveryIsNoticed

(* A client gets a burst and what its bucket gained, no more (Limiter).     *)
RequestsAreLimited == L!RequestsAreLimited

(* The faucet pays an address once in a cooldown unless a fault comes       *)
(* between the payment and its record (drip).                               *)
DripsAreApart == L!DripsAreApart
=============================================================================
