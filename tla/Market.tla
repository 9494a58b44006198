------------------------------- MODULE Market -------------------------------
(***************************************************************************)
(* Reviews of sellers and the arbiter marketplace of the ORPay backend     *)
(* (ratings.go, arbiters.go, defaultArbiter in escrowlinks.go).  People    *)
(* apply as arbiters and admins vet them; an escrow link gets the best     *)
(* one; when the escrow has ended, the parties rate each other.            *)
(*                                                                         *)
(* Both stores are durable and every change is one Update.  rateSeller and *)
(* rateArbiter read the escrow from the node first; what they read is in   *)
(* "rate", and until their Update the escrow's roles may move to recovered *)
(* keys.  Usernames, texts and stars are left out.                         *)
(***************************************************************************)
EXTENDS Naturals, Sequences, FiniteSets, FiniteSetsExt

CONSTANTS People,     \* wallets of buyers, sellers and arbiters
          Applicants, \* those among them who apply as arbiters
          Admins,     \* ORPay admins, in the order of the configuration
          Deals,      \* escrow links that may be created
          Requests,   \* rating requests handled at the same time
          MaxMoves    \* bound on recoveries

VARIABLES
  arbiters,  \* the marketplace
  reviews,   \* the store of seller reviews, by seller and escrow
  rate,      \* the rating requests being handled
  deals,     \* links, and the escrows on the chain they became
  had        \* per deal, who has ever been its seller or a party; recoveries

market == <<arbiters, reviews, rate, deals, had>>

Nobody    == "nobody"
NoArbiter == [status |-> "none", ratings |-> {}]
NoDeal    == [status |-> "none", buyer |-> Nobody, seller |-> Nobody, arbiter |-> Nobody]
Idle      == [me |-> Nobody, of |-> "none", deal |-> "none", view |-> NoDeal]

MarketInit ==
  /\ arbiters = [a \in People |-> NoArbiter]
  /\ reviews = {}
  /\ rate = [q \in Requests |-> Idle]
  /\ deals = [d \in Deals |-> NoDeal]
  /\ had = [d \in Deals |-> [sellers |-> {}, parties |-> {}, moves |-> 0]]

-----------------------------------------------------------------------------
(* The marketplace. *)

ApplyArbiter(me) ==
  /\ arbiters' = [arbiters EXCEPT ![me].status = IF @ \in {"none", "rejected"} THEN "pending" ELSE @]
  /\ UNCHANGED <<reviews, rate, deals, had>>

ReviewArbiter(a, decision) ==
  /\ arbiters[a].status # "none"
  /\ arbiters' = [arbiters EXCEPT ![a].status = decision]
  /\ UNCHANGED <<reviews, rate, deals, had>>

Approved(a) == arbiters[a].status = "approved"

(* defaultArbiter: an approved arbiter other than the seller, the one with  *)
(* the best score (stars are not modelled, so any); else the first admin    *)
(* who is not the seller; else nobody, and no link is made.                 *)
DefaultArbiters(seller) ==
  LET fit  == {a \in People : Approved(a) /\ a # seller}
      rest == {i \in DOMAIN Admins : Admins[i] # seller}
  IN  IF fit # {} THEN fit
      ELSE IF rest # {} THEN {Admins[Min(rest)]} ELSE {}

-----------------------------------------------------------------------------
(* Escrows.  A seller makes a link, a buyer funds it, it ends on the chain. *)

CreateLink(d, seller) ==
  /\ deals[d].status = "none"
  /\ \E a \in DefaultArbiters(seller) :
       deals' = [deals EXCEPT ![d] = [status |-> "link", buyer |-> Nobody, seller |-> seller, arbiter |-> a]]
  /\ UNCHANGED <<arbiters, reviews, rate, had>>

Become(d, deal, moves) ==
  /\ deals' = [deals EXCEPT ![d] = deal]
  /\ had' = [had EXCEPT ![d] = [sellers |-> @.sellers \cup {deal.seller},
                                parties |-> @.parties \cup {deal.buyer, deal.seller},
                                moves |-> @.moves + moves]]
  /\ UNCHANGED <<arbiters, reviews, rate>>

FundDeal(d, buyer) ==
  /\ deals[d].status = "link" /\ buyer \notin {deals[d].seller, deals[d].arbiter}
  /\ Become(d, [deals[d] EXCEPT !.status = "funded", !.buyer = buyer], 0)

EndDeal(d, ending) ==
  /\ deals[d].status = "funded"
  /\ Become(d, [deals[d] EXCEPT !.status = ending], 0)

OnChain(d) == deals[d].status \notin {"none", "link"}

(* moveAccount, for every escrow of the old key. *)
RecoverDeal(d, old, new) ==
  /\ OnChain(d) /\ old # new
  /\ had[d].moves < MaxMoves
  /\ old \in {deals[d].buyer, deals[d].seller, deals[d].arbiter}
  /\ LET moved(role) == IF role = old THEN new ELSE role
     IN  Become(d, [status |-> deals[d].status, buyer |-> moved(deals[d].buyer),
                    seller |-> moved(deals[d].seller), arbiter |-> moved(deals[d].arbiter)], 1)

-----------------------------------------------------------------------------
(* Ratings: each request looks at the escrow, then updates its store. *)

Look(q, me, of, d) ==
  /\ rate[q] = Idle /\ OnChain(d)
  /\ rate' = [rate EXCEPT ![q] = [me |-> me, of |-> of, deal |-> d, view |-> deals[d]]]
  /\ UNCHANGED <<arbiters, reviews, deals, had>>

LookToRateSeller(q, me, d) ==
  /\ deals[d].buyer = me /\ deals[d].status \in {"completed", "resolved"}
  /\ Look(q, me, "seller", d)

LookToRateArbiter(q, me, d) ==
  /\ deals[d].status = "resolved" /\ me \in {deals[d].buyer, deals[d].seller}
  /\ Look(q, me, "arbiter", d)

(* Mutant of Reviewed: a review is found by its author. *)
ReviewedByMe(r) ==
  \E v \in reviews : v.seller = r.view.seller /\ v.deal = r.deal /\ v.buyer = r.me

Reviewed(r) == \E v \in reviews : v.seller = r.view.seller /\ v.deal = r.deal

RateSeller(q) ==
  LET r == rate[q]
  IN  /\ r.of = "seller"
      /\ reviews' = IF Reviewed(r) THEN reviews
                    ELSE reviews \cup {[seller |-> r.view.seller, deal |-> r.deal, buyer |-> r.me]}
      /\ rate' = [rate EXCEPT ![q] = Idle]
      /\ UNCHANGED <<arbiters, deals, had>>

InMarket(a) == a \in People /\ arbiters[a].status # "none"
Rated(r, a) == \E v \in arbiters[a].ratings : v.deal = r.deal /\ v.rater = r.me

RateArbiter(q) ==
  LET r == rate[q]
      a == r.view.arbiter
  IN  /\ r.of = "arbiter"
      /\ arbiters' = IF ~InMarket(a) \/ Rated(r, a) THEN arbiters
                     ELSE [arbiters EXCEPT ![a].ratings =
                             @ \cup {[deal |-> r.deal, rater |-> r.me]}]
      /\ rate' = [rate EXCEPT ![q] = Idle]
      /\ UNCHANGED <<reviews, deals, had>>

MarketNext ==
  \/ \E a \in Applicants :
       \/ ApplyArbiter(a)
       \/ \E decision \in {"approved", "rejected"} : ReviewArbiter(a, decision)
  \/ \E d \in Deals :
       \/ \E w \in People : CreateLink(d, w) \/ FundDeal(d, w)
       \/ \E ending \in {"completed", "resolved", "refunded"} : EndDeal(d, ending)
       \/ \E old, new \in People : RecoverDeal(d, old, new)
       \/ \E q \in Requests, me \in People :
            LookToRateSeller(q, me, d) \/ LookToRateArbiter(q, me, d)
  \/ \E q \in Requests : RateSeller(q) \/ RateArbiter(q)

-----------------------------------------------------------------------------
(* Ratings cannot be made up: every review is of an escrow that ended with  *)
(* the seller paid or an arbiter's decision, written by one who has been    *)
(* its party, and about one who has been its seller; and an escrow yields   *)
(* one review for each seller it has had and one rating of an arbiter for   *)
(* each party, however many requests run at once and however keys are       *)
(* recovered in between.                                                    *)
ReviewsAreBought ==
  \A d \in Deals :
    LET of      == {v \in reviews : v.deal = d}
        ratings == UNION {{[by |-> v.rater, of |-> a] : v \in {x \in arbiters[a].ratings : x.deal = d}} :
                          a \in People}
    IN  /\ of # {} => deals[d].status \in {"completed", "resolved"}
        /\ ratings # {} => deals[d].status = "resolved"
        /\ \A v \in of : v.buyer \in had[d].parties /\ v.seller \in had[d].sellers
        /\ Cardinality(of) <= Cardinality(had[d].sellers)
        /\ \A v \in ratings : v.by \in had[d].parties
        /\ \A a \in People : Cardinality({v \in arbiters[a].ratings : v.deal = d}) <= Cardinality(had[d].parties)
=============================================================================
