-------------------------------- MODULE Push --------------------------------
(***************************************************************************)
(* Push notifications of the ORPay backend (push.go): one goroutine,       *)
(* watchPush, scans the chain for each subscribed wallet, records what it  *)
(* has seen and then sends what is new to the wallet's devices.            *)
(*                                                                         *)
(* One wallet is modelled, the scans of different wallets being            *)
(* independent; it is a party of one escrow and has one seat in one        *)
(* circle.  The store is durable and each Update atomic; what the watcher  *)
(* has read, and what it still has to send, is in "scan" and is lost in a  *)
(* crash.  A notice stands for the event it is about: its wording is not   *)
(* modelled.  The history is read whole, the node's limit of 500 entries   *)
(* being out of reach here.                                                *)
(***************************************************************************)
EXTENDS Naturals, Sequences, SequencesExt, FiniteSets

CONSTANTS Devices,    \* endpoints that may be subscribed
          MaxSubs,    \* subscriptions kept for a wallet (5)
          Roles,      \* the roles the wallet may have in its escrow
          Topics,     \* "money", "circle", "escrow": what happens on the chain
          Counts,     \* milestones of the escrow
          Seat,       \* the round in which the wallet collects the pot
          MaxTxs, MaxRounds, MaxMonths, MaxFaults  \* bounds on the environment

VARIABLES
  subs,    \* Subs, oldest first
  seen,    \* the rest of the wallet's pushState
  scan,    \* what the watcher is doing
  role,    \* the wallet's role in its escrow
  topic,   \* what happens on the chain in this behaviour
  txs,     \* the wallet's history on the chain: is it money received
  life,    \* its escrow on the chain
  ship,    \* has DispatchedAt been set
  circle,  \* its circle: round, has it paid, have all, is the payment due
  live,    \* endpoints the push service still knows
  months,  \* months gone by
  told,    \* per notice, how often it was put together
  got,     \* which device was told of which payment
  faults   \* crashes and failed sends

chainView == <<txs, life, ship, circle>>
push      == <<subs, seen, scan, role, topic, chainView, live, months, told, got, faults>>

Escrows == INSTANCE EscrowLife WITH Ids <- {1}

(* What is known of the circle or of the escrow is a set: empty, or of one. *)
Unscanned == [lastTx |-> 0, sent |-> {}, old |-> {}, escrow |-> {}, primed |-> FALSE]
Resting   == [at |-> "idle", txs |-> <<>>, pool |-> {}, escrow |-> {},
              news |-> <<>>, to |-> <<>>, gone |-> {}]

EscrowKey == [status |-> life[1].status, released |-> life[1].released, ship |-> ship]

PushInit ==
  /\ subs = <<>> /\ seen = Unscanned /\ scan = Resting
  /\ role \in Roles
  /\ topic \in {x \in Topics : x = "escrow" \/ role = "seller"}
  /\ txs = <<>> /\ life = [i \in {1} |-> Escrows!Unborn] /\ ship = FALSE
  /\ circle = [round |-> 0, paid |-> FALSE, full |-> FALSE, due |-> FALSE]
  /\ live = IF topic = "money" THEN Devices ELSE {CHOOSE dev \in Devices : TRUE}
  /\ months = 0
  /\ told = << >> /\ got = {} /\ faults = 0

-----------------------------------------------------------------------------
(* Handlers. *)

PushSubscribe(dev) ==
  /\ dev \in live
  /\ LET all == Append(Remove(subs, dev), dev)
     IN  subs' = SubSeq(all, IF Len(all) > MaxSubs THEN Len(all) - MaxSubs + 1 ELSE 1, Len(all))
  /\ UNCHANGED <<seen, scan, role, topic, chainView, live, months, told, got, faults>>

(* Of one endpoint, or of all when none is named. *)
PushUnsubscribe(which) ==
  /\ subs' = SelectSeq(subs, LAMBDA x : x \notin which)
  /\ UNCHANGED <<seen, scan, role, topic, chainView, live, months, told, got, faults>>

-----------------------------------------------------------------------------
(* The chain, the calendar and the push service. *)

Outside == UNCHANGED <<subs, seen, scan, role, topic, told, got, faults>>

Transact(money) ==
  /\ topic = "money" /\ Len(txs) < MaxTxs
  /\ txs' = Append(txs, money)
  /\ UNCHANGED <<life, ship, circle, live, months>> /\ Outside

EscrowMoves ==
  /\ topic = "escrow"
  /\ \/ (\E n \in Counts : Escrows!Born(1, n)) /\ UNCHANGED ship
     \/ Escrows!Moves(1) /\ ship' = (ship \/ life'[1].status = "dispatched")
  /\ UNCHANGED <<txs, circle, live, months>> /\ Outside

CircleMoves ==
  /\ topic = "circle"
  /\ \/ circle' = [circle EXCEPT !.paid = TRUE]
     \/ circle' = [circle EXCEPT !.paid = TRUE, !.full = TRUE]
     \/ circle' = [circle EXCEPT !.due = TRUE]
     \/ /\ circle.full /\ circle.round < MaxRounds
        /\ circle' = [round |-> circle.round + 1, paid |-> FALSE, full |-> FALSE, due |-> FALSE]
  /\ UNCHANGED <<txs, life, ship, live, months>> /\ Outside

(* A month later the notices recorded so far are old. *)
MonthPasses ==
  /\ topic = "circle" /\ months < MaxMonths
  /\ months' = months + 1
  /\ seen' = [seen EXCEPT !.old = seen.sent]
  /\ UNCHANGED <<subs, scan, role, topic, chainView, live, told, got, faults>>

DeviceGone(dev) ==
  /\ topic = "money"
  /\ live' = live \ {dev}
  /\ UNCHANGED <<chainView, months>> /\ Outside

-----------------------------------------------------------------------------
(* watchPush. *)

(* An answer of the node about pools or escrows, or none. *)
Answers(about, x) == IF topic = about THEN {{}, {x}} ELSE {{}}

(* The tick, and the three questions pushEvents puts to the node.           *)
StartScan ==
  /\ scan.at = "idle" /\ subs # <<>>
  /\ \E pool \in Answers("circle", circle), escrow \in Answers("escrow", EscrowKey) :
       scan' = [Resting EXCEPT !.at = "read", !.txs = txs, !.pool = pool,
                               !.escrow = {e \in escrow : e.status # "none"}]
  /\ UNCHANGED <<subs, seen, role, topic, chainView, live, months, told, got, faults>>

(* Money in, newest first, down to the last transaction seen. *)
MoneyNews ==
  LET upTo[k \in 0..Len(scan.txs)] ==
        IF k = 0 THEN <<>>
        ELSE IF k > seen.lastTx /\ scan.txs[k] THEN <<<<"money", k>>>> \o upTo[k - 1] ELSE upTo[k - 1]
  IN  upTo[Len(scan.txs)]

CircleKeys ==
  {<<"due", p.round>> : p \in {x \in scan.pool : ~x.paid /\ x.due}}
    \cup {<<"pot", p.round>> : p \in {x \in scan.pool : x.round = Seat /\ x.full}}

(* Which changes of the escrow the wallet is told of. *)
Telling(prev, new) ==
  \/ new.status \in {"disputed", "resolved"}
  \/ role = "buyer" /\ new.status = "dispatched" /\ prev.status # "dispatched"
  \/ role = "buyer" /\ new.status = "refunded"
  \/ role = "seller"

EscrowNews ==
  LET changes == {new \in scan.escrow \ seen.escrow : \E prev \in seen.escrow : Telling(prev, new)}
  IN  SetToSeq({<<"escrow", new>> : new \in changes})

Count(f, n) == IF n \in DOMAIN f THEN f[n] ELSE 0
Tell(news)  == [n \in DOMAIN told \cup ToSet(news) |->
                  Count(told, n) + IF n \in ToSet(news) THEN 1 ELSE 0]

(* Mutant of LastSeen: the entry the scan reached, not the newest. *)
LastSeenOldest == IF scan.txs = <<>> THEN seen.lastTx ELSE 1

LastSeen == IF scan.txs = <<>> THEN seen.lastTx ELSE Len(scan.txs)

(* pushEvents' Update: everything is recorded before anything is sent, and  *)
(* the first scan only records.  once() looks at Sent before the keys older *)
(* than a month are forgotten.                                              *)
RecordScan ==
  LET fresh == SetToSeq(CircleKeys \ seen.sent)
      news  == IF seen.primed THEN MoneyNews \o fresh \o EscrowNews ELSE <<>>
  IN  /\ scan.at = "read"
      /\ seen' = [lastTx |-> LastSeen, sent |-> (seen.sent \cup CircleKeys) \ seen.old, old |-> {},
                  escrow |-> IF scan.escrow = {} THEN seen.escrow ELSE scan.escrow,
                  primed |-> TRUE]
      /\ told' = Tell(news)
      /\ scan' = IF news = <<>> THEN Resting
                 ELSE [Resting EXCEPT !.at = "notify", !.news = news]
      /\ UNCHANGED <<subs, role, topic, chainView, live, months, got, faults>>

(* notify: the subscriptions are read, each is tried once, and those the    *)
(* push service does not know are dropped.                                  *)
ReadSubs ==
  /\ scan.at = "notify"
  /\ scan' = [scan EXCEPT !.at = "send", !.to = subs]
  /\ UNCHANGED <<subs, seen, role, topic, chainView, live, months, told, got, faults>>

Send(ok) ==
  /\ scan.at = "send" /\ scan.to # <<>>
  /\ LET dev == Head(scan.to)
     IN  /\ scan' = [scan EXCEPT !.to = Tail(@),
                                 !.gone = IF ok /\ dev \notin live THEN @ \cup {dev} ELSE @]
         /\ got' = IF ok /\ dev \in live /\ Head(scan.news)[1] = "money"
                   THEN got \cup {<<dev, Head(scan.news)[2]>>} ELSE got
  /\ ok \/ faults < MaxFaults
  /\ faults' = IF ok THEN faults ELSE faults + 1
  /\ UNCHANGED <<subs, seen, role, topic, chainView, live, months, told>>

(* Mutant of AfterNotice: only the newest notice is sent. *)
AfterNoticeRest == Resting

AfterNotice ==
  IF Len(scan.news) = 1 THEN Resting
  ELSE [Resting EXCEPT !.at = "notify", !.news = Tail(scan.news)]

DropGone ==
  /\ scan.at = "send" /\ scan.to = <<>>
  /\ subs' = SelectSeq(subs, LAMBDA x : x \notin scan.gone)
  /\ scan' = AfterNotice
  /\ UNCHANGED <<seen, role, topic, chainView, live, months, told, got, faults>>

Crash ==
  /\ faults < MaxFaults
  /\ faults' = faults + 1
  /\ scan' = Resting
  /\ UNCHANGED <<subs, seen, role, topic, chainView, live, months, told, got>>

Watch ==
  \/ StartScan \/ RecordScan \/ ReadSubs \/ DropGone
  \/ \E ok \in BOOLEAN : Send(ok)

PushNext ==
  \/ Watch \/ Crash
  \/ \E dev \in Devices : PushSubscribe(dev) \/ PushUnsubscribe({dev}) \/ DeviceGone(dev)
  \/ PushUnsubscribe(Devices)
  \/ \E money \in BOOLEAN : Transact(money)
  \/ EscrowMoves \/ CircleMoves \/ MonthPasses

-----------------------------------------------------------------------------
(* No event is announced twice, whatever crashes and subscriptions come and *)
(* go: a payment or a change of the escrow once for good, a reminder of the *)
(* circle once in a month (the keys that prevent a second one are kept that *)
(* long).                                                                   *)
AnnouncedOnce ==
  \A n \in DOMAIN told : told[n] <= IF n[1] \in {"due", "pot"} THEN 1 + months ELSE 1

(* Money that arrives at a wallet whose first scan is done reaches each     *)
(* device that stays subscribed and known to the push service, unless the   *)
(* backend crashes or a send fails: neither is made up for.                 *)
PaymentIsAnnounced ==
  \A dev \in Devices, k \in 1..MaxTxs :
    (/\ k <= Len(txs) /\ txs[k] /\ seen.primed /\ seen.lastTx < k
     /\ Contains(subs, dev) /\ dev \in live /\ scan.at = "idle")
      ~> (<<dev, k>> \in got \/ ~Contains(subs, dev) \/ dev \notin live \/ faults > 0)
=============================================================================
