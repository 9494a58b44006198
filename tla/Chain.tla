------------------------------- MODULE Chain --------------------------------
(***************************************************************************)
(* A producer node and its replicas (node/chain: chain.go, store.go,       *)
(* snapshot.go; the produce, replicate and forwarding loops of             *)
(* cmd/openreserved/main.go): mempools, blocks, the block log and the      *)
(* snapshot on disk, crashes and restarts.                                 *)
(*                                                                         *)
(* Chain.mu makes every method atomic in its process, so a method is one   *)
(* action and a crash inside it is another one.  The ledger is reduced to  *)
(* what Submit and Produce tell apart: an account's nonce and balance, and *)
(* transactions that pay, if a rule that others influence lets them.       *)
(* Hashes have no collisions: the hash of a block is the transactions of   *)
(* the chain up to it, a state root the state.                             *)
(* Block times are left out: Produce moves a time that is not past the tip *)
(* to tip + 1, so no check on them fails.                                  *)
(***************************************************************************)
EXTENDS Integers, SequencesExt

CONSTANTS Replicas,      \* replica nodes
          Users,         \* sender addresses, in the order the code sorts them
          Txs,           \* signed transactions clients may submit
          ProxyTxs,      \* those they may submit through a replica
          GenesisBal,    \* balances at genesis
          MaxBlockTxs,   \* transactions per block (1000)
          MaxMempoolTxs, \* pending transactions per node (10_000)
          MaxNonceAhead, \* nonces a pending transaction may be ahead (16)
          SnapshotEvery, \* blocks between snapshots (1000)
          FetchLimit,    \* blocks a replica asks for at a time (100)
          MaxFaults      \* bound on crashes and failed appends

Producer == 0
Nodes == Replicas \cup {Producer}

ASSUME ChainAssumption ==
  /\ Replicas \subseteq Nat \ {0}
  /\ Users \subseteq Nat
  /\ Txs \subseteq [from : Users, nonce : Nat, to : Users, pay : Nat, upto : Nat]
  /\ ProxyTxs \subseteq Txs /\ \A tx \in Txs : tx.from # tx.to
  /\ GenesisBal \in [Users -> Nat]
  /\ {MaxBlockTxs, MaxMempoolTxs, MaxNonceAhead, SnapshotEvery, FetchLimit} \subseteq Nat \ {0}
  /\ MaxFaults \in Nat

VARIABLES up,        \* the process runs
          blocks,    \* Chain.blocks
          state,     \* Chain.state
          mempool,   \* Chain.mempool
          log,       \* blocks.jsonl, a record per line
          snap,      \* snapshot.json
          inbox,     \* blocks a replica fetched and has not added
          forwarded, \* submissions the producer accepted from a replica's proxy
          faults,    \* crashes and failed appends so far
          failed     \* nodes that outlived an append that failed half way

memoryVars == <<blocks, state, mempool, inbox>>
chainVars  == <<up, blocks, state, mempool, log, snap, inbox, forwarded, faults, failed>>

GenesisState == [nonce |-> [u \in Users |-> 0], bal |-> GenesisBal]
NoBlock      == [prev |-> <<>>, txs |-> <<>>, root |-> GenesisState]
NoSnapshot   == [height |-> 0, hash |-> <<>>, state |-> GenesisState]

Line(b) == [kind |-> "block", block |-> b]
Torn    == [kind |-> "torn", block |-> NoBlock]     \* no newline at its end
Corrupt == [kind |-> "corrupt", block |-> NoBlock]  \* a line that does not parse

ChainInit ==
  /\ up = [n \in Nodes |-> TRUE]
  /\ blocks = [n \in Nodes |-> <<>>]
  /\ state = [n \in Nodes |-> GenesisState]
  /\ mempool = [n \in Nodes |-> {}]
  /\ log = [n \in Nodes |-> <<>>]
  /\ snap = [n \in Nodes |-> NoSnapshot]
  /\ inbox = [n \in Nodes |-> <<>>]
  /\ forwarded = {}
  /\ faults = 0
  /\ failed = {}

-----------------------------------------------------------------------------
(* What the transaction asks for cannot be done: it costs more than there  *)
(* is, or its rule does not hold any more (a circle that started, an       *)
(* escrow that closed), which stands here as "to" having more than upto.   *)
Refused(st, tx) == st.bal[tx.from] < tx.pay \/ st.bal[tx.to] > tx.upto

(* Mutant of Verdict: a gap in the nonces is let through. *)
VerdictWithGaps(st, tx) ==
  IF tx.nonce < st.nonce[tx.from] THEN "low"
  ELSE IF Refused(st, tx) THEN "refused" ELSE "ok"

(* The ledger: what apply says of a transaction, and what it does. *)
Verdict(st, tx) ==
  CASE tx.nonce < st.nonce[tx.from] -> "low"
    [] tx.nonce > st.nonce[tx.from] -> "high"
    [] tx.nonce = st.nonce[tx.from] /\ Refused(st, tx) -> "refused"
    [] OTHER -> "ok"

Apply(st, tx) ==
  [nonce |-> [st.nonce EXCEPT ![tx.from] = @ + 1],
   bal   |-> [st.bal EXCEPT ![tx.from] = @ - tx.pay, ![tx.to] = @ + tx.pay]]

(* A block's own height and hash, and the hash of the last of the blocks   *)
(* bs, Genesis.Hash for none.                                              *)
Height(b)    == Len(b.prev) + 1
BlockHash(b) == Append(b.prev, b.txs)
Hash(bs)     == IF bs = <<>> THEN <<>> ELSE BlockHash(Last(bs))

ExecuteOne(r, tx) ==
  IF r.ok /\ Verdict(r.st, tx) = "ok" THEN [ok |-> TRUE, st |-> Apply(r.st, tx)]
                                      ELSE [r EXCEPT !.ok = FALSE]

Execute(st, txs) ==
  LET run[i \in 0..Len(txs)] ==
        IF i = 0 THEN [ok |-> TRUE, st |-> st] ELSE ExecuteOne(run[i - 1], txs[i])
  IN  run[Len(txs)]

(* verify: b extends bs, whose state is st, and executes to its root. *)
Verify(bs, st, b) ==
  /\ b.prev = Hash(bs)
  /\ Len(b.txs) \in 1..MaxBlockTxs
  /\ LET run == Execute(st, b.txs) IN run.ok /\ run.st = b.root

(* Mutant of StillPending: only dropped transactions leave the mempool. *)
StillPendingAll(pending, st) == pending

(* tx ids that commit and index remove from the mempool. *)
StillPending(pending, st) == {tx \in pending : tx.nonce >= st.nonce[tx.from]}

(* append: bytes left by an earlier append without a newline spoil the line. *)
Written(lines, rec) ==
  IF lines # <<>> /\ Last(lines).kind = "torn"
  THEN Front(lines) \o <<IF rec.kind = "torn" THEN Torn ELSE Corrupt>>
  ELSE Append(lines, rec)

(* What snapshot.json may hold after maybeSnapshot at each of the heights, *)
(* with bs the blocks; a failure to write is logged and otherwise ignored. *)
Snapshots(n, bs, heights) ==
  {snap[n]} \cup
  {[height |-> h, hash |-> BlockHash(bs[h]), state |-> bs[h].root] :
     h \in {k \in heights : k % SnapshotEvery = 0}}

(* Mutant of Commit: the block is served before it is appended to the log. *)
CommitBeforeAppend(n, b, st, pending) ==
  /\ blocks' = [blocks EXCEPT ![n] = Append(@, b)]
  /\ state' = [state EXCEPT ![n] = st]
  /\ mempool' = [mempool EXCEPT ![n] = StillPending(pending, st)]
  /\ UNCHANGED <<log, snap>>

(* append and commit of block b, which executes to st, with the mempool    *)
(* "pending" at that point.                                                *)
Commit(n, b, st, pending) ==
  /\ log' = [log EXCEPT ![n] = Written(@, Line(b))]
  /\ blocks' = [blocks EXCEPT ![n] = Append(@, b)]
  /\ state' = [state EXCEPT ![n] = st]
  /\ mempool' = [mempool EXCEPT ![n] = StillPending(pending, st)]
  /\ \E s \in Snapshots(n, Append(blocks[n], b), {Len(blocks[n]) + 1}) :
       snap' = [snap EXCEPT ![n] = s]

-----------------------------------------------------------------------------
(* Submit's checks; the transaction is well formed and correctly signed.   *)
Submittable(n, tx) ==
  LET mine == {p \in mempool[n] : p.from = tx.from}
      need == tx.pay + MapThenSumSet(LAMBDA p : p.pay, mine)
  IN
  /\ tx \notin mempool[n]
  /\ \A i \in DOMAIN blocks[n] : tx \notin ToSet(blocks[n][i].txs)  \* txIndex
  /\ Cardinality(mempool[n]) < MaxMempoolTxs
  /\ tx.nonce < state[n].nonce[tx.from] + MaxNonceAhead
  /\ Verdict(state[n], tx) \in {"ok", "high"}
  /\ \A p \in mine : p.nonce # tx.nonce
  /\ need <= state[n].bal[tx.from]

Submit(tx) ==
  /\ up[Producer] /\ Submittable(Producer, tx)
  /\ mempool' = [mempool EXCEPT ![Producer] = @ \cup {tx}]
  /\ UNCHANGED <<up, blocks, state, log, snap, inbox, forwarded, faults, failed>>

(* forwardSubmits: the producer takes it, then the proxy submits it to its *)
(* own mempool too, by when the replica may have moved on.                 *)
ForwardSubmit(r, tx) ==
  /\ up[r] /\ up[Producer] /\ Submittable(Producer, tx)
  /\ mempool' = [mempool EXCEPT ![Producer] = @ \cup {tx}]
  /\ forwarded' = forwarded \cup {<<r, tx>>}
  /\ UNCHANGED <<up, blocks, state, log, snap, inbox, faults, failed>>

SubmitLocally(r, tx) ==
  /\ <<r, tx>> \in forwarded
  /\ forwarded' = forwarded \ {<<r, tx>>}
  /\ mempool' = IF Submittable(r, tx) THEN [mempool EXCEPT ![r] = @ \cup {tx}] ELSE mempool
  /\ UNCHANGED <<up, blocks, state, log, snap, inbox, faults, failed>>

-----------------------------------------------------------------------------
(* sort.Slice: the pending transactions by sender and nonce.               *)
Before(a, b) == a.from < b.from \/ (a.from = b.from /\ a.nonce < b.nonce)

InOrder(pending) ==
  {q \in [1..Cardinality(pending) -> pending] :
     \A i, j \in DOMAIN q : i < j => Before(q[i], q[j])}

(* Produce's pass over the queue: what goes into the block and what can no *)
(* longer succeed.                                                         *)
SelectOne(r, tx) ==
  IF Len(r.txs) = MaxBlockTxs THEN r
  ELSE CASE Verdict(r.st, tx) = "ok"   -> [r EXCEPT !.st = Apply(@, tx), !.txs = Append(@, tx)]
         [] Verdict(r.st, tx) = "high" -> r
         [] OTHER                      -> [r EXCEPT !.dropped = @ \cup {tx}]

Selection(st, queue) ==
  LET run[i \in 0..Len(queue)] ==
        IF i = 0 THEN [st |-> st, txs |-> <<>>, dropped |-> {}]
                 ELSE SelectOne(run[i - 1], queue[i])
  IN  run[Len(queue)]

NextBlock(sel) ==
  [prev |-> Hash(blocks[Producer]), txs |-> sel.txs, root |-> sel.st]

(* What is left of the mempool once the entries past MempoolTTL are gone;  *)
(* any of them may be that old.                                            *)
Unexpired == SUBSET mempool[Producer]

Produce ==
  \E pending \in Unexpired : \E queue \in InOrder(pending) :
    LET sel  == Selection(state[Producer], queue)
        rest == pending \ sel.dropped
    IN
    /\ up[Producer]
    /\ IF sel.txs = <<>>
       THEN /\ mempool' = [mempool EXCEPT ![Producer] = rest]
            /\ UNCHANGED <<blocks, state, log, snap>>
       ELSE /\ Verify(blocks[Producer], state[Producer], NextBlock(sel))
            /\ Commit(Producer, NextBlock(sel), sel.st, rest)
    /\ UNCHANGED <<up, inbox, forwarded, faults, failed>>

(* append fails, having left nothing, some or all of the line in the file; *)
(* the produce loop logs the error and goes on.                            *)
ProduceFails ==
  \E pending \in Unexpired, left \in {<<>>, <<"torn">>, <<"all">>} : \E queue \in InOrder(pending) :
    LET sel == Selection(state[Producer], queue)
        rec == IF left = <<"torn">> THEN Torn ELSE Line(NextBlock(sel))
    IN
    /\ faults < MaxFaults /\ faults' = faults + 1
    /\ failed' = IF left = <<>> THEN failed ELSE failed \cup {Producer}
    /\ up[Producer] /\ sel.txs # <<>>
    /\ log' = IF left = <<>> THEN log ELSE [log EXCEPT ![Producer] = Written(@, rec)]
    /\ mempool' = [mempool EXCEPT ![Producer] = pending \ sel.dropped]
    /\ UNCHANGED <<up, blocks, state, snap, inbox, forwarded>>

(* Mutant of Fetch: asks for the blocks from the own tip on. *)
FetchFromTip(r) ==
  /\ up[r] /\ up[Producer] /\ inbox[r] = <<>>
  /\ Len(blocks[Producer]) > Len(blocks[r])
  /\ inbox' = [inbox EXCEPT ![r] =
       SubSeq(blocks[Producer], IF blocks[r] = <<>> THEN 1 ELSE Len(blocks[r]),
              Len(blocks[Producer]))]
  /\ UNCHANGED <<up, blocks, state, mempool, log, snap, forwarded, faults, failed>>

(* replicate: ask for the blocks past the own tip, then add them one by    *)
(* one; a rejected block discards the rest of the batch.                   *)
Fetch(r) ==
  /\ up[r] /\ up[Producer] /\ inbox[r] = <<>>
  /\ Len(blocks[Producer]) > Len(blocks[r])
  /\ inbox' = [inbox EXCEPT ![r] =
       SubSeq(blocks[Producer], Len(blocks[r]) + 1,
              Min({Len(blocks[r]) + FetchLimit, Len(blocks[Producer])}))]
  /\ UNCHANGED <<up, blocks, state, mempool, log, snap, forwarded, faults, failed>>

AddBlock(r) ==
  LET b == Head(inbox[r]) IN
  /\ up[r] /\ inbox[r] # <<>>
  /\ IF Verify(blocks[r], state[r], b)
     THEN /\ Commit(r, b, b.root, mempool[r])
          /\ inbox' = [inbox EXCEPT ![r] = Tail(@)]
     ELSE /\ inbox' = [inbox EXCEPT ![r] = <<>>]
          /\ UNCHANGED <<blocks, state, mempool, log, snap>>
  /\ UNCHANGED <<up, forwarded, faults, failed>>

(* The same failure on a replica, which asks for the block again. *)
AddBlockFails(r) ==
  \E left \in {<<>>, <<"torn">>, <<"all">>} :
    LET rec == IF left = <<"torn">> THEN Torn ELSE Line(Head(inbox[r])) IN
    /\ faults < MaxFaults /\ faults' = faults + 1
    /\ failed' = IF left = <<>> THEN failed ELSE failed \cup {r}
    /\ up[r] /\ inbox[r] # <<>>
    /\ Verify(blocks[r], state[r], Head(inbox[r]))
    /\ log' = IF left = <<>> THEN log ELSE [log EXCEPT ![r] = Written(@, rec)]
    /\ inbox' = [inbox EXCEPT ![r] = <<>>]
    /\ UNCHANGED <<up, blocks, state, mempool, snap, forwarded>>

-----------------------------------------------------------------------------
(* The process dies; what memory held is gone, and if it was inside append *)
(* of some block the line may be there in part or whole.                   *)
Selections ==
  {Selection(state[Producer], queue) : queue \in UNION {InOrder(p) : p \in Unexpired}}

Dying(n) ==
  {<<>>} \cup
  (IF n = Producer
   THEN {<<NextBlock(sel)>> : sel \in {x \in Selections : x.txs # <<>>}}
   ELSE IF inbox[n] # <<>> /\ Verify(blocks[n], state[n], Head(inbox[n]))
        THEN {<<Head(inbox[n])>>} ELSE {})

Crash(n) ==
  /\ up[n] /\ faults < MaxFaults
  /\ faults' = faults + 1
  /\ up' = [up EXCEPT ![n] = FALSE]
  /\ \E bs \in Dying(n), torn \in BOOLEAN :
       log' = IF bs = <<>> THEN log
              ELSE [log EXCEPT ![n] = Written(@, IF torn THEN Torn ELSE Line(bs[1]))]
  /\ blocks' = [blocks EXCEPT ![n] = <<>>]
  /\ state' = [state EXCEPT ![n] = GenesisState]
  /\ mempool' = [mempool EXCEPT ![n] = {}]
  /\ inbox' = [inbox EXCEPT ![n] = <<>>]
  /\ forwarded' = {f \in forwarded : f[1] # n}
  /\ UNCHANGED <<snap, failed>>

(* Mutant of Stored: a torn last line is kept. *)
StoredAsIs(lines) == lines

(* openBlockLog: a torn last line is dropped, any other damage is an error. *)
Stored(lines) == IF lines # <<>> /\ Last(lines).kind = "torn" THEN Front(lines) ELSE lines

Readable(lines) == \A i \in DOMAIN lines : lines[i].kind = "block"

(* loadSnapshot: trusted if the log holds its block and its root. *)
Trusted(s, bs) ==
  /\ s.height \in 1..Len(bs)
  /\ s.hash = BlockHash(bs[s.height])
  /\ s.state = bs[s.height].root

(* Open's replay of the blocks bs: those up to a trusted snapshot's height *)
(* are taken as they are, the others verified; the first that fails ends   *)
(* it.                                                                     *)
ReplayOne(r, s, b) ==
  CASE r.ok /\ Height(b) <= s.height ->
         [ok |-> TRUE, blocks |-> Append(r.blocks, b),
          st |-> IF Height(b) = s.height THEN s.state ELSE r.st]
    [] r.ok /\ Height(b) > s.height /\ Verify(r.blocks, r.st, b) ->
         [ok |-> TRUE, blocks |-> Append(r.blocks, b), st |-> b.root]
    [] OTHER -> [r EXCEPT !.ok = FALSE]

Replay(bs, s) ==
  LET run[i \in 0..Len(bs)] ==
        IF i = 0 THEN [ok |-> TRUE, blocks |-> <<>>, st |-> GenesisState]
                 ELSE ReplayOne(run[i - 1], s, bs[i])
  IN  run[Len(bs)]

(* Blocks that cannot be read are an error before the file is truncated.   *)
Opened(n) ==
  LET lines == Stored(log[n])
      bs    == [i \in DOMAIN lines |-> lines[i].block]
      from  == IF Trusted(snap[n], bs) THEN snap[n] ELSE NoSnapshot
      run   == Replay(bs, from)
  IN  IF Readable(lines)
      THEN [ok |-> run.ok, blocks |-> run.blocks, st |-> run.st, log |-> lines,
            replayed |-> {i \in DOMAIN run.blocks : Height(run.blocks[i]) > from.height}]
      ELSE [ok |-> FALSE, blocks |-> <<>>, st |-> GenesisState, log |-> log[n],
            replayed |-> {}]

(* Mutant of Restart: the blocks after the snapshot are not replayed. *)
RestartAtSnapshot(n) ==
  LET o == Opened(n) IN
  /\ ~up[n] /\ o.ok
  /\ up' = [up EXCEPT ![n] = TRUE]
  /\ log' = [log EXCEPT ![n] = o.log]
  /\ blocks' = [blocks EXCEPT ![n] = o.blocks]
  /\ state' = [state EXCEPT ![n] = IF snap[n] # NoSnapshot THEN snap[n].state ELSE o.st]
  /\ UNCHANGED <<mempool, snap, inbox, forwarded, faults, failed>>

(* A failing Open ends the process before it serves anything, but after it *)
(* truncated the log and wrote snapshots on its way.                       *)
Restart(n) ==
  LET o == Opened(n) IN
  /\ ~up[n]
  /\ up' = [up EXCEPT ![n] = o.ok]
  /\ log' = [log EXCEPT ![n] = o.log]
  /\ \E s \in Snapshots(n, o.blocks, o.replayed) : snap' = [snap EXCEPT ![n] = s]
  /\ IF o.ok THEN /\ blocks' = [blocks EXCEPT ![n] = o.blocks]
                  /\ state' = [state EXCEPT ![n] = o.st]
             ELSE UNCHANGED <<blocks, state>>
  /\ UNCHANGED <<mempool, inbox, forwarded, faults, failed>>

ChainNext ==
  \/ \E tx \in Txs :
       \/ Submit(tx)
       \/ \E r \in Replicas : (tx \in ProxyTxs /\ ForwardSubmit(r, tx)) \/ SubmitLocally(r, tx)
  \/ Produce
  \/ ProduceFails
  \/ \E r \in Replicas : Fetch(r) \/ AddBlock(r) \/ AddBlockFails(r)
  \/ \E n \in Nodes : Crash(n) \/ Restart(n)

ChainSpec == ChainInit /\ [][ChainNext]_chainVars

(* replicate runs in a loop with back-off and a dead node is started again; *)
(* nobody has to submit anything and no block has to be produced.  Each     *)
(* conjunct is weak fairness with its ENABLED written out.                  *)
ChainFairness ==
  /\ \A r \in Replicas :
       /\ \/ []<>~(up[r] /\ up[Producer] /\ inbox[r] = <<>>
                     /\ Len(blocks[Producer]) > Len(blocks[r]))
          \/ []<><<Fetch(r)>>_chainVars
       /\ []<>~(up[r] /\ inbox[r] # <<>>) \/ []<><<AddBlock(r)>>_chainVars
  /\ \A n \in Nodes : []<>~(~up[n] /\ Opened(n).ok) \/ []<><<Restart(n)>>_chainVars

ChainFairSpec == ChainSpec /\ ChainFairness

-----------------------------------------------------------------------------
LedgerState == [nonce : [Users -> Nat], bal : [Users -> Nat]]
Block       == [prev : Seq(Seq(Txs)), txs : Seq(Txs), root : LedgerState]
Snapshot    == [height : Nat, hash : Seq(Seq(Txs)), state : LedgerState]
LogLine     == [kind : {"block", "torn", "corrupt"}, block : Block]

(* Each node keeps blocks, a state, a mempool within its limit, a log file *)
(* and snapshots of the shapes Chain, blockLog and snapshot give them.     *)
ChainTypeOK ==
  /\ up \in [Nodes -> BOOLEAN]
  /\ blocks \in [Nodes -> Seq(Block)]
  /\ state \in [Nodes -> LedgerState]
  /\ mempool \in [Nodes -> SUBSET Txs]
  /\ \A n \in Nodes : IsFiniteSet(mempool[n]) /\ Cardinality(mempool[n]) <= MaxMempoolTxs
  /\ log \in [Nodes -> Seq(LogLine)]
  /\ snap \in [Nodes -> Snapshot]
  /\ inbox \in [Nodes -> Seq(Block)]
  /\ forwarded \subseteq Replicas \X Txs
  /\ faults \in 0..MaxFaults
  /\ failed \subseteq Nodes

(* The i-th block of bs extends the ones before it and executes to its     *)
(* root, for every i.                                                      *)
StateAt(bs, i) == IF i = 0 THEN GenesisState ELSE bs[i].root
IsChain(bs)    == \A i \in DOMAIN bs : Verify(SubSeq(bs, 1, i - 1), StateAt(bs, i - 1), bs[i])

BlocksIn(lines) == [i \in DOMAIN lines |-> lines[i].block]

(* The log of a node that never outlived a failed append is a chain, and   *)
(* while the node runs it has exactly that chain, and its state, in memory. *)
Kept(lines, running, bs, st) ==
  /\ Readable(Stored(lines)) /\ IsChain(BlocksIn(Stored(lines)))
  /\ running => /\ Readable(lines) /\ bs = BlocksIn(lines)
                /\ st = StateAt(bs, Len(bs))

NodesInStep == \A n \in Nodes \ failed : Kept(log[n], up[n], blocks[n], state[n])

(* The blocks bs are the lines that come after the first k. *)
Follows(bs, k, lines) ==
  \A i \in DOMAIN bs : k + i \in DOMAIN lines /\ lines[k + i] = Line(bs[i])

Durable == Stored(log[Producer])

(* What a replica has fetched, serves or has on disk is what the producer  *)
(* has on disk at the same heights.                                        *)
ReplicasFollow ==
  Producer \notin failed =>
    \A r \in Replicas \ failed :
      /\ Follows(BlocksIn(Stored(log[r])), 0, Durable)
      /\ Follows(inbox[r], Len(blocks[r]), Durable)

(* A node that is down has nothing in memory and answers nobody, and the   *)
(* producer fetches nothing.                                               *)
NothingInMemory ==
  /\ inbox[Producer] = <<>>
  /\ \A n \in Nodes : ~up[n] => blocks[n] = <<>> /\ mempool[n] = {} /\ inbox[n] = <<>>
  /\ \A f \in forwarded : up[f[1]]

(* Pending transactions can still be executed: their nonce is not used up  *)
(* and no two compete for one, which is what next_nonce counts on.         *)
Usable(pending, st) ==
  \A p, q \in pending :
    /\ p.nonce >= st.nonce[p.from]
    /\ p.from = q.from /\ p.nonce = q.nonce => p = q

PendingIsUsable == \A n \in Nodes : Usable(mempool[n], state[n])

(* The pool of pending transactions stays within its limit and usable on   *)
(* every node, over restarts, replaced blocks and forwarded submissions,   *)
(* and memory and disk of all nodes that had no failed append agree.       *)
ChainInv == ChainTypeOK /\ NothingInMemory /\ PendingIsUsable /\ NodesInStep /\ ReplicasFollow

(* The places of the transactions of u in the blocks bs, and their order.  *)
Places(bs, u) ==
  {p \in (DOMAIN bs) \X (1..MaxBlockTxs) :
     p[2] \in DOMAIN bs[p[1]].txs /\ bs[p[1]].txs[p[2]].from = u}
NonceAt(bs, p) == bs[p[1]].txs[p[2]].nonce
Earlier(p, q)  == p[1] < q[1] \/ (p[1] = q[1] /\ p[2] < q[2])

(* The nonces of u in bs ascend, and are all those below next.             *)
NoncesInOrder(bs, u, next) ==
  /\ \A p \in Places(bs, u) : NonceAt(bs, p) < next
  /\ \A p, q \in Places(bs, u) : Earlier(p, q) => NonceAt(bs, p) < NonceAt(bs, q)
  /\ \A k \in 0..(next - 1) : \E p \in Places(bs, u) : NonceAt(bs, p) = k

(* A transaction is executed at most once, and a sender's in the order of  *)
(* their nonces with none left out, whatever was resubmitted, dropped or   *)
(* replayed after a crash, on nodes that outlived no failed append.        *)
ExactlyInNonceOrder ==
  \A n \in Nodes \ failed : up[n] =>
    \A u \in Users : NoncesInOrder(blocks[n], u, state[n].nonce[u])

(* A running node's state is the state that executing its blocks from      *)
(* genesis gives, also after a restart that skipped the blocks under a     *)
(* snapshot, unless it outlived a failed append.                           *)
StateIsReplay ==
  \A n \in Nodes \ failed : up[n] =>
    LET run == Replay(blocks[n], NoSnapshot)
    IN  run.ok /\ run.blocks = blocks[n] /\ run.st = state[n]

(* A block any node serves is in the producer's block log: a replica never *)
(* holds a block that a crash of the producer can undo, and nodes never    *)
(* disagree on a height, unless an append of theirs failed half way.       *)
ServedIsDurable ==
  Producer \notin failed => \A n \in Nodes \ failed : Follows(blocks[n], 0, Durable)

(* "On open, a torn final line (from a crash mid-write) is truncated away" *)
(* (store.go:15): whatever a node left on disk, Open can load it again.    *)
LogCanBeOpened == \A n \in Nodes : Opened(n).ok

(* Crashes alone never make it fail: a node that was always stopped by an  *)
(* append that went wrong, and so never wrote behind one, can be started.  *)
LogSurvivesCrashes == \A n \in Nodes \ failed : Opened(n).ok

(* Every block reaches every replica in the end, through crashes of either *)
(* side; only a node that outlived a failed append may be missing.         *)
ReplicasCatchUp ==
  \A r \in Replicas, h \in 1..Cardinality(Txs) :
    (Len(blocks[Producer]) >= h) ~> (Len(blocks[r]) >= h \/ failed # {})
=============================================================================
