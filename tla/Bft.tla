-------------------------------- MODULE Bft ---------------------------------
(***************************************************************************)
(* A validator set under CometBFT: the ABCI application (node/abci/app.go),*)
(* the part of the chain it drives (ExecuteDecided, CommitDecided,         *)
(* CheckPending, Forget of node/chain/chain.go) and the submit middleware  *)
(* of cmd/openreserved/bft.go, with crashes and failed appends.            *)
(*                                                                         *)
(* CometBFT is external: it decides one sequence of blocks for everybody,  *)
(* delivers it to each node by FinalizeBlock and Commit in order, asks     *)
(* Info after a restart where to go on, and stops a node whose Commit      *)
(* fails.  A proposer may put anything into a block, because               *)
(* ProcessProposal accepts everything.                                     *)
(*                                                                         *)
(* The ledger is reduced to nonces and a rule on time, that of creating an *)
(* escrow: refused once its shipping date has come, and stamped with the   *)
(* time it runs at.  Balances, and the snapshot, are in module Chain.      *)
(***************************************************************************)
EXTENDS Integers, SequencesExt

CONSTANTS Validators,    \* nodes that run the application
          Users,         \* senders
          Txs,           \* well-formed transactions clients may submit
          Malformed,     \* bytes that DecodeTx refuses
          ApiNodes,      \* validators that clients submit to
          Handlers,      \* requests a node's submit middleware serves at a time
          Times,         \* block times that may be decided
          Clocks,        \* readings of a node's own clock
          GenesisTime,   \* time of the genesis document
          MaxBlockTxs,   \* transactions per block (1000)
          MaxMempoolTxs, \* transactions a node tracks as pending (10_000)
          MaxNonceAhead, \* nonces a pending transaction may be ahead (16)
          Proposals,     \* sequences of entries a proposer may put together
          MaxHeight,     \* bound on decided blocks
          MaxFaults      \* bound on crashes and failed appends

ASSUME BftAssumption ==
  /\ Txs \subseteq [from : Users, nonce : Nat, shipBy : Nat] /\ 0 \notin Users
  /\ Proposals \subseteq Seq(Txs \cup {Malformed})
  /\ ApiNodes \subseteq Validators
  /\ Times \cup Clocks \subseteq Nat /\ GenesisTime \in Nat
  /\ {MaxBlockTxs, MaxMempoolTxs, MaxNonceAhead, MaxHeight} \subseteq Nat \ {0}
  /\ MaxFaults \in Nat

VARIABLES status,   \* of each process: "running", "halted" (consensus stopped), "down"
          blocks,   \* Chain.blocks
          state,    \* Chain.state
          mempool,  \* Chain.mempool
          log,      \* blocks.jsonl, a record per line
          pending,  \* Application.pending: the block executed and not committed
          height,   \* what CometBFT takes to be the application's last height
          inflight, \* what each submit handler has added and not broadcast yet
          decided,  \* the blocks CometBFT has decided
          admitted, \* transactions that some node's CheckTx has let in
          faults    \* crashes and failed appends so far

bftVars == <<status, blocks, state, mempool, log, pending, height, inflight, decided, admitted, faults>>
diskAndNet == <<log, decided, admitted>>

NoTx    == [from |-> 0, nonce |-> 0, shipBy |-> 0]
NoBlock == [height |-> 0, prev |-> <<>>, time |-> 0, txs |-> <<>>, root |-> <<>>]
Torn    == [NoBlock EXCEPT !.height = -1]  \* a line without its newline

GenesisState == [nonce |-> [u \in Users |-> 0], stamp |-> [u \in Users |-> 0], now |-> 0]

BftInit ==
  /\ status = [n \in Validators |-> "running"]
  /\ blocks = [n \in Validators |-> <<>>]
  /\ state = [n \in Validators |-> GenesisState]
  /\ mempool = [n \in Validators |-> {}]
  /\ log = [n \in Validators |-> <<>>]
  /\ pending = [n \in Validators |-> <<>>]
  /\ height = [n \in Validators |-> 0]
  /\ inflight = [n \in Validators |-> [h \in Handlers |-> NoTx]]
  /\ decided = <<>>
  /\ admitted = {}
  /\ faults = 0

-----------------------------------------------------------------------------
(* The ledger: what apply says of a transaction, what it does, and what of *)
(* the state is hashed (not the time of the last check).                   *)
Verdict(st, tx) ==
  CASE tx.nonce < st.nonce[tx.from] -> "low"
    [] tx.nonce > st.nonce[tx.from] -> "high"
    [] tx.nonce = st.nonce[tx.from] /\ tx.shipBy <= st.now -> "refused"
    [] OTHER -> "ok"

Apply(st, tx) == [st EXCEPT !.nonce[tx.from] = @ + 1, !.stamp[tx.from] = st.now]

Root(st) == <<st.nonce, st.stamp>>

TipTime(bs) == IF bs = <<>> THEN GenesisTime ELSE Last(bs).time
Hash(bs)    == [i \in DOMAIN bs |-> <<bs[i].time, bs[i].txs>>]

MaxOf(a, b) == IF a > b THEN a ELSE b

(* One transaction of a block: bytes that do not decode, what is more than *)
(* a block holds and what the ledger refuses are passed over.              *)
RunOne(r, tx) ==
  IF tx \in Txs /\ Len(r.ok) < MaxBlockTxs /\ Verdict(r.st, tx) = "ok"
  THEN [ok |-> Append(r.ok, tx), st |-> Apply(r.st, tx)]
  ELSE r

(* The transactions that are kept, in order, and the state they lead to.   *)
RunAll(st, txs) ==
  LET run[i \in 0..Len(txs)] ==
        IF i = 0 THEN [ok |-> <<>>, st |-> st] ELSE RunOne(run[i - 1], txs[i])
  IN run[Len(txs)]

(* Mutant of ExecuteDecided: the clone keeps the time of the last check.   *)
ExecuteDecidedNow(bs, st, h, time, txs) ==
  LET t   == MaxOf(time, TipTime(bs))
      run == RunAll(st, txs)
  IN [state |-> run.st,
      block |-> [height |-> h, prev |-> Hash(bs), time |-> t, txs |-> run.ok, root |-> Root(run.st)]]

(* Mutant of ExecuteDecided: a block time before the tip's is kept.        *)
ExecuteDecidedEarly(bs, st, h, time, txs) ==
  LET run == RunAll([st EXCEPT !.now = time], txs)
  IN [state |-> run.st,
      block |-> [height |-> h, prev |-> Hash(bs), time |-> time, txs |-> run.ok, root |-> Root(run.st)]]

(* ExecuteDecided: what cannot run is skipped; time never goes back.       *)
ExecuteDecided(bs, st, h, time, txs) ==
  LET t   == MaxOf(time, TipTime(bs))
      run == RunAll([st EXCEPT !.now = t], txs)
  IN [state |-> run.st,
      block |-> [height |-> h, prev |-> Hash(bs), time |-> t, txs |-> run.ok, root |-> Root(run.st)]]

(* A stored block, executed again. *)
Rerun(st, b) == RunAll([st EXCEPT !.now = b.time], b.txs)

(* verify under BFT, for the replay at startup: no signature, and neither  *)
(* empty blocks nor equal times are refused.                               *)
Verify(bs, st, b) ==
  /\ b.height = Len(bs) + 1 /\ b.prev = Hash(bs) /\ b.time >= TipTime(bs)
  /\ Len(b.txs) <= MaxBlockTxs
  /\ LET run == Rerun(st, b)
     IN run.ok = b.txs /\ Root(run.st) = b.root

(* openBlockLog: a torn last line is cut off.                              *)
Stored(lines) == IF lines # <<>> /\ Last(lines) = Torn THEN Front(lines) ELSE lines

(* Open: every stored block is verified and committed again.               *)
Replay(lines) ==
  LET bs == Stored(lines)
      st[i \in 0..Len(bs)] ==
        IF i = 0 THEN GenesisState ELSE Rerun(st[i - 1], bs[i]).st
  IN [ok |-> \A i \in DOMAIN bs : Verify(SubSeq(bs, 1, i - 1), st[i - 1], bs[i]),
      bs |-> bs, st |-> st[Len(bs)]]

-----------------------------------------------------------------------------
(* The state as Submit and CheckPending leave it: rules are evaluated at   *)
(* the node's clock, or just after the tip.                                *)
Nows(n)         == {MaxOf(clock, TipTime(blocks[n]) + 1) : clock \in Clocks}
Checked(n, now) == [state[n] EXCEPT !.now = now]

Admissible(n, now, tx) ==
  /\ tx.nonce < state[n].nonce[tx.from] + MaxNonceAhead
  /\ Verdict(Checked(n, now), tx) \in {"ok", "high"}

Known(n, tx) == tx \in mempool[n] \/ \E i \in DOMAIN blocks[n] : Contains(blocks[n][i].txs, tx)

(* submit, first half: the node tracks the transaction as pending.  One it *)
(* already knows is broadcast again; a check that fails answers an error.  *)
Submit(n, h, tx, now) ==
  /\ status[n] # "down" /\ inflight[n][h] = NoTx
  /\ \/ /\ Known(n, tx)
        /\ inflight' = [inflight EXCEPT ![n][h] = tx]
        /\ UNCHANGED <<mempool, state>>
     \/ /\ ~Known(n, tx) /\ Cardinality(mempool[n]) < MaxMempoolTxs
        /\ state' = [state EXCEPT ![n] = Checked(n, now)]
        /\ IF Admissible(n, now, tx)
              /\ \A p \in mempool[n] : p.from = tx.from => p.nonce # tx.nonce
           THEN /\ mempool' = [mempool EXCEPT ![n] = @ \cup {tx}]
                /\ inflight' = [inflight EXCEPT ![n][h] = tx]
           ELSE UNCHANGED <<mempool, inflight>>
  /\ UNCHANGED <<status, blocks, pending, height, faults, diskAndNet>>

(* Mutant of Forget: a refused transaction stays pending on this node.     *)
ForgetNothing(n, tx) == UNCHANGED mempool

(* Chain.Forget. *)
Forget(n, tx) == mempool' = [mempool EXCEPT ![n] = @ \ {tx}]

(* submit, second half: BroadcastTxSync, which runs CheckTx on this node.  *)
(* CometBFT may not answer (or the client may leave) with CheckTx done or  *)
(* not; one that is in its cache was admitted before.                      *)
Broadcast(n, h, now) ==
  LET tx == inflight[n][h] IN
  /\ tx # NoTx
  /\ inflight' = [inflight EXCEPT ![n][h] = NoTx]
  /\ \/ /\ tx \in admitted
        /\ UNCHANGED <<mempool, state, admitted>>
     \/ /\ Admissible(n, now, tx)
        /\ state' = [state EXCEPT ![n] = Checked(n, now)]
        /\ admitted' = admitted \cup {tx}
        /\ mempool' = mempool \/ Forget(n, tx)
     \/ /\ ~Admissible(n, now, tx)
        /\ state' = [state EXCEPT ![n] = Checked(n, now)]
        /\ Forget(n, tx)
        /\ UNCHANGED admitted
     \/ /\ Forget(n, tx)
        /\ UNCHANGED <<state, admitted>>
  /\ UNCHANGED <<status, blocks, pending, height, log, decided, faults>>

(* CheckTx of a transaction another node gossips, or of CometBFT's recheck.*)
CheckTx(n, now) ==
  /\ status[n] # "down" /\ admitted # {}
  /\ state' = [state EXCEPT ![n] = Checked(n, now)]
  /\ UNCHANGED <<status, blocks, mempool, pending, height, inflight, faults, diskAndNet>>

(* PrepareProposal: the head of what CometBFT offers.                      *)
Prepared(txs) == SubSeq(txs, 1, IF Len(txs) < MaxBlockTxs THEN Len(txs) ELSE MaxBlockTxs)

(* CometBFT decides the next block: a proposal of this application, or     *)
(* anything else that another proposer made up, ProcessProposal accepts it.*)
(* Times do not decrease, but the first may lie before GenesisTime.        *)
Decide ==
  /\ Len(decided) < MaxHeight
  /\ \E t \in Times :
     \E offer \in {p \in Proposals : Range(p) \subseteq admitted \cup {Malformed}} :
     \E txs \in {offer} \cup (IF Contains(offer, Malformed) THEN {} ELSE {Prepared(offer)}) :
       /\ decided # <<>> => t >= Last(decided).time
       /\ decided' = Append(decided, [time |-> t, txs |-> txs])
  /\ UNCHANGED <<status, blocks, state, mempool, log, pending, height, inflight, admitted, faults>>

(* FinalizeBlock: execute and remember, change nothing else.               *)
FinalizeBlock(n) ==
  /\ status[n] = "running" /\ pending[n] = <<>> /\ height[n] < Len(decided)
  /\ UNCHANGED <<status, blocks, state, mempool, height, inflight, faults, diskAndNet>>
  /\ LET d == decided[height[n] + 1]
     IN pending' = [pending EXCEPT
          ![n] = <<ExecuteDecided(blocks[n], state[n], height[n] + 1, d.time, d.txs)>>]

-----------------------------------------------------------------------------
(* CommitDecided, when the append succeeds.                                *)
CommitDecided(n, p) ==
  /\ p.block.height = Len(blocks[n]) + 1
  /\ log' = [log EXCEPT ![n] = Append(@, p.block)]
  /\ blocks' = [blocks EXCEPT ![n] = Append(@, p.block)]
  /\ state' = [state EXCEPT ![n] = p.state]
  /\ mempool' = [mempool EXCEPT ![n] = {tx \in @ : tx.nonce >= p.state.nonce[tx.from]}]

Commit(n) ==
  /\ status[n] = "running" /\ pending[n] # <<>>
  /\ height' = [height EXCEPT ![n] = @ + 1]
  /\ pending' = [pending EXCEPT ![n] = <<>>]
  /\ CommitDecided(n, pending[n][1])
  /\ UNCHANGED <<status, inflight, decided, admitted, faults>>

(* What an append that fails or is cut short leaves in the log.            *)
Partial(n, b) == {log[n], Append(log[n], Torn), Append(log[n], b)}

(* Mutant of AfterFailedCommit: the error is swallowed and CometBFT goes on.*)
AfterFailedCommitIgnored(n) ==
  /\ height' = [height EXCEPT ![n] = @ + 1]
  /\ UNCHANGED status

(* Commit answers an error: CometBFT stops consensus on this node, while   *)
(* the process and its API stay.                                           *)
AfterFailedCommit(n) ==
  /\ status' = [status EXCEPT ![n] = "halted"]
  /\ UNCHANGED height

CommitFails(n) ==
  /\ status[n] = "running" /\ pending[n] # <<>>
  /\ \/ /\ pending[n][1].block.height # Len(blocks[n]) + 1
        /\ UNCHANGED <<log, faults>>
     \/ /\ faults < MaxFaults /\ faults' = faults + 1
        /\ \E l \in Partial(n, pending[n][1].block) : log' = [log EXCEPT ![n] = l]
  /\ pending' = [pending EXCEPT ![n] = <<>>]
  /\ AfterFailedCommit(n)
  /\ UNCHANGED <<blocks, state, mempool, inflight, decided, admitted>>

(* The process ends, at any moment or in the middle of an append (a fault),*)
(* or because the operator stops a node that has halted.                   *)
Crash(n) ==
  /\ status[n] # "down"
  /\ IF status[n] = "halted" THEN UNCHANGED <<faults, log>>
     ELSE /\ faults < MaxFaults /\ faults' = faults + 1
          /\ \E l \in {log[n]} \cup IF pending[n] = <<>> THEN {} ELSE Partial(n, pending[n][1].block) :
               log' = [log EXCEPT ![n] = l]
  /\ status' = [status EXCEPT ![n] = "down"]
  /\ blocks' = [blocks EXCEPT ![n] = <<>>]
  /\ state' = [state EXCEPT ![n] = GenesisState]
  /\ mempool' = [mempool EXCEPT ![n] = {}]
  /\ pending' = [pending EXCEPT ![n] = <<>>]
  /\ inflight' = [inflight EXCEPT ![n] = [h \in Handlers |-> NoTx]]
  /\ UNCHANGED <<height, decided, admitted>>

(* Info: the last height the application has stored.                       *)
Info(n, bs) == Len(bs)

(* Open and New; then CometBFT asks Info and replays what comes after.     *)
Restart(n) ==
  /\ status[n] = "down"
  /\ status' = [status EXCEPT ![n] = "running"]
  /\ \E opened \in {Replay(log[n])} :
       /\ opened.ok
       /\ blocks' = [blocks EXCEPT ![n] = opened.bs]
       /\ state' = [state EXCEPT ![n] = opened.st]
       /\ height' = [height EXCEPT ![n] = Info(n, opened.bs)]
  /\ log' = [log EXCEPT ![n] = Stored(@)]
  /\ UNCHANGED <<mempool, pending, inflight, decided, admitted, faults>>

-----------------------------------------------------------------------------
BftNext ==
  \/ Decide
  \/ \E n \in Validators :
       \/ FinalizeBlock(n) \/ Commit(n) \/ CommitFails(n) \/ Crash(n) \/ Restart(n)
       \/ \E now \in Nows(n) : CheckTx(n, now)
  \/ \E n \in ApiNodes, h \in Handlers : \E now \in Nows(n) :
       \/ Broadcast(n, h, now)
       \/ \E tx \in Txs : Submit(n, h, tx, now)

BftSpec == BftInit /\ [][BftNext]_bftVars

(* CometBFT keeps delivering what it has decided, and a node that went     *)
(* down or halted is started again.                                        *)
Proceed(n) ==
  \/ FinalizeBlock(n) \/ Commit(n) \/ Restart(n)
  \/ status[n] = "halted" /\ Crash(n)

BftFairSpec == BftSpec /\ \A n \in Validators : WF_<<status, pending>>(Proceed(n))

-----------------------------------------------------------------------------
LedgerState == [nonce : [Users -> Nat], stamp : [Users -> Nat], now : Nat]
Block == [height : Nat, prev : Seq(Nat \X Seq(Txs)), time : Nat, txs : Seq(Txs),
          root : [Users -> Nat] \X [Users -> Nat]]

(* A log holds blocks, and a torn line at most at its end.                 *)
BftTypeOK ==
  /\ status \in [Validators -> {"running", "halted", "down"}]
  /\ blocks \in [Validators -> Seq(Block)]
  /\ state \in [Validators -> LedgerState]
  /\ mempool \in [Validators -> SUBSET Txs]
  /\ log \in [Validators -> Seq(Block \cup {Torn})]
  /\ \A n \in Validators : Stored(log[n]) \in Seq(Block)
  /\ pending \in [Validators -> Seq([state : LedgerState, block : Block])]
  /\ height \in [Validators -> Nat]
  /\ inflight \in [Validators -> [Handlers -> Txs \cup {NoTx}]]
  /\ decided \in Seq([time : Nat, txs : Seq(Txs \cup {Malformed})])
  /\ admitted \subseteq Txs
  /\ faults \in 0..MaxFaults

(* Two validators never hold different blocks, or different state roots in *)
(* them, at the same height: whatever a proposer put into the blocks,      *)
(* whatever clocks, local submissions and restarts each of them had in     *)
(* between (abci/app.go:4 promises that validators agree on the root).     *)
ValidatorsAgree ==
  \A m, n \in Validators : \A i \in DOMAIN blocks[m] \cap DOMAIN blocks[n] :
    blocks[m][i] = blocks[n][i]

(* What a node serves is on its disk, the committed state is the one of    *)
(* its last block, and the log can always be opened again: the application *)
(* stops rather than append to a log an append has failed on.              *)
ServedCanBeReplayed ==
  \A n \in Validators :
    /\ Replay(log[n]).ok
    /\ status[n] # "down" =>
         /\ IsPrefix(blocks[n], Stored(log[n]))
         /\ blocks[n] # <<>> => Last(blocks[n]).root = Root(state[n])

(* What execution gives for the i-th decided block on top of the first     *)
(* i - 1 blocks of bs: it depends on the state only through its root.      *)
RootAt(bs, i)   == IF i = 0 THEN Root(GenesisState) ELSE bs[i].root
WithRoot(r)     == [nonce |-> r[1], stamp |-> r[2], now |-> 0]
Executed(bs, i) == ExecuteDecided(SubSeq(bs, 1, i - 1), WithRoot(RootAt(bs, i - 1)), i,
                                  decided[i].time, decided[i].txs)

FollowsDecided(bs) ==
  /\ Len(bs) <= Len(decided)
  /\ \A i \in DOMAIN bs : bs[i] = Executed(bs, i).block

(* Every log, whatever failed while it was written, holds block by block   *)
(* what execution gives for the decided ones, the same in all of them.     *)
LogsAgree ==
  /\ \A n \in Validators : FollowsDecided(Stored(log[n]))
  /\ \A m, n \in Validators : \A i \in DOMAIN Stored(log[m]) \cap DOMAIN Stored(log[n]) :
       Stored(log[m])[i] = Stored(log[n])[i]

(* A node serves a part of its log, all of it while consensus runs, when   *)
(* CometBFT and the application also agree on the height; its state is     *)
(* that of its last block but for the time; and what waits for Commit is   *)
(* still what execution would give, whatever was checked in between.       *)
InStep(n) ==
  /\ IsPrefix(blocks[n], Stored(log[n]))
  /\ Root(state[n]) = RootAt(blocks[n], Len(blocks[n]))
  /\ status[n] = "running" => log[n] = blocks[n] /\ height[n] = Len(blocks[n])
  /\ status[n] # "running" => pending[n] = <<>>
  /\ pending[n] # <<>> => /\ height[n] < Len(decided)
                          /\ pending[n] = <<Executed(blocks[n], height[n] + 1)>>

NodesInStep == \A n \in Validators : InStep(n)

(* The memory, the log and the consensus height of every node stay in step *)
(* with the decided blocks, so that the node can always be started again.  *)
BftInv == BftTypeOK /\ LogsAgree /\ NodesInStep /\ ServedCanBeReplayed

(* A transaction that holds a nonce in a node's own mempool (next_nonce    *)
(* counts it) was let into the shared mempool, or its handler still waits  *)
(* for the answer: a refused one does not block its sender.                *)
PendingIsShared ==
  \A n \in Validators : \A tx \in mempool[n] :
    tx \in admitted \/ \E h \in Handlers : inflight[n][h] = tx

(* Every block CometBFT decides is in the end committed by every node,     *)
(* through crashes and appends that failed at any point.                   *)
BlocksReachEveryNode ==
  \A i \in 1..MaxHeight :
    Len(decided) >= i ~> \A n \in Validators : Len(blocks[n]) >= i
=============================================================================
