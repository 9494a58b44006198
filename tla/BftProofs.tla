----------------------------- MODULE BftProofs ------------------------------
(***************************************************************************)
(* Validators under CometBFT agree on every block and its state root, and  *)
(* a node can always be started again from its log.                        *)
(*                                                                         *)
(* Agreement is not inductive over the blocks in memory: a node that comes *)
(* back takes them from its log, which may hold one more.  BftInv therefore*)
(* speaks about the logs, and says that each block is what execution gives *)
(* for the decided block at its height on top of the one before; execution *)
(* depends on the state only through the root, because ExecuteDecided sets *)
(* the time that a check may have changed.  That a log can be replayed     *)
(* needs that running again what was kept keeps all of it and leads to the *)
(* same state.                                                             *)
(***************************************************************************)
EXTENDS Bft, SumsProofs, SequenceTheorems

Entries == Txs \cup {Malformed}
Outcome == [ok : Seq(Txs), st : LedgerState]
Begun(st) == [ok |-> <<>>, st |-> st]

-----------------------------------------------------------------------------
(* Running transactions. *)
LEMMA BegunType == ASSUME NEW st \in LedgerState PROVE Begun(st) \in Outcome
BY DEF Begun, Outcome

LEMMA ApplyType ==
  ASSUME NEW st \in LedgerState, NEW tx \in Txs PROVE Apply(st, tx) \in LedgerState
<1>1. tx.from \in Users
  BY BftAssumption
<1>2. PICK nonce \in [Users -> Nat] : nonce = [st.nonce EXCEPT ![tx.from] = @ + 1]
  <2>1. st.nonce \in [Users -> Nat]
    BY DEF LedgerState
  <2>2. st.nonce[tx.from] + 1 \in Nat
    BY <1>1, <2>1
  <2>3. [st.nonce EXCEPT ![tx.from] = @ + 1] \in [Users -> Nat]
    BY <2>1, <2>2
  <2> QED BY <2>3
<1>3. PICK stamp \in [Users -> Nat] : stamp = [st.stamp EXCEPT ![tx.from] = st.now]
  BY <1>1 DEF LedgerState
<1> QED BY <1>1, <1>2, <1>3 DEF Apply, LedgerState

LEMMA RunOneType ==
  ASSUME NEW r \in Outcome, NEW tx PROVE RunOne(r, tx) \in Outcome
BY ApplyType DEF RunOne, Outcome

(* The states that running txs goes through. *)
IsRun(run, st, txs) ==
  /\ run \in [0..Len(txs) -> Outcome]
  /\ run[0] = Begun(st)
  /\ \A i \in 1..Len(txs) : run[i] = RunOne(run[i - 1], txs[i])

LEMMA RunsExist ==
  ASSUME NEW st \in LedgerState, NEW txs \in Seq(Entries)
  PROVE  \E run : IsRun(run, st, txs)
<1> DEFINE n == Len(txs)
           G == [x \in Outcome \X (1..n) |-> RunOne(x[1], txs[x[2]])]
<1>1. n \in Nat
  OBVIOUS
<1>2. G \in [Outcome \X (1..n) -> Outcome]
  BY RunOneType
<1>3. \A r \in Outcome, k \in 1..n : G[<<r, k>>] = RunOne(r, txs[k])
  OBVIOUS
<1> HIDE DEF G
<1>4. Unrolls(n, Outcome, Begun(st), G)
  BY <1>1, <1>2, BegunType, IntervalRecursion
<1>5. PICK run \in [0..n -> Outcome] :
        run[0] = Begun(st) /\ \A k \in 1..n : run[k] = G[<<run[k - 1], k>>]
  BY <1>4 DEF Unrolls
<1>6. ASSUME NEW k \in 1..n PROVE run[k] = RunOne(run[k - 1], txs[k])
  <2>1. run[k - 1] \in Outcome
    BY <1>1, <1>5
  <2> QED BY <1>3, <1>5, <2>1
<1> QED BY <1>5, <1>6 DEF IsRun

(* A run is determined by where it starts and what it has run so far. *)
LEMMA RunsAgree ==
  ASSUME NEW st, NEW txs \in Seq(Entries), NEW more \in Seq(Entries),
         NEW n \in Nat, n <= Len(txs), n <= Len(more),
         \A i \in 1..n : txs[i] = more[i],
         NEW run, IsRun(run, st, txs), NEW sum, IsRun(sum, st, more)
  PROVE  run[n] = sum[n]
<1> DEFINE T == {m \in 0..n : run[m] = sum[m]}
<1>1. 0 \in T
  BY DEF IsRun
<1>2. ASSUME NEW m \in 1..n, m - 1 \in T PROVE m \in T
  BY <1>2 DEF IsRun
<1>3. \A m \in 0..n : m \in T
  <2> HIDE DEF T
  <2> QED BY <1>1, <1>2, IntervalInduction
<1> QED BY <1>3

(* RunAll unfolds as it is written. *)
LEMMA RunAllUnfold ==
  ASSUME NEW st \in LedgerState, NEW txs \in Seq(Entries)
  PROVE  \E run : IsRun(run, st, txs) /\ RunAll(st, txs) = run[Len(txs)]
<1> DEFINE P(run) == run = [i \in 0..Len(txs) |->
                       IF i = 0 THEN [ok |-> <<>>, st |-> st] ELSE RunOne(run[i - 1], txs[i])]
           C == CHOOSE run : P(run)
<1>1. \E run : P(run)
  <2>1. PICK run : IsRun(run, st, txs)
    BY RunsExist
  <2>2. P(run)
    BY <2>1 DEF IsRun, Begun
  <2> QED BY <2>2
<1>2. P(C)
  <2> HIDE DEF P
  <2> QED BY <1>1
<1>3. RunAll(st, txs) = C[Len(txs)]
  BY DEF RunAll
<1>4. /\ C = [i \in 0..Len(txs) |->
                IF i = 0 THEN [ok |-> <<>>, st |-> st] ELSE RunOne(C[i - 1], txs[i])]
  BY <1>2
<1> HIDE DEF C
<1>5. /\ C[0] = Begun(st)
      /\ \A i \in 1..Len(txs) : C[i] = RunOne(C[i - 1], txs[i])
  BY <1>4 DEF Begun
<1> DEFINE T == {m \in 0..Len(txs) : C[m] \in Outcome}
<1>6. 0 \in T
  BY <1>5, BegunType
<1>7. ASSUME NEW m \in 1..Len(txs), m - 1 \in T PROVE m \in T
  BY <1>5, <1>7, RunOneType
<1>8. \A m \in 0..Len(txs) : m \in T
  <2>1. Len(txs) \in Nat
    OBVIOUS
  <2> HIDE DEF T
  <2> QED BY <1>6, <1>7, <2>1, IntervalInduction
<1>9. C \in [0..Len(txs) -> Outcome]
  BY <1>4, <1>8
<1> QED BY <1>3, <1>5, <1>9 DEF IsRun

LEMMA RunAllType ==
  ASSUME NEW st \in LedgerState, NEW txs \in Seq(Entries)
  PROVE  RunAll(st, txs) \in Outcome
<1>1. PICK run : IsRun(run, st, txs) /\ RunAll(st, txs) = run[Len(txs)]
  BY RunAllUnfold
<1> QED BY <1>1 DEF IsRun

LEMMA RunAllEmpty ==
  ASSUME NEW st \in LedgerState PROVE RunAll(st, <<>>) = Begun(st)
<1>1. <<>> \in Seq(Entries) /\ Len(<<>>) = 0
  OBVIOUS
<1>2. PICK run : IsRun(run, st, <<>>) /\ RunAll(st, <<>>) = run[0]
  BY <1>1, RunAllUnfold
<1> QED BY <1>2 DEF IsRun

LEMMA RunAllAppend ==
  ASSUME NEW st \in LedgerState, NEW txs \in Seq(Entries), NEW tx \in Entries
  PROVE  RunAll(st, Append(txs, tx)) = RunOne(RunAll(st, txs), tx)
<1> DEFINE more == Append(txs, tx)
           n    == Len(txs)
<1>1. /\ more \in Seq(Entries) /\ Len(more) = n + 1 /\ more[n + 1] = tx
      /\ \A i \in 1..n : txs[i] = more[i]
      /\ n \in Nat /\ n + 1 \in 1..Len(more) /\ n <= Len(more)
  OBVIOUS
<1> HIDE DEF more
<1>2. PICK run : IsRun(run, st, txs) /\ RunAll(st, txs) = run[n]
  BY RunAllUnfold
<1>3. PICK sum : IsRun(sum, st, more) /\ RunAll(st, more) = sum[Len(more)]
  BY <1>1, RunAllUnfold
<1>4. run[n] = sum[n]
  BY <1>1, <1>2, <1>3, RunsAgree
<1>5. sum[n + 1] = RunOne(sum[n], more[n + 1])
  BY <1>1, <1>3 DEF IsRun
<1>6. RunAll(st, more) = RunOne(RunAll(st, txs), tx)
  BY <1>1, <1>2, <1>3, <1>4, <1>5
<1> QED BY <1>6 DEF more

(* What was kept fits into a block, and running it again keeps all of it   *)
(* and leads to the same state.                                            *)
LEMMA RunAllAgain ==
  ASSUME NEW st \in LedgerState, NEW txs \in Seq(Entries)
  PROVE  /\ Len(RunAll(st, txs).ok) <= MaxBlockTxs
         /\ RunAll(st, RunAll(st, txs).ok) = RunAll(st, txs)
<1>1. PICK run : IsRun(run, st, txs) /\ RunAll(st, txs) = run[Len(txs)]
  BY RunAllUnfold
<1> DEFINE T == {m \in 0..Len(txs) : /\ Len(run[m].ok) <= MaxBlockTxs
                                     /\ RunAll(st, run[m].ok) = run[m]}
<1>2. 0 \in T
  <2>1. run[0].ok = <<>> /\ run[0] = Begun(st)
    BY <1>1 DEF IsRun, Begun
  <2>2. Len(run[0].ok) <= MaxBlockTxs
    BY <2>1, BftAssumption
  <2> QED BY <2>1, <2>2, RunAllEmpty
<1>3. ASSUME NEW m \in 1..Len(txs), m - 1 \in T PROVE m \in T
  <2> DEFINE r  == run[m - 1]
             tx == txs[m]
  <2>1. /\ r \in Outcome /\ r.ok \in Seq(Txs) /\ run[m] = RunOne(r, tx)
        /\ Len(r.ok) <= MaxBlockTxs /\ RunAll(st, r.ok) = r
    <3>1. r \in Outcome
      BY <1>1 DEF IsRun
    <3> QED BY <1>1, <1>3, <3>1 DEF IsRun, Outcome
  <2>2. CASE RunOne(r, tx) = r
    BY <2>1, <2>2
  <2>3. CASE RunOne(r, tx) # r
    <3> HIDE DEF r, tx
    <3>1. /\ tx \in Txs /\ Len(r.ok) < MaxBlockTxs
          /\ RunOne(r, tx).ok = Append(r.ok, tx)
      BY <2>3 DEF RunOne
    <3>2. r.ok \in Seq(Entries) /\ tx \in Entries
      BY <2>1, <3>1, SeqMonotonic DEF Entries
    <3>3. RunAll(st, Append(r.ok, tx)) = RunOne(r, tx)
      BY <2>1, <3>2, RunAllAppend
    <3>4. Len(Append(r.ok, tx)) <= MaxBlockTxs
      BY <2>1, <3>1, BftAssumption
    <3>5. run[m].ok = Append(r.ok, tx)
      BY <2>1, <3>1
    <3>6. Len(run[m].ok) <= MaxBlockTxs /\ RunAll(st, run[m].ok) = run[m]
      BY <2>1, <3>3, <3>4, <3>5
    <3> QED BY <3>6
  <2> QED BY <2>2, <2>3
<1>4. \A m \in 0..Len(txs) : m \in T
  <2>1. Len(txs) \in Nat
    OBVIOUS
  <2> HIDE DEF T
  <2> QED BY <1>2, <1>3, <2>1, IntervalInduction
<1>5. Len(txs) \in T
  <2>1. Len(txs) \in 0..Len(txs)
    OBVIOUS
  <2> HIDE DEF T
  <2> QED BY <1>4, <2>1
<1> QED BY <1>1, <1>5

-----------------------------------------------------------------------------
(* Executing and replaying blocks. *)
LEMMA GenesisType == GenesisState \in LedgerState
BY DEF GenesisState, LedgerState

LEMMA RootType ==
  ASSUME NEW st \in LedgerState
  PROVE  /\ Root(st) \in [Users -> Nat] \X [Users -> Nat]
         /\ WithRoot(Root(st)) \in LedgerState
         /\ Root(WithRoot(Root(st))) = Root(st)
BY DEF Root, WithRoot, LedgerState

LEMMA WithRootType ==
  ASSUME NEW r \in [Users -> Nat] \X [Users -> Nat]
  PROVE  WithRoot(r) \in LedgerState /\ Root(WithRoot(r)) = r
BY DEF Root, WithRoot, LedgerState

LEMMA SetNow ==
  ASSUME NEW st \in LedgerState, NEW t \in Nat
  PROVE  /\ [st EXCEPT !.now = t] \in LedgerState
         /\ Root([st EXCEPT !.now = t]) = Root(st)
         /\ [st EXCEPT !.now = t] = [WithRoot(Root(st)) EXCEPT !.now = t]
BY DEF Root, WithRoot, LedgerState

LEMMA TipTimeType ==
  ASSUME NEW bs \in Seq(Block), NEW time \in Nat
  PROVE  /\ TipTime(bs) \in Nat
         /\ MaxOf(time, TipTime(bs)) \in Nat /\ MaxOf(time, TipTime(bs)) >= TipTime(bs)
<1>1. TipTime(bs) \in Nat
  <2>1. CASE bs = <<>>
    BY <2>1, BftAssumption DEF TipTime
  <2>2. CASE bs # <<>>
    <3>1. Last(bs) \in Block
      BY <2>2 DEF Last
    <3> QED BY <2>2, <3>1 DEF TipTime, Block
  <2> QED BY <2>1, <2>2
<1> QED BY <1>1 DEF MaxOf

(* Execution depends on the state only through its root: the time at which *)
(* a transaction was last checked does not matter.                         *)
LEMMA ExecuteByRoot ==
  ASSUME NEW bs \in Seq(Block), NEW st \in LedgerState, NEW h, NEW time \in Nat, NEW txs
  PROVE  ExecuteDecided(bs, st, h, time, txs)
           = ExecuteDecided(bs, WithRoot(Root(st)), h, time, txs)
<1> DEFINE t == MaxOf(time, TipTime(bs))
<1>1. t \in Nat
  BY TipTimeType
<1>2. [st EXCEPT !.now = t] = [WithRoot(Root(st)) EXCEPT !.now = t]
  BY <1>1, SetNow
<1> QED BY <1>2 DEF ExecuteDecided

LEMMA HashType ==
  ASSUME NEW bs \in Seq(Block) PROVE Hash(bs) \in Seq(Nat \X Seq(Txs))
<1>1. DOMAIN bs = 1..Len(bs) /\ Len(bs) \in Nat
  OBVIOUS
<1>2. \A i \in 1..Len(bs) : <<bs[i].time, bs[i].txs>> \in Nat \X Seq(Txs)
  <2> SUFFICES ASSUME NEW i \in 1..Len(bs) PROVE <<bs[i].time, bs[i].txs>> \in Nat \X Seq(Txs)
    OBVIOUS
  <2>1. bs[i] \in Block
    OBVIOUS
  <2>2. bs[i].time \in Nat /\ bs[i].txs \in Seq(Txs)
    BY <2>1 DEF Block
  <2> QED BY <2>2
<1>3. Hash(bs) \in [1..Len(bs) -> Nat \X Seq(Txs)]
  BY <1>1, <1>2 DEF Hash
<1> QED BY <1>1, <1>3, SeqDef

(* What execution gives is a block that verifies on the same state. *)
Verified(bs, st, h, e) ==
  /\ e \in [state : LedgerState, block : Block]
  /\ e.block.height = h /\ e.block.root = Root(e.state)
  /\ h = Len(bs) + 1 => Verify(bs, st, e.block)
  /\ Rerun(st, e.block).st = e.state

LEMMA ExecuteGives ==
  ASSUME NEW bs \in Seq(Block), NEW st \in LedgerState, NEW h \in Nat, NEW time \in Nat,
         NEW txs \in Seq(Entries), NEW e, e = ExecuteDecided(bs, st, h, time, txs)
  PROVE  Verified(bs, st, h, e)
<1> DEFINE t   == MaxOf(time, TipTime(bs))
           run == RunAll([st EXCEPT !.now = t], txs)
<1>1. t \in Nat /\ t >= TipTime(bs)
  BY TipTimeType
<1>2. [st EXCEPT !.now = t] \in LedgerState
  BY <1>1, SetNow
<1>3. /\ run \in Outcome /\ Len(run.ok) <= MaxBlockTxs
      /\ RunAll([st EXCEPT !.now = t], run.ok) = run
  BY <1>2, RunAllType, RunAllAgain
<1>4. e = [state |-> run.st,
           block |-> [height |-> h, prev |-> Hash(bs), time |-> t, txs |-> run.ok,
                      root |-> Root(run.st)]]
  BY DEF ExecuteDecided
<1> HIDE DEF t, run
<1>5. run.st \in LedgerState /\ run.ok \in Seq(Txs)
  BY <1>3 DEF Outcome
<1>6. Hash(bs) \in Seq(Nat \X Seq(Txs)) /\ Root(run.st) \in [Users -> Nat] \X [Users -> Nat]
  BY <1>5, HashType, RootType
<1>7. e.block \in Block /\ e.state \in LedgerState
  BY <1>1, <1>4, <1>5, <1>6 DEF Block
<1>8. h = Len(bs) + 1 => Verify(bs, st, e.block)
  BY <1>1, <1>3, <1>4 DEF Verify, Rerun
<1>9. e \in [state : LedgerState, block : Block]
  BY <1>4, <1>7
<1>10. e.block.height = h /\ e.block.root = Root(e.state)
  BY <1>4
<1>11. Rerun(st, e.block).st = e.state
  <2>1. e.block.time = t /\ e.block.txs = run.ok /\ e.state = run.st
    BY <1>4
  <2> QED BY <1>3, <2>1 DEF Rerun
<1> QED BY <1>8, <1>9, <1>10, <1>11 DEF Verified

(* The states that replaying bs goes through. *)
IsReplay(st, bs) ==
  /\ st \in [0..Len(bs) -> LedgerState]
  /\ st[0] = GenesisState
  /\ \A i \in 1..Len(bs) : st[i] = Rerun(st[i - 1], bs[i]).st

LEMMA ReplayStep ==
  ASSUME NEW st \in LedgerState, NEW b \in Block
  PROVE  Rerun(st, b).st \in LedgerState
<1>1. b.time \in Nat /\ b.txs \in Seq(Entries)
  <2>1. b.time \in Nat /\ b.txs \in Seq(Txs)
    BY DEF Block
  <2> QED BY <2>1, SeqMonotonic DEF Entries
<1>2. Rerun(st, b) \in Outcome
  BY <1>1, SetNow, RunAllType DEF Rerun
<1> QED BY <1>2 DEF Outcome

LEMMA ReplaysExist ==
  ASSUME NEW bs \in Seq(Block)
  PROVE  \E st : IsReplay(st, bs)
<1> DEFINE n == Len(bs)
           G == [x \in LedgerState \X (1..n) |->
                   Rerun(x[1], bs[x[2]]).st]
<1>1. n \in Nat
  OBVIOUS
<1>2. G \in [LedgerState \X (1..n) -> LedgerState]
  BY ReplayStep
<1>3. \A s \in LedgerState, k \in 1..n :
        G[<<s, k>>] = Rerun(s, bs[k]).st
  OBVIOUS
<1> HIDE DEF G
<1>4. Unrolls(n, LedgerState, GenesisState, G)
  BY <1>1, <1>2, GenesisType, IntervalRecursion
<1>5. PICK st \in [0..n -> LedgerState] :
        st[0] = GenesisState /\ \A k \in 1..n : st[k] = G[<<st[k - 1], k>>]
  BY <1>4 DEF Unrolls
<1>6. ASSUME NEW k \in 1..n
      PROVE  st[k] = Rerun(st[k - 1], bs[k]).st
  <2>1. st[k - 1] \in LedgerState
    BY <1>1, <1>5
  <2> QED BY <1>3, <1>5, <2>1
<1> QED BY <1>5, <1>6 DEF IsReplay

Replays(st, bs, opened) ==
  /\ IsReplay(st, bs)
  /\ opened.ok <=> \A i \in DOMAIN bs : Verify(SubSeq(bs, 1, i - 1), st[i - 1], bs[i])
  /\ opened.bs = bs /\ opened.st = st[Len(bs)]

LEMMA ReplayUnfold ==
  ASSUME NEW lines, Stored(lines) \in Seq(Block)
  PROVE  \E st : Replays(st, Stored(lines), Replay(lines))
<1> DEFINE bs == Stored(lines)
           P(st) == st = [i \in 0..Len(bs) |->
                      IF i = 0 THEN GenesisState
                      ELSE Rerun(st[i - 1], bs[i]).st]
           C == CHOOSE st : P(st)
<1>1. \E st : P(st)
  <2>1. PICK st : IsReplay(st, bs)
    BY ReplaysExist
  <2> HIDE DEF bs
  <2>2. P(st)
    BY <2>1 DEF IsReplay
  <2> QED BY <2>2
<1>2. P(C)
  <2> HIDE DEF P
  <2> QED BY <1>1
<1>3. /\ Replay(lines).ok <=> \A i \in DOMAIN bs : Verify(SubSeq(bs, 1, i - 1), C[i - 1], bs[i])
      /\ Replay(lines).bs = bs /\ Replay(lines).st = C[Len(bs)]
  BY DEF Replay
<1>4. C = [i \in 0..Len(bs) |->
             IF i = 0 THEN GenesisState
             ELSE Rerun(C[i - 1], bs[i]).st]
  BY <1>2
<1>0. bs \in Seq(Block) /\ Len(bs) \in Nat
  OBVIOUS
<1> HIDE DEF C, bs
<1>5. /\ C[0] = GenesisState
      /\ \A i \in 1..Len(bs) : C[i] = Rerun(C[i - 1], bs[i]).st
  BY <1>0, <1>4
<1> DEFINE T == {m \in 0..Len(bs) : C[m] \in LedgerState}
<1>6. 0 \in T
  BY <1>5, GenesisType
<1>7. ASSUME NEW m \in 1..Len(bs), m - 1 \in T PROVE m \in T
  <2>1. bs[m] \in Block /\ C[m - 1] \in LedgerState
    BY <1>0, <1>7
  <2>2. C[m] \in LedgerState
    BY <1>5, <2>1, ReplayStep
  <2> QED BY <2>2
<1>8. \A m \in 0..Len(bs) : m \in T
  <2> HIDE DEF T
  <2> QED BY <1>0, <1>6, <1>7, IntervalInduction
<1>9. C \in [0..Len(bs) -> LedgerState]
  BY <1>4, <1>8
<1>10. Replays(C, bs, Replay(lines))
  BY <1>3, <1>5, <1>9 DEF IsReplay, Replays
<1> QED BY <1>10 DEF bs

-----------------------------------------------------------------------------
(* Logs. *)
LEMMA StoredLines ==
  ASSUME NEW bs \in Seq(Block), NEW b \in Block
  PROVE  /\ Stored(bs) = bs /\ Stored(Append(bs, Torn)) = bs
         /\ Stored(Append(bs, b)) = Append(bs, b)
<1>1. Torn \notin Block
  BY DEF Torn, NoBlock, Block
<1>2. Stored(bs) = bs
  BY <1>1 DEF Stored, Last
<1>3. Append(bs, b) \in Seq(Block)
  OBVIOUS
<1>4. Stored(Append(bs, b)) = Append(bs, b)
  BY <1>1, <1>3 DEF Stored, Last
<1>5. Stored(Append(bs, Torn)) = bs
  <2>1. bs \in Seq(Block \cup {Torn})
    BY SeqMonotonic
  <2>2. /\ Append(bs, Torn) # <<>> /\ Len(Append(bs, Torn)) = Len(bs) + 1
        /\ Append(bs, Torn)[Len(bs) + 1] = Torn
        /\ SubSeq(Append(bs, Torn), 1, Len(bs)) = bs
    BY <2>1
  <2> QED BY <2>2 DEF Stored, Last, Front
<1> QED BY <1>2, <1>4, <1>5

Decision    == [time : Nat, txs : Seq(Entries)]
DecidedType == decided \in Seq(Decision)

LEMMA RootAtType ==
  ASSUME NEW bs \in Seq(Block), NEW i \in 0..Len(bs)
  PROVE  RootAt(bs, i) \in [Users -> Nat] \X [Users -> Nat]
<1>1. CASE i = 0
  BY <1>1, GenesisType, RootType DEF RootAt
<1>2. CASE i # 0
  <2>1. bs[i] \in Block
    BY <1>2
  <2> QED BY <1>2, <2>1 DEF RootAt, Block
<1> QED BY <1>1, <1>2

(* The block execution gives at height i, from any state with the root     *)
(* before it.                                                              *)
LEMMA ExecutedAt ==
  ASSUME DecidedType, NEW bs \in Seq(Block), NEW i \in 1..(Len(bs) + 1), i <= Len(decided),
         NEW st \in LedgerState, Root(st) = RootAt(bs, i - 1)
  PROVE  /\ Executed(bs, i) \in [state : LedgerState, block : Block]
         /\ Executed(bs, i).block.height = i
         /\ Executed(bs, i).block.root = Root(Executed(bs, i).state)
         /\ Executed(bs, i) = ExecuteDecided(SubSeq(bs, 1, i - 1), st, i, decided[i].time, decided[i].txs)
         /\ Verify(SubSeq(bs, 1, i - 1), st, Executed(bs, i).block)
         /\ Rerun(st, Executed(bs, i).block).st = Executed(bs, i).state
<1>0. SubSeq(bs, 1, i - 1) \in Seq(Block) /\ i = Len(SubSeq(bs, 1, i - 1)) + 1 /\ i \in Nat
  OBVIOUS
<1>1. PICK front : front \in Seq(Block) /\ front = SubSeq(bs, 1, i - 1) /\ i = Len(front) + 1
  BY <1>0, Zenon
<1>2. PICK time \in Nat, txs \in Seq(Entries) : time = decided[i].time /\ txs = decided[i].txs
  <2>1. i \in 1..Len(decided)
    BY DEF DecidedType
  <2>2. decided[i] \in Decision
    BY <2>1 DEF DecidedType
  <2> QED BY <2>2 DEF Decision
<1>3. PICK e : e = ExecuteDecided(front, st, i, time, txs)
  OBVIOUS
<1>4. e = Executed(bs, i)
  <2>1. e = ExecuteDecided(front, WithRoot(Root(st)), i, time, txs)
    <3>1. front \in Seq(Block)
      BY <1>1
    <3>2. ExecuteDecided(front, st, i, time, txs)
            = ExecuteDecided(front, WithRoot(Root(st)), i, time, txs)
      BY <3>1, ExecuteByRoot
    <3> QED BY <1>3, <3>2
  <2> QED BY <1>1, <1>2, <2>1 DEF Executed
<1>5. Verified(front, st, i, e)
  BY <1>0, <1>1, <1>3, ExecuteGives
<1> QED BY <1>1, <1>2, <1>3, <1>4, <1>5 DEF Verified

(* It depends on the blocks below only. *)
LEMMA ExecutedPrefix ==
  ASSUME NEW bs \in Seq(Block), NEW more \in Seq(Block), NEW i \in Nat \ {0},
         i - 1 <= Len(bs), i - 1 <= Len(more), \A j \in 1..(i - 1) : bs[j] = more[j]
  PROVE  Executed(bs, i) = Executed(more, i)
<1>1. SubSeq(bs, 1, i - 1) = SubSeq(more, 1, i - 1)
  OBVIOUS
<1>2. RootAt(bs, i - 1) = RootAt(more, i - 1)
  BY DEF RootAt
<1> QED BY <1>1, <1>2 DEF Executed

(* A chain stays what it should be when the next block is put on it, and   *)
(* agrees with every other one that is.                                    *)
LEMMA ChainGrows ==
  ASSUME DecidedType, NEW bs \in Seq(Block), FollowsDecided(bs), Len(bs) < Len(decided),
         NEW b, b = Executed(bs, Len(bs) + 1).block
  PROVE  /\ b \in Block /\ b.height = Len(bs) + 1 /\ Append(bs, b) \in Seq(Block)
         /\ b.root = Root(Executed(bs, Len(bs) + 1).state)
         /\ FollowsDecided(Append(bs, b))
         /\ \A other \in Seq(Block) :
              /\ FollowsDecided(other)
              /\ \A i \in DOMAIN bs \cap DOMAIN other : bs[i] = other[i]
              => \A i \in DOMAIN Append(bs, b) \cap DOMAIN other : Append(bs, b)[i] = other[i]
<1> DEFINE n == Len(bs) + 1
           more == Append(bs, b)
<1>1. n \in 1..(Len(bs) + 1) /\ n <= Len(decided) /\ n \in Nat \ {0} /\ n - 1 = Len(bs)
  BY DEF DecidedType
<1>2. b \in Block /\ b.height = n /\ b.root = Root(Executed(bs, n).state)
  <2>1. Len(bs) \in 0..Len(bs)
    OBVIOUS
  <2>2. PICK st \in LedgerState : Root(st) = RootAt(bs, n - 1)
    BY <1>1, <2>1, RootAtType, WithRootType
  <2>3. /\ Executed(bs, n) \in [state : LedgerState, block : Block]
        /\ Executed(bs, n).block.height = n
        /\ Executed(bs, n).block.root = Root(Executed(bs, n).state)
    <3> HIDE DEF n
    <3> QED BY <1>1, <2>2, ExecutedAt
  <2> QED BY <2>3
<1>3. /\ more \in Seq(Block) /\ Len(more) = n /\ more[n] = b
      /\ \A i \in 1..Len(bs) : more[i] = bs[i]
  BY <1>2
<1> HIDE DEF n, more
<1>4. ASSUME NEW i \in 1..n PROVE Executed(more, i) = Executed(bs, i)
  <2>1. i \in Nat \ {0} /\ i - 1 <= Len(bs) /\ i - 1 <= Len(more) /\ i - 1 \in Nat
    BY <1>1, <1>3
  <2>2. \A j \in 1..(i - 1) : more[j] = bs[j]
    BY <1>3, <2>1
  <2> QED BY <1>3, <2>1, <2>2, ExecutedPrefix
<1>5. ASSUME NEW i \in 1..n PROVE more[i] = Executed(more, i).block
  <2>1. CASE i = n
    BY <1>3, <1>4, <2>1 DEF n
  <2>2. CASE i # n
    <3>1. i \in 1..Len(bs) /\ i \in DOMAIN bs
      BY <1>1, <2>2
    <3> QED BY <1>3, <1>4, <3>1 DEF FollowsDecided
  <2> QED BY <2>1, <2>2
<1>6. FollowsDecided(more)
  BY <1>1, <1>3, <1>5 DEF FollowsDecided
<1>7. ASSUME NEW other \in Seq(Block), FollowsDecided(other),
             \A i \in DOMAIN bs \cap DOMAIN other : bs[i] = other[i],
             NEW i \in DOMAIN more \cap DOMAIN other
      PROVE  more[i] = other[i]
  <2>1. i \in 1..n /\ i \in 1..Len(other) /\ Len(other) \in Nat
    BY <1>3, <1>7
  <2>2. CASE i # n
    <3>1. i \in 1..Len(bs) /\ i \in DOMAIN bs
      BY <1>1, <2>1, <2>2
    <3> QED BY <1>3, <1>7, <3>1
  <2>3. CASE i = n
    <3>1. n - 1 <= Len(other) /\ \A j \in 1..(n - 1) : bs[j] = other[j]
      <4>1. \A j \in 1..(n - 1) : j \in DOMAIN bs /\ j \in DOMAIN other
        BY <1>1, <2>1, <2>3
      <4> QED BY <1>1, <1>7, <2>1, <2>3, <4>1
    <3>2. Executed(bs, n) = Executed(other, n)
      BY <1>1, <3>1, ExecutedPrefix
    <3>3. other[n] = Executed(other, n).block
      BY <1>7, <2>3 DEF FollowsDecided
    <3> QED BY <1>3, <2>3, <3>2, <3>3 DEF n
  <2> QED BY <2>2, <2>3
<1> QED BY <1>1, <1>2, <1>3, <1>6, <1>7 DEF n, more

(* A log of such blocks can be opened, and gives the state of its last one. *)
LEMMA FollowedReplays ==
  ASSUME DecidedType, NEW lines, Stored(lines) \in Seq(Block), FollowsDecided(Stored(lines))
  PROVE  /\ Replay(lines).ok /\ Replay(lines).bs = Stored(lines)
         /\ Replay(lines).st \in LedgerState
         /\ Root(Replay(lines).st) = RootAt(Stored(lines), Len(Stored(lines)))
<1>1. PICK bs \in Seq(Block) : bs = Stored(lines)
  OBVIOUS
<1>2. PICK st : Replays(st, bs, Replay(lines))
  BY <1>1, ReplayUnfold
<1>3. /\ Len(bs) \in Nat /\ DOMAIN bs = 1..Len(bs) /\ FollowsDecided(bs)
      /\ Len(bs) <= Len(decided) /\ Len(decided) \in Nat
  BY <1>1 DEF FollowsDecided, DecidedType
<1>4. ASSUME NEW i \in 1..Len(bs), Root(st[i - 1]) = RootAt(bs, i - 1)
      PROVE  /\ Verify(SubSeq(bs, 1, i - 1), st[i - 1], bs[i])
             /\ Root(st[i]) = RootAt(bs, i)
  <2>1. i \in 1..(Len(bs) + 1) /\ i <= Len(decided) /\ st[i - 1] \in LedgerState
    BY <1>2, <1>3, SMTT(30) DEF Replays, IsReplay
  <2>2. bs[i] = Executed(bs, i).block
    BY <1>3 DEF FollowsDecided
  <2>3. st[i] = Rerun(st[i - 1], bs[i]).st
    BY <1>2 DEF Replays, IsReplay
  <2>4. /\ Verify(SubSeq(bs, 1, i - 1), st[i - 1], bs[i])
        /\ Rerun(st[i - 1], bs[i]).st = Executed(bs, i).state
        /\ bs[i].root = Root(Executed(bs, i).state)
    BY <1>4, <2>1, <2>2, ExecutedAt
  <2> QED BY <2>3, <2>4 DEF RootAt
<1> DEFINE T == {m \in 0..Len(bs) : Root(st[m]) = RootAt(bs, m)}
<1>5. 0 \in T
  BY <1>2, <1>3 DEF Replays, IsReplay, RootAt
<1>6. ASSUME NEW m \in 1..Len(bs), m - 1 \in T PROVE m \in T
  BY <1>4, <1>6
<1>7. \A m \in 0..Len(bs) : m \in T
  <2> HIDE DEF T
  <2> QED BY <1>3, <1>5, <1>6, IntervalInduction
<1>8. \A m \in 0..Len(bs) : Root(st[m]) = RootAt(bs, m)
  BY <1>7
<1>9. Replay(lines).ok
  <2>1. ASSUME NEW i \in 1..Len(bs) PROVE Verify(SubSeq(bs, 1, i - 1), st[i - 1], bs[i])
    <3>1. i - 1 \in 0..Len(bs)
      BY <1>3
    <3> QED BY <1>4, <1>8, <3>1
  <2> QED BY <1>2, <1>3, <2>1 DEF Replays
<1>10. Len(bs) \in 0..Len(bs)
  BY <1>3
<1> QED BY <1>1, <1>2, <1>8, <1>9, <1>10 DEF Replays, IsReplay

-----------------------------------------------------------------------------
(* Steps of the nodes. *)
BftCore == BftTypeOK /\ LogsAgree /\ NodesInStep

LEMMA TypeOfDecided == BftTypeOK => DecidedType
BY DEF BftTypeOK, DecidedType, Decision, Entries

LEMMA BftInitCore == BftInit => BftCore
<1> SUFFICES ASSUME BftInit PROVE BftCore
  OBVIOUS
<1>1. Stored(<<>>) = <<>> /\ <<>> \in Seq(Block)
  BY DEF Stored
<1>2. \A n \in Validators : log[n] = <<>> /\ blocks[n] = <<>> /\ pending[n] = <<>> /\ height[n] = 0
                            /\ state[n] = GenesisState /\ status[n] = "running"
  BY DEF BftInit
<1>3. BftTypeOK
  <2>1. 0 \in 0..MaxFaults
    BY BftAssumption
  <2>2. NoTx \in Txs \cup {NoTx}
    OBVIOUS
  <2>3. inflight \in [Validators -> [Handlers -> Txs \cup {NoTx}]]
    BY <2>2 DEF BftInit
  <2>4. state \in [Validators -> LedgerState]
    BY GenesisType DEF BftInit
  <2>5. \A S : <<>> \in Seq(S)
    OBVIOUS
  <2>6. blocks \in [Validators -> Seq(Block)] /\ log \in [Validators -> Seq(Block \cup {Torn})]
    BY <2>5 DEF BftInit
  <2>7. pending \in [Validators -> Seq([state : LedgerState, block : Block])]
    BY <2>5 DEF BftInit
  <2>8. decided \in Seq([time : Nat, txs : Seq(Txs \cup {Malformed})])
    BY <2>5 DEF BftInit
  <2>9. \A n \in Validators : Stored(log[n]) \in Seq(Block)
    BY <1>1, <1>2
  <2> QED BY <2>1, <2>3, <2>4, <2>6, <2>7, <2>8, <2>9 DEF BftInit, BftTypeOK
<1>4. LogsAgree
  BY <1>1, <1>2 DEF LogsAgree, FollowsDecided, BftInit
<1>5. NodesInStep
  BY <1>1, <1>2 DEF NodesInStep, InStep, IsPrefix, RootAt
<1> QED BY <1>3, <1>4, <1>5 DEF BftCore

(* A node no step of which is taken stays in step. *)
LEMMA OthersInStep ==
  ASSUME NEW m \in Validators, InStep(m), decided' = decided,
         status'[m] = status[m], blocks'[m] = blocks[m], Root(state'[m]) = Root(state[m]),
         log'[m] = log[m], pending'[m] = pending[m], height'[m] = height[m]
  PROVE  InStep(m)'
BY DEF InStep, Executed

(* One log is left as it is, loses a torn line, or gets the next block. *)
LEMMA LogGrows ==
  ASSUME BftTypeOK, LogsAgree, decided' = decided, NEW n \in Validators, NEW l,
         log' = [log EXCEPT ![n] = l],
         LET c == Stored(log[n])
         IN  \/ Stored(l) = c
             \/ Len(c) < Len(decided) /\ Stored(l) = Append(c, Executed(c, Len(c) + 1).block)
  PROVE  LogsAgree' /\ \A m \in Validators : Stored(log'[m]) \in Seq(Block)
<1>1. PICK c : c = Stored(log[n])
  OBVIOUS
<1>2. /\ DecidedType /\ c \in Seq(Block) /\ FollowsDecided(c)
      /\ \A m \in Validators : Stored(log[m]) \in Seq(Block) /\ FollowsDecided(Stored(log[m]))
  BY <1>1, TypeOfDecided DEF BftTypeOK, LogsAgree
<1>3. /\ Stored(l) \in Seq(Block) /\ FollowsDecided(Stored(l))
      /\ \A m \in Validators : \A i \in DOMAIN Stored(l) \cap DOMAIN Stored(log[m]) :
           Stored(l)[i] = Stored(log[m])[i]
  <2>1. \A m \in Validators : \A i \in DOMAIN c \cap DOMAIN Stored(log[m]) : c[i] = Stored(log[m])[i]
    BY <1>1 DEF LogsAgree
  <2>2. CASE Stored(l) = c
    BY <1>2, <2>1, <2>2
  <2>3. CASE Len(c) < Len(decided) /\ Stored(l) = Append(c, Executed(c, Len(c) + 1).block)
    <3>1. PICK b : b = Executed(c, Len(c) + 1).block
      OBVIOUS
    <3>2. /\ Append(c, b) \in Seq(Block) /\ FollowsDecided(Append(c, b))
          /\ \A other \in Seq(Block) :
               /\ FollowsDecided(other)
               /\ \A i \in DOMAIN c \cap DOMAIN other : c[i] = other[i]
               => \A i \in DOMAIN Append(c, b) \cap DOMAIN other : Append(c, b)[i] = other[i]
      BY <1>2, <2>3, <3>1, ChainGrows
    <3>3. Stored(l) = Append(c, b)
      BY <2>3, <3>1
    <3> QED BY <1>2, <2>1, <3>2, <3>3, Zenon
  <2> QED BY <1>1, <2>2, <2>3
<1>4. log'[n] = l /\ \A m \in Validators \ {n} : log'[m] = log[m]
  BY DEF BftTypeOK
<1>5. \A m \in Validators : Stored(log'[m]) \in Seq(Block) /\ FollowsDecided(Stored(log'[m]))
  BY <1>2, <1>3, <1>4
<1>6. \A bs : FollowsDecided(bs) => FollowsDecided(bs)'
  BY DEF FollowsDecided, Executed
<1>7. \A k, m \in Validators : \A i \in DOMAIN Stored(log'[k]) \cap DOMAIN Stored(log'[m]) :
        Stored(log'[k])[i] = Stored(log'[m])[i]
  <2> SUFFICES ASSUME NEW k \in Validators, NEW m \in Validators,
                      NEW i \in DOMAIN Stored(log'[k]) \cap DOMAIN Stored(log'[m])
               PROVE  Stored(log'[k])[i] = Stored(log'[m])[i]
    OBVIOUS
  <2>1. CASE k = n /\ m = n
    BY <2>1
  <2>2. CASE k = n /\ m # n
    BY <1>3, <1>4, <2>2
  <2>3. CASE k # n /\ m = n
    BY <1>3, <1>4, <2>3
  <2>4. CASE k # n /\ m # n
    BY <1>4, <2>4 DEF LogsAgree
  <2> QED BY <2>1, <2>2, <2>3, <2>4
<1>8. LogsAgree'
  BY <1>5, <1>6, <1>7 DEF LogsAgree
<1> QED BY <1>5, <1>8

(* What holds of a node whose consensus runs, and of the block it is about *)
(* to commit.                                                              *)
LEMMA AboutToCommit ==
  ASSUME BftCore, NEW n \in Validators, status[n] = "running"
  PROVE  /\ blocks[n] \in Seq(Block) /\ log[n] = blocks[n] /\ Stored(log[n]) = blocks[n]
         /\ FollowsDecided(blocks[n]) /\ height[n] = Len(blocks[n])
         /\ pending[n] # <<>> =>
              /\ Len(blocks[n]) < Len(decided)
              /\ pending[n] = <<Executed(blocks[n], Len(blocks[n]) + 1)>>
              /\ pending[n][1] \in [state : LedgerState, block : Block]
              /\ pending[n][1].block = Executed(blocks[n], Len(blocks[n]) + 1).block
              /\ pending[n][1].block.height = Len(blocks[n]) + 1
              /\ pending[n][1].block.root = Root(pending[n][1].state)
<1>1. BftTypeOK /\ LogsAgree /\ InStep(n) /\ DecidedType
  BY TypeOfDecided DEF BftCore, NodesInStep
<1>2. PICK c : c = blocks[n] /\ c \in Seq(Block)
  BY <1>1 DEF BftTypeOK
<1>3. /\ log[n] = c /\ height[n] = Len(c)
      /\ pending[n] # <<>> => height[n] < Len(decided) /\ pending[n] = <<Executed(c, height[n] + 1)>>
  BY <1>1, <1>2 DEF InStep
<1>4. Torn \notin Block
  BY DEF Torn, NoBlock, Block
<1>5. Stored(c) = c
  BY <1>2, <1>4 DEF Stored, Last
<1>6. FollowsDecided(c)
  BY <1>1, <1>3, <1>5 DEF LogsAgree
<1>7. ASSUME pending[n] # <<>>
      PROVE  /\ Len(c) < Len(decided)
             /\ pending[n] = <<Executed(c, Len(c) + 1)>>
             /\ pending[n][1] \in [state : LedgerState, block : Block]
             /\ pending[n][1].block = Executed(c, Len(c) + 1).block
             /\ pending[n][1].block.height = Len(c) + 1
             /\ pending[n][1].block.root = Root(pending[n][1].state)
  <2>1. /\ Len(c) < Len(decided) /\ pending[n] = <<Executed(c, Len(c) + 1)>>
    BY <1>3, <1>7
  <2>2. pending[n][1] = Executed(c, Len(c) + 1)
    BY <2>1
  <2>3. /\ Len(c) + 1 \in 1..(Len(c) + 1) /\ Len(c) + 1 <= Len(decided) /\ Len(c) \in 0..Len(c)
        /\ (Len(c) + 1) - 1 = Len(c)
    BY <1>1, <1>2, <2>1 DEF DecidedType
  <2>4. PICK h : h = Len(c) + 1
    OBVIOUS
  <2>5. PICK st \in LedgerState : Root(st) = RootAt(c, h - 1)
    BY <1>2, <2>3, <2>4, RootAtType, WithRootType
  <2>6. /\ Executed(c, h) \in [state : LedgerState, block : Block]
        /\ Executed(c, h).block.height = h
        /\ Executed(c, h).block.root = Root(Executed(c, h).state)
    BY <1>1, <1>2, <2>3, <2>4, <2>5, ExecutedAt
  <2> QED BY <2>1, <2>2, <2>4, <2>6
<1> QED BY <1>2, <1>3, <1>5, <1>6, <1>7

(* Deciding one block more changes nothing about the earlier ones. *)
LEMMA DecideCore == BftCore /\ Decide => BftCore'
<1> SUFFICES ASSUME BftCore, Decide PROVE BftCore'
  OBVIOUS
<1>1. BftTypeOK /\ LogsAgree /\ NodesInStep /\ DecidedType
  BY TypeOfDecided DEF BftCore
<1>2. PICK d \in Decision : decided' = Append(decided, d)
  <2>1. PICK t \in Times, offer \in Proposals :
          \E txs \in {offer} \cup {Prepared(offer)} :
            decided' = Append(decided, [time |-> t, txs |-> txs])
    BY DEF Decide
  <2>2. t \in Nat /\ offer \in Seq(Entries)
    BY BftAssumption DEF Entries
  <2>3. Prepared(offer) \in Seq(Entries)
    <3>1. MaxBlockTxs \in Nat
      BY BftAssumption
    <3> QED BY <2>2, <3>1 DEF Prepared
  <2> QED BY <2>1, <2>2, <2>3 DEF Decision
<1>3. UNCHANGED <<status, blocks, state, mempool, log, pending, height, inflight, admitted, faults>>
  BY DEF Decide
<1>4. /\ decided' \in Seq(Decision) /\ Len(decided) \in Nat /\ Len(decided') = Len(decided) + 1
      /\ \A i \in 1..Len(decided) : decided'[i] = decided[i]
  BY <1>1, <1>2 DEF DecidedType
<1>5. \A bs : \A i \in 1..Len(decided) : Executed(bs, i)' = Executed(bs, i)
  BY <1>4 DEF Executed
<1>6. BftTypeOK'
  BY <1>1, <1>3, <1>4 DEF BftTypeOK, Decision, Entries
<1>7. ASSUME NEW bs \in Seq(Block), FollowsDecided(bs) PROVE FollowsDecided(bs)'
  <2>1. Len(bs) \in Nat /\ DOMAIN bs = 1..Len(bs) /\ Len(bs) <= Len(decided)
    BY <1>7 DEF FollowsDecided
  <2>2. \A i \in DOMAIN bs : bs[i] = Executed(bs, i)'.block
    BY <1>4, <1>5, <1>7, <2>1 DEF FollowsDecided
  <2> QED BY <1>4, <2>1, <2>2 DEF FollowsDecided
<1>8. LogsAgree'
  BY <1>1, <1>3, <1>7 DEF LogsAgree, BftTypeOK
<1>9. ASSUME NEW n \in Validators PROVE InStep(n)'
  <2>1. InStep(n) /\ height[n] \in Nat
    BY <1>1 DEF NodesInStep, BftTypeOK
  <2>2. PICK h \in Nat : h = height[n]
    BY <2>1
  <2>3. ASSUME h < Len(decided)
        PROVE  h < Len(decided') /\ \A bs : Executed(bs, h + 1)' = Executed(bs, h + 1)
    <3>1. h + 1 \in 1..Len(decided)
      BY <1>4, <2>3
    <3> QED BY <1>4, <1>5, <2>3, <3>1
  <2> QED BY <1>3, <2>1, <2>2, <2>3 DEF InStep
<1> QED BY <1>6, <1>8, <1>9 DEF BftCore, NodesInStep

(* Checks change the time in the state and what is pending, nothing else. *)
LEMMA NowsType ==
  ASSUME BftTypeOK, NEW n \in Validators, NEW now \in Nows(n)
  PROVE  Checked(n, now) \in LedgerState /\ Root(Checked(n, now)) = Root(state[n])
<1>1. blocks[n] \in Seq(Block) /\ state[n] \in LedgerState
  BY DEF BftTypeOK
<1>2. TipTime(blocks[n]) \in Nat
  <2>1. 0 \in Nat
    OBVIOUS
  <2> QED BY <1>1, <2>1, TipTimeType
<1>3. now \in Nat
  BY <1>2, BftAssumption DEF Nows, MaxOf
<1> QED BY <1>1, <1>3, SetNow DEF Checked

LEMMA CheckCore ==
  ASSUME BftCore, NEW n \in Validators, NEW now \in Nows(n),
         UNCHANGED <<status, blocks, log, pending, height, decided, faults>>,
         UNCHANGED state \/ state' = [state EXCEPT ![n] = Checked(n, now)],
         mempool' \in [Validators -> SUBSET Txs], admitted' \subseteq Txs,
         inflight' \in [Validators -> [Handlers -> Txs \cup {NoTx}]]
  PROVE  BftCore'
<1>1. BftTypeOK /\ LogsAgree /\ NodesInStep
  BY DEF BftCore
<1>2. /\ state' \in [Validators -> LedgerState]
      /\ \A m \in Validators : Root(state'[m]) = Root(state[m])
  <2>1. CASE UNCHANGED state
    BY <1>1, <2>1 DEF BftTypeOK
  <2>2. CASE state' = [state EXCEPT ![n] = Checked(n, now)]
    <3>1. Checked(n, now) \in LedgerState /\ Root(Checked(n, now)) = Root(state[n])
      BY <1>1, NowsType
    <3>2. state \in [Validators -> LedgerState]
      BY <1>1 DEF BftTypeOK
    <3> HIDE DEF Checked
    <3> QED BY <2>2, <3>1, <3>2
  <2> QED BY <2>1, <2>2
<1>3. BftTypeOK'
  BY <1>1, <1>2 DEF BftTypeOK
<1>4. LogsAgree'
  BY <1>1 DEF LogsAgree, FollowsDecided, Executed
<1>5. NodesInStep'
  BY <1>1, <1>2, OthersInStep DEF NodesInStep
<1> QED BY <1>3, <1>4, <1>5 DEF BftCore

LEMMA SubmitCore ==
  ASSUME BftCore, NEW n \in ApiNodes, NEW h \in Handlers, NEW now \in Nows(n), NEW tx \in Txs,
         Submit(n, h, tx, now)
  PROVE  BftCore'
<1>1. /\ n \in Validators /\ mempool \in [Validators -> SUBSET Txs] /\ admitted \subseteq Txs
      /\ inflight \in [Validators -> [Handlers -> Txs \cup {NoTx}]]
  BY BftAssumption DEF BftCore, BftTypeOK
<1>2. /\ mempool' \in [Validators -> SUBSET Txs] /\ admitted' \subseteq Txs
      /\ inflight' \in [Validators -> [Handlers -> Txs \cup {NoTx}]]
  <2>1. UNCHANGED mempool \/ mempool' = [mempool EXCEPT ![n] = @ \cup {tx}]
    BY DEF Submit
  <2>2. UNCHANGED inflight \/ inflight' = [inflight EXCEPT ![n][h] = tx]
    BY DEF Submit
  <2>3. UNCHANGED admitted
    BY DEF Submit, diskAndNet
  <2>4. mempool' \in [Validators -> SUBSET Txs]
    BY <1>1, <2>1
  <2>5. inflight' \in [Validators -> [Handlers -> Txs \cup {NoTx}]]
    BY <1>1, <2>2
  <2> QED BY <1>1, <2>3, <2>4, <2>5
<1>3. /\ UNCHANGED <<status, blocks, log, pending, height, decided, faults>>
      /\ UNCHANGED state \/ state' = [state EXCEPT ![n] = Checked(n, now)]
  BY DEF Submit, diskAndNet
<1> QED BY <1>1, <1>2, <1>3, CheckCore

LEMMA BroadcastCore ==
  ASSUME BftCore, NEW n \in ApiNodes, NEW h \in Handlers, NEW now \in Nows(n), Broadcast(n, h, now)
  PROVE  BftCore'
<1>1. /\ n \in Validators /\ mempool \in [Validators -> SUBSET Txs] /\ admitted \subseteq Txs
      /\ inflight \in [Validators -> [Handlers -> Txs \cup {NoTx}]]
  BY BftAssumption DEF BftCore, BftTypeOK
<1>2. PICK tx \in Txs : tx = inflight[n][h]
  BY <1>1 DEF Broadcast
<1>3. UNCHANGED mempool \/ mempool' = [mempool EXCEPT ![n] = @ \ {tx}]
  BY <1>2 DEF Broadcast, Forget
<1>4. UNCHANGED admitted \/ admitted' = admitted \cup {tx}
  BY <1>2 DEF Broadcast
<1>5. inflight' = [inflight EXCEPT ![n][h] = NoTx]
  BY DEF Broadcast
<1>6. /\ mempool' \in [Validators -> SUBSET Txs] /\ admitted' \subseteq Txs
      /\ inflight' \in [Validators -> [Handlers -> Txs \cup {NoTx}]]
  BY <1>1, <1>3, <1>4, <1>5
<1>7. /\ UNCHANGED <<status, blocks, log, pending, height, decided, faults>>
      /\ UNCHANGED state \/ state' = [state EXCEPT ![n] = Checked(n, now)]
  BY DEF Broadcast
<1> QED BY <1>1, <1>6, <1>7, CheckCore

LEMMA CheckTxCore ==
  ASSUME BftCore, NEW n \in Validators, NEW now \in Nows(n), CheckTx(n, now)
  PROVE  BftCore'
<1>1. /\ mempool' \in [Validators -> SUBSET Txs] /\ admitted' \subseteq Txs
      /\ inflight' \in [Validators -> [Handlers -> Txs \cup {NoTx}]]
  BY DEF CheckTx, diskAndNet, BftCore, BftTypeOK
<1>2. /\ UNCHANGED <<status, blocks, log, pending, height, decided, faults>>
      /\ state' = [state EXCEPT ![n] = Checked(n, now)]
  BY DEF CheckTx, diskAndNet
<1> QED BY <1>1, <1>2, CheckCore

(* FinalizeBlock remembers what execution gives and changes nothing else. *)
LEMMA FinalizeCore ==
  ASSUME BftCore, NEW n \in Validators, FinalizeBlock(n)
  PROVE  BftCore'
<1>1. BftTypeOK /\ LogsAgree /\ NodesInStep /\ DecidedType /\ InStep(n)
  BY TypeOfDecided DEF BftCore, NodesInStep
<1>2. /\ status[n] = "running" /\ height[n] < Len(decided)
      /\ UNCHANGED <<status, blocks, state, mempool, height, inflight, faults, log, decided, admitted>>
  BY DEF FinalizeBlock, diskAndNet
<1>3. PICK c : /\ c = blocks[n] /\ c \in Seq(Block) /\ height[n] = Len(c)
  BY <1>2, AboutToCommit
<1>4. PICK h : h = Len(c) + 1
  OBVIOUS
<1>5. h \in 1..(Len(c) + 1) /\ h <= Len(decided) /\ h - 1 = Len(c)
  BY <1>1, <1>2, <1>3, <1>4 DEF DecidedType
<1>6. state[n] \in LedgerState /\ Root(state[n]) = RootAt(c, h - 1)
  BY <1>1, <1>3, <1>5 DEF BftTypeOK, InStep
<1>7. SubSeq(c, 1, h - 1) = c
  BY <1>3, <1>5
<1>8. /\ Executed(c, h) \in [state : LedgerState, block : Block]
      /\ Executed(c, h) = ExecuteDecided(c, state[n], h, decided[h].time, decided[h].txs)
  <2>1. c \in Seq(Block)
    BY <1>3
  <2>2. PICK st \in LedgerState : st = state[n]
    BY <1>6
  <2>3. Root(st) = RootAt(c, h - 1)
    BY <1>6, <2>2
  <2>4. /\ Executed(c, h) \in [state : LedgerState, block : Block]
        /\ Executed(c, h) = ExecuteDecided(SubSeq(c, 1, h - 1), st, h, decided[h].time, decided[h].txs)
    BY <1>1, <1>5, <2>1, <2>3, ExecutedAt
  <2> QED BY <1>7, <2>2, <2>4
<1>9. pending' = [pending EXCEPT ![n] = <<Executed(c, h)>>]
  BY <1>3, <1>4, <1>8 DEF FinalizeBlock
<1>10. BftTypeOK'
  <2>1. <<Executed(c, h)>> \in Seq([state : LedgerState, block : Block])
    BY <1>8
  <2>2. pending' \in [Validators -> Seq([state : LedgerState, block : Block])]
    BY <1>1, <1>9, <2>1 DEF BftTypeOK
  <2> QED BY <1>1, <1>2, <2>2 DEF BftTypeOK
<1>11. LogsAgree'
  BY <1>1, <1>2 DEF LogsAgree, FollowsDecided, Executed
<1>12. InStep(n)'
  <2>1. pending'[n] = <<Executed(c, h)>>
    BY <1>1, <1>9 DEF BftTypeOK
  <2>2. Executed(c, h)' = Executed(c, h)
    BY <1>2 DEF Executed
  <2> QED BY <1>1, <1>2, <1>3, <1>4, <2>1, <2>2 DEF InStep
<1>13. ASSUME NEW m \in Validators, m # n PROVE InStep(m)'
  <2>1. InStep(m) /\ pending'[m] = pending[m]
    BY <1>1, <1>9, <1>13 DEF NodesInStep, BftTypeOK
  <2> QED BY <1>2, <2>1, OthersInStep
<1> QED BY <1>10, <1>11, <1>12, <1>13 DEF BftCore, NodesInStep

(* Commit puts the block that was executed at the end of log and chain. *)
LEMMA CommitCore ==
  ASSUME BftCore, NEW n \in Validators, Commit(n)
  PROVE  BftCore'
<1>1. BftTypeOK /\ LogsAgree /\ NodesInStep /\ DecidedType /\ InStep(n)
  BY TypeOfDecided DEF BftCore, NodesInStep
<1>2. /\ status[n] = "running" /\ pending[n] # <<>>
      /\ UNCHANGED <<status, inflight, decided, admitted, faults>>
  BY DEF Commit
<1>3. PICK c : c = blocks[n] /\ c \in Seq(Block)
  BY <1>1 DEF BftTypeOK
<1>4. PICK p : p = pending[n][1]
  OBVIOUS
<1>5. /\ log[n] = c /\ Stored(log[n]) = c /\ FollowsDecided(c) /\ height[n] = Len(c)
      /\ Len(c) < Len(decided) /\ p.block = Executed(c, Len(c) + 1).block
      /\ p \in [state : LedgerState, block : Block] /\ p.block.root = Root(p.state)
  BY <1>2, <1>3, <1>4, AboutToCommit
<1>6. PICK b \in Block, st \in LedgerState : b = p.block /\ st = p.state
  BY <1>5
<1>7. PICK more : more = Append(c, b)
  OBVIOUS
<1>8. more \in Seq(Block) /\ Len(more) = Len(c) + 1 /\ more[Len(c) + 1] = b /\ Stored(more) = more
  BY <1>3, <1>6, <1>7, StoredLines
<1>9. /\ log' = [log EXCEPT ![n] = more]
      /\ blocks' = [blocks EXCEPT ![n] = more]
      /\ state' = [state EXCEPT ![n] = st]
      /\ height' = [height EXCEPT ![n] = @ + 1]
      /\ pending' = [pending EXCEPT ![n] = <<>>]
  BY <1>3, <1>4, <1>5, <1>6, <1>7 DEF Commit, CommitDecided
<1>10. mempool' \in [Validators -> SUBSET Txs]
  <2>1. \A S \in SUBSET Txs : {tx \in S : tx.nonce >= p.state.nonce[tx.from]} \in SUBSET Txs
    OBVIOUS
  <2> QED BY <1>1, <1>4, <2>1 DEF Commit, CommitDecided, BftTypeOK
<1>11. LogsAgree' /\ \A m \in Validators : Stored(log'[m]) \in Seq(Block)
  BY <1>1, <1>2, <1>5, <1>6, <1>7, <1>8, <1>9, LogGrows
<1>12. BftTypeOK'
  <2>1. more \in Seq(Block \cup {Torn})
    BY <1>8, SeqMonotonic
  <2>2. <<>> \in Seq([state : LedgerState, block : Block])
    OBVIOUS
  <2>3. log' \in [Validators -> Seq(Block \cup {Torn})] /\ blocks' \in [Validators -> Seq(Block)]
    BY <1>1, <1>8, <1>9, <2>1 DEF BftTypeOK
  <2>4. state' \in [Validators -> LedgerState] /\ height' \in [Validators -> Nat]
    BY <1>1, <1>6, <1>9 DEF BftTypeOK
  <2>5. pending' \in [Validators -> Seq([state : LedgerState, block : Block])]
    BY <1>1, <1>9, <2>2 DEF BftTypeOK
  <2> QED BY <1>1, <1>2, <1>10, <1>11, <2>3, <2>4, <2>5 DEF BftTypeOK
<1>13. InStep(n)'
  <2>1. /\ log'[n] = more /\ blocks'[n] = more /\ state'[n] = st /\ pending'[n] = <<>>
        /\ height'[n] = Len(c) + 1 /\ status'[n] = "running"
    BY <1>1, <1>2, <1>5, <1>9 DEF BftTypeOK
  <2>2. IsPrefix(more, Stored(more))
    BY <1>8 DEF IsPrefix
  <2>3. RootAt(more, Len(more)) = Root(st)
    BY <1>3, <1>5, <1>6, <1>8 DEF RootAt
  <2> QED BY <1>8, <2>1, <2>2, <2>3 DEF InStep
<1>14. ASSUME NEW m \in Validators, m # n PROVE InStep(m)'
  <2>1. /\ InStep(m) /\ log'[m] = log[m] /\ blocks'[m] = blocks[m] /\ state'[m] = state[m]
        /\ pending'[m] = pending[m] /\ height'[m] = height[m]
    BY <1>1, <1>9, <1>14 DEF NodesInStep, BftTypeOK
  <2> QED BY <1>2, <2>1, OthersInStep
<1> QED BY <1>11, <1>12, <1>13, <1>14 DEF BftCore, NodesInStep

(* Whatever is left of an append, what is stored is the chain as it was or *)
(* with the executed block on it.                                          *)
LEMMA AppendCutShort ==
  ASSUME BftCore, NEW n \in Validators, status[n] = "running",
         NEW l, l = log[n] \/ (pending[n] # <<>> /\ l \in Partial(n, pending[n][1].block)),
         log' = [log EXCEPT ![n] = l], decided' = decided
  PROVE  /\ LogsAgree' /\ \A m \in Validators : Stored(log'[m]) \in Seq(Block)
         /\ log' \in [Validators -> Seq(Block \cup {Torn})]
         /\ IsPrefix(blocks[n], Stored(log'[n]))
         /\ \A m \in Validators \ {n} : log'[m] = log[m]
<1>1. BftTypeOK /\ LogsAgree
  BY DEF BftCore
<1>2. PICK c : c = blocks[n] /\ c \in Seq(Block)
  BY <1>1 DEF BftTypeOK
<1>3. log[n] = c /\ Stored(log[n]) = c
  BY <1>2, AboutToCommit
<1>4. /\ l \in Seq(Block \cup {Torn}) /\ IsPrefix(c, Stored(l))
      /\ \/ Stored(l) = c
         \/ Len(c) < Len(decided) /\ Stored(l) = Append(c, Executed(c, Len(c) + 1).block)
  <2>1. c \in Seq(Block \cup {Torn})
    BY <1>2, SeqMonotonic
  <2>2. IsPrefix(c, c)
    BY <1>2 DEF IsPrefix
  <2>3. CASE l = log[n]
    BY <1>3, <2>1, <2>2, <2>3
  <2>4. CASE pending[n] # <<>> /\ l \in Partial(n, pending[n][1].block)
    <3>1. PICK b \in Block : b = pending[n][1].block
      BY <2>4, AboutToCommit
    <3>2. Len(c) < Len(decided) /\ b = Executed(c, Len(c) + 1).block
      BY <1>2, <2>4, <3>1, AboutToCommit
    <3>3. l \in {c, Append(c, Torn), Append(c, b)}
      BY <1>3, <2>4, <3>1 DEF Partial
    <3>4. /\ Stored(c) = c /\ Stored(Append(c, Torn)) = c
          /\ Stored(Append(c, b)) = Append(c, b)
      BY <1>2, StoredLines
    <3>5. Append(c, Torn) \in Seq(Block \cup {Torn}) /\ Append(c, b) \in Seq(Block \cup {Torn})
      BY <2>1
    <3>6. IsPrefix(c, Append(c, b))
      BY <1>2 DEF IsPrefix
    <3> QED BY <2>1, <2>2, <3>2, <3>3, <3>4, <3>5, <3>6
  <2> QED BY <2>3, <2>4
<1>5. LogsAgree' /\ \A m \in Validators : Stored(log'[m]) \in Seq(Block)
  BY <1>1, <1>3, <1>4, LogGrows
<1>6. log' \in [Validators -> Seq(Block \cup {Torn})] /\ log'[n] = l
  BY <1>1, <1>4 DEF BftTypeOK
<1> QED BY <1>1, <1>2, <1>4, <1>5, <1>6 DEF BftTypeOK

LEMMA CommitFailsCore ==
  ASSUME BftCore, NEW n \in Validators, CommitFails(n)
  PROVE  BftCore'
<1>1. BftTypeOK /\ LogsAgree /\ NodesInStep /\ InStep(n)
  BY DEF BftCore, NodesInStep
<1>2. /\ status[n] = "running" /\ pending[n] # <<>>
      /\ status' = [status EXCEPT ![n] = "halted"]
      /\ pending' = [pending EXCEPT ![n] = <<>>]
      /\ UNCHANGED <<blocks, state, mempool, height, inflight, decided, admitted>>
  BY DEF CommitFails, AfterFailedCommit
<1>3. /\ faults' \in 0..MaxFaults
      /\  \E l \in Partial(n, pending[n][1].block) : log' = [log EXCEPT ![n] = l]
  <2>1. pending[n][1].block.height = Len(blocks[n]) + 1
    BY <1>2, AboutToCommit
  <2> QED BY <1>1, <2>1, BftAssumption DEF CommitFails, BftTypeOK
<1>4. PICK l \in Partial(n, pending[n][1].block) : log' = [log EXCEPT ![n] = l]
  BY <1>3
<1>5. /\ LogsAgree' /\ \A m \in Validators : Stored(log'[m]) \in Seq(Block)
      /\ log' \in [Validators -> Seq(Block \cup {Torn})]
      /\ IsPrefix(blocks[n], Stored(log'[n]))
      /\ \A m \in Validators \ {n} : log'[m] = log[m]
  BY <1>2, <1>4, AppendCutShort
<1>6. BftTypeOK'
  <2>1. <<>> \in Seq([state : LedgerState, block : Block])
    OBVIOUS
  <2>2. pending' \in [Validators -> Seq([state : LedgerState, block : Block])]
    BY <1>1, <1>2, <2>1 DEF BftTypeOK
  <2> QED BY <1>1, <1>2, <1>3, <1>5, <2>2 DEF BftTypeOK
<1>7. InStep(n)'
  <2>1. status'[n] = "halted" /\ pending'[n] = <<>>
    BY <1>1, <1>2 DEF BftTypeOK
  <2> QED BY <1>1, <1>2, <1>5, <2>1 DEF InStep
<1>8. ASSUME NEW m \in Validators, m # n PROVE InStep(m)'
  <2>1. InStep(m) /\ log'[m] = log[m] /\ status'[m] = status[m] /\ pending'[m] = pending[m]
    BY <1>1, <1>2, <1>5, <1>8 DEF NodesInStep, BftTypeOK
  <2> QED BY <1>2, <2>1, OthersInStep
<1> QED BY <1>5, <1>6, <1>7, <1>8 DEF BftCore, NodesInStep

LEMMA CrashCore ==
  ASSUME BftCore, NEW n \in Validators, Crash(n)
  PROVE  BftCore'
<1>1. BftTypeOK /\ LogsAgree /\ NodesInStep /\ InStep(n)
  BY DEF BftCore, NodesInStep
<1>2. /\ status[n] # "down"
      /\ status' = [status EXCEPT ![n] = "down"]
      /\ blocks' = [blocks EXCEPT ![n] = <<>>]
      /\ state' = [state EXCEPT ![n] = GenesisState]
      /\ mempool' = [mempool EXCEPT ![n] = {}]
      /\ pending' = [pending EXCEPT ![n] = <<>>]
      /\ inflight' = [inflight EXCEPT ![n] = [h \in Handlers |-> NoTx]]
      /\ UNCHANGED <<height, decided, admitted>>
  BY DEF Crash
<1>3. /\ LogsAgree' /\ \A m \in Validators : Stored(log'[m]) \in Seq(Block)
      /\ log' \in [Validators -> Seq(Block \cup {Torn})] /\ faults' \in 0..MaxFaults
      /\ \A m \in Validators \ {n} : log'[m] = log[m]
  <2>1. CASE status[n] = "halted"
    <3>1. UNCHANGED <<faults, log, decided>>
      BY <1>2, <2>1 DEF Crash
    <3> QED BY <1>1, <3>1 DEF LogsAgree, FollowsDecided, Executed, BftTypeOK
  <2>2. CASE status[n] # "halted"
    <3>1. status[n] = "running"
      BY <1>1, <1>2, <2>2 DEF BftTypeOK
    <3>2. faults' \in 0..MaxFaults
      BY <1>1, <2>2, BftAssumption DEF Crash, BftTypeOK
    <3>3. PICK l : /\ l = log[n] \/ (pending[n] # <<>> /\ l \in Partial(n, pending[n][1].block))
                   /\ log' = [log EXCEPT ![n] = l]
      BY <2>2 DEF Crash
    <3> QED BY <1>2, <3>1, <3>2, <3>3, AppendCutShort
  <2> QED BY <2>1, <2>2
<1>4. BftTypeOK'
  <2>1. \A S : <<>> \in Seq(S)
    OBVIOUS
  <2>2. blocks' \in [Validators -> Seq(Block)]
    BY <1>1, <1>2, <2>1 DEF BftTypeOK
  <2>3. pending' \in [Validators -> Seq([state : LedgerState, block : Block])]
    BY <1>1, <1>2, <2>1 DEF BftTypeOK
  <2>4. state' \in [Validators -> LedgerState]
    BY <1>1, <1>2, GenesisType DEF BftTypeOK
  <2>5. inflight' \in [Validators -> [Handlers -> Txs \cup {NoTx}]]
    BY <1>1, <1>2 DEF BftTypeOK
  <2> QED BY <1>1, <1>2, <1>3, <2>2, <2>3, <2>4, <2>5 DEF BftTypeOK
<1>5. InStep(n)'
  <2>1. /\ status'[n] = "down" /\ pending'[n] = <<>> /\ blocks'[n] = <<>>
        /\ state'[n] = GenesisState /\ Stored(log'[n]) \in Seq(Block)
    BY <1>1, <1>2, <1>3 DEF BftTypeOK
  <2>2. IsPrefix(<<>>, Stored(log'[n]))
    BY <2>1 DEF IsPrefix
  <2>3. Root(GenesisState) = RootAt(<<>>, Len(<<>>))
    BY DEF RootAt
  <2> QED BY <2>1, <2>2, <2>3 DEF InStep
<1>6. ASSUME NEW m \in Validators, m # n PROVE InStep(m)'
  <2>1. /\ InStep(m) /\ log'[m] = log[m] /\ status'[m] = status[m] /\ pending'[m] = pending[m]
        /\ blocks'[m] = blocks[m] /\ state'[m] = state[m]
    BY <1>1, <1>2, <1>3, <1>6 DEF NodesInStep, BftTypeOK
  <2> QED BY <1>2, <2>1, OthersInStep
<1> QED BY <1>3, <1>4, <1>5, <1>6 DEF BftCore, NodesInStep

(* Restart takes over what the log stores, and its state. *)
LEMMA RestartCore ==
  ASSUME BftCore, NEW n \in Validators, Restart(n)
  PROVE  BftCore'
<1>1. BftTypeOK /\ LogsAgree /\ NodesInStep /\ InStep(n) /\ DecidedType
  BY TypeOfDecided DEF BftCore, NodesInStep
<1>2. PICK c : c = Stored(log[n]) /\ c \in Seq(Block) /\ FollowsDecided(c)
  BY <1>1 DEF BftTypeOK, LogsAgree
<1>3. PICK st \in LedgerState : st = Replay(log[n]).st /\ Root(st) = RootAt(c, Len(c))
  BY <1>1, <1>2, FollowedReplays
<1>4. /\ status[n] = "down"
      /\ status' = [status EXCEPT ![n] = "running"]
      /\ blocks' = [blocks EXCEPT ![n] = c]
      /\ state' = [state EXCEPT ![n] = st]
      /\ height' = [height EXCEPT ![n] = Len(c)]
      /\ log' = [log EXCEPT ![n] = c]
      /\ UNCHANGED <<mempool, pending, inflight, decided, admitted, faults>>
  <2>1. Replay(log[n]).bs = c
    BY <1>1, <1>2, FollowedReplays
  <2> QED BY <1>2, <1>3, <2>1 DEF Restart, Info
<1>5. Stored(c) = c /\ IsPrefix(c, c)
  <2>1. Torn \notin Block
    BY DEF Torn, NoBlock, Block
  <2>2. Stored(c) = c
    BY <1>2, <2>1 DEF Stored, Last
  <2> QED BY <1>2, <2>2 DEF IsPrefix
<1>6. LogsAgree' /\ \A m \in Validators : Stored(log'[m]) \in Seq(Block)
  BY <1>1, <1>2, <1>4, <1>5, LogGrows
<1>7. BftTypeOK'
  <2>1. c \in Seq(Block \cup {Torn}) /\ Len(c) \in Nat
    BY <1>2, SeqMonotonic
  <2>2. blocks' \in [Validators -> Seq(Block)] /\ log' \in [Validators -> Seq(Block \cup {Torn})]
    BY <1>1, <1>2, <1>4, <2>1 DEF BftTypeOK
  <2>3. state' \in [Validators -> LedgerState] /\ height' \in [Validators -> Nat]
    BY <1>1, <1>3, <1>4, <2>1 DEF BftTypeOK
  <2> QED BY <1>1, <1>4, <1>6, <2>2, <2>3 DEF BftTypeOK
<1>8. InStep(n)'
  <2>1. /\ status'[n] = "running" /\ pending'[n] = pending[n] /\ blocks'[n] = c
        /\ state'[n] = st /\ log'[n] = c /\ height'[n] = Len(c)
    BY <1>1, <1>4 DEF BftTypeOK
  <2>2. pending[n] = <<>>
    BY <1>1, <1>4 DEF InStep
  <2> QED BY <1>3, <1>5, <2>1, <2>2 DEF InStep
<1>9. ASSUME NEW m \in Validators, m # n PROVE InStep(m)'
  <2>1. /\ InStep(m) /\ log'[m] = log[m] /\ status'[m] = status[m] /\ height'[m] = height[m]
        /\ blocks'[m] = blocks[m] /\ state'[m] = state[m]
    BY <1>1, <1>4, <1>9 DEF NodesInStep, BftTypeOK
  <2> QED BY <1>4, <2>1, OthersInStep
<1> QED BY <1>6, <1>7, <1>8, <1>9 DEF BftCore, NodesInStep

LEMMA BftStepCore == BftCore /\ [BftNext]_bftVars => BftCore'
<1> SUFFICES ASSUME BftCore, [BftNext]_bftVars PROVE BftCore'
  OBVIOUS
<1>1. CASE UNCHANGED bftVars
  BY <1>1 DEF bftVars, BftCore, BftTypeOK, LogsAgree, FollowsDecided, NodesInStep, InStep, Executed
<1>2. CASE BftNext
  BY <1>2, DecideCore, FinalizeCore, CommitCore, CommitFailsCore, CrashCore, RestartCore,
     CheckTxCore, BroadcastCore, SubmitCore DEF BftNext
<1> QED BY <1>1, <1>2

LEMMA CoreAgrees == BftCore => ValidatorsAgree
<1> SUFFICES ASSUME BftCore, NEW m \in Validators, NEW n \in Validators,
                    NEW i \in DOMAIN blocks[m] \cap DOMAIN blocks[n]
             PROVE  blocks[m][i] = blocks[n][i]
  BY DEF ValidatorsAgree
<1>1. ASSUME NEW k \in Validators, NEW j \in DOMAIN blocks[k]
      PROVE  j \in DOMAIN Stored(log[k]) /\ Stored(log[k])[j] = blocks[k][j]
  <2>1. /\ blocks[k] \in Seq(Block) /\ Stored(log[k]) \in Seq(Block)
        /\ IsPrefix(blocks[k], Stored(log[k]))
    BY DEF BftCore, BftTypeOK, NodesInStep, InStep
  <2>2. PICK a, b : a = blocks[k] /\ b = Stored(log[k])
    OBVIOUS
  <2>3. /\ a \in Seq(Block) /\ b \in Seq(Block) /\ Len(a) <= Len(b) /\ j \in 1..Len(a)
        /\ SubSeq(a, 1, Len(a)) = SubSeq(b, 1, Len(a))
    BY <1>1, <2>1, <2>2 DEF IsPrefix
  <2>4. j \in DOMAIN b /\ b[j] = a[j]
    BY <2>3
  <2> QED BY <2>2, <2>4
<1> QED BY <1>1 DEF BftCore, LogsAgree

LEMMA CoreReplays == BftCore => ServedCanBeReplayed
<1> SUFFICES ASSUME BftCore, NEW n \in Validators
             PROVE  /\ Replay(log[n]).ok
                    /\ IsPrefix(blocks[n], Stored(log[n]))
                    /\ blocks[n] # <<>> => Last(blocks[n]).root = Root(state[n])
  BY DEF ServedCanBeReplayed
<1>1. /\ DecidedType /\ InStep(n) /\ blocks[n] \in Seq(Block)
      /\ Stored(log[n]) \in Seq(Block) /\ FollowsDecided(Stored(log[n]))
  BY TypeOfDecided DEF BftCore, BftTypeOK, LogsAgree, NodesInStep
<1>2. Replay(log[n]).ok
  BY <1>1, FollowedReplays
<1>3. blocks[n] # <<>> => Last(blocks[n]).root = Root(state[n])
  <2>1. blocks[n] # <<>> => Len(blocks[n]) # 0
    BY <1>1
  <2> QED BY <1>1, <2>1 DEF InStep, RootAt, Last
<1> QED BY <1>1, <1>2, <1>3 DEF InStep

(* A mempool only loses transactions, or gets one that its handler holds;  *)
(* a handler lets go of one only when it is admitted or forgotten.         *)
LEMMA PendingStep ==
  ASSUME BftTypeOK, PendingIsShared, [BftNext]_bftVars PROVE PendingIsShared'
<1>1. NoTx \notin Txs
  BY BftAssumption DEF NoTx
<1>2. /\ mempool \in [Validators -> SUBSET Txs]
      /\ inflight \in [Validators -> [Handlers -> Txs \cup {NoTx}]]
  BY DEF BftTypeOK
<1>3. CASE UNCHANGED <<mempool, inflight, admitted>>
  BY <1>3 DEF PendingIsShared
<1>4. ASSUME NEW n \in Validators, Commit(n) PROVE PendingIsShared'
  <2>1. UNCHANGED <<inflight, admitted>>
    BY <1>4 DEF Commit
  <2>2. \A m \in Validators : mempool'[m] \subseteq mempool[m]
    BY <1>2, <1>4 DEF Commit, CommitDecided
  <2> QED BY <2>1, <2>2 DEF PendingIsShared
<1>5. ASSUME NEW n \in Validators, Crash(n) PROVE PendingIsShared'
  <2>1. /\ UNCHANGED admitted /\ mempool'[n] = {}
        /\ \A m \in Validators \ {n} : mempool'[m] = mempool[m] /\ inflight'[m] = inflight[m]
    BY <1>2, <1>5 DEF Crash
  <2> QED BY <2>1 DEF PendingIsShared
<1>6. ASSUME NEW n \in ApiNodes, NEW h \in Handlers, NEW now \in Nows(n), NEW tx \in Txs,
             Submit(n, h, tx, now)
      PROVE  PendingIsShared'
  <2>1. UNCHANGED admitted /\ n \in Validators /\ inflight[n][h] = NoTx
    BY <1>6, BftAssumption DEF Submit, diskAndNet
  <2>2. \/ UNCHANGED <<mempool, inflight>>
        \/ /\ UNCHANGED mempool \/ mempool' = [mempool EXCEPT ![n] = @ \cup {tx}]
           /\ inflight' = [inflight EXCEPT ![n][h] = tx]
    BY <1>6 DEF Submit
  <2> QED BY <1>1, <1>2, <2>1, <2>2 DEF PendingIsShared
<1>7. ASSUME NEW n \in ApiNodes, NEW h \in Handlers, NEW now \in Nows(n), Broadcast(n, h, now)
      PROVE  PendingIsShared'
  <2>1. PICK tx \in Txs : tx = inflight[n][h] /\ n \in Validators
    BY <1>2, <1>7, BftAssumption DEF Broadcast
  <2>2. /\ inflight' = [inflight EXCEPT ![n][h] = NoTx] /\ admitted \subseteq admitted'
        /\ \/ UNCHANGED mempool /\ tx \in admitted'
           \/ mempool' = [mempool EXCEPT ![n] = @ \ {tx}]
    BY <1>7, <2>1 DEF Broadcast, Forget
  <2> QED BY <1>1, <1>2, <2>1, <2>2 DEF PendingIsShared
<1>8. CASE UNCHANGED bftVars
  BY <1>3, <1>8 DEF bftVars
<1>9. CASE BftNext
  <2>1. ASSUME NEW n \in Validators,
               FinalizeBlock(n) \/ CommitFails(n) \/ Restart(n) \/ \E now \in Nows(n) : CheckTx(n, now)
        PROVE  PendingIsShared'
    BY <1>3, <2>1 DEF FinalizeBlock, CommitFails, Restart, CheckTx, diskAndNet
  <2>2. CASE Decide
    BY <1>3, <2>2 DEF Decide
  <2> QED BY <1>4, <1>5, <1>6, <1>7, <1>9, <2>1, <2>2 DEF BftNext
<1> QED BY <1>8, <1>9

-----------------------------------------------------------------------------
(* For any validators, transactions, proposals, clocks and faults: memory, *)
(* log and consensus height of a node stay in step with what was decided,  *)
(* what waits for Commit is never stale, and the log of a node opens again *)
(* whatever append was cut short.                                          *)
THEOREM BftKeepsInStep == BftSpec => []BftInv
<1>1. BftCore => BftInv
  BY CoreReplays DEF BftCore, BftInv
<1> QED BY <1>1, BftInitCore, BftStepCore, PTL DEF BftSpec

(* "Validators also agree on the state root (the app hash) after each      *)
(* block" (abci/app.go:4): no two validators hold different blocks or      *)
(* roots at one height, though their clocks differ and each of them checks *)
(* transactions, fails and starts again on its own.                        *)
THEOREM BftValidatorsAgree == BftSpec => []ValidatorsAgree
BY CoreAgrees, BftInitCore, BftStepCore, PTL DEF BftSpec

(* A transaction that holds a nonce in a node's mempool is in the shared   *)
(* mempool or still in its handler (bft.go: submit), for any interleaving  *)
(* of handlers, checks and commits.                                        *)
THEOREM BftPendingIsShared == BftSpec => []PendingIsShared
<1>1. BftInit => PendingIsShared
  BY DEF BftInit, PendingIsShared
<1>2. BftCore /\ PendingIsShared /\ [BftNext]_bftVars => PendingIsShared'
  BY PendingStep DEF BftCore
<1> QED BY <1>1, <1>2, BftInitCore, BftStepCore, PTL DEF BftSpec
=============================================================================
