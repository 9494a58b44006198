---------------------------- MODULE ChainProofs -----------------------------
(***************************************************************************)
(* A producer and its replicas, over crashes: what is served is durable,   *)
(* the log can be opened again, the state is what executing the blocks     *)
(* gives, and every sender's transactions are in it once and in order.     *)
(*                                                                         *)
(* All of it rests on one invariant, ChainInv: the log of a node that had  *)
(* no failed append, but for a torn last line, is a chain, each block      *)
(* verified on top of the one before; memory, while there is one, is that  *)
(* chain; and a replica's log is a part of the producer's.  The nonces     *)
(* need no invariant of their own: they are in order in every chain.       *)
(***************************************************************************)
EXTENDS Chain, SumsProofs, SequenceTheorems, FiniteSetTheorems

Result    == [ok : BOOLEAN, st : LedgerState]
Begun(st) == [ok |-> TRUE, st |-> st]

-----------------------------------------------------------------------------
(* The ledger. *)
LEMMA TxType ==
  ASSUME NEW tx \in Txs
  PROVE  /\ tx.from \in Users /\ tx.to \in Users /\ tx.from # tx.to
         /\ tx.nonce \in Nat /\ tx.pay \in Nat /\ tx.upto \in Nat
BY ChainAssumption

LEMMA VerdictOk ==
  ASSUME NEW st \in LedgerState, NEW tx \in Txs
  PROVE  /\ Verdict(st, tx) = "ok" => st.nonce[tx.from] = tx.nonce /\ ~Refused(st, tx)
         /\ Verdict(st, tx) \in {"ok", "high"} => st.nonce[tx.from] <= tx.nonce
<1>1. st.nonce[tx.from] \in Nat /\ tx.nonce \in Nat
  BY TxType DEF LedgerState
<1> QED BY <1>1 DEF Verdict

LEMMA ApplyType ==
  ASSUME NEW st \in LedgerState, NEW tx \in Txs, Verdict(st, tx) = "ok"
  PROVE  /\ Apply(st, tx) \in LedgerState
         /\ Apply(st, tx).nonce = [st.nonce EXCEPT ![tx.from] = @ + 1]
<1>1. tx.from \in Users /\ tx.to \in Users /\ tx.from # tx.to /\ tx.pay \in Nat
  BY TxType
<1>2. st.nonce \in [Users -> Nat] /\ st.bal \in [Users -> Nat]
  BY DEF LedgerState
<1>3. PICK nonce \in [Users -> Nat] : nonce = [st.nonce EXCEPT ![tx.from] = @ + 1]
  <2>1. [st.nonce EXCEPT ![tx.from] = @ + 1] \in [Users -> Nat]
    BY <1>1, <1>2
  <2> QED BY <2>1
<1>4. PICK bal \in [Users -> Nat] :
        bal = [st.bal EXCEPT ![tx.from] = @ - tx.pay, ![tx.to] = @ + tx.pay]
  <2>1. st.bal[tx.from] - tx.pay \in Nat
    <3>1. ~Refused(st, tx)
      BY VerdictOk
    <3>2. st.bal[tx.from] \in Nat
      BY <1>1, <1>2
    <3> QED BY <1>1, <3>1, <3>2 DEF Refused
  <2>2. PICK less \in [Users -> Nat] : less = [st.bal EXCEPT ![tx.from] = @ - tx.pay]
    <3>1. [st.bal EXCEPT ![tx.from] = @ - tx.pay] \in [Users -> Nat]
      BY <1>1, <1>2, <2>1
    <3> QED BY <3>1
  <2>3. less[tx.to] + tx.pay \in Nat
    BY <1>1, <2>2
  <2>4. [less EXCEPT ![tx.to] = @ + tx.pay] \in [Users -> Nat]
    BY <1>1, <2>2, <2>3
  <2>5. [less EXCEPT ![tx.to] = @ + tx.pay]
          = [st.bal EXCEPT ![tx.from] = @ - tx.pay, ![tx.to] = @ + tx.pay]
    BY <1>1, <1>2, <2>2
  <2> QED BY <2>4, <2>5
<1>5. Apply(st, tx) = [nonce |-> nonce, bal |-> bal]
  BY <1>3, <1>4 DEF Apply
<1> QED BY <1>3, <1>4, <1>5 DEF LedgerState

LEMMA GenesisType == GenesisState \in LedgerState
BY ChainAssumption DEF GenesisState, LedgerState

LEMMA BegunType == ASSUME NEW st \in LedgerState PROVE Begun(st) \in Result
BY DEF Begun, Result

LEMMA ExecuteOneType ==
  ASSUME NEW r \in Result, NEW tx \in Txs PROVE ExecuteOne(r, tx) \in Result
<1>1. r.st \in LedgerState /\ r.ok \in BOOLEAN
  BY DEF Result
<1>2. CASE r.ok /\ Verdict(r.st, tx) = "ok"
  BY <1>1, <1>2, ApplyType DEF ExecuteOne, Result
<1>3. CASE ~(r.ok /\ Verdict(r.st, tx) = "ok")
  BY <1>1, <1>3 DEF ExecuteOne, Result
<1> QED BY <1>2, <1>3

(* The results that executing txs goes through. *)
IsRun(run, st, txs) ==
  /\ run \in [0..Len(txs) -> Result]
  /\ run[0] = Begun(st)
  /\ \A i \in 1..Len(txs) : run[i] = ExecuteOne(run[i - 1], txs[i])

LEMMA RunsExist ==
  ASSUME NEW st \in LedgerState, NEW txs \in Seq(Txs)
  PROVE  \E run : IsRun(run, st, txs)
<1> DEFINE n == Len(txs)
           G == [x \in Result \X (1..n) |-> ExecuteOne(x[1], txs[x[2]])]
<1>1. n \in Nat
  OBVIOUS
<1>2. G \in [Result \X (1..n) -> Result]
  BY ExecuteOneType
<1>3. \A r \in Result, k \in 1..n : G[<<r, k>>] = ExecuteOne(r, txs[k])
  OBVIOUS
<1> HIDE DEF G
<1>4. Unrolls(n, Result, Begun(st), G)
  BY <1>1, <1>2, BegunType, IntervalRecursion
<1>5. PICK run \in [0..n -> Result] :
        run[0] = Begun(st) /\ \A k \in 1..n : run[k] = G[<<run[k - 1], k>>]
  BY <1>4 DEF Unrolls
<1>6. ASSUME NEW k \in 1..n PROVE run[k] = ExecuteOne(run[k - 1], txs[k])
  <2>1. run[k - 1] \in Result
    BY <1>1, <1>5
  <2> QED BY <1>3, <1>5, <2>1
<1> QED BY <1>5, <1>6 DEF IsRun

(* A run is determined by where it starts and what it has run so far. *)
LEMMA RunsAgree ==
  ASSUME NEW st, NEW txs \in Seq(Txs), NEW more \in Seq(Txs),
         NEW n \in Nat, n <= Len(txs), n <= Len(more),
         \A i \in 1..n : txs[i] = more[i],
         NEW run, IsRun(run, st, txs), NEW sum, IsRun(sum, st, more)
  PROVE  run[n] = sum[n]
<1> DEFINE T == {m \in 0..n : run[m] = sum[m]}
<1>1. 0 \in T
  BY DEF IsRun
<1>2. ASSUME NEW m \in 1..n, m - 1 \in T PROVE m \in T
  BY <1>2 DEF IsRun
<1>3. \A m \in 0..n : m \in T
  <2> HIDE DEF T
  <2> QED BY <1>1, <1>2, IntervalInduction
<1> QED BY <1>3

(* Execute unfolds as it is written. *)
LEMMA ExecuteUnfold ==
  ASSUME NEW st \in LedgerState, NEW txs \in Seq(Txs)
  PROVE  \E run : IsRun(run, st, txs) /\ Execute(st, txs) = run[Len(txs)]
<1> DEFINE P(run) == run = [i \in 0..Len(txs) |->
                       IF i = 0 THEN [ok |-> TRUE, st |-> st] ELSE ExecuteOne(run[i - 1], txs[i])]
           C == CHOOSE run : P(run)
<1>1. \E run : P(run)
  <2>1. PICK run : IsRun(run, st, txs)
    BY RunsExist
  <2>2. P(run)
    BY <2>1 DEF IsRun, Begun
  <2> QED BY <2>2
<1>2. P(C)
  <2> HIDE DEF P
  <2> QED BY <1>1
<1>3. Execute(st, txs) = C[Len(txs)]
  BY DEF Execute
<1>4. /\ C = [i \in 0..Len(txs) |->
                IF i = 0 THEN [ok |-> TRUE, st |-> st] ELSE ExecuteOne(C[i - 1], txs[i])]
  BY <1>2
<1>0. Len(txs) \in Nat /\ \A i \in 1..Len(txs) : txs[i] \in Txs
  OBVIOUS
<1> HIDE DEF C
<1>5. /\ C[0] = Begun(st)
      /\ \A i \in 1..Len(txs) : C[i] = ExecuteOne(C[i - 1], txs[i])
  <2> DEFINE start == [ok |-> TRUE, st |-> st]
  <2>1. C = [i \in 0..Len(txs) |-> IF i = 0 THEN start ELSE ExecuteOne(C[i - 1], txs[i])]
    BY <1>4
  <2>2. start = Begun(st)
    BY DEF Begun
  <2> HIDE DEF start
  <2> QED BY <1>0, <2>1, <2>2
<1> DEFINE T == {m \in 0..Len(txs) : C[m] \in Result}
<1>6. 0 \in T
  BY <1>0, <1>5, BegunType
<1>7. ASSUME NEW m \in 1..Len(txs), m - 1 \in T PROVE m \in T
  BY <1>0, <1>5, <1>7, ExecuteOneType
<1>8. \A m \in 0..Len(txs) : m \in T
  <2> HIDE DEF T
  <2> QED BY <1>0, <1>6, <1>7, IntervalInduction
<1>9. C \in [0..Len(txs) -> Result]
  BY <1>4, <1>8
<1> QED BY <1>3, <1>5, <1>9 DEF IsRun

LEMMA ExecuteEmpty ==
  ASSUME NEW st \in LedgerState PROVE Execute(st, <<>>) = Begun(st)
<1>1. <<>> \in Seq(Txs) /\ Len(<<>>) = 0
  OBVIOUS
<1>2. PICK run : IsRun(run, st, <<>>) /\ Execute(st, <<>>) = run[0]
  BY <1>1, ExecuteUnfold
<1> QED BY <1>2 DEF IsRun

LEMMA ExecuteAppend ==
  ASSUME NEW st \in LedgerState, NEW txs \in Seq(Txs), NEW tx \in Txs
  PROVE  Execute(st, Append(txs, tx)) = ExecuteOne(Execute(st, txs), tx)
<1> DEFINE more == Append(txs, tx)
           n    == Len(txs)
<1>1. /\ more \in Seq(Txs) /\ Len(more) = n + 1 /\ more[n + 1] = tx
      /\ \A i \in 1..n : txs[i] = more[i]
      /\ n \in Nat /\ n + 1 \in 1..Len(more) /\ n <= Len(more)
  OBVIOUS
<1> HIDE DEF more
<1>2. PICK run : IsRun(run, st, txs) /\ Execute(st, txs) = run[n]
  BY ExecuteUnfold
<1>3. PICK sum : IsRun(sum, st, more) /\ Execute(st, more) = sum[Len(more)]
  BY <1>1, ExecuteUnfold
<1>4. run[n] = sum[n]
  BY <1>1, <1>2, <1>3, RunsAgree
<1>5. sum[n + 1] = ExecuteOne(sum[n], more[n + 1])
  BY <1>1, <1>3 DEF IsRun
<1>6. Execute(st, more) = ExecuteOne(Execute(st, txs), tx)
  BY <1>1, <1>2, <1>3, <1>4, <1>5
<1> QED BY <1>6 DEF more

-----------------------------------------------------------------------------
(* What Produce selects. *)
Picked     == [st : LedgerState, txs : Seq(Txs), dropped : SUBSET Txs]
Nothing(st) == [st |-> st, txs |-> <<>>, dropped |-> {}]

LEMMA NothingType == ASSUME NEW st \in LedgerState PROVE Nothing(st) \in Picked
BY DEF Nothing, Picked

LEMMA SelectOneCases ==
  ASSUME NEW r \in Picked, NEW tx \in Txs
  PROVE  LET next == SelectOne(r, tx)
         IN  /\ next \in Picked
             /\ \/ next.st = r.st /\ next.txs = r.txs
                \/ /\ Verdict(r.st, tx) = "ok" /\ Len(r.txs) # MaxBlockTxs
                   /\ next.st = Apply(r.st, tx) /\ next.txs = Append(r.txs, tx)
<1>1. r.st \in LedgerState /\ r.txs \in Seq(Txs) /\ r.dropped \in SUBSET Txs
  BY DEF Picked
<1>2. CASE Len(r.txs) = MaxBlockTxs
  BY <1>2 DEF SelectOne
<1>3. CASE Len(r.txs) # MaxBlockTxs /\ Verdict(r.st, tx) = "ok"
  <2>1. SelectOne(r, tx) = [r EXCEPT !.st = Apply(r.st, tx), !.txs = Append(r.txs, tx)]
    BY <1>3 DEF SelectOne
  <2>2. Apply(r.st, tx) \in LedgerState
    BY <1>1, <1>3, ApplyType
  <2>3. Append(r.txs, tx) \in Seq(Txs)
    BY <1>1
  <2> QED BY <1>3, <2>1, <2>2, <2>3 DEF Picked
<1>4. CASE Len(r.txs) # MaxBlockTxs /\ Verdict(r.st, tx) = "high"
  BY <1>4 DEF SelectOne
<1>5. CASE Len(r.txs) # MaxBlockTxs /\ Verdict(r.st, tx) # "ok" /\ Verdict(r.st, tx) # "high"
  <2>1. SelectOne(r, tx) = [r EXCEPT !.dropped = r.dropped \cup {tx}]
    BY <1>5 DEF SelectOne
  <2> QED BY <1>1, <2>1 DEF Picked
<1> QED BY <1>2, <1>3, <1>4, <1>5

(* The intermediate selections over the queue. *)
IsPick(run, st, queue) ==
  /\ run \in [0..Len(queue) -> Picked]
  /\ run[0] = Nothing(st)
  /\ \A i \in 1..Len(queue) : run[i] = SelectOne(run[i - 1], queue[i])

LEMMA PicksExist ==
  ASSUME NEW st \in LedgerState, NEW queue \in Seq(Txs)
  PROVE  \E run : IsPick(run, st, queue)
<1> DEFINE n == Len(queue)
           G == [x \in Picked \X (1..n) |-> SelectOne(x[1], queue[x[2]])]
<1>1. n \in Nat /\ \A i \in 1..n : queue[i] \in Txs
  OBVIOUS
<1>2. G \in [Picked \X (1..n) -> Picked]
  <2>1. ASSUME NEW x \in Picked \X (1..n) PROVE SelectOne(x[1], queue[x[2]]) \in Picked
    <3>1. x[1] \in Picked /\ queue[x[2]] \in Txs
      BY <1>1
    <3> QED BY <3>1, SelectOneCases
  <2> QED BY <2>1
<1>3. \A r \in Picked, k \in 1..n : G[<<r, k>>] = SelectOne(r, queue[k])
  OBVIOUS
<1> HIDE DEF G
<1>4. Unrolls(n, Picked, Nothing(st), G)
  BY <1>1, <1>2, NothingType, IntervalRecursion
<1>5. PICK run \in [0..n -> Picked] :
        run[0] = Nothing(st) /\ \A k \in 1..n : run[k] = G[<<run[k - 1], k>>]
  BY <1>4 DEF Unrolls
<1>6. ASSUME NEW k \in 1..n PROVE run[k] = SelectOne(run[k - 1], queue[k])
  <2>1. run[k - 1] \in Picked
    BY <1>1, <1>5
  <2> QED BY <1>3, <1>5, <2>1
<1> QED BY <1>5, <1>6 DEF IsPick

LEMMA SelectionUnfold ==
  ASSUME NEW st \in LedgerState, NEW queue \in Seq(Txs)
  PROVE  \E run : IsPick(run, st, queue) /\ Selection(st, queue) = run[Len(queue)]
<1> DEFINE P(run) == run = [i \in 0..Len(queue) |->
                       IF i = 0 THEN [st |-> st, txs |-> <<>>, dropped |-> {}]
                       ELSE SelectOne(run[i - 1], queue[i])]
           C == CHOOSE run : P(run)
<1>1. \E run : P(run)
  <2>1. PICK run : IsPick(run, st, queue)
    BY PicksExist
  <2>2. P(run)
    BY <2>1 DEF IsPick, Nothing
  <2> QED BY <2>2
<1>2. P(C)
  <2> HIDE DEF P
  <2> QED BY <1>1
<1>3. Selection(st, queue) = C[Len(queue)]
  BY DEF Selection
<1>4. C = [i \in 0..Len(queue) |-> IF i = 0 THEN Nothing(st) ELSE SelectOne(C[i - 1], queue[i])]
  BY <1>2 DEF Nothing
<1>0. Len(queue) \in Nat /\ \A i \in 1..Len(queue) : queue[i] \in Txs
  OBVIOUS
<1> HIDE DEF C
<1>5. /\ C[0] = Nothing(st)
      /\ \A i \in 1..Len(queue) : C[i] = SelectOne(C[i - 1], queue[i])
  BY <1>0, <1>4
<1> DEFINE T == {m \in 0..Len(queue) : C[m] \in Picked}
<1>6. 0 \in T
  BY <1>0, <1>5, NothingType
<1>7. ASSUME NEW m \in 1..Len(queue), m - 1 \in T PROVE m \in T
  <2>1. C[m - 1] \in Picked /\ queue[m] \in Txs
    BY <1>0, <1>7
  <2>2. C[m] \in Picked
    BY <1>5, <2>1, SelectOneCases
  <2> QED BY <2>2
<1>8. \A m \in 0..Len(queue) : m \in T
  <2> HIDE DEF T
  <2> QED BY <1>0, <1>6, <1>7, IntervalInduction
<1>9. C \in [0..Len(queue) -> Picked]
  BY <1>4, <1>8
<1> QED BY <1>3, <1>5, <1>9 DEF IsPick

(* The selection fits into a block and executes to the state it comes with. *)
Executes(st, sel) ==
  /\ sel \in Picked /\ Len(sel.txs) <= MaxBlockTxs
  /\ Execute(st, sel.txs) = Begun(sel.st)

LEMMA SelectionExecutes ==
  ASSUME NEW st \in LedgerState, NEW queue \in Seq(Txs)
  PROVE  Executes(st, Selection(st, queue))
<1>1. PICK run : IsPick(run, st, queue) /\ Selection(st, queue) = run[Len(queue)]
  BY SelectionUnfold
<1>0. Len(queue) \in Nat /\ (\A i \in 1..Len(queue) : queue[i] \in Txs) /\ MaxBlockTxs \in Nat
  BY ChainAssumption
<1> DEFINE T == {m \in 0..Len(queue) : Executes(st, run[m])}
<1>2. 0 \in T
  <2>1. run[0] \in Picked /\ run[0].txs = <<>> /\ run[0].st = st
    <3>1. run[0] = Nothing(st)
      BY <1>1 DEF IsPick
    <3> QED BY <3>1, NothingType DEF Nothing
  <2>2. Len(run[0].txs) <= MaxBlockTxs
    BY <1>0, <2>1
  <2>3. Execute(st, run[0].txs) = Begun(run[0].st)
    BY <2>1, ExecuteEmpty
  <2> QED BY <1>0, <2>1, <2>2, <2>3 DEF Executes
<1>3. ASSUME NEW m \in 1..Len(queue), m - 1 \in T PROVE m \in T
  <2>1. PICK r, tx : r = run[m - 1] /\ tx = queue[m]
    OBVIOUS
  <2>2. /\ r \in Picked /\ tx \in Txs /\ run[m] = SelectOne(r, tx)
        /\ Executes(st, r) /\ r.st \in LedgerState /\ r.txs \in Seq(Txs)
    BY <1>0, <1>1, <1>3, <2>1 DEF IsPick, Picked
  <2>3. run[m] \in Picked
    BY <2>2, SelectOneCases
  <2>4. CASE run[m].st = r.st /\ run[m].txs = r.txs
    BY <2>2, <2>3, <2>4 DEF Executes
  <2>5. CASE ~(run[m].st = r.st /\ run[m].txs = r.txs)
    <3>1. /\ Verdict(r.st, tx) = "ok" /\ Len(r.txs) # MaxBlockTxs
          /\ run[m].st = Apply(r.st, tx) /\ run[m].txs = Append(r.txs, tx)
      BY <2>2, <2>5, SelectOneCases
    <3>2. Len(run[m].txs) <= MaxBlockTxs
      BY <1>0, <2>2, <3>1 DEF Executes
    <3>3. Execute(st, run[m].txs) = ExecuteOne(Begun(r.st), tx)
      BY <2>2, <3>1, ExecuteAppend DEF Executes
    <3>4. ExecuteOne(Begun(r.st), tx) = Begun(run[m].st)
      BY <3>1 DEF ExecuteOne, Begun
    <3> QED BY <2>3, <3>2, <3>3, <3>4 DEF Executes
  <2> QED BY <2>4, <2>5
<1>4. \A m \in 0..Len(queue) : m \in T
  <2> HIDE DEF T
  <2> QED BY <1>0, <1>2, <1>3, IntervalInduction
<1> QED BY <1>0, <1>1, <1>4

-----------------------------------------------------------------------------
(* Chains of blocks. *)
LEMMA StateAtType ==
  ASSUME NEW bs \in Seq(Block), NEW i \in 0..Len(bs)
  PROVE  StateAt(bs, i) \in LedgerState
<1>1. CASE i = 0
  BY <1>1, GenesisType DEF StateAt
<1>2. CASE i # 0
  <2>1. bs[i] \in Block
    BY <1>2
  <2> QED BY <1>2, <2>1 DEF StateAt, Block
<1> QED BY <1>1, <1>2

LEMMA PrefixOfAppend ==
  ASSUME NEW S, NEW s \in Seq(S), NEW x \in S, NEW n \in 0..Len(s)
  PROVE  SubSeq(Append(s, x), 1, n) = SubSeq(s, 1, n)
<1>1. Append(s, x) \in Seq(S) /\ Len(Append(s, x)) = Len(s) + 1 /\ Len(s) \in Nat
  OBVIOUS
<1>2. /\ Len(SubSeq(Append(s, x), 1, n)) = n /\ Len(SubSeq(s, 1, n)) = n
      /\ SubSeq(Append(s, x), 1, n) \in Seq(S) /\ SubSeq(s, 1, n) \in Seq(S)
  BY <1>1
<1>3. ASSUME NEW i \in 1..n PROVE SubSeq(Append(s, x), 1, n)[i] = SubSeq(s, 1, n)[i]
  BY <1>1
<1> QED BY <1>2, <1>3, SeqEqual

LEMMA WholePrefix ==
  ASSUME NEW S, NEW s \in Seq(S), NEW x \in S
  PROVE  SubSeq(Append(s, x), 1, Len(s)) = s
<1>1. Len(s) \in 0..Len(s)
  OBVIOUS
<1>2. SubSeq(s, 1, Len(s)) = s
  OBVIOUS
<1> QED BY <1>1, <1>2, PrefixOfAppend

LEMMA ChainGrows ==
  ASSUME NEW bs \in Seq(Block), NEW b \in Block, IsChain(bs),
         Verify(bs, StateAt(bs, Len(bs)), b)
  PROVE  /\ Append(bs, b) \in Seq(Block) /\ IsChain(Append(bs, b))
         /\ StateAt(Append(bs, b), Len(Append(bs, b))) = b.root
<1> DEFINE more == Append(bs, b)
<1>1. /\ more \in Seq(Block) /\ Len(more) = Len(bs) + 1 /\ Len(bs) \in Nat
      /\ more[Len(bs) + 1] = b /\ DOMAIN more = 1..(Len(bs) + 1) /\ DOMAIN bs = 1..Len(bs)
      /\ \A i \in 1..Len(bs) : more[i] = bs[i]
  OBVIOUS
<1>2. \A i \in 0..Len(bs) : SubSeq(more, 1, i) = SubSeq(bs, 1, i)
  BY PrefixOfAppend
<1>3. SubSeq(more, 1, Len(bs)) = bs
  BY WholePrefix
<1> HIDE DEF more
<1>4. \A i \in 0..Len(bs) : StateAt(more, i) = StateAt(bs, i)
  BY <1>1 DEF StateAt
<1>5. ASSUME NEW i \in DOMAIN more
      PROVE  Verify(SubSeq(more, 1, i - 1), StateAt(more, i - 1), more[i])
  <2>1. CASE i = Len(bs) + 1
    <3>1. i - 1 = Len(bs) /\ Len(bs) \in 0..Len(bs)
      BY <1>1, <2>1
    <3>2. SubSeq(more, 1, i - 1) = bs /\ StateAt(more, i - 1) = StateAt(bs, Len(bs)) /\ more[i] = b
      BY <1>1, <1>3, <1>4, <2>1, <3>1
    <3> QED BY <3>2
  <2>2. CASE i # Len(bs) + 1
    <3>1. i \in DOMAIN bs /\ i \in 1..Len(bs) /\ i - 1 \in 0..Len(bs)
      BY <1>1, <2>2
    <3>2. Verify(SubSeq(bs, 1, i - 1), StateAt(bs, i - 1), bs[i])
      BY <3>1 DEF IsChain
    <3> QED BY <1>1, <1>2, <1>4, <3>1, <3>2
  <2> QED BY <2>1, <2>2
<1>6. IsChain(more)
  BY <1>5 DEF IsChain
<1>7. StateAt(more, Len(more)) = b.root
  BY <1>1 DEF StateAt
<1> QED BY <1>1, <1>6, <1>7 DEF more

LEMMA EmptyChain == <<>> \in Seq(Block) /\ IsChain(<<>>) /\ StateAt(<<>>, Len(<<>>)) = GenesisState
<1>1. DOMAIN <<>> = {} /\ Len(<<>>) = 0
  OBVIOUS
<1> QED BY <1>1 DEF IsChain, StateAt

LEMMA HashType ==
  ASSUME NEW bs \in Seq(Block) PROVE Hash(bs) \in Seq(Seq(Txs))
<1>1. CASE bs = <<>>
  BY <1>1 DEF Hash
<1>2. CASE bs # <<>>
  <2>1. PICK b \in Block : b = bs[Len(bs)]
    BY <1>2
  <2>2. Hash(bs) = Append(b.prev, b.txs)
    BY <1>2, <2>1 DEF Hash, BlockHash, Last
  <2>3. b.prev \in Seq(Seq(Txs)) /\ b.txs \in Seq(Txs)
    BY DEF Block
  <2>4. Append(b.prev, b.txs) \in Seq(Seq(Txs))
    BY <2>3
  <2> QED BY <2>2, <2>4
<1> QED BY <1>1, <1>2

(* In a chain a block's height is its place. *)
LEMMA HeightIsPlace ==
  ASSUME NEW bs \in Seq(Block), IsChain(bs)
  PROVE  \A i \in DOMAIN bs : Height(bs[i]) = i
<1>0. Len(bs) \in Nat /\ DOMAIN bs = 1..Len(bs) /\ \A i \in 1..Len(bs) : bs[i] \in Block
  OBVIOUS
<1> DEFINE T == {m \in 0..Len(bs) : m = 0 \/ Height(bs[m]) = m}
<1>1. 0 \in T
  BY <1>0
<1>2. ASSUME NEW m \in 1..Len(bs), m - 1 \in T PROVE m \in T
  <2>1. bs[m].prev = Hash(SubSeq(bs, 1, m - 1))
    BY <1>0 DEF IsChain, Verify
  <2>2. CASE m = 1
    <3>1. SubSeq(bs, 1, m - 1) = <<>>
      BY <1>0, <2>2
    <3>2. bs[m].prev = <<>>
      BY <2>1, <3>1 DEF Hash
    <3>3. Height(bs[m]) = m
      BY <2>2, <3>2 DEF Height
    <3> QED BY <1>0, <3>3
  <2>3. CASE m # 1
    <3>1. PICK b \in Block : b = bs[m - 1]
      BY <1>0, <2>3
    <3>2. Height(b) = m - 1
      BY <1>0, <1>2, <2>3, <3>1
    <3>3. /\ SubSeq(bs, 1, m - 1) # <<>> /\ Len(SubSeq(bs, 1, m - 1)) = m - 1
          /\ SubSeq(bs, 1, m - 1)[m - 1] = b
      BY <1>0, <2>3, <3>1
    <3>4. bs[m].prev = Append(b.prev, b.txs)
      BY <2>1, <3>3 DEF Hash, BlockHash, Last
    <3>5. b.prev \in Seq(Seq(Txs)) /\ b.txs \in Seq(Txs)
      BY DEF Block
    <3>6. Len(Append(b.prev, b.txs)) = Len(b.prev) + 1 /\ Len(b.prev) \in Nat
      BY <3>5
    <3>7. Height(bs[m]) = m
      BY <3>2, <3>4, <3>6 DEF Height
    <3> QED BY <1>0, <3>7
  <2> QED BY <2>2, <2>3
<1>3. \A m \in 0..Len(bs) : m \in T
  <2> HIDE DEF T
  <2> QED BY <1>0, <1>1, <1>2, IntervalInduction
<1> QED BY <1>0, <1>3

(* Produce's own check of its block never fails. *)
LEMMA SelectedVerifies ==
  ASSUME NEW bs \in Seq(Block), NEW st \in LedgerState, NEW sel, Executes(st, sel), sel.txs # <<>>,
         NEW b, b = [prev |-> Hash(bs), txs |-> sel.txs, root |-> sel.st]
  PROVE  b \in Block /\ Verify(bs, st, b)
<1>1. sel.txs \in Seq(Txs) /\ sel.st \in LedgerState
  BY DEF Executes, Picked
<1>2. b \in Block
  BY <1>1, HashType DEF Block
<1>3. Len(b.txs) \in 1..MaxBlockTxs
  BY <1>1, ChainAssumption DEF Executes
<1>4. Execute(st, b.txs).ok /\ Execute(st, b.txs).st = b.root
  BY DEF Executes, Begun
<1> QED BY <1>2, <1>3, <1>4 DEF Verify

-----------------------------------------------------------------------------
(* What Open replays. *)
Reading == [ok : BOOLEAN, blocks : Seq(Block), st : LedgerState]
Unread  == [ok |-> TRUE, blocks |-> <<>>, st |-> GenesisState]

LEMMA UnreadType == Unread \in Reading
BY GenesisType DEF Unread, Reading

LEMMA ReplayOneType ==
  ASSUME NEW r \in Reading, NEW s \in Snapshot, NEW b \in Block
  PROVE  ReplayOne(r, s, b) \in Reading
<1>1. /\ r.ok \in BOOLEAN /\ r.blocks \in Seq(Block) /\ r.st \in LedgerState
      /\ s.state \in LedgerState /\ s.height \in Nat /\ b.root \in LedgerState
  BY DEF Reading, Snapshot, Block
<1>2. Height(b) \in Nat
  <2>1. b.prev \in Seq(Seq(Txs))
    BY DEF Block
  <2>2. Len(b.prev) \in Nat
    BY <2>1
  <2> QED BY <2>2 DEF Height
<1>3. Append(r.blocks, b) \in Seq(Block)
  BY <1>1
<1>4. CASE r.ok /\ Height(b) <= s.height
  <2>1. ReplayOne(r, s, b) = [ok |-> TRUE, blocks |-> Append(r.blocks, b),
                              st |-> IF Height(b) = s.height THEN s.state ELSE r.st]
    BY <1>1, <1>2, <1>4 DEF ReplayOne
  <2> QED BY <1>1, <1>3, <2>1 DEF Reading
<1>5. CASE r.ok /\ Height(b) > s.height /\ Verify(r.blocks, r.st, b)
  <2>1. ReplayOne(r, s, b) = [ok |-> TRUE, blocks |-> Append(r.blocks, b), st |-> b.root]
    BY <1>1, <1>2, <1>5 DEF ReplayOne
  <2> QED BY <1>1, <1>3, <2>1 DEF Reading
<1>6. CASE ~(r.ok /\ Height(b) <= s.height) /\ ~(r.ok /\ Height(b) > s.height /\ Verify(r.blocks, r.st, b))
  <2>1. ReplayOne(r, s, b) = [r EXCEPT !.ok = FALSE]
    BY <1>6 DEF ReplayOne
  <2> QED BY <1>1, <2>1 DEF Reading
<1> QED BY <1>4, <1>5, <1>6

(* The intermediate results of a replay. *)
IsReplay(run, bs, s) ==
  /\ run \in [0..Len(bs) -> Reading]
  /\ run[0] = Unread
  /\ \A i \in 1..Len(bs) : run[i] = ReplayOne(run[i - 1], s, bs[i])

LEMMA ReplaysExist ==
  ASSUME NEW bs \in Seq(Block), NEW s \in Snapshot
  PROVE  \E run : IsReplay(run, bs, s)
<1> DEFINE n == Len(bs)
           G == [x \in Reading \X (1..n) |-> ReplayOne(x[1], s, bs[x[2]])]
<1>1. n \in Nat /\ \A i \in 1..n : bs[i] \in Block
  OBVIOUS
<1>2. G \in [Reading \X (1..n) -> Reading]
  <2>1. ASSUME NEW x \in Reading \X (1..n) PROVE ReplayOne(x[1], s, bs[x[2]]) \in Reading
    <3>1. x[1] \in Reading /\ bs[x[2]] \in Block
      BY <1>1
    <3> QED BY <3>1, ReplayOneType
  <2> QED BY <2>1
<1>3. \A r \in Reading, k \in 1..n : G[<<r, k>>] = ReplayOne(r, s, bs[k])
  OBVIOUS
<1> HIDE DEF G
<1>4. Unrolls(n, Reading, Unread, G)
  BY <1>1, <1>2, UnreadType, IntervalRecursion
<1>5. PICK run \in [0..n -> Reading] :
        run[0] = Unread /\ \A k \in 1..n : run[k] = G[<<run[k - 1], k>>]
  BY <1>4 DEF Unrolls
<1>6. ASSUME NEW k \in 1..n PROVE run[k] = ReplayOne(run[k - 1], s, bs[k])
  <2>1. run[k - 1] \in Reading
    BY <1>1, <1>5
  <2> QED BY <1>3, <1>5, <2>1
<1> QED BY <1>5, <1>6 DEF IsReplay

LEMMA ReplayUnfold ==
  ASSUME NEW bs \in Seq(Block), NEW s \in Snapshot
  PROVE  \E run : IsReplay(run, bs, s) /\ Replay(bs, s) = run[Len(bs)]
<1> DEFINE P(run) == run = [i \in 0..Len(bs) |->
                       IF i = 0 THEN [ok |-> TRUE, blocks |-> <<>>, st |-> GenesisState]
                       ELSE ReplayOne(run[i - 1], s, bs[i])]
           C == CHOOSE run : P(run)
<1>1. \E run : P(run)
  <2>1. PICK run : IsReplay(run, bs, s)
    BY ReplaysExist
  <2>2. P(run)
    BY <2>1 DEF IsReplay, Unread
  <2> QED BY <2>2
<1>2. P(C)
  <2> HIDE DEF P
  <2> QED BY <1>1
<1>3. Replay(bs, s) = C[Len(bs)]
  BY DEF Replay
<1>4. C = [i \in 0..Len(bs) |-> IF i = 0 THEN Unread ELSE ReplayOne(C[i - 1], s, bs[i])]
  BY <1>2 DEF Unread
<1>0. Len(bs) \in Nat /\ \A i \in 1..Len(bs) : bs[i] \in Block
  OBVIOUS
<1> HIDE DEF C
<1>5. /\ C[0] = Unread
      /\ \A i \in 1..Len(bs) : C[i] = ReplayOne(C[i - 1], s, bs[i])
  BY <1>0, <1>4
<1> DEFINE T == {m \in 0..Len(bs) : C[m] \in Reading}
<1>6. 0 \in T
  BY <1>0, <1>5, UnreadType
<1>7. ASSUME NEW m \in 1..Len(bs), m - 1 \in T PROVE m \in T
  <2>1. C[m - 1] \in Reading /\ bs[m] \in Block
    BY <1>0, <1>7
  <2>2. C[m] \in Reading
    BY <1>5, <2>1, ReplayOneType
  <2> QED BY <2>2
<1>8. \A m \in 0..Len(bs) : m \in T
  <2> HIDE DEF T
  <2> QED BY <1>0, <1>6, <1>7, IntervalInduction
<1>9. C \in [0..Len(bs) -> Reading]
  BY <1>4, <1>8
<1> QED BY <1>3, <1>5, <1>9 DEF IsReplay

LEMMA ReplayType ==
  ASSUME NEW bs \in Seq(Block), NEW s \in Snapshot
  PROVE  Replay(bs, s) \in Reading
<1>1. PICK run : IsReplay(run, bs, s) /\ Replay(bs, s) = run[Len(bs)]
  BY ReplayUnfold
<1>2. Len(bs) \in 0..Len(bs)
  OBVIOUS
<1> QED BY <1>1, <1>2 DEF IsReplay

(* The snapshot s can stand for the blocks of bs up to its height. *)
Covers(s, bs) ==
  s.height # 0 => s.height \in 1..Len(bs) /\ s.state = bs[s.height].root

(* A chain is replayed to its end, from a snapshot as well as from genesis. *)
LEMMA ChainReplays ==
  ASSUME NEW bs \in Seq(Block), IsChain(bs), NEW s \in Snapshot, Covers(s, bs)
  PROVE  Replay(bs, s) = [ok |-> TRUE, blocks |-> bs, st |-> StateAt(bs, Len(bs))]
<1>1. PICK run : IsReplay(run, bs, s) /\ Replay(bs, s) = run[Len(bs)]
  BY ReplayUnfold
<1>0. /\ Len(bs) \in Nat /\ DOMAIN bs = 1..Len(bs) /\ (\A i \in 1..Len(bs) : bs[i] \in Block)
      /\ s.height \in Nat
  BY DEF Snapshot
<1> DEFINE Good(m) == /\ run[m].ok = TRUE /\ run[m].blocks = SubSeq(bs, 1, m)
                      /\ s.height <= m => run[m].st = StateAt(bs, m)
           T == {m \in 0..Len(bs) : Good(m)}
<1>2. 0 \in T
  <2>1. run[0] = Unread
    BY <1>1 DEF IsReplay
  <2>2. SubSeq(bs, 1, 0) = <<>>
    BY <1>0
  <2>3. run[0].ok = TRUE /\ run[0].blocks = <<>> /\ run[0].st = GenesisState
    BY <2>1 DEF Unread
  <2>4. StateAt(bs, 0) = GenesisState
    BY DEF StateAt
  <2>5. Good(0)
    BY <2>2, <2>3, <2>4
  <2> HIDE DEF Good
  <2> QED BY <1>0, <2>5
<1>3. ASSUME NEW m \in 1..Len(bs), m - 1 \in T PROVE m \in T
  <2>1. PICK r, b : r = run[m - 1] /\ b = bs[m]
    OBVIOUS
  <2>2. /\ r \in Reading /\ b \in Block /\ run[m] = ReplayOne(r, s, b)
        /\ r.ok = TRUE /\ r.blocks = SubSeq(bs, 1, m - 1)
        /\ s.height <= m - 1 => r.st = StateAt(bs, m - 1)
    BY <1>0, <1>1, <1>3, <2>1 DEF IsReplay
  <2>3. Height(b) = m
    BY <1>0, <2>1, HeightIsPlace
  <2>4. Append(SubSeq(bs, 1, m - 1), b) = SubSeq(bs, 1, m)
    BY <1>0, <2>1
  <2>5. CASE m <= s.height
    <3>1. run[m] = [ok |-> TRUE, blocks |-> SubSeq(bs, 1, m),
                    st |-> IF m = s.height THEN s.state ELSE r.st]
      <4>1. r.ok /\ Height(b) <= s.height /\ ~(Height(b) > s.height)
        BY <1>0, <2>2, <2>3, <2>5
      <4>2. ReplayOne(r, s, b) = [ok |-> TRUE, blocks |-> Append(r.blocks, b),
                                  st |-> IF Height(b) = s.height THEN s.state ELSE r.st]
        BY <4>1 DEF ReplayOne
      <4> QED BY <2>2, <2>3, <2>4, <4>2
    <3>2. s.height <= m => s.height = m /\ s.state = StateAt(bs, m)
      BY <1>0, <2>5 DEF Covers, StateAt
    <3>3. Good(m)
      BY <3>1, <3>2
    <3> QED BY <1>0, <3>3
  <2>6. CASE ~(m <= s.height)
    <3>1. s.height <= m - 1 /\ m > s.height
      BY <1>0, <2>6
    <3>2. Verify(r.blocks, r.st, b)
      BY <1>0, <2>1, <2>2, <3>1 DEF IsChain
    <3>3. run[m] = [ok |-> TRUE, blocks |-> SubSeq(bs, 1, m), st |-> b.root]
      BY <2>2, <2>3, <2>4, <2>6, <3>1, <3>2 DEF ReplayOne
    <3>4. b.root = StateAt(bs, m)
      BY <1>0, <2>1 DEF StateAt
    <3>5. Good(m)
      BY <3>3, <3>4
    <3> QED BY <1>0, <3>5
  <2> QED BY <2>5, <2>6
<1>4. \A m \in 0..Len(bs) : m \in T
  <2> HIDE DEF T
  <2> QED BY <1>0, <1>2, <1>3, IntervalInduction
<1>5. Len(bs) \in 0..Len(bs) /\ s.height <= Len(bs) /\ SubSeq(bs, 1, Len(bs)) = bs
  BY <1>0 DEF Covers
<1>6. /\ Replay(bs, s).ok = TRUE /\ Replay(bs, s).blocks = bs
      /\ Replay(bs, s).st = StateAt(bs, Len(bs))
  BY <1>1, <1>4, <1>5
<1>7. Replay(bs, s) \in Reading
  BY ReplayType
<1> QED BY <1>6, <1>7 DEF Reading

-----------------------------------------------------------------------------
(* Logs. *)
LEMMA LineType ==
  /\ \A b \in Block : Line(b) \in LogLine /\ Line(b).kind = "block" /\ Line(b).block = b
  /\ Torn \in LogLine /\ Torn.kind = "torn" /\ Corrupt \in LogLine /\ NoBlock \in Block
<1>1. NoBlock \in Block
  BY GenesisType DEF NoBlock, Block
<1> QED BY <1>1 DEF Line, Torn, Corrupt, LogLine

LEMMA StoredType ==
  ASSUME NEW lines \in Seq(LogLine)
  PROVE  Stored(lines) \in Seq(LogLine) /\ Len(Stored(lines)) <= Len(lines)
<1>1. CASE lines # <<>> /\ Last(lines).kind = "torn"
  <2>1. Stored(lines) = SubSeq(lines, 1, Len(lines) - 1)
    BY <1>1 DEF Stored, Front
  <2>2. Len(lines) \in Nat /\ Len(lines) >= 1
    BY <1>1
  <2> QED BY <2>1, <2>2
<1>2. CASE ~(lines # <<>> /\ Last(lines).kind = "torn")
  BY <1>2 DEF Stored
<1> QED BY <1>1, <1>2

LEMMA ReadableStored ==
  ASSUME NEW lines \in Seq(LogLine), Readable(lines) PROVE Stored(lines) = lines
<1>1. CASE lines = <<>>
  BY <1>1 DEF Stored
<1>2. CASE lines # <<>>
  <2>1. Len(lines) \in DOMAIN lines
    BY <1>2
  <2>2. lines[Len(lines)].kind = "block"
    BY <2>1 DEF Readable
  <2> QED BY <2>2 DEF Stored, Last
<1> QED BY <1>1, <1>2

LEMMA ReadableLine ==
  ASSUME NEW lines \in Seq(LogLine), Readable(lines), NEW i \in DOMAIN lines
  PROVE  lines[i] = Line(lines[i].block)
<1>1. lines[i] \in LogLine /\ lines[i].kind = "block"
  BY DEF Readable
<1> QED BY <1>1 DEF LogLine, Line

LEMMA WrittenType ==
  ASSUME NEW lines \in Seq(LogLine), NEW rec \in LogLine
  PROVE  Written(lines, rec) \in Seq(LogLine)
<1>1. CASE lines # <<>> /\ Last(lines).kind = "torn"
  <2>1. PICK x \in LogLine : x = IF rec.kind = "torn" THEN Torn ELSE Corrupt
    BY LineType
  <2>2. Written(lines, rec) = SubSeq(lines, 1, Len(lines) - 1) \o <<x>>
    BY <1>1, <2>1 DEF Written, Front
  <2>3. Len(lines) \in Nat /\ Len(lines) >= 1
    BY <1>1
  <2>4. SubSeq(lines, 1, Len(lines) - 1) \in Seq(LogLine) /\ <<x>> \in Seq(LogLine)
    BY <2>3
  <2> QED BY <2>2, <2>4
<1>2. CASE ~(lines # <<>> /\ Last(lines).kind = "torn")
  <2>1. Written(lines, rec) = Append(lines, rec)
    BY <1>2 DEF Written
  <2> QED BY <2>1
<1> QED BY <1>1, <1>2

LEMMA WrittenBehind ==
  ASSUME NEW lines \in Seq(LogLine), Readable(lines), NEW rec
  PROVE  Written(lines, rec) = Append(lines, rec)
<1>1. CASE lines = <<>>
  BY <1>1 DEF Written
<1>2. CASE lines # <<>>
  <2>1. Len(lines) \in DOMAIN lines
    BY <1>2
  <2>2. lines[Len(lines)].kind = "block"
    BY <2>1 DEF Readable
  <2> QED BY <2>2 DEF Written, Last
<1> QED BY <1>1, <1>2

LEMMA BlocksInType ==
  ASSUME NEW lines \in Seq(LogLine)
  PROVE  BlocksIn(lines) \in Seq(Block) /\ Len(BlocksIn(lines)) = Len(lines)
<1>1. Len(lines) \in Nat /\ DOMAIN lines = 1..Len(lines) /\ \A i \in 1..Len(lines) : lines[i] \in LogLine
  OBVIOUS
<1>2. BlocksIn(lines) \in [1..Len(lines) -> Block]
  BY <1>1 DEF BlocksIn, LogLine
<1> QED BY <1>1, <1>2

(* A line behind a log that can be read: a whole one is found there, half  *)
(* a one is cut off again.                                                 *)
LEMMA LineAdded ==
  ASSUME NEW lines \in Seq(LogLine), Readable(lines), NEW b \in Block
  PROVE  /\ Written(lines, Line(b)) = Append(lines, Line(b))
         /\ Readable(Append(lines, Line(b)))
         /\ Stored(Append(lines, Line(b))) = Append(lines, Line(b))
         /\ BlocksIn(Append(lines, Line(b))) = Append(BlocksIn(lines), b)
         /\ Append(lines, Line(b)) \in Seq(LogLine)
<1> DEFINE more == Append(lines, Line(b))
<1>1. /\ more \in Seq(LogLine) /\ Len(more) = Len(lines) + 1 /\ Len(lines) \in Nat
      /\ DOMAIN more = 1..(Len(lines) + 1) /\ DOMAIN lines = 1..Len(lines)
      /\ more[Len(lines) + 1] = Line(b) /\ \A i \in 1..Len(lines) : more[i] = lines[i]
  BY LineType
<1> HIDE DEF more
<1>2. Readable(more)
  <2>1. ASSUME NEW i \in DOMAIN more PROVE more[i].kind = "block"
    <3>1. CASE i = Len(lines) + 1
      BY <1>1, <3>1, LineType
    <3>2. CASE i # Len(lines) + 1
      BY <1>1, <3>2 DEF Readable
    <3> QED BY <3>1, <3>2
  <2> QED BY <2>1 DEF Readable
<1>3. BlocksIn(more) = Append(BlocksIn(lines), b)
  <2>1. PICK bs \in Seq(Block) : bs = BlocksIn(lines) /\ Len(bs) = Len(lines)
    BY BlocksInType
  <2>2. BlocksIn(more) \in Seq(Block) /\ Len(BlocksIn(more)) = Len(lines) + 1
    BY <1>1, BlocksInType
  <2>3. Append(bs, b) \in Seq(Block) /\ Len(Append(bs, b)) = Len(lines) + 1
    BY <2>1
  <2>4. ASSUME NEW i \in 1..(Len(lines) + 1) PROVE BlocksIn(more)[i] = Append(bs, b)[i]
    <3>1. BlocksIn(more)[i] = more[i].block
      BY <1>1 DEF BlocksIn
    <3>2. CASE i = Len(lines) + 1
      BY <1>1, <2>1, <3>1, <3>2, LineType
    <3>3. CASE i # Len(lines) + 1
      <4>1. i \in DOMAIN lines /\ more[i] = lines[i] /\ Append(bs, b)[i] = bs[i]
        BY <1>1, <2>1, <3>3
      <4>2. bs[i] = lines[i].block
        BY <2>1, <4>1 DEF BlocksIn
      <4> QED BY <3>1, <4>1, <4>2
    <3> QED BY <3>2, <3>3
  <2>5. BlocksIn(more) = Append(bs, b)
    BY <2>2, <2>3, <2>4, SeqEqual
  <2> QED BY <2>1, <2>5
<1>4. Stored(more) = more
  BY <1>1, <1>2, ReadableStored
<1>5. Written(lines, Line(b)) = more
  BY WrittenBehind DEF more
<1> QED BY <1>1, <1>2, <1>3, <1>4, <1>5 DEF more

LEMMA TornAdded ==
  ASSUME NEW lines \in Seq(LogLine), Readable(lines)
  PROVE  /\ Written(lines, Torn) = Append(lines, Torn)
         /\ Stored(Append(lines, Torn)) = lines
         /\ Append(lines, Torn) \in Seq(LogLine)
<1>1. PICK t \in LogLine : t = Torn /\ t.kind = "torn"
  BY LineType
<1>2. /\ Append(lines, t) \in Seq(LogLine) /\ Append(lines, t) # <<>>
      /\ Len(Append(lines, t)) = Len(lines) + 1 /\ Append(lines, t)[Len(lines) + 1] = t
      /\ Len(lines) \in Nat
  OBVIOUS
<1>3. SubSeq(Append(lines, t), 1, Len(lines)) = lines
  BY WholePrefix
<1>4. Stored(Append(lines, t)) = lines
  BY <1>1, <1>2, <1>3 DEF Stored, Last, Front
<1> QED BY <1>1, <1>2, <1>4, WrittenBehind

-----------------------------------------------------------------------------
(* The invariant of one node, by what the node has. *)
NodeIs(u, bs, st, pool, lines, s, box, bad, producing) ==
  /\ u \in BOOLEAN /\ bs \in Seq(Block) /\ st \in LedgerState
  /\ pool \in SUBSET Txs /\ IsFiniteSet(pool) /\ Cardinality(pool) <= MaxMempoolTxs
  /\ lines \in Seq(LogLine) /\ s \in Snapshot /\ box \in Seq(Block)
  /\ producing => box = <<>>
  /\ ~u => bs = <<>> /\ pool = {} /\ box = <<>>
  /\ Usable(pool, st)
  /\ ~bad => Kept(lines, u, bs, st)

NodeOK(n) == NodeIs(up[n], blocks[n], state[n], mempool[n], log[n], snap[n], inbox[n],
                    n \in failed, n = Producer)

Shape ==
  /\ up = [n \in Nodes |-> up[n]] /\ blocks = [n \in Nodes |-> blocks[n]]
  /\ state = [n \in Nodes |-> state[n]] /\ mempool = [n \in Nodes |-> mempool[n]]
  /\ log = [n \in Nodes |-> log[n]] /\ snap = [n \in Nodes |-> snap[n]]
  /\ inbox = [n \in Nodes |-> inbox[n]]

Rest ==
  /\ forwarded \subseteq Replicas \X Txs /\ (\A f \in forwarded : up[f[1]])
  /\ faults \in 0..MaxFaults /\ failed \subseteq Nodes

NodesOK == Shape /\ \A n \in Nodes : NodeOK(n)

LEMMA ProducerIsNode == Producer \in Nodes /\ \A r \in Replicas : r \in Nodes /\ r # Producer
BY ChainAssumption DEF Producer, Nodes

LEMMA InvByNode == ChainInv => NodesOK /\ Rest /\ ReplicasFollow
<1> SUFFICES ASSUME ChainInv PROVE NodesOK /\ Rest /\ ReplicasFollow
  OBVIOUS
<1>1. Shape
  BY DEF ChainInv, ChainTypeOK, Shape
<1>2. ASSUME NEW n \in Nodes PROVE NodeOK(n)
  <2>1. /\ up[n] \in BOOLEAN /\ blocks[n] \in Seq(Block) /\ state[n] \in LedgerState
        /\ mempool[n] \in SUBSET Txs /\ log[n] \in Seq(LogLine) /\ snap[n] \in Snapshot
        /\ inbox[n] \in Seq(Block)
    BY DEF ChainInv, ChainTypeOK
  <2>2. IsFiniteSet(mempool[n]) /\ Cardinality(mempool[n]) <= MaxMempoolTxs
    BY DEF ChainInv, ChainTypeOK
  <2>3. /\ n = Producer => inbox[n] = <<>>
        /\ ~up[n] => blocks[n] = <<>> /\ mempool[n] = {} /\ inbox[n] = <<>>
    BY DEF ChainInv, NothingInMemory
  <2>4. /\ Usable(mempool[n], state[n])
        /\ n \notin failed => Kept(log[n], up[n], blocks[n], state[n])
    BY DEF ChainInv, PendingIsUsable, NodesInStep
  <2> QED BY <2>1, <2>2, <2>3, <2>4 DEF NodeOK, NodeIs
<1>3. Rest
  BY DEF ChainInv, ChainTypeOK, NothingInMemory, Rest
<1> QED BY <1>1, <1>2, <1>3 DEF NodesOK, ChainInv

LEMMA InvFromNodes == NodesOK /\ Rest /\ ReplicasFollow => ChainInv
<1> SUFFICES ASSUME NodesOK, Rest, ReplicasFollow PROVE ChainInv
  OBVIOUS
<1>1. \A n \in Nodes :
        /\ up[n] \in BOOLEAN /\ blocks[n] \in Seq(Block) /\ state[n] \in LedgerState
        /\ mempool[n] \in SUBSET Txs /\ log[n] \in Seq(LogLine) /\ snap[n] \in Snapshot
        /\ inbox[n] \in Seq(Block)
  BY DEF NodesOK, NodeOK, NodeIs
<1>2. /\ up \in [Nodes -> BOOLEAN] /\ blocks \in [Nodes -> Seq(Block)]
      /\ state \in [Nodes -> LedgerState] /\ mempool \in [Nodes -> SUBSET Txs]
      /\ log \in [Nodes -> Seq(LogLine)] /\ snap \in [Nodes -> Snapshot]
      /\ inbox \in [Nodes -> Seq(Block)]
  BY <1>1 DEF NodesOK, Shape
<1>3. \A n \in Nodes : IsFiniteSet(mempool[n]) /\ Cardinality(mempool[n]) <= MaxMempoolTxs
  BY DEF NodesOK, NodeOK, NodeIs
<1>4. ChainTypeOK
  BY <1>2, <1>3 DEF Rest, ChainTypeOK
<1>5. NothingInMemory
  BY ProducerIsNode DEF NodesOK, NodeOK, NodeIs, Rest, NothingInMemory
<1>6. PendingIsUsable /\ NodesInStep
  BY DEF NodesOK, NodeOK, NodeIs, PendingIsUsable, NodesInStep
<1> QED BY <1>4, <1>5, <1>6 DEF ChainInv

(* A step that touches node n only. *)
Touches(n) ==
  /\ up' = [up EXCEPT ![n] = up'[n]] /\ blocks' = [blocks EXCEPT ![n] = blocks'[n]]
  /\ state' = [state EXCEPT ![n] = state'[n]] /\ mempool' = [mempool EXCEPT ![n] = mempool'[n]]
  /\ log' = [log EXCEPT ![n] = log'[n]] /\ snap' = [snap EXCEPT ![n] = snap'[n]]
  /\ inbox' = [inbox EXCEPT ![n] = inbox'[n]]
  /\ failed' \in {failed, failed \cup {n}}

LEMMA NodeStep ==
  ASSUME NodesOK, NEW n \in Nodes, Touches(n), NodeOK(n)'
  PROVE  NodesOK'
<1>1. Shape'
  BY DEF NodesOK, Shape, Touches
<1>2. ASSUME NEW m \in Nodes PROVE NodeOK(m)'
  <2>1. CASE m = n
    BY <2>1
  <2>2. CASE m # n
    <3>1. /\ up'[m] = up[m] /\ blocks'[m] = blocks[m] /\ state'[m] = state[m]
          /\ mempool'[m] = mempool[m] /\ log'[m] = log[m] /\ snap'[m] = snap[m]
          /\ inbox'[m] = inbox[m] /\ (m \in failed') = (m \in failed)
      BY <2>2 DEF NodesOK, Shape, Touches
    <3>2. NodeOK(m)
      BY DEF NodesOK
    <3> QED BY <3>1, <3>2 DEF NodeOK
  <2> QED BY <2>1, <2>2
<1> QED BY <1>1, <1>2 DEF NodesOK

-----------------------------------------------------------------------------
(* Submissions. *)
LEMMA FollowUnchanged ==
  ASSUME ReplicasFollow, UNCHANGED <<blocks, log, inbox, failed>>
  PROVE  ReplicasFollow'
BY DEF ReplicasFollow, Durable

LEMMA NodeTypes ==
  ASSUME NodesOK, NEW n \in Nodes
  PROVE  /\ up[n] \in BOOLEAN /\ blocks[n] \in Seq(Block) /\ state[n] \in LedgerState
         /\ mempool[n] \in SUBSET Txs /\ IsFiniteSet(mempool[n])
         /\ Cardinality(mempool[n]) <= MaxMempoolTxs
         /\ log[n] \in Seq(LogLine) /\ snap[n] \in Snapshot /\ inbox[n] \in Seq(Block)
         /\ Usable(mempool[n], state[n])
BY DEF NodesOK, NodeOK, NodeIs

LEMMA PoolGrows ==
  ASSUME NodesOK, NEW n \in Nodes, up[n], NEW tx \in Txs, Submittable(n, tx),
         mempool' = [mempool EXCEPT ![n] = @ \cup {tx}],
         UNCHANGED <<up, blocks, state, log, snap, inbox, failed>>
  PROVE  NodesOK'
<1>1. PICK pool \in SUBSET Txs, st \in LedgerState : pool = mempool[n] /\ st = state[n]
  BY NodeTypes
<1>2. /\ tx \notin pool /\ Cardinality(pool) < MaxMempoolTxs
      /\ Verdict(st, tx) \in {"ok", "high"}
      /\ \A p \in pool : p.from = tx.from => p.nonce # tx.nonce
  BY <1>1 DEF Submittable
<1>3. IsFiniteSet(pool) /\ Usable(pool, st)
  BY <1>1, NodeTypes
<1>4. IsFiniteSet(pool \cup {tx}) /\ Cardinality(pool \cup {tx}) = Cardinality(pool) + 1
  BY <1>2, <1>3, FS_AddElement
<1>5. Cardinality(pool \cup {tx}) <= MaxMempoolTxs
  <2>1. Cardinality(pool) \in Nat /\ MaxMempoolTxs \in Nat
    BY <1>3, FS_CardinalityType, ChainAssumption
  <2> QED BY <1>2, <1>4, <2>1
<1>6. Usable(pool \cup {tx}, st)
  <2>1. st.nonce[tx.from] <= tx.nonce /\ st.nonce[tx.from] \in Nat /\ tx.nonce \in Nat
    BY <1>2, VerdictOk, TxType DEF LedgerState
  <2>2. \A p \in pool : p.nonce >= st.nonce[p.from]
    BY <1>3 DEF Usable
  <2>3. \A p \in pool \cup {tx} : p.nonce >= st.nonce[p.from]
    BY <2>1, <2>2
  <2>4. ASSUME NEW p \in pool \cup {tx}, NEW q \in pool \cup {tx}, p.from = q.from, p.nonce = q.nonce
        PROVE  p = q
    BY <1>2, <1>3, <2>4 DEF Usable
  <2> QED BY <2>3, <2>4 DEF Usable
<1>7. Touches(n)
  BY DEF NodesOK, Shape, Touches
<1>8. mempool'[n] = pool \cup {tx}
  BY <1>1 DEF NodesOK, Shape
<1>9. NodeOK(n)'
  <2>1. NodeIs(up[n], blocks[n], st, pool, log[n], snap[n], inbox[n], n \in failed, n = Producer)
    BY <1>1 DEF NodesOK, NodeOK
  <2>2. NodeIs(up[n], blocks[n], st, pool \cup {tx}, log[n], snap[n], inbox[n], n \in failed, n = Producer)
    BY <1>4, <1>5, <1>6, <2>1 DEF NodeIs
  <2> QED BY <1>1, <1>8, <2>2 DEF NodeOK
<1> QED BY <1>7, <1>9, NodeStep

LEMMA SubmitInv ==
  ASSUME NodesOK, Rest, ReplicasFollow, NEW tx \in Txs, Submit(tx)
  PROVE  NodesOK' /\ Rest' /\ ReplicasFollow'
<1>1. NodesOK'
  BY ProducerIsNode, PoolGrows DEF Submit
<1>2. Rest'
  BY DEF Submit, Rest
<1> QED BY <1>1, <1>2, FollowUnchanged DEF Submit

LEMMA ForwardInv ==
  ASSUME NodesOK, Rest, ReplicasFollow, NEW tx \in Txs, NEW r \in Replicas, ForwardSubmit(r, tx)
  PROVE  NodesOK' /\ Rest' /\ ReplicasFollow'
<1>1. NodesOK'
  BY ProducerIsNode, PoolGrows DEF ForwardSubmit
<1>2. Rest'
  <2>1. forwarded' = forwarded \cup {<<r, tx>>} /\ up[r] /\ UNCHANGED <<up, faults, failed>>
    BY DEF ForwardSubmit
  <2> QED BY <2>1 DEF Rest
<1> QED BY <1>1, <1>2, FollowUnchanged DEF ForwardSubmit

LEMMA SubmitLocallyInv ==
  ASSUME NodesOK, Rest, ReplicasFollow, NEW tx \in Txs, NEW r \in Replicas, SubmitLocally(r, tx)
  PROVE  NodesOK' /\ Rest' /\ ReplicasFollow'
<1>1. /\ <<r, tx>> \in forwarded /\ forwarded' = forwarded \ {<<r, tx>>}
      /\ UNCHANGED <<up, blocks, state, log, snap, inbox, faults, failed>>
      /\ mempool' = IF Submittable(r, tx) THEN [mempool EXCEPT ![r] = @ \cup {tx}] ELSE mempool
  BY DEF SubmitLocally
<1>2. NodesOK'
  <2>1. CASE Submittable(r, tx)
    <3>1. up[r]
      BY <1>1 DEF Rest
    <3> QED BY <1>1, <2>1, <3>1, ProducerIsNode, PoolGrows
  <2>2. CASE ~Submittable(r, tx)
    BY <1>1, <2>2 DEF NodesOK, Shape, NodeOK
  <2> QED BY <2>1, <2>2
<1>3. Rest'
  BY <1>1 DEF Rest
<1> QED BY <1>1, <1>2, <1>3, FollowUnchanged

-----------------------------------------------------------------------------
(* Committing a block. *)
LEMMA StillUsable ==
  ASSUME NEW pool \in SUBSET Txs, IsFiniteSet(pool), Cardinality(pool) <= MaxMempoolTxs,
         NEW old, Usable(pool, old), NEW pending \in SUBSET pool, NEW st
  PROVE  /\ StillPending(pending, st) \in SUBSET pool
         /\ \A part \in SUBSET pool :
              part \in SUBSET Txs /\ IsFiniteSet(part) /\ Cardinality(part) <= MaxMempoolTxs
         /\ Usable(StillPending(pending, st), st) /\ Usable(pending, old)
<1>1. StillPending(pending, st) \in SUBSET pool
  BY DEF StillPending
<1>2. ASSUME NEW part \in SUBSET pool
      PROVE  part \in SUBSET Txs /\ IsFiniteSet(part) /\ Cardinality(part) <= MaxMempoolTxs
  <2>1. IsFiniteSet(part) /\ Cardinality(part) <= Cardinality(pool)
    BY FS_Subset
  <2>2. Cardinality(part) \in Nat /\ Cardinality(pool) \in Nat /\ MaxMempoolTxs \in Nat
    BY <2>1, FS_CardinalityType, ChainAssumption
  <2> QED BY <2>1, <2>2
<1>3. Usable(StillPending(pending, st), st)
  BY DEF StillPending, Usable
<1>4. Usable(pending, old)
  BY DEF Usable
<1> QED BY <1>1, <1>2, <1>3, <1>4

LEMMA SnapshotsType ==
  ASSUME NodesOK, NEW n \in Nodes, NEW bs \in Seq(Block), NEW heights \in SUBSET DOMAIN bs,
         NEW s \in Snapshots(n, bs, heights)
  PROVE  s \in Snapshot
<1>1. snap[n] \in Snapshot
  BY NodeTypes
<1>2. CASE s # snap[n]
  <2>1. PICK h \in heights : s = [height |-> h, hash |-> BlockHash(bs[h]), state |-> bs[h].root]
    BY <1>2 DEF Snapshots
  <2>2. PICK b \in Block : b = bs[h]
    OBVIOUS
  <2>3. b.prev \in Seq(Seq(Txs)) /\ b.txs \in Seq(Txs) /\ b.root \in LedgerState
    BY DEF Block
  <2>4. BlockHash(b) \in Seq(Seq(Txs)) /\ h \in Nat
    BY <2>3 DEF BlockHash
  <2> QED BY <2>1, <2>2, <2>3, <2>4 DEF Snapshot
<1> QED BY <1>1, <1>2

LEMMA KeptGrows ==
  ASSUME NEW lines \in Seq(LogLine), NEW bs \in Seq(Block), NEW st,
         Kept(lines, TRUE, bs, st), NEW b \in Block, Verify(bs, st, b)
  PROVE  /\ Kept(Written(lines, Line(b)), TRUE, Append(bs, b), b.root)
         /\ Written(lines, Line(b)) = Append(lines, Line(b))
         /\ Stored(lines) = lines /\ Stored(Append(lines, Line(b))) = Append(lines, Line(b))
         /\ Stored(Written(lines, Torn)) = lines
<1>1. /\ Readable(lines) /\ bs = BlocksIn(lines) /\ st = StateAt(bs, Len(bs))
      /\ Stored(lines) = lines /\ IsChain(bs)
  BY ReadableStored DEF Kept
<1>2. /\ Written(lines, Line(b)) = Append(lines, Line(b))
      /\ Readable(Append(lines, Line(b)))
      /\ Stored(Append(lines, Line(b))) = Append(lines, Line(b))
      /\ BlocksIn(Append(lines, Line(b))) = Append(bs, b)
  BY <1>1, LineAdded
<1>3. IsChain(Append(bs, b)) /\ StateAt(Append(bs, b), Len(Append(bs, b))) = b.root
  BY <1>1, ChainGrows
<1>4. Stored(Written(lines, Torn)) = lines
  BY <1>1, TornAdded
<1> QED BY <1>1, <1>2, <1>3, <1>4 DEF Kept

LEMMA CommitNode ==
  ASSUME NodesOK, NEW n \in Nodes, up[n], NEW b \in Block, Verify(blocks[n], state[n], b),
         NEW pending \in SUBSET mempool[n], Commit(n, b, b.root, pending),
         UNCHANGED <<up, failed>>,
         NEW box \in Seq(Block), n = Producer => box = <<>>, inbox' = [inbox EXCEPT ![n] = box]
  PROVE  NodesOK'
<1>1. PICK bs \in Seq(Block), st \in LedgerState, pool \in SUBSET Txs, lines \in Seq(LogLine) :
        bs = blocks[n] /\ st = state[n] /\ pool = mempool[n] /\ lines = log[n]
  BY NodeTypes
<1>2. /\ log' = [log EXCEPT ![n] = Written(lines, Line(b))]
      /\ blocks' = [blocks EXCEPT ![n] = Append(bs, b)]
      /\ state' = [state EXCEPT ![n] = b.root]
      /\ mempool' = [mempool EXCEPT ![n] = StillPending(pending, b.root)]
  BY <1>1 DEF Commit
<1>3. PICK s \in Snapshots(n, Append(bs, b), {Len(bs) + 1}) : snap' = [snap EXCEPT ![n] = s]
  BY <1>1 DEF Commit
<1>4. s \in Snapshot
  <2>1. Append(bs, b) \in Seq(Block) /\ {Len(bs) + 1} \in SUBSET DOMAIN Append(bs, b)
    OBVIOUS
  <2> QED BY <2>1, SnapshotsType
<1>5. Touches(n)
  BY <1>2, <1>3 DEF NodesOK, Shape, Touches
<1>6. /\ log'[n] = Written(lines, Line(b)) /\ blocks'[n] = Append(bs, b) /\ state'[n] = b.root
      /\ mempool'[n] = StillPending(pending, b.root) /\ snap'[n] = s /\ inbox'[n] = box
      /\ up'[n] = up[n] /\ (n \in failed') = (n \in failed)
  BY <1>2, <1>3 DEF NodesOK, Shape
<1>7. /\ IsFiniteSet(pool) /\ Cardinality(pool) <= MaxMempoolTxs /\ Usable(pool, st)
  BY <1>1, NodeTypes
<1>8. /\ StillPending(pending, b.root) \in SUBSET Txs /\ IsFiniteSet(StillPending(pending, b.root))
      /\ Cardinality(StillPending(pending, b.root)) <= MaxMempoolTxs
      /\ Usable(StillPending(pending, b.root), b.root)
  <2>1. pending \in SUBSET pool
    BY <1>1
  <2>2. StillPending(pending, b.root) \in SUBSET pool /\ Usable(StillPending(pending, b.root), b.root)
    <3>1. PICK after : after = b.root
      OBVIOUS
    <3>2. StillPending(pending, after) \in SUBSET pool
      BY <2>1 DEF StillPending
    <3>3. Usable(StillPending(pending, after), after)
      BY <1>7, <2>1 DEF StillPending, Usable
    <3> QED BY <3>1, <3>2, <3>3
  <2>3. \A part \in SUBSET pool :
          part \in SUBSET Txs /\ IsFiniteSet(part) /\ Cardinality(part) <= MaxMempoolTxs
    BY <1>7, <2>1, StillUsable
  <2> QED BY <2>2, <2>3
<1>9. Append(bs, b) \in Seq(Block) /\ b.root \in LedgerState /\ Written(lines, Line(b)) \in Seq(LogLine)
  <2>1. Append(bs, b) \in Seq(Block)
    OBVIOUS
  <2>2. b.root \in LedgerState
    BY DEF Block
  <2> QED BY <2>1, <2>2, LineType, WrittenType
<1>10. n \notin failed => Kept(Written(lines, Line(b)), TRUE, Append(bs, b), b.root)
  <2>1. n \notin failed => Kept(lines, up[n], bs, st)
    BY <1>1 DEF NodesOK, NodeOK, NodeIs
  <2>2. up[n] = TRUE
    BY NodeTypes
  <2> QED BY <1>1, <2>1, <2>2, KeptGrows
<1>11. NodeIs(TRUE, Append(bs, b), b.root, StillPending(pending, b.root), Written(lines, Line(b)), s, box,
              n \in failed, n = Producer)
  BY <1>4, <1>8, <1>9, <1>10 DEF NodeIs
<1>12. up[n] = TRUE
  BY NodeTypes
<1>13. NodeOK(n)'
  BY <1>6, <1>11, <1>12 DEF NodeOK
<1> QED BY <1>5, <1>13, NodeStep

(* More lines behind the ones that are followed make no difference. *)
LEMMA FollowsGrows ==
  ASSUME NEW S, NEW lines \in Seq(S), NEW x \in S, NEW k, NEW bs, Follows(bs, k, lines)
  PROVE  Follows(bs, k, Append(lines, x))
<1>1. ASSUME NEW i \in DOMAIN bs
      PROVE  k + i \in DOMAIN Append(lines, x) /\ Append(lines, x)[k + i] = Line(bs[i])
  <2>1. k + i \in DOMAIN lines /\ lines[k + i] = Line(bs[i])
    BY DEF Follows
  <2>2. k + i \in DOMAIN Append(lines, x) /\ Append(lines, x)[k + i] = lines[k + i]
    BY <2>1
  <2> QED BY <2>1, <2>2
<1> QED BY <1>1 DEF Follows

(* The producer's log, if it had no failed append, only grows. *)
LEMMA ProducerExtends ==
  ASSUME NodesOK, ReplicasFollow, Touches(Producer),
         Producer \notin failed' =>
           \/ Durable' = Durable
           \/ \E x \in LogLine : Durable' = Append(Durable, x)
  PROVE  ReplicasFollow'
<1> SUFFICES ASSUME Producer \notin failed', NEW r \in Replicas \ failed'
             PROVE  /\ Follows(BlocksIn(Stored(log'[r])), 0, Durable')
                    /\ Follows(inbox'[r], Len(blocks'[r]), Durable')
  BY DEF ReplicasFollow, Durable
<1>1. Producer \notin failed /\ r \in Replicas \ failed /\ r \in Nodes /\ r # Producer
  BY ProducerIsNode DEF Touches
<1>2. log'[r] = log[r] /\ inbox'[r] = inbox[r] /\ blocks'[r] = blocks[r]
  BY <1>1 DEF Touches, NodesOK, Shape
<1>3. Follows(BlocksIn(Stored(log[r])), 0, Durable) /\ Follows(inbox[r], Len(blocks[r]), Durable)
  BY <1>1 DEF ReplicasFollow
<1>4. Durable \in Seq(LogLine)
  BY ProducerIsNode, NodeTypes, StoredType DEF Durable
<1>5. CASE Durable' = Durable
  BY <1>2, <1>3, <1>5
<1>6. CASE Durable' # Durable
  <2>1. PICK x \in LogLine : Durable' = Append(Durable, x)
    BY <1>6
  <2> QED BY <1>2, <1>3, <1>4, <2>1, FollowsGrows
<1> QED BY <1>5, <1>6

LEMMA SelectedType ==
  ASSUME NodesOK, NEW pending \in SUBSET mempool[Producer], NEW queue \in InOrder(pending)
  PROVE  /\ Executes(state[Producer], Selection(state[Producer], queue))
         /\ Selection(state[Producer], queue).txs # <<>> =>
              /\ NextBlock(Selection(state[Producer], queue)) \in Block
              /\ Verify(blocks[Producer], state[Producer], NextBlock(Selection(state[Producer], queue)))
<1>1. /\ mempool[Producer] \in SUBSET Txs /\ IsFiniteSet(mempool[Producer])
      /\ state[Producer] \in LedgerState /\ blocks[Producer] \in Seq(Block)
  BY ProducerIsNode, NodeTypes
<1>2. Cardinality(pending) \in Nat
  BY <1>1, FS_Subset, FS_CardinalityType
<1>3. queue \in [1..Cardinality(pending) -> Txs]
  BY <1>1 DEF InOrder
<1>4. queue \in Seq(Txs)
  BY <1>2, <1>3
<1>5. Executes(state[Producer], Selection(state[Producer], queue))
  BY <1>1, <1>4, SelectionExecutes
<1>6. PICK sel : sel = Selection(state[Producer], queue)
  OBVIOUS
<1>7. NextBlock(sel) = [prev |-> Hash(blocks[Producer]), txs |-> sel.txs, root |-> sel.st]
  BY DEF NextBlock
<1>8. sel.txs # <<>> => NextBlock(sel) \in Block /\ Verify(blocks[Producer], state[Producer], NextBlock(sel))
  BY <1>1, <1>5, <1>6, <1>7, SelectedVerifies
<1> QED BY <1>5, <1>6, <1>8

LEMMA ProduceInv ==
  ASSUME NodesOK, Rest, ReplicasFollow, Produce
  PROVE  NodesOK' /\ Rest' /\ ReplicasFollow'
<1>1. PICK pending \in SUBSET mempool[Producer] : \E queue \in InOrder(pending) :
        LET sel  == Selection(state[Producer], queue)
            rest == pending \ sel.dropped
        IN  IF sel.txs = <<>>
            THEN /\ mempool' = [mempool EXCEPT ![Producer] = rest]
                 /\ UNCHANGED <<blocks, state, log, snap>>
            ELSE /\ Verify(blocks[Producer], state[Producer], NextBlock(sel))
                 /\ Commit(Producer, NextBlock(sel), sel.st, rest)
  BY DEF Produce, Unexpired
<1>2. PICK queue \in InOrder(pending) :
        LET sel  == Selection(state[Producer], queue)
            rest == pending \ sel.dropped
        IN  IF sel.txs = <<>>
            THEN /\ mempool' = [mempool EXCEPT ![Producer] = rest]
                 /\ UNCHANGED <<blocks, state, log, snap>>
            ELSE /\ Verify(blocks[Producer], state[Producer], NextBlock(sel))
                 /\ Commit(Producer, NextBlock(sel), sel.st, rest)
  BY <1>1
<1>3. PICK sel, rest : sel = Selection(state[Producer], queue) /\ rest = pending \ sel.dropped
  OBVIOUS
<1>4. up[Producer] /\ UNCHANGED <<up, inbox, forwarded, faults, failed>> /\ Producer \in Nodes
  BY ProducerIsNode DEF Produce
<1>5. rest \in SUBSET mempool[Producer]
  BY <1>1, <1>3
<1>6. Rest'
  BY <1>4 DEF Rest
<1>7. CASE sel.txs = <<>>
  <2>1. mempool' = [mempool EXCEPT ![Producer] = rest] /\ UNCHANGED <<blocks, state, log, snap>>
    BY <1>2, <1>3, <1>7
  <2>2. PICK pool \in SUBSET Txs, st \in LedgerState : pool = mempool[Producer] /\ st = state[Producer]
    BY <1>4, NodeTypes
  <2>3. IsFiniteSet(pool) /\ Cardinality(pool) <= MaxMempoolTxs /\ Usable(pool, st)
    BY <1>4, <2>2, NodeTypes
  <2>4. rest \in SUBSET pool /\ Usable(rest, st)
    BY <1>5, <2>2, <2>3, StillUsable
  <2>5. rest \in SUBSET Txs /\ IsFiniteSet(rest) /\ Cardinality(rest) <= MaxMempoolTxs
    BY <2>3, <2>4, StillUsable
  <2>6. NodeIs(up[Producer], blocks[Producer], st, rest, log[Producer], snap[Producer], inbox[Producer],
               Producer \in failed, TRUE)
    <3>1. NodeIs(up[Producer], blocks[Producer], st, pool, log[Producer], snap[Producer], inbox[Producer],
                 Producer \in failed, Producer = Producer)
      BY <1>4, <2>2 DEF NodesOK, NodeOK
    <3> QED BY <2>4, <2>5, <3>1 DEF NodeIs
  <2>7. mempool'[Producer] = rest
    BY <1>4, <2>1 DEF NodesOK, Shape
  <2>8. NodeOK(Producer)'
    BY <1>4, <2>1, <2>2, <2>6, <2>7 DEF NodeOK
  <2>9. Touches(Producer)
    BY <1>4, <2>1 DEF NodesOK, Shape, Touches
  <2>10. NodesOK'
    BY <1>4, <2>8, <2>9, NodeStep
  <2>11. ReplicasFollow'
    BY <1>4, <2>1, FollowUnchanged
  <2> QED BY <1>6, <2>10, <2>11
<1>8. CASE sel.txs # <<>>
  <2>1. PICK b : b = NextBlock(sel)
    OBVIOUS
  <2>2. b \in Block /\ Verify(blocks[Producer], state[Producer], b) /\ b.root = sel.st
    <3>1. b.root = sel.st
      BY <2>1 DEF NextBlock
    <3> QED BY <1>3, <1>8, <2>1, <3>1, SelectedType
  <2>3. Commit(Producer, b, b.root, rest)
    BY <1>2, <1>3, <1>8, <2>1, <2>2
  <2>4. inbox' = [inbox EXCEPT ![Producer] = <<>>] /\ <<>> \in Seq(Block)
    <3>1. inbox[Producer] = <<>>
      BY <1>4 DEF NodesOK, NodeOK, NodeIs
    <3> QED BY <1>4, <3>1 DEF NodesOK, Shape
  <2>5. NodesOK'
    BY <1>4, <1>5, <2>2, <2>3, <2>4, CommitNode
  <2>6. Touches(Producer)
    BY <1>4, <2>3 DEF NodesOK, Shape, Touches, Commit
  <2>7. Producer \notin failed => Durable' = Append(Durable, Line(b)) /\ Line(b) \in LogLine
    <3> SUFFICES ASSUME Producer \notin failed
                 PROVE  Durable' = Append(Durable, Line(b)) /\ Line(b) \in LogLine
      OBVIOUS
    <3>1. Kept(log[Producer], TRUE, blocks[Producer], state[Producer])
      <4>1. up[Producer] = TRUE
        BY <1>4, NodeTypes
      <4> QED BY <1>4, <4>1 DEF NodesOK, NodeOK, NodeIs
    <3>2. log[Producer] \in Seq(LogLine) /\ blocks[Producer] \in Seq(Block)
      BY <1>4, NodeTypes
    <3>3. log'[Producer] = Written(log[Producer], Line(b))
      BY <1>4, <2>3 DEF Commit, NodesOK, Shape
    <3>4. /\ Written(log[Producer], Line(b)) = Append(log[Producer], Line(b))
          /\ Stored(log[Producer]) = log[Producer]
          /\ Stored(Append(log[Producer], Line(b))) = Append(log[Producer], Line(b))
      BY <2>2, <3>1, <3>2, KeptGrows
    <3> QED BY <2>2, <3>3, <3>4, LineType DEF Durable
  <2>8. ReplicasFollow'
    BY <1>4, <2>6, <2>7, ProducerExtends
  <2> QED BY <1>6, <2>5, <2>8
<1> QED BY <1>7, <1>8

-----------------------------------------------------------------------------
(* Appends that fail, and what replicas do. *)
LEMMA LosesSome ==
  ASSUME NodesOK, NEW n \in Nodes, Touches(n), UNCHANGED <<up, blocks, state, snap>>,
         log'[n] \in Seq(LogLine), n \notin failed' => log'[n] = log[n],
         mempool'[n] \in SUBSET mempool[n], inbox'[n] \in {inbox[n], <<>>}
  PROVE  NodesOK'
<1>1. PICK pool \in SUBSET Txs, st \in LedgerState : pool = mempool[n] /\ st = state[n]
  BY NodeTypes
<1>0. PICK left \in SUBSET pool : left = mempool'[n]
  BY <1>1
<1>2. IsFiniteSet(pool) /\ Cardinality(pool) <= MaxMempoolTxs /\ Usable(pool, st)
  BY <1>1, NodeTypes
<1>3. Usable(left, st)
  BY <1>2 DEF Usable
<1>4. left \in SUBSET Txs /\ IsFiniteSet(left) /\ Cardinality(left) <= MaxMempoolTxs
  BY <1>2, StillUsable
<1>5. NodeIs(up[n], blocks[n], st, pool, log[n], snap[n], inbox[n], n \in failed, n = Producer)
  BY <1>1 DEF NodesOK, NodeOK
<1>6. n \in failed => n \in failed'
  BY DEF Touches
<1>7. <<>> \in Seq(Block)
  OBVIOUS
<1>8. NodeIs(up[n], blocks[n], st, left, log'[n], snap[n], inbox'[n], n \in failed', n = Producer)
  BY <1>3, <1>4, <1>5, <1>6, <1>7 DEF NodeIs
<1>9. NodeOK(n)'
  BY <1>0, <1>1, <1>8 DEF NodeOK
<1> QED BY <1>9, NodeStep

LEMMA ReplicaMoves ==
  ASSUME NodesOK, ReplicasFollow, NEW r \in Replicas, Touches(r),
         Producer \notin failed /\ r \notin failed' =>
           /\ Follows(BlocksIn(Stored(log'[r])), 0, Durable)
           /\ Follows(inbox'[r], Len(blocks'[r]), Durable)
  PROVE  ReplicasFollow'
<1> SUFFICES ASSUME Producer \notin failed', NEW m \in Replicas \ failed'
             PROVE  /\ Follows(BlocksIn(Stored(log'[m])), 0, Durable')
                    /\ Follows(inbox'[m], Len(blocks'[m]), Durable')
  BY DEF ReplicasFollow, Durable
<1>1. r \in Nodes /\ m \in Nodes /\ Producer \in Nodes /\ r # Producer
  BY ProducerIsNode
<1>2. Producer \notin failed /\ m \notin failed
  BY <1>1 DEF Touches
<1>3. Durable' = Durable
  BY <1>1 DEF Durable, Touches, NodesOK, Shape
<1>4. CASE m = r
  BY <1>2, <1>3, <1>4
<1>5. CASE m # r
  <2>1. log'[m] = log[m] /\ inbox'[m] = inbox[m] /\ blocks'[m] = blocks[m]
    BY <1>1, <1>5 DEF Touches, NodesOK, Shape
  <2>2. Follows(BlocksIn(Stored(log[m])), 0, Durable) /\ Follows(inbox[m], Len(blocks[m]), Durable)
    BY <1>2 DEF ReplicasFollow
  <2> QED BY <1>3, <2>1, <2>2
<1> QED BY <1>4, <1>5

LEMMA RestAfterFault ==
  ASSUME Rest, NEW n \in Nodes, faults < MaxFaults, faults' = faults + 1,
         failed' \in {failed, failed \cup {n}}, UNCHANGED <<up, forwarded>>
  PROVE  Rest'
<1>1. faults' \in 0..MaxFaults
  BY ChainAssumption DEF Rest
<1> QED BY <1>1 DEF Rest

LEMMA ProduceFailsInv ==
  ASSUME NodesOK, Rest, ReplicasFollow, ProduceFails
  PROVE  NodesOK' /\ Rest' /\ ReplicasFollow'
<1>1. PICK pending \in SUBSET mempool[Producer], left \in {<<>>, <<"torn">>, <<"all">>} :
        \E queue \in InOrder(pending) :
          LET sel == Selection(state[Producer], queue)
              rec == IF left = <<"torn">> THEN Torn ELSE Line(NextBlock(sel))
          IN  /\ failed' = IF left = <<>> THEN failed ELSE failed \cup {Producer}
              /\ sel.txs # <<>>
              /\ log' = IF left = <<>> THEN log ELSE [log EXCEPT ![Producer] = Written(@, rec)]
              /\ mempool' = [mempool EXCEPT ![Producer] = pending \ sel.dropped]
  BY DEF ProduceFails, Unexpired
<1>2. PICK queue \in InOrder(pending) :
          LET sel == Selection(state[Producer], queue)
              rec == IF left = <<"torn">> THEN Torn ELSE Line(NextBlock(sel))
          IN  /\ failed' = IF left = <<>> THEN failed ELSE failed \cup {Producer}
              /\ sel.txs # <<>>
              /\ log' = IF left = <<>> THEN log ELSE [log EXCEPT ![Producer] = Written(@, rec)]
              /\ mempool' = [mempool EXCEPT ![Producer] = pending \ sel.dropped]
  BY <1>1
<1>3. PICK sel, rec : /\ sel = Selection(state[Producer], queue)
                      /\ rec = IF left = <<"torn">> THEN Torn ELSE Line(NextBlock(sel))
  OBVIOUS
<1>4. /\ failed' = IF left = <<>> THEN failed ELSE failed \cup {Producer}
      /\ log' = IF left = <<>> THEN log ELSE [log EXCEPT ![Producer] = Written(@, rec)]
      /\ mempool' = [mempool EXCEPT ![Producer] = pending \ sel.dropped] /\ sel.txs # <<>>
  BY <1>2, <1>3
<1>5. /\ faults < MaxFaults /\ faults' = faults + 1 /\ Producer \in Nodes
      /\ UNCHANGED <<up, blocks, state, snap, inbox, forwarded>>
  BY ProducerIsNode DEF ProduceFails
<1>6. rec \in LogLine
  <2>1. NextBlock(sel) \in Block
    BY <1>3, <1>4, SelectedType
  <2> QED BY <1>3, <2>1, LineType
<1>7. log[Producer] \in Seq(LogLine) /\ Written(log[Producer], rec) \in Seq(LogLine)
  BY <1>5, <1>6, NodeTypes, WrittenType
<1>8. Touches(Producer)
  BY <1>4, <1>5 DEF NodesOK, Shape, Touches
<1>9. /\ log'[Producer] \in Seq(LogLine) /\ mempool'[Producer] \in SUBSET mempool[Producer]
      /\ Producer \notin failed' => log'[Producer] = log[Producer]
      /\ inbox'[Producer] = inbox[Producer]
  BY <1>4, <1>5, <1>7 DEF NodesOK, Shape
<1>10. NodesOK'
  BY <1>5, <1>8, <1>9, LosesSome
<1>11. Rest'
  BY <1>4, <1>5, RestAfterFault
<1>12. ReplicasFollow'
  BY <1>8, <1>9, ProducerExtends DEF Durable
<1> QED BY <1>10, <1>11, <1>12

LEMMA AddBlockFailsInv ==
  ASSUME NodesOK, Rest, ReplicasFollow, NEW r \in Replicas, AddBlockFails(r)
  PROVE  NodesOK' /\ Rest' /\ ReplicasFollow'
<1>1. PICK left \in {<<>>, <<"torn">>, <<"all">>} :
        LET rec == IF left = <<"torn">> THEN Torn ELSE Line(Head(inbox[r]))
        IN  /\ failed' = IF left = <<>> THEN failed ELSE failed \cup {r}
            /\ inbox[r] # <<>>
            /\ log' = IF left = <<>> THEN log ELSE [log EXCEPT ![r] = Written(@, rec)]
            /\ inbox' = [inbox EXCEPT ![r] = <<>>]
  BY DEF AddBlockFails
<1>2. PICK rec : rec = IF left = <<"torn">> THEN Torn ELSE Line(Head(inbox[r]))
  OBVIOUS
<1>3. /\ faults < MaxFaults /\ faults' = faults + 1 /\ r \in Nodes
      /\ UNCHANGED <<up, blocks, state, mempool, snap, forwarded>>
  BY ProducerIsNode DEF AddBlockFails
<1>4. rec \in LogLine
  <2>1. Head(inbox[r]) \in Block
    BY <1>1, <1>3, NodeTypes
  <2> QED BY <1>2, <2>1, LineType
<1>5. log[r] \in Seq(LogLine) /\ Written(log[r], rec) \in Seq(LogLine)
  BY <1>3, <1>4, NodeTypes, WrittenType
<1>6. Touches(r)
  BY <1>1, <1>2, <1>3 DEF NodesOK, Shape, Touches
<1>7. /\ log'[r] \in Seq(LogLine) /\ mempool'[r] \in SUBSET mempool[r]
      /\ r \notin failed' => log'[r] = log[r]
      /\ inbox'[r] = <<>>
  BY <1>1, <1>2, <1>3, <1>5 DEF NodesOK, Shape
<1>8. NodesOK'
  BY <1>3, <1>6, <1>7, LosesSome
<1>9. Rest'
  BY <1>1, <1>3, RestAfterFault
<1>10. ReplicasFollow'
  <2>1. ASSUME Producer \notin failed, r \notin failed'
        PROVE  /\ Follows(BlocksIn(Stored(log'[r])), 0, Durable)
               /\ Follows(inbox'[r], Len(blocks'[r]), Durable)
    <3>1. r \notin failed
      BY <1>6, <2>1 DEF Touches
    <3>2. Follows(BlocksIn(Stored(log'[r])), 0, Durable)
      BY <1>7, <2>1, <3>1 DEF ReplicasFollow
    <3>3. Follows(<<>>, Len(blocks'[r]), Durable)
      BY DEF Follows
    <3> QED BY <1>7, <3>2, <3>3
  <2> QED BY <1>6, <2>1, ReplicaMoves
<1> QED BY <1>8, <1>9, <1>10

LEMMA InboxStep ==
  ASSUME NodesOK, NEW r \in Replicas, up[r], NEW box \in Seq(Block),
         inbox' = [inbox EXCEPT ![r] = box],
         UNCHANGED <<up, blocks, state, mempool, log, snap, failed>>
  PROVE  NodesOK' /\ Touches(r) /\ inbox'[r] = box
<1>1. r \in Nodes /\ r # Producer
  BY ProducerIsNode
<1>2. Touches(r)
  BY <1>1 DEF NodesOK, Shape, Touches
<1>3. inbox'[r] = box
  BY <1>1 DEF NodesOK, Shape
<1>4. NodeIs(up[r], blocks[r], state[r], mempool[r], log[r], snap[r], inbox[r], r \in failed, r = Producer)
  BY <1>1 DEF NodesOK, NodeOK
<1>5. NodeIs(up[r], blocks[r], state[r], mempool[r], log[r], snap[r], box, r \in failed, r = Producer)
  BY <1>1, <1>4 DEF NodeIs
<1>6. NodeOK(r)'
  BY <1>3, <1>5 DEF NodeOK
<1> QED BY <1>1, <1>2, <1>3, <1>6, NodeStep

(* The blocks a node that had no failed append serves are the lines of its *)
(* log.                                                                    *)
LEMMA ServedIsLogged ==
  ASSUME NodesOK, NEW n \in Nodes \ failed, up[n]
  PROVE  /\ Readable(log[n]) /\ Stored(log[n]) = log[n] /\ blocks[n] = BlocksIn(log[n])
         /\ Follows(blocks[n], 0, log[n]) /\ Len(blocks[n]) = Len(log[n])
         /\ Kept(log[n], TRUE, blocks[n], state[n])
<1>1. log[n] \in Seq(LogLine) /\ up[n] = TRUE
  BY NodeTypes
<1>2. Kept(log[n], TRUE, blocks[n], state[n])
  BY <1>1 DEF NodesOK, NodeOK, NodeIs
<1>3. PICK lines \in Seq(LogLine) : lines = log[n]
  BY <1>1
<1>4. Readable(lines) /\ blocks[n] = BlocksIn(lines)
  BY <1>2, <1>3 DEF Kept
<1>5. Stored(lines) = lines /\ Len(BlocksIn(lines)) = Len(lines)
  BY <1>4, ReadableStored, BlocksInType
<1>6. Follows(BlocksIn(lines), 0, lines)
  <2>1. DOMAIN BlocksIn(lines) = DOMAIN lines /\ DOMAIN lines = 1..Len(lines) /\ Len(lines) \in Nat
    BY DEF BlocksIn
  <2>2. ASSUME NEW i \in DOMAIN lines
        PROVE  0 + i \in DOMAIN lines /\ lines[0 + i] = Line(BlocksIn(lines)[i])
    <3>1. 0 + i = i
      BY <2>1
    <3>2. lines[i] = Line(lines[i].block) /\ BlocksIn(lines)[i] = lines[i].block
      BY <1>4, ReadableLine DEF BlocksIn
    <3> QED BY <3>1, <3>2
  <2> QED BY <2>1, <2>2 DEF Follows
<1> QED BY <1>2, <1>3, <1>4, <1>5, <1>6

LEMMA FetchInv ==
  ASSUME NodesOK, Rest, ReplicasFollow, NEW r \in Replicas, Fetch(r)
  PROVE  NodesOK' /\ Rest' /\ ReplicasFollow'
<1>1. /\ up[r] /\ up[Producer] /\ Len(blocks[Producer]) > Len(blocks[r])
      /\ UNCHANGED <<up, blocks, state, mempool, log, snap, forwarded, faults, failed>>
      /\ inbox' = [inbox EXCEPT ![r] =
           SubSeq(blocks[Producer], Len(blocks[r]) + 1,
                  Min({Len(blocks[r]) + FetchLimit, Len(blocks[Producer])}))]
  BY DEF Fetch
<1>2. PICK k, m, bs : /\ k = Len(blocks[r]) /\ bs = blocks[Producer]
                      /\ m = Min({k + FetchLimit, Len(bs)})
  OBVIOUS
<1>3. /\ r \in Nodes /\ Producer \in Nodes /\ k \in Nat /\ bs \in Seq(Block) /\ Len(bs) \in Nat
      /\ FetchLimit \in Nat
  BY <1>2, ProducerIsNode, NodeTypes, ChainAssumption
<1>4. m \in Nat /\ m <= Len(bs)
  BY <1>2, <1>3 DEF Min
<1>5. PICK box : box = SubSeq(bs, k + 1, m)
  OBVIOUS
<1>6. box \in Seq(Block) /\ \A i \in DOMAIN box : i \in 1..(m - k) /\ box[i] = bs[k + i]
  BY <1>3, <1>4, <1>5
<1>7. inbox' = [inbox EXCEPT ![r] = box]
  BY <1>1, <1>2, <1>5
<1>8. NodesOK' /\ Touches(r) /\ inbox'[r] = box
  BY <1>1, <1>6, <1>7, InboxStep
<1>9. Rest'
  BY <1>1 DEF Rest
<1>10. ReplicasFollow'
  <2>1. ASSUME Producer \notin failed, r \notin failed'
        PROVE  /\ Follows(BlocksIn(Stored(log'[r])), 0, Durable)
               /\ Follows(inbox'[r], Len(blocks'[r]), Durable)
    <3>1. Follows(BlocksIn(Stored(log'[r])), 0, Durable)
      BY <1>1, <2>1 DEF ReplicasFollow
    <3>2. Durable = log[Producer] /\ Follows(bs, 0, Durable)
      BY <1>1, <1>2, <1>3, <2>1, ServedIsLogged DEF Durable
    <3>3. ASSUME NEW i \in DOMAIN box
          PROVE  k + i \in DOMAIN Durable /\ Durable[k + i] = Line(box[i])
      <4>1. k + i \in 1..Len(bs) /\ box[i] = bs[k + i] /\ 0 + (k + i) = k + i
        BY <1>3, <1>4, <1>6
      <4>2. k + i \in DOMAIN bs
        BY <1>3, <4>1
      <4>3. 0 + (k + i) \in DOMAIN Durable /\ Durable[0 + (k + i)] = Line(bs[k + i])
        BY <3>2, <4>2 DEF Follows
      <4> QED BY <4>1, <4>3
    <3>4. Follows(box, k, Durable)
      BY <3>3 DEF Follows
    <3> QED BY <1>1, <1>2, <1>8, <3>1, <3>4
  <2> QED BY <1>8, <2>1, ReplicaMoves
<1> QED BY <1>8, <1>9, <1>10

LEMMA FollowsNext ==
  ASSUME NEW bs \in Seq(Block), NEW lines, Follows(bs, 0, lines),
         NEW box \in Seq(Block), box # <<>>, Follows(box, Len(bs), lines)
  PROVE  /\ Follows(Append(bs, Head(box)), 0, lines)
         /\ Follows(Tail(box), Len(Append(bs, Head(box))), lines)
<1>1. PICK b \in Block : b = Head(box) /\ b = box[1]
  OBVIOUS
<1>2. /\ Len(bs) \in Nat /\ DOMAIN bs = 1..Len(bs) /\ Len(Append(bs, b)) = Len(bs) + 1
      /\ DOMAIN Append(bs, b) = 1..(Len(bs) + 1) /\ Append(bs, b)[Len(bs) + 1] = b
      /\ \A i \in 1..Len(bs) : Append(bs, b)[i] = bs[i]
  OBVIOUS
<1>3. 1 \in DOMAIN box
  OBVIOUS
<1>4. Len(bs) + 1 \in DOMAIN lines /\ lines[Len(bs) + 1] = Line(b)
  BY <1>1, <1>3 DEF Follows
<1>5. ASSUME NEW i \in 1..(Len(bs) + 1)
      PROVE  0 + i \in DOMAIN lines /\ lines[0 + i] = Line(Append(bs, b)[i])
  <2>1. CASE i = Len(bs) + 1
    BY <1>2, <1>4, <2>1
  <2>2. CASE i # Len(bs) + 1
    <3>1. i \in DOMAIN bs /\ Append(bs, b)[i] = bs[i]
      BY <1>2, <2>2
    <3>2. 0 + i \in DOMAIN lines /\ lines[0 + i] = Line(bs[i])
      BY <3>1 DEF Follows
    <3> QED BY <3>1, <3>2
  <2> QED BY <2>1, <2>2
<1>6. Follows(Append(bs, b), 0, lines)
  BY <1>2, <1>5 DEF Follows
<1>7. ASSUME NEW i \in DOMAIN Tail(box)
      PROVE  (Len(bs) + 1) + i \in DOMAIN lines /\ lines[(Len(bs) + 1) + i] = Line(Tail(box)[i])
  <2>1. i \in Nat /\ i + 1 \in DOMAIN box /\ Tail(box)[i] = box[i + 1]
    OBVIOUS
  <2>2. Len(bs) + (i + 1) \in DOMAIN lines /\ lines[Len(bs) + (i + 1)] = Line(box[i + 1])
    BY <2>1 DEF Follows
  <2>3. Len(bs) + (i + 1) = (Len(bs) + 1) + i
    BY <1>2, <2>1
  <2> QED BY <2>1, <2>2, <2>3
<1>8. Follows(Tail(box), Len(bs) + 1, lines)
  BY <1>7 DEF Follows
<1> QED BY <1>1, <1>2, <1>6, <1>8

LEMMA AddBlockInv ==
  ASSUME NodesOK, Rest, ReplicasFollow, NEW r \in Replicas, AddBlock(r)
  PROVE  NodesOK' /\ Rest' /\ ReplicasFollow'
<1>1. PICK box \in Seq(Block), bs \in Seq(Block) : box = inbox[r] /\ bs = blocks[r]
  BY ProducerIsNode, NodeTypes
<1>2. PICK b : b = Head(box)
  OBVIOUS
<1>3. /\ up[r] /\ box # <<>> /\ UNCHANGED <<up, forwarded, faults, failed>>
      /\ r \in Nodes /\ r # Producer /\ b \in Block /\ Tail(box) \in Seq(Block)
  <2>1. up[r] /\ box # <<>> /\ UNCHANGED <<up, forwarded, faults, failed>>
    BY <1>1 DEF AddBlock
  <2>2. b \in Block /\ Tail(box) \in Seq(Block)
    BY <1>2, <2>1
  <2> QED BY <2>1, <2>2, ProducerIsNode
<1>4. Rest'
  BY <1>3 DEF Rest
<1>5. CASE ~Verify(blocks[r], state[r], b)
  <2>1. inbox' = [inbox EXCEPT ![r] = <<>>] /\ UNCHANGED <<blocks, state, mempool, log, snap>>
    BY <1>1, <1>2, <1>5 DEF AddBlock
  <2>2. <<>> \in Seq(Block)
    OBVIOUS
  <2>3. NodesOK' /\ Touches(r) /\ inbox'[r] = <<>>
    BY <1>3, <2>1, <2>2, InboxStep
  <2>4. Follows(<<>>, Len(blocks'[r]), Durable)
    BY DEF Follows
  <2>5. Producer \notin failed /\ r \notin failed' => Follows(BlocksIn(Stored(log'[r])), 0, Durable)
    BY <1>3, <2>1 DEF ReplicasFollow
  <2>6. ReplicasFollow'
    BY <2>3, <2>4, <2>5, ReplicaMoves
  <2> QED BY <1>4, <2>3, <2>6
<1>6. CASE Verify(blocks[r], state[r], b)
  <2>1. Commit(r, b, b.root, mempool[r]) /\ inbox' = [inbox EXCEPT ![r] = Tail(box)]
    BY <1>1, <1>2, <1>6 DEF AddBlock
  <2>2. NodesOK'
    BY <1>3, <1>6, <2>1, CommitNode
  <2>3. Touches(r)
    BY <1>3, <2>1 DEF NodesOK, Shape, Touches, Commit
  <2>4. /\ log'[r] = Written(log[r], Line(b)) /\ blocks'[r] = Append(bs, b)
        /\ inbox'[r] = Tail(box)
    BY <1>1, <1>3, <2>1 DEF Commit, NodesOK, Shape
  <2>5. ASSUME Producer \notin failed, r \notin failed'
        PROVE  /\ Follows(BlocksIn(Stored(log'[r])), 0, Durable)
               /\ Follows(inbox'[r], Len(blocks'[r]), Durable)
    <3>1. r \in Nodes \ failed
      BY <1>3, <2>5
    <3>2. /\ Readable(log[r]) /\ Stored(log[r]) = log[r] /\ bs = BlocksIn(log[r])
      BY <1>1, <1>3, <3>1, ServedIsLogged
    <3>3. PICK lines \in Seq(LogLine) : lines = log[r]
      BY <3>1, NodeTypes
    <3>4. BlocksIn(Stored(Written(log[r], Line(b)))) = Append(bs, b)
      <4>1. /\ Written(lines, Line(b)) = Append(lines, Line(b))
            /\ Stored(Append(lines, Line(b))) = Append(lines, Line(b))
            /\ BlocksIn(Append(lines, Line(b))) = Append(BlocksIn(lines), b)
        BY <1>3, <3>2, <3>3, LineAdded
      <4> QED BY <3>2, <3>3, <4>1
    <3>5. Follows(bs, 0, Durable) /\ Follows(box, Len(bs), Durable)
      BY <1>1, <2>5, <3>1, <3>2 DEF ReplicasFollow
    <3>6. /\ Follows(Append(bs, b), 0, Durable)
          /\ Follows(Tail(box), Len(Append(bs, b)), Durable)
      BY <1>2, <1>3, <3>5, FollowsNext
    <3> QED BY <2>4, <3>4, <3>6
  <2>6. ReplicasFollow'
    BY <2>3, <2>5, ReplicaMoves
  <2> QED BY <1>4, <2>2, <2>6
<1> QED BY <1>5, <1>6

-----------------------------------------------------------------------------
(* Crashes. *)

(* What a node that dies inside append was writing would have been         *)
(* committed.                                                              *)
LEMMA DyingVerifies ==
  ASSUME NodesOK, NEW n \in Nodes, NEW bs \in Dying(n), bs # <<>>
  PROVE  /\ bs[1] \in Block /\ Verify(blocks[n], state[n], bs[1])
         /\ n # Producer => inbox[n] # <<>> /\ bs[1] = Head(inbox[n])
<1>1. CASE n = Producer
  <2>1. PICK sel \in Selections : sel.txs # <<>> /\ bs = <<NextBlock(sel)>>
    BY <1>1 DEF Dying
  <2>2. PICK queue \in UNION {InOrder(p) : p \in Unexpired} : sel = Selection(state[Producer], queue)
    BY DEF Selections
  <2>3. PICK pending \in SUBSET mempool[Producer] : queue \in InOrder(pending)
    BY DEF Unexpired
  <2>4. bs[1] = NextBlock(sel)
    BY <2>1
  <2> QED BY <1>1, <2>1, <2>2, <2>3, <2>4, SelectedType
<1>2. CASE n # Producer
  <2>1. inbox[n] # <<>> /\ Verify(blocks[n], state[n], Head(inbox[n])) /\ bs = <<Head(inbox[n])>>
    BY <1>2 DEF Dying
  <2>2. inbox[n] \in Seq(Block)
    BY NodeTypes
  <2>3. Head(inbox[n]) \in Block
    BY <2>1, <2>2
  <2> QED BY <1>2, <2>1, <2>3
<1> QED BY <1>1, <1>2

(* What the log of node n may be after a crash: as before once the torn    *)
(* line is gone, or with the block it was adding.                          *)
AddsLine(n, b) ==
  /\ b \in Block /\ Verify(blocks[n], state[n], b)
  /\ n # Producer => inbox[n] # <<>> /\ b = Head(inbox[n])
  /\ Stored(log'[n]) = Append(log[n], Line(b))

LEMMA LogAfterCrash ==
  ASSUME NodesOK, NEW n \in Nodes, Crash(n)
  PROVE  /\ log'[n] \in Seq(LogLine) /\ log' = [log EXCEPT ![n] = log'[n]]
         /\ n \notin failed =>
              /\ Readable(Stored(log'[n])) /\ IsChain(BlocksIn(Stored(log'[n])))
              /\ Stored(log'[n]) = log[n] \/ \E b : AddsLine(n, b)
<1>1. PICK lines \in Seq(LogLine) : lines = log[n]
  BY NodeTypes
<1>2. PICK bs \in Dying(n), torn \in BOOLEAN :
        log' = IF bs = <<>> THEN log
               ELSE [log EXCEPT ![n] = Written(@, IF torn THEN Torn ELSE Line(bs[1]))]
  BY DEF Crash
<1>3. up[n]
  BY DEF Crash
<1>4. n \notin failed => /\ Readable(lines) /\ Stored(lines) = lines /\ blocks[n] = BlocksIn(lines)
                         /\ Kept(lines, TRUE, blocks[n], state[n]) /\ IsChain(BlocksIn(lines))
  BY <1>1, <1>3, ServedIsLogged DEF Kept
<1>5. CASE bs = <<>>
  <2>1. log' = log /\ log'[n] = lines
    BY <1>1, <1>2, <1>5
  <2>2. log' = [log EXCEPT ![n] = log'[n]]
    BY <2>1 DEF NodesOK, Shape
  <2> QED BY <1>1, <1>4, <2>1, <2>2
<1>6. CASE bs # <<>>
  <2>1. PICK b : b = bs[1]
    OBVIOUS
  <2>2. /\ b \in Block /\ Verify(blocks[n], state[n], b)
        /\ n # Producer => inbox[n] # <<>> /\ b = Head(inbox[n])
    BY <1>6, <2>1, DyingVerifies
  <2>3. PICK rec \in LogLine : rec = IF torn THEN Torn ELSE Line(b)
    BY <2>2, LineType
  <2>4. log' = [log EXCEPT ![n] = Written(lines, rec)]
    BY <1>1, <1>2, <1>6, <2>1, <2>3
  <2>5. log'[n] = Written(lines, rec) /\ log' = [log EXCEPT ![n] = log'[n]]
    BY <2>4 DEF NodesOK, Shape
  <2>6. log'[n] \in Seq(LogLine)
    BY <2>5, WrittenType
  <2>7. ASSUME n \notin failed
        PROVE  /\ Readable(Stored(log'[n])) /\ IsChain(BlocksIn(Stored(log'[n])))
               /\ Stored(log'[n]) = log[n] \/ \E c : AddsLine(n, c)
    <3>1. blocks[n] \in Seq(Block)
      BY NodeTypes
    <3>2. /\ Kept(Written(lines, Line(b)), TRUE, Append(blocks[n], b), b.root)
          /\ Written(lines, Line(b)) = Append(lines, Line(b))
          /\ Stored(Append(lines, Line(b))) = Append(lines, Line(b))
          /\ Stored(Written(lines, Torn)) = lines
      BY <1>4, <2>2, <2>7, <3>1, KeptGrows
    <3>3. CASE torn
      BY <1>1, <1>4, <2>3, <2>5, <2>7, <3>2, <3>3
    <3>4. CASE ~torn
      <4>1. Stored(log'[n]) = Append(log[n], Line(b))
        BY <1>1, <2>3, <2>5, <3>2, <3>4
      <4>2. AddsLine(n, b)
        BY <2>2, <4>1 DEF AddsLine
      <4>3. Readable(Stored(Written(lines, Line(b)))) /\ IsChain(BlocksIn(Stored(Written(lines, Line(b)))))
        BY <3>2 DEF Kept
      <4> QED BY <1>1, <3>2, <4>1, <4>2, <4>3
    <3> QED BY <3>3, <3>4
  <2> QED BY <2>5, <2>6, <2>7
<1> QED BY <1>5, <1>6

LEMMA CrashInv ==
  ASSUME NodesOK, Rest, ReplicasFollow, NEW n \in Nodes, Crash(n)
  PROVE  NodesOK' /\ Rest' /\ ReplicasFollow'
<1>1. /\ up[n] /\ faults < MaxFaults /\ faults' = faults + 1
      /\ up' = [up EXCEPT ![n] = FALSE]
      /\ blocks' = [blocks EXCEPT ![n] = <<>>]
      /\ state' = [state EXCEPT ![n] = GenesisState]
      /\ mempool' = [mempool EXCEPT ![n] = {}]
      /\ inbox' = [inbox EXCEPT ![n] = <<>>]
      /\ forwarded' = {f \in forwarded : f[1] # n}
      /\ UNCHANGED <<snap, failed>>
  BY DEF Crash
<1>2. /\ up'[n] = FALSE /\ blocks'[n] = <<>> /\ state'[n] = GenesisState /\ mempool'[n] = {}
      /\ inbox'[n] = <<>> /\ snap'[n] = snap[n] /\ (n \in failed') = (n \in failed)
  BY <1>1 DEF NodesOK, Shape
<1>3. /\ log'[n] \in Seq(LogLine) /\ log' = [log EXCEPT ![n] = log'[n]]
      /\ n \notin failed => /\ Readable(Stored(log'[n])) /\ IsChain(BlocksIn(Stored(log'[n])))
                            /\ Stored(log'[n]) = log[n] \/ \E b : AddsLine(n, b)
  BY LogAfterCrash
<1>4. Touches(n)
  BY <1>1, <1>2, <1>3 DEF NodesOK, Shape, Touches
<1>5. NodeOK(n)'
  <2>1. n \notin failed => Kept(log'[n], FALSE, <<>>, GenesisState)
    BY <1>3 DEF Kept
  <2>2. /\ {} \in SUBSET Txs /\ IsFiniteSet({}) /\ Cardinality({}) <= MaxMempoolTxs
        /\ <<>> \in Seq(Block) /\ FALSE \in BOOLEAN
    BY FS_EmptySet, ChainAssumption
  <2>3. Usable({}, GenesisState)
    BY DEF Usable
  <2>4. snap[n] \in Snapshot
    BY NodeTypes
  <2>5. NodeIs(FALSE, <<>>, GenesisState, {}, log'[n], snap[n], <<>>, n \in failed, n = Producer)
    BY <1>3, <2>1, <2>2, <2>3, <2>4, GenesisType DEF NodeIs
  <2> QED BY <1>2, <2>5 DEF NodeOK
<1>6. NodesOK'
  BY <1>4, <1>5, NodeStep
<1>7. Rest'
  <2>1. faults' \in 0..MaxFaults
    BY <1>1, ChainAssumption DEF Rest
  <2>2. ASSUME NEW f \in forwarded' PROVE up'[f[1]]
    <3>1. f \in forwarded /\ f[1] # n /\ f[1] \in Replicas
      BY <1>1 DEF Rest
    <3>2. f[1] \in Nodes
      BY <3>1, ProducerIsNode
    <3> QED BY <1>1, <3>1, <3>2 DEF Rest, NodesOK, Shape
  <2> QED BY <1>1, <2>1, <2>2 DEF Rest
<1>8. n \notin failed => Readable(log[n]) /\ Stored(log[n]) = log[n] /\ blocks[n] = BlocksIn(log[n])
  BY <1>1, ServedIsLogged
<1>9. CASE n = Producer
  <2>1. ASSUME Producer \notin failed'
        PROVE  Durable' = Durable \/ \E x \in LogLine : Durable' = Append(Durable, x)
    <3>1. Durable = log[n] /\ Durable' = Stored(log'[n])
      BY <1>1, <1>8, <1>9, <2>1 DEF Durable
    <3>2. ASSUME NEW b, AddsLine(n, b) PROVE Durable' = Append(Durable, Line(b)) /\ Line(b) \in LogLine
      BY <3>1, <3>2, LineType DEF AddsLine
    <3> QED BY <1>1, <1>3, <1>9, <2>1, <3>1, <3>2
  <2>2. ReplicasFollow'
    BY <1>4, <1>9, <2>1, ProducerExtends
  <2> QED BY <1>6, <1>7, <2>2
<1>10. CASE n # Producer
  <2>1. n \in Replicas
    BY <1>10 DEF Nodes
  <2>2. ASSUME Producer \notin failed, n \notin failed'
        PROVE  /\ Follows(BlocksIn(Stored(log'[n])), 0, Durable)
               /\ Follows(inbox'[n], Len(blocks'[n]), Durable)
    <3>1. PICK bs \in Seq(Block), box \in Seq(Block), lines \in Seq(LogLine) :
            bs = blocks[n] /\ box = inbox[n] /\ lines = log[n]
      BY NodeTypes
    <3>2. /\ Follows(bs, 0, Durable) /\ Follows(box, Len(bs), Durable)
          /\ Readable(lines) /\ bs = BlocksIn(lines)
      BY <1>1, <1>8, <2>1, <2>2, <3>1 DEF ReplicasFollow
    <3>3. Follows(<<>>, Len(blocks'[n]), Durable)
      BY DEF Follows
    <3>4. CASE Stored(log'[n]) = log[n]
      BY <1>2, <3>1, <3>2, <3>3, <3>4
    <3>5. CASE Stored(log'[n]) # log[n]
      <4>1. PICK b : AddsLine(n, b)
        BY <1>1, <1>3, <2>2, <3>5
      <4>2. /\ b \in Block /\ box # <<>> /\ b = Head(box)
            /\ Stored(log'[n]) = Append(lines, Line(b))
        BY <1>10, <3>1, <4>1 DEF AddsLine
      <4>3. BlocksIn(Append(lines, Line(b))) = Append(bs, b)
        BY <3>2, <4>2, LineAdded
      <4>4. Follows(Append(bs, b), 0, Durable)
        BY <3>2, <4>2, FollowsNext
      <4> QED BY <1>2, <3>3, <4>2, <4>3, <4>4
    <3> QED BY <3>4, <3>5
  <2>3. ReplicasFollow'
    BY <1>4, <2>1, <2>2, ReplicaMoves
  <2> QED BY <1>6, <1>7, <2>3
<1> QED BY <1>9, <1>10

-----------------------------------------------------------------------------
(* Restarts. *)
OpensTo(n, o) ==
  /\ o.ok \in BOOLEAN /\ o.blocks \in Seq(Block) /\ o.st \in LedgerState
  /\ o.log \in Seq(LogLine) /\ o.replayed \in SUBSET DOMAIN o.blocks
  /\ n \notin failed =>
       /\ o.ok = TRUE /\ o.log = Stored(log[n]) /\ Stored(o.log) = o.log
       /\ Kept(o.log, TRUE, o.blocks, o.st)

LEMMA OpenedIs ==
  ASSUME NodesOK, NEW n \in Nodes PROVE OpensTo(n, Opened(n))
<1>1. PICK all \in Seq(LogLine), s \in Snapshot : all = log[n] /\ s = snap[n]
  BY NodeTypes
<1>2. PICK lines \in Seq(LogLine) : lines = Stored(all)
  BY StoredType
<1>3. PICK bs \in Seq(Block) : bs = BlocksIn(lines)
  BY BlocksInType
<1>4. NoSnapshot \in Snapshot /\ NoSnapshot.height = 0
  BY GenesisType DEF NoSnapshot, Snapshot
<1>5. PICK from \in Snapshot : from = IF Trusted(s, bs) THEN s ELSE NoSnapshot
  BY <1>4
<1>6. Covers(from, bs)
  BY <1>4, <1>5 DEF Covers, Trusted
<1>7. PICK run \in Reading : run = Replay(bs, from)
  BY ReplayType
<1>8. run.ok \in BOOLEAN /\ run.blocks \in Seq(Block) /\ run.st \in LedgerState
  BY DEF Reading
<1>9. Opened(n) = IF Readable(lines)
        THEN [ok |-> run.ok, blocks |-> run.blocks, st |-> run.st, log |-> lines,
              replayed |-> {i \in DOMAIN run.blocks : Height(run.blocks[i]) > from.height}]
        ELSE [ok |-> FALSE, blocks |-> <<>>, st |-> GenesisState, log |-> all, replayed |-> {}]
  BY <1>1, <1>2, <1>3, <1>5, <1>7 DEF Opened, BlocksIn
<1>10. CASE Readable(lines)
  <2>1. PICK o : o = Opened(n)
    OBVIOUS
  <2>2. /\ o.ok = run.ok /\ o.blocks = run.blocks /\ o.st = run.st /\ o.log = lines
        /\ o.replayed \in SUBSET DOMAIN o.blocks
    BY <1>9, <1>10, <2>1
  <2>3. ASSUME n \notin failed
        PROVE  /\ o.ok = TRUE /\ o.log = Stored(log[n]) /\ Stored(o.log) = o.log
               /\ Kept(o.log, TRUE, o.blocks, o.st)
    <3>1. IsChain(bs)
      BY <1>1, <1>2, <1>3, <2>3 DEF NodesOK, NodeOK, NodeIs, Kept
    <3>2. run = [ok |-> TRUE, blocks |-> bs, st |-> StateAt(bs, Len(bs))]
      BY <1>6, <1>7, <3>1, ChainReplays
    <3>3. o.ok = TRUE /\ o.blocks = bs /\ o.st = StateAt(bs, Len(bs))
      BY <2>2, <3>2
    <3>4. Stored(lines) = lines
      BY <1>10, ReadableStored
    <3>5. Kept(lines, TRUE, bs, StateAt(bs, Len(bs)))
      BY <1>3, <1>10, <3>1, <3>4 DEF Kept
    <3> QED BY <1>1, <1>2, <2>2, <3>3, <3>4, <3>5
  <2> QED BY <1>8, <2>1, <2>2, <2>3 DEF OpensTo
<1>11. CASE ~Readable(lines)
  <2>1. n \in failed
    BY <1>1, <1>2, <1>11 DEF NodesOK, NodeOK, NodeIs, Kept
  <2>2. PICK o : o = Opened(n)
    OBVIOUS
  <2>3. o.ok = FALSE /\ o.blocks = <<>> /\ o.st = GenesisState /\ o.log = all /\ o.replayed = {}
    BY <1>9, <1>11, <2>2
  <2>4. o.ok \in BOOLEAN /\ o.st \in LedgerState /\ o.log \in Seq(LogLine)
    BY <2>3, GenesisType
  <2>5. o.blocks \in Seq(Block) /\ o.replayed \in SUBSET DOMAIN o.blocks
    BY <2>3
  <2> QED BY <2>1, <2>2, <2>4, <2>5 DEF OpensTo
<1> QED BY <1>10, <1>11

LEMMA RestartInv ==
  ASSUME NodesOK, Rest, ReplicasFollow, NEW n \in Nodes, Restart(n)
  PROVE  NodesOK' /\ Rest' /\ ReplicasFollow'
<1>1. PICK o : o = Opened(n)
  OBVIOUS
<1>2. /\ ~up[n] /\ up' = [up EXCEPT ![n] = o.ok] /\ log' = [log EXCEPT ![n] = o.log]
      /\ UNCHANGED <<mempool, inbox, forwarded, faults, failed>>
      /\ IF o.ok THEN /\ blocks' = [blocks EXCEPT ![n] = o.blocks]
                      /\ state' = [state EXCEPT ![n] = o.st]
                 ELSE UNCHANGED <<blocks, state>>
  BY <1>1 DEF Restart
<1>3. PICK s \in Snapshots(n, o.blocks, o.replayed) : snap' = [snap EXCEPT ![n] = s]
  BY <1>1 DEF Restart
<1>4. OpensTo(n, o)
  BY <1>1, OpenedIs
<1>5. s \in Snapshot
  <2>1. PICK bs \in Seq(Block), heights \in SUBSET Nat :
          bs = o.blocks /\ heights = o.replayed /\ heights \in SUBSET DOMAIN bs
    BY <1>4 DEF OpensTo
  <2> QED BY <1>3, <2>1, SnapshotsType
<1>6. PICK bs \in Seq(Block), st \in LedgerState :
        bs = (IF o.ok THEN o.blocks ELSE <<>>) /\ st = (IF o.ok THEN o.st ELSE state[n])
  <2>1. o.blocks \in Seq(Block) /\ o.st \in LedgerState /\ state[n] \in LedgerState /\ <<>> \in Seq(Block)
    BY <1>4, NodeTypes DEF OpensTo
  <2> QED BY <2>1
<1>7. blocks[n] = <<>> /\ mempool[n] = {} /\ inbox[n] = <<>>
  BY <1>2 DEF NodesOK, NodeOK, NodeIs
<1>8. /\ up'[n] = o.ok /\ blocks'[n] = bs /\ state'[n] = st /\ mempool'[n] = {} /\ log'[n] = o.log
      /\ snap'[n] = s /\ inbox'[n] = <<>> /\ (n \in failed') = (n \in failed)
  BY <1>2, <1>3, <1>6, <1>7 DEF NodesOK, Shape
<1>9. Touches(n)
  BY <1>2, <1>3, <1>8 DEF NodesOK, Shape, Touches
<1>10. NodeOK(n)'
  <2>1. /\ {} \in SUBSET Txs /\ IsFiniteSet({}) /\ Cardinality({}) <= MaxMempoolTxs
        /\ <<>> \in Seq(Block)
    BY FS_EmptySet, ChainAssumption
  <2>2. Usable({}, st)
    BY DEF Usable
  <2>3. n \notin failed => Kept(o.log, o.ok, bs, st)
    BY <1>4, <1>6 DEF OpensTo
  <2>4. o.ok \in BOOLEAN /\ o.log \in Seq(LogLine) /\ (~o.ok => bs = <<>>)
    BY <1>4, <1>6 DEF OpensTo
  <2>5. NodeIs(o.ok, bs, st, {}, o.log, s, <<>>, n \in failed, n = Producer)
    BY <1>5, <2>1, <2>2, <2>3, <2>4 DEF NodeIs
  <2> QED BY <1>8, <2>5 DEF NodeOK
<1>11. NodesOK'
  BY <1>9, <1>10, NodeStep
<1>12. Rest'
  <2>1. ASSUME NEW f \in forwarded' PROVE up'[f[1]]
    <3>1. f \in forwarded /\ f[1] \in Replicas /\ up[f[1]]
      BY <1>2 DEF Rest
    <3>2. f[1] \in Nodes /\ f[1] # n
      BY <1>2, <3>1, ProducerIsNode
    <3> QED BY <1>2, <3>1, <3>2 DEF NodesOK, Shape
  <2> QED BY <1>2, <2>1 DEF Rest
<1>13. n \notin failed => Stored(log'[n]) = Stored(log[n])
  BY <1>4, <1>8 DEF OpensTo
<1>14. CASE n = Producer
  <2>1. Producer \notin failed' => Durable' = Durable
    BY <1>2, <1>13, <1>14 DEF Durable
  <2>2. ReplicasFollow'
    BY <1>9, <1>14, <2>1, ProducerExtends
  <2> QED BY <1>11, <1>12, <2>2
<1>15. CASE n # Producer
  <2>1. n \in Replicas
    BY <1>15 DEF Nodes
  <2>2. Follows(<<>>, Len(blocks'[n]), Durable)
    BY DEF Follows
  <2>3. Producer \notin failed /\ n \notin failed' => Follows(BlocksIn(Stored(log'[n])), 0, Durable)
    BY <1>2, <1>13, <2>1 DEF ReplicasFollow
  <2>4. ReplicasFollow'
    BY <1>8, <1>9, <2>1, <2>2, <2>3, ReplicaMoves
  <2> QED BY <1>11, <1>12, <2>4
<1> QED BY <1>14, <1>15

-----------------------------------------------------------------------------
LEMMA ChainStarts == ChainInit => ChainInv
<1> SUFFICES ASSUME ChainInit PROVE ChainInv
  OBVIOUS
<1>1. Shape
  BY DEF ChainInit, Shape
<1>2. ASSUME NEW n \in Nodes PROVE NodeOK(n)
  <2>1. /\ up[n] = TRUE /\ blocks[n] = <<>> /\ state[n] = GenesisState /\ mempool[n] = {}
        /\ log[n] = <<>> /\ snap[n] = NoSnapshot /\ inbox[n] = <<>> /\ failed = {}
    BY DEF ChainInit
  <2>2. /\ {} \in SUBSET Txs /\ IsFiniteSet({}) /\ Cardinality({}) <= MaxMempoolTxs
        /\ <<>> \in Seq(Block) /\ <<>> \in Seq(LogLine) /\ NoSnapshot \in Snapshot
    BY FS_EmptySet, ChainAssumption, GenesisType DEF NoSnapshot, Snapshot
  <2>3. Usable({}, GenesisState)
    BY DEF Usable
  <2>4. Readable(<<>>) /\ Stored(<<>>) = <<>> /\ BlocksIn(<<>>) = <<>>
    BY DEF Readable, Stored, BlocksIn
  <2>5. Kept(<<>>, TRUE, <<>>, GenesisState)
    BY <2>4, EmptyChain DEF Kept
  <2>6. NodeIs(TRUE, <<>>, GenesisState, {}, <<>>, NoSnapshot, <<>>, FALSE, n = Producer)
    BY <2>2, <2>3, <2>5, GenesisType DEF NodeIs
  <2>7. (n \in failed) = FALSE
    BY <2>1
  <2> QED BY <2>1, <2>6, <2>7 DEF NodeOK
<1>3. Rest
  BY ChainAssumption DEF ChainInit, Rest
<1>4. ReplicasFollow
  <2>1. ASSUME NEW r \in Replicas
        PROVE  /\ Follows(BlocksIn(Stored(log[r])), 0, Durable)
               /\ Follows(inbox[r], Len(blocks[r]), Durable)
    <3>1. log[r] = <<>> /\ inbox[r] = <<>>
      BY ProducerIsNode DEF ChainInit
    <3>2. BlocksIn(Stored(<<>>)) = <<>>
      BY DEF Stored, BlocksIn
    <3>3. \A k : Follows(<<>>, k, Durable)
      BY DEF Follows
    <3> QED BY <3>1, <3>2, <3>3
  <2> QED BY <2>1 DEF ReplicasFollow
<1>5. NodesOK
  BY <1>1, <1>2 DEF NodesOK
<1> QED BY <1>3, <1>4, <1>5, InvFromNodes

LEMMA ChainStep == ChainInv /\ [ChainNext]_chainVars => ChainInv'
<1> SUFFICES ASSUME ChainInv, [ChainNext]_chainVars PROVE ChainInv'
  OBVIOUS
<1>1. NodesOK /\ Rest /\ ReplicasFollow
  BY InvByNode
<1>2. NodesOK' /\ Rest' /\ ReplicasFollow'
  <2>1. CASE \E tx \in Txs : Submit(tx)
    BY <1>1, <2>1, SubmitInv
  <2>2. CASE \E tx \in Txs, r \in Replicas : ForwardSubmit(r, tx)
    BY <1>1, <2>2, ForwardInv
  <2>3. CASE \E tx \in Txs, r \in Replicas : SubmitLocally(r, tx)
    BY <1>1, <2>3, SubmitLocallyInv
  <2>4. CASE Produce
    BY <1>1, <2>4, ProduceInv
  <2>5. CASE ProduceFails
    BY <1>1, <2>5, ProduceFailsInv
  <2>6. CASE \E r \in Replicas : Fetch(r)
    BY <1>1, <2>6, FetchInv
  <2>7. CASE \E r \in Replicas : AddBlock(r)
    BY <1>1, <2>7, AddBlockInv
  <2>8. CASE \E r \in Replicas : AddBlockFails(r)
    BY <1>1, <2>8, AddBlockFailsInv
  <2>9. CASE \E n \in Nodes : Crash(n)
    BY <1>1, <2>9, CrashInv
  <2>10. CASE \E n \in Nodes : Restart(n)
    BY <1>1, <2>10, RestartInv
  <2>11. CASE UNCHANGED chainVars
    BY <1>1, <2>11 DEF chainVars, NodesOK, Shape, NodeOK, Rest, ReplicasFollow, Durable
  <2> QED BY <2>1, <2>2, <2>3, <2>4, <2>5, <2>6, <2>7, <2>8, <2>9, <2>10, <2>11 DEF ChainNext
<1>3. NodesOK' /\ Rest' /\ ReplicasFollow' => ChainInv'
  BY InvFromNodes, PTL
<1> QED BY <1>2, <1>3

-----------------------------------------------------------------------------
(* Nonces.  The first m of txs take the next nonce of u from old to new. *)
Advances(txs, m, u, old, new) ==
  /\ old \in Nat /\ new \in Nat /\ old <= new
  /\ \A j \in 1..m : txs[j].from = u => old <= txs[j].nonce /\ txs[j].nonce < new
  /\ \A i, j \in 1..m : i < j /\ txs[i].from = u /\ txs[j].from = u => txs[i].nonce < txs[j].nonce
  /\ \A k \in old..(new - 1) : \E j \in 1..m : txs[j].from = u /\ txs[j].nonce = k

LEMMA AdvancesOne ==
  ASSUME NEW txs \in Seq(Txs), NEW m \in 1..Len(txs), NEW u \in Users, NEW old, NEW st \in LedgerState,
         Advances(txs, m - 1, u, old, st.nonce[u]), Verdict(st, txs[m]) = "ok"
  PROVE  Advances(txs, m, u, old, Apply(st, txs[m]).nonce[u])
<1>1. PICK tx \in Txs : tx = txs[m]
  OBVIOUS
<1>2. PICK now \in Nat : now = st.nonce[u]
  BY DEF LedgerState
<1>n. PICK new : new = Apply(st, tx).nonce[u]
  OBVIOUS
<1>3. /\ tx.from \in Users /\ tx.nonce \in Nat /\ st.nonce[tx.from] = tx.nonce
      /\ st.nonce \in [Users -> Nat]
  BY <1>1, TxType, VerdictOk DEF LedgerState
<1>4. new = IF tx.from = u THEN now + 1 ELSE now
  BY <1>2, <1>3, <1>n DEF Apply
<1>5. tx.from = u => tx.nonce = now
  BY <1>2, <1>3
<1>6. Advances(txs, m - 1, u, old, now) /\ old \in Nat /\ old <= now
  BY <1>2 DEF Advances
<1>7. \A j \in 1..m : txs[j] \in Txs /\ txs[j].nonce \in Nat
  BY TxType
<1>8. \A j \in 1..m : j = m \/ j \in 1..(m - 1)
  OBVIOUS
<1>9. ASSUME NEW j \in 1..m, txs[j].from = u PROVE old <= txs[j].nonce /\ txs[j].nonce < new
  <2>1. CASE j = m
    BY <1>1, <1>4, <1>5, <1>6, <1>9, <2>1
  <2>2. CASE j # m
    BY <1>4, <1>6, <1>7, <1>8, <1>9, <2>2 DEF Advances
  <2> QED BY <2>1, <2>2
<1>10. ASSUME NEW i \in 1..m, NEW j \in 1..m, i < j, txs[i].from = u, txs[j].from = u
       PROVE  txs[i].nonce < txs[j].nonce
  <2>1. i \in 1..(m - 1)
    BY <1>10
  <2>2. CASE j = m
    BY <1>1, <1>5, <1>6, <1>10, <2>1, <2>2 DEF Advances
  <2>3. CASE j # m
    BY <1>6, <1>8, <1>10, <2>1, <2>3 DEF Advances
  <2> QED BY <2>2, <2>3
<1>11. ASSUME NEW k \in old..(new - 1) PROVE \E j \in 1..m : txs[j].from = u /\ txs[j].nonce = k
  <2>1. CASE k = now
    <3>1. tx.from = u
      BY <1>4, <1>6, <2>1
    <3> QED BY <1>1, <1>5, <2>1, <3>1
  <2>2. CASE k # now
    <3>1. k \in old..(now - 1)
      BY <1>4, <1>6, <2>2
    <3>2. PICK j \in 1..(m - 1) : txs[j].from = u /\ txs[j].nonce = k
      BY <1>6, <3>1 DEF Advances
    <3> QED BY <3>2
  <2> QED BY <2>1, <2>2
<1>12. new \in Nat /\ old <= new
  BY <1>4, <1>6
<1>13. Advances(txs, m, u, old, new)
  BY <1>6, <1>9, <1>10, <1>11, <1>12 DEF Advances
<1> QED BY <1>1, <1>n, <1>13

LEMMA ExecuteAdvances ==
  ASSUME NEW st \in LedgerState, NEW txs \in Seq(Txs), Execute(st, txs).ok, NEW u \in Users
  PROVE  Advances(txs, Len(txs), u, st.nonce[u], Execute(st, txs).st.nonce[u])
<1>1. PICK run : IsRun(run, st, txs) /\ Execute(st, txs) = run[Len(txs)]
  BY ExecuteUnfold
<1>0. Len(txs) \in Nat /\ st.nonce[u] \in Nat /\ \A m \in 0..Len(txs) : run[m] \in Result
  <2>1. Len(txs) \in Nat
    OBVIOUS
  <2>2. st.nonce[u] \in Nat
    BY DEF LedgerState
  <2>3. \A m \in 0..Len(txs) : run[m] \in Result
    BY <1>1 DEF IsRun
  <2> QED BY <2>1, <2>2, <2>3
<1> DEFINE Good(m) == run[m].ok => Advances(txs, m, u, st.nonce[u], run[m].st.nonce[u])
           T == {m \in 0..Len(txs) : Good(m)}
<1>2. 0 \in T
  <2>1. run[0].st = st
    BY <1>1 DEF IsRun, Begun
  <2>2. Advances(txs, 0, u, st.nonce[u], st.nonce[u])
    BY <1>0 DEF Advances
  <2>3. Good(0)
    BY <2>1, <2>2
  <2> HIDE DEF Good
  <2> QED BY <1>0, <2>3
<1>3. ASSUME NEW m \in 1..Len(txs), m - 1 \in T PROVE m \in T
  <2>1. PICK r \in Result, tx \in Txs : r = run[m - 1] /\ tx = txs[m]
    BY <1>0
  <2>2. run[m] = ExecuteOne(r, tx) /\ r.st \in LedgerState
    BY <1>1, <2>1 DEF IsRun, Result
  <2>3. ASSUME run[m].ok PROVE Advances(txs, m, u, st.nonce[u], run[m].st.nonce[u])
    <3>1. r.ok /\ Verdict(r.st, tx) = "ok" /\ run[m].st = Apply(r.st, tx)
      BY <2>2, <2>3 DEF ExecuteOne, Result
    <3>2. Advances(txs, m - 1, u, st.nonce[u], r.st.nonce[u])
      BY <1>3, <2>1, <3>1
    <3> QED BY <2>1, <2>2, <3>1, <3>2, AdvancesOne
  <2>4. Good(m)
    BY <2>3
  <2> HIDE DEF Good
  <2> QED BY <1>0, <2>4
<1>4. \A m \in 0..Len(txs) : m \in T
  <2> HIDE DEF T
  <2> QED BY <1>0, <1>2, <1>3, IntervalInduction
<1>5. Len(txs) \in T
  BY <1>0, <1>4
<1> QED BY <1>1, <1>5

(* The nonces of u in the first m blocks. *)
Upto(bs, u, m) == {p \in Places(bs, u) : p[1] <= m}

OrderedUpto(bs, u, m, next) ==
  /\ next \in Nat
  /\ \A p \in Upto(bs, u, m) : NonceAt(bs, p) < next
  /\ \A p, q \in Upto(bs, u, m) : Earlier(p, q) => NonceAt(bs, p) < NonceAt(bs, q)
  /\ \A k \in 0..(next - 1) : \E p \in Upto(bs, u, m) : NonceAt(bs, p) = k

LEMMA OrderGrows ==
  ASSUME NEW bs \in Seq(Block), NEW m \in 1..Len(bs), NEW u \in Users, NEW old, NEW new,
         OrderedUpto(bs, u, m - 1, old), Len(bs[m].txs) \in 1..MaxBlockTxs,
         Advances(bs[m].txs, Len(bs[m].txs), u, old, new)
  PROVE  OrderedUpto(bs, u, m, new)
<1>0. \A i \in 1..Len(bs) : bs[i].txs \in Seq(Txs)
  <2>1. ASSUME NEW i \in 1..Len(bs) PROVE bs[i].txs \in Seq(Txs)
    <3>1. PICK b \in Block : b = bs[i]
      OBVIOUS
    <3> QED BY <3>1 DEF Block
  <2> QED BY <2>1
<1>1. PICK txs \in Seq(Txs) : txs = bs[m].txs
  BY <1>0
<1>2. /\ old \in Nat /\ new \in Nat /\ old <= new /\ m \in Nat /\ DOMAIN bs = 1..Len(bs)
      /\ DOMAIN txs = 1..Len(txs) /\ Len(txs) \in Nat /\ MaxBlockTxs \in Nat
  BY ChainAssumption DEF Advances
<1>3. ASSUME NEW p \in Upto(bs, u, m)
      PROVE  /\ p[1] \in 1..Len(bs) /\ p[1] <= m /\ p[2] \in Nat /\ NonceAt(bs, p) \in Nat
             /\ p[1] # m => p \in Upto(bs, u, m - 1) /\ NonceAt(bs, p) < old
             /\ p[1] = m => /\ p[2] \in 1..Len(txs) /\ txs[p[2]].from = u
                            /\ NonceAt(bs, p) = txs[p[2]].nonce
                            /\ old <= NonceAt(bs, p) /\ NonceAt(bs, p) < new
  <2>1. /\ p \in (DOMAIN bs) \X (1..MaxBlockTxs) /\ p[1] <= m /\ p \in Places(bs, u)
        /\ p[2] \in DOMAIN bs[p[1]].txs /\ bs[p[1]].txs[p[2]].from = u
    BY DEF Upto, Places
  <2>2. p[1] \in 1..Len(bs) /\ p[2] \in Nat
    BY <1>2, <2>1
  <2>3. bs[p[1]].txs \in Seq(Txs)
    BY <1>0, <2>2
  <2>4. bs[p[1]].txs[p[2]] \in Txs
    BY <2>1, <2>3
  <2>5. NonceAt(bs, p) \in Nat
    BY <2>4, TxType DEF NonceAt
  <2>6. p[1] # m => p \in Upto(bs, u, m - 1) /\ NonceAt(bs, p) < old
    <3> SUFFICES ASSUME p[1] # m PROVE p \in Upto(bs, u, m - 1) /\ NonceAt(bs, p) < old
      OBVIOUS
    <3>1. p[1] <= m - 1
      BY <1>2, <2>1, <2>2
    <3>2. p \in Upto(bs, u, m - 1)
      BY <2>1, <3>1 DEF Upto
    <3> QED BY <3>2 DEF OrderedUpto
  <2>7. p[1] = m => /\ p[2] \in 1..Len(txs) /\ txs[p[2]].from = u
                    /\ NonceAt(bs, p) = txs[p[2]].nonce
                    /\ old <= NonceAt(bs, p) /\ NonceAt(bs, p) < new
    <3> SUFFICES ASSUME p[1] = m
                 PROVE  /\ p[2] \in 1..Len(txs) /\ txs[p[2]].from = u
                        /\ NonceAt(bs, p) = txs[p[2]].nonce
                        /\ old <= NonceAt(bs, p) /\ NonceAt(bs, p) < new
      OBVIOUS
    <3>1. p[2] \in 1..Len(txs) /\ txs[p[2]].from = u /\ NonceAt(bs, p) = txs[p[2]].nonce
      BY <1>1, <1>2, <2>1 DEF NonceAt
    <3> QED BY <1>1, <3>1 DEF Advances
  <2> QED BY <2>1, <2>2, <2>5, <2>6, <2>7
<1>4. \A p \in Upto(bs, u, m) : NonceAt(bs, p) < new
  <2>1. ASSUME NEW p \in Upto(bs, u, m) PROVE NonceAt(bs, p) < new
    <3>1. CASE p[1] = m
      BY <1>3, <3>1
    <3>2. CASE p[1] # m
      BY <1>2, <1>3, <3>2
    <3> QED BY <3>1, <3>2
  <2> QED BY <2>1
<1>5. ASSUME NEW p \in Upto(bs, u, m), NEW q \in Upto(bs, u, m), Earlier(p, q)
      PROVE  NonceAt(bs, p) < NonceAt(bs, q)
  <2>0. p[1] \in Nat /\ q[1] \in Nat /\ p[1] <= m /\ q[1] <= m
    BY <1>3
  <2>1. CASE p[1] = m /\ q[1] = m
    <3>1. p[2] < q[2]
      BY <1>5, <2>0, <2>1 DEF Earlier
    <3>2. /\ p[2] \in 1..Len(txs) /\ txs[p[2]].from = u /\ NonceAt(bs, p) = txs[p[2]].nonce
          /\ q[2] \in 1..Len(txs) /\ txs[q[2]].from = u /\ NonceAt(bs, q) = txs[q[2]].nonce
      BY <1>3, <2>1
    <3>3. txs[p[2]].nonce < txs[q[2]].nonce
      BY <1>1, <3>1, <3>2 DEF Advances
    <3> QED BY <3>2, <3>3
  <2>2. CASE p[1] = m /\ q[1] # m
    BY <1>2, <1>5, <2>0, <2>2 DEF Earlier
  <2>3. CASE p[1] # m /\ q[1] = m
    <3>1. NonceAt(bs, p) < old /\ old <= NonceAt(bs, q) /\ NonceAt(bs, p) \in Nat /\ NonceAt(bs, q) \in Nat
      BY <1>3, <2>3
    <3> QED BY <1>2, <3>1
  <2>4. CASE p[1] # m /\ q[1] # m
    <3>1. p \in Upto(bs, u, m - 1) /\ q \in Upto(bs, u, m - 1)
      BY <1>3, <2>4
    <3> QED BY <1>5, <3>1 DEF OrderedUpto
  <2> QED BY <2>1, <2>2, <2>3, <2>4
<1>6. ASSUME NEW k \in 0..(new - 1) PROVE \E p \in Upto(bs, u, m) : NonceAt(bs, p) = k
  <2>1. CASE k < old
    <3>1. PICK p \in Upto(bs, u, m - 1) : NonceAt(bs, p) = k
      BY <1>2, <2>1 DEF OrderedUpto
    <3>2. p \in Places(bs, u) /\ p[1] <= m - 1 /\ p[1] \in 1..Len(bs)
      BY <1>2 DEF Upto, Places
    <3>3. p \in Upto(bs, u, m)
      BY <1>2, <3>2 DEF Upto
    <3> QED BY <3>1, <3>3
  <2>2. CASE ~(k < old)
    <3>1. k \in old..(new - 1)
      BY <1>2, <2>2
    <3>2. PICK j \in 1..Len(txs) : txs[j].from = u /\ txs[j].nonce = k
      BY <1>1, <3>1 DEF Advances
    <3>3. PICK p : p = <<m, j>>
      OBVIOUS
    <3>4. p[1] = m /\ p[2] = j /\ j \in 1..MaxBlockTxs /\ p \in (DOMAIN bs) \X (1..MaxBlockTxs)
      BY <1>1, <1>2, <3>3
    <3>5. p \in Places(bs, u)
      BY <1>1, <1>2, <3>2, <3>4 DEF Places
    <3>6. p \in Upto(bs, u, m) /\ NonceAt(bs, p) = k
      BY <1>1, <1>2, <3>2, <3>4, <3>5 DEF Upto, NonceAt
    <3> QED BY <3>6
  <2> QED BY <2>1, <2>2
<1> QED BY <1>2, <1>4, <1>5, <1>6 DEF OrderedUpto

(* In every chain a sender's transactions are in the order of their        *)
(* nonces, each nonce once, up to the one the state expects next.          *)
LEMMA ChainIsOrdered ==
  ASSUME NEW bs \in Seq(Block), IsChain(bs), NEW u \in Users
  PROVE  NoncesInOrder(bs, u, StateAt(bs, Len(bs)).nonce[u])
<1>0. Len(bs) \in Nat /\ DOMAIN bs = 1..Len(bs) /\ \A i \in 1..Len(bs) : bs[i] \in Block
  OBVIOUS
<1> DEFINE T == {m \in 0..Len(bs) : OrderedUpto(bs, u, m, StateAt(bs, m).nonce[u])}
<1>1. 0 \in T
  <2>1. StateAt(bs, 0).nonce[u] = 0
    BY DEF StateAt, GenesisState
  <2>2. Upto(bs, u, 0) = {}
    BY <1>0 DEF Upto, Places
  <2>3. OrderedUpto(bs, u, 0, 0)
    BY <2>2 DEF OrderedUpto
  <2> QED BY <1>0, <2>1, <2>3
<1>2. ASSUME NEW m \in 1..Len(bs), m - 1 \in T PROVE m \in T
  <2>1. PICK st \in LedgerState, b \in Block : st = StateAt(bs, m - 1) /\ b = bs[m]
    BY <1>0, StateAtType
  <2>2. Verify(SubSeq(bs, 1, m - 1), st, b)
    BY <1>0, <2>1 DEF IsChain
  <2>3. PICK txs \in Seq(Txs) : txs = b.txs
    BY DEF Block
  <2>4. /\ Len(txs) \in 1..MaxBlockTxs /\ Execute(st, txs).ok /\ Execute(st, txs).st = b.root
    BY <2>2, <2>3 DEF Verify
  <2>5. Advances(txs, Len(txs), u, st.nonce[u], b.root.nonce[u])
    BY <2>4, ExecuteAdvances
  <2>6. b.root = StateAt(bs, m)
    BY <1>0, <2>1 DEF StateAt
  <2>7. OrderedUpto(bs, u, m, StateAt(bs, m).nonce[u])
    BY <1>0, <1>2, <2>1, <2>3, <2>4, <2>5, <2>6, OrderGrows
  <2> QED BY <1>0, <2>7
<1>3. \A m \in 0..Len(bs) : m \in T
  <2> HIDE DEF T
  <2> QED BY <1>0, <1>1, <1>2, IntervalInduction
<1>4. OrderedUpto(bs, u, Len(bs), StateAt(bs, Len(bs)).nonce[u])
  BY <1>0, <1>3
<1>5. Upto(bs, u, Len(bs)) = Places(bs, u)
  BY <1>0 DEF Upto, Places
<1> QED BY <1>4, <1>5 DEF OrderedUpto, NoncesInOrder

-----------------------------------------------------------------------------
LEMMA InvImplies == ChainInv => ExactlyInNonceOrder /\ StateIsReplay /\ ServedIsDurable /\ LogSurvivesCrashes
<1> SUFFICES ASSUME ChainInv
             PROVE  ExactlyInNonceOrder /\ StateIsReplay /\ ServedIsDurable /\ LogSurvivesCrashes
  OBVIOUS
<1>1. NodesOK /\ ReplicasFollow
  BY InvByNode
<1>2. ASSUME NEW n \in Nodes \ failed, up[n]
      PROVE  /\ IsChain(blocks[n]) /\ blocks[n] \in Seq(Block)
             /\ state[n] = StateAt(blocks[n], Len(blocks[n]))
  BY <1>1, <1>2, ServedIsLogged, NodeTypes DEF Kept
<1>3. ExactlyInNonceOrder
  <2>1. ASSUME NEW n \in Nodes \ failed, up[n], NEW u \in Users
        PROVE  NoncesInOrder(blocks[n], u, state[n].nonce[u])
    BY <1>2, <2>1, ChainIsOrdered
  <2> QED BY <2>1 DEF ExactlyInNonceOrder
<1>4. StateIsReplay
  <2>1. ASSUME NEW n \in Nodes \ failed, up[n]
        PROVE  Replay(blocks[n], NoSnapshot) = [ok |-> TRUE, blocks |-> blocks[n], st |-> state[n]]
    <3>1. NoSnapshot \in Snapshot /\ Covers(NoSnapshot, blocks[n])
      BY GenesisType DEF NoSnapshot, Snapshot, Covers
    <3> QED BY <1>2, <2>1, <3>1, ChainReplays
  <2>2. ASSUME NEW n \in Nodes \ failed, up[n]
        PROVE  /\ Replay(blocks[n], NoSnapshot).ok /\ Replay(blocks[n], NoSnapshot).blocks = blocks[n]
               /\ Replay(blocks[n], NoSnapshot).st = state[n]
    <3>1. PICK bs, st, run : bs = blocks[n] /\ st = state[n] /\ run = Replay(blocks[n], NoSnapshot)
      OBVIOUS
    <3>2. run = [ok |-> TRUE, blocks |-> bs, st |-> st]
      BY <2>1, <2>2, <3>1
    <3>3. run.ok /\ run.blocks = bs /\ run.st = st
      BY <3>2
    <3> QED BY <3>1, <3>3
  <2> QED BY <2>2 DEF StateIsReplay
<1>5. ServedIsDurable
  <2>1. ASSUME Producer \notin failed, NEW n \in Nodes \ failed PROVE Follows(blocks[n], 0, Durable)
    <3>1. CASE ~up[n]
      <4>1. blocks[n] = <<>>
        BY <3>1 DEF ChainInv, NothingInMemory
      <4> QED BY <4>1 DEF Follows
    <3>2. CASE up[n]
      <4>1. /\ Stored(log[n]) = log[n] /\ blocks[n] = BlocksIn(log[n]) /\ Follows(blocks[n], 0, log[n])
        BY <1>1, <3>2, ServedIsLogged
      <4>2. CASE n = Producer
        BY <4>1, <4>2 DEF Durable
      <4>3. CASE n # Producer
        BY <1>1, <2>1, <4>1, <4>3 DEF ReplicasFollow, Nodes
      <4> QED BY <4>2, <4>3
    <3> QED BY <3>1, <3>2
  <2> QED BY <2>1 DEF ServedIsDurable
<1>6. LogSurvivesCrashes
  BY <1>1, OpenedIs DEF OpensTo, LogSurvivesCrashes
<1> QED BY <1>3, <1>4, <1>5, <1>6

(* Memory and disk of the producer and of every replica agree in every     *)
(* reachable state, whichever submissions, blocks, crashes and restarts    *)
(* led there, and mempools stay within their limit and usable              *)
(* (chain.go, store.go, snapshot.go).                                      *)
THEOREM ChainKeepsInStep == ChainSpec => []ChainInv
BY ChainStarts, ChainStep, PTL DEF ChainSpec

(* A sender's transactions are executed in the order of their nonces, none *)
(* twice and none left out, for any mempool and block limits: the check of *)
(* apply makes it true of each block, verify and append of the whole chain. *)
THEOREM ChainOrdersNonces == ChainSpec => []ExactlyInNonceOrder
BY ChainStarts, ChainStep, InvImplies, PTL DEF ChainSpec

(* What a node has in memory is what replaying its blocks from genesis     *)
(* gives, wherever Open started from a snapshot.                           *)
THEOREM ChainStateIsReplay == ChainSpec => []StateIsReplay
BY ChainStarts, ChainStep, InvImplies, PTL DEF ChainSpec

(* A block that any node serves survives a crash of the producer: commit   *)
(* comes after append, and replicas only ask the producer.                 *)
THEOREM ChainServesDurable == ChainSpec => []ServedIsDurable
BY ChainStarts, ChainStep, InvImplies, PTL DEF ChainSpec

(* Open succeeds on whatever a crash left behind.                          *)
THEOREM ChainReopens == ChainSpec => []LogSurvivesCrashes
BY ChainStarts, ChainStep, InvImplies, PTL DEF ChainSpec
=============================================================================
