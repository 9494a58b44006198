SPECIFICATION ChainFairSpec
CONSTANTS
  Replicas = {1}
  Users = {1, 2}
  Txs <- MCTxs
  ProxyTxs <- MCProxyTxs
  GenesisBal <- MCGenesisBal
  MaxBlockTxs = 2
  MaxMempoolTxs = 2
  MaxNonceAhead = 2
  SnapshotEvery = 2
  FetchLimit = 1
  MaxFaults = 2
INVARIANTS ChainInv ExactlyInNonceOrder StateIsReplay ServedIsDurable LogSurvivesCrashes
PROPERTY ReplicasCatchUp
CHECK_DEADLOCK FALSE
