SPECIFICATION ChainSpec
CONSTANTS
  Replicas = {1}
  Users = {1, 2}
  Txs <- MCTxs3
  ProxyTxs <- MCProxyTxs
  GenesisBal <- MCGenesisBal
  MaxBlockTxs = 2
  MaxMempoolTxs = 3
  MaxNonceAhead = 2
  SnapshotEvery = 2
  FetchLimit = 2
  MaxFaults = 1
INVARIANT LogCanBeOpened
CHECK_DEADLOCK FALSE
