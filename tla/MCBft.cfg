SPECIFICATION BftFairSpec
CONSTANTS
  Validators = {v1, v2}
  Users = {1}
  Txs <- MCTxs
  Malformed = Malformed
  ApiNodes = {v1}
  Handlers = {1}
  Times = {0, 3}
  Clocks = {0}
  GenesisTime = 1
  MaxBlockTxs = 1
  MaxMempoolTxs = 1
  MaxNonceAhead = 2
  Proposals <- MCProposals
  MaxHeight = 2
  MaxFaults = 1
INVARIANTS ValidatorsAgree BftInv PendingIsShared
PROPERTIES BlocksReachEveryNode
CHECK_DEADLOCK FALSE
