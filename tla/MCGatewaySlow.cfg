SPECIFICATION GatewaySpec
CONSTANTS
  Deposits = {1}
  Withdrawals = {}
  FaultSets <- MCSlowNode
  MaxCrashes = 1
  MaxMints = 2
INVARIANT MintsExactlyOnce
CHECK_DEADLOCK FALSE
