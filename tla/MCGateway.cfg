SPECIFICATION GatewayFairSpec
CONSTANTS
  Deposits = {1}
  Withdrawals = {3}
  FaultSets <- MCFaultSets
  MaxCrashes = 1
  MaxMints = 2
INVARIANTS GatewayInv MintsAtMostOnce NeverPaidAndRefunded ReserveCoversSupply
PROPERTIES PaidIsMinted BurnedIsSettled
CHECK_DEADLOCK FALSE
