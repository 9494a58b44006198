SPECIFICATION OrdersFairSpec
CONSTANTS
  Invoices = {1}
  Requests = {2}
  Scenarios <- MCScenarios
  Counts = {2}
  HistoryLimit = 1
  MaxTries = 2
  MaxPayments = 2
  MaxCrashes = 1
  MaxResets = 1
INVARIANT OrdersInv
PROPERTIES DeliveredInOrder CoveredIsPaid FundedIsFollowed
CHECK_DEADLOCK FALSE
