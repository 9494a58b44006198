SPECIFICATION AccountsSpec
CONSTANTS
  NumAccounts = 3
  Modulus = 16
  Issuer = 1
  MinFee = 1
  Fees = {0, 1, 2}
  FreeFees = {0}
  Amounts = {1, 5, 15}
  Genesis <- MCEmpty
  MaxTime = 1
INVARIANT AccountsInv
CHECK_DEADLOCK FALSE
