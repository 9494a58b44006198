SPECIFICATION EscrowSpec
CONSTANTS
  NumAccounts = 3
  Modulus = 16
  Issuer = 0
  MinFee = 1
  Fees = {0, 1}
  FreeFees = {0, 1}
  Amounts = {}
  Genesis <- MCGenesis
  MaxTime = 3
  MaxEscrows = 2
  Plans <- MCPlans
  ShipBys = {1}
  Reviews = {1}
  BpsBase = 3
  Rates = {0, 1}
INVARIANT EscrowInv
PROPERTIES DisputeFreezes ImplementsLife
CHECK_DEADLOCK FALSE
