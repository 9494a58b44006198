SPECIFICATION PoolSpec
CONSTANTS
  NumAccounts = 3
  Modulus = 32
  Issuer = 0
  MinFee = 0
  Fees = {0}
  FreeFees = {0}
  Amounts = {1, 2}
  Genesis <- MCGenesis
  MaxTime = 3
  NumSeats = 3
  Offers <- MCOffers
  BpsBase = 3
INVARIANTS PoolInv EveryoneCollectsOnce
PROPERTY DepositsPayOwnDefaults
CHECK_DEADLOCK FALSE
