SPECIFICATION RecoverySpec
CONSTANTS
  NumAccounts = 3
  Modulus = 8
  Issuer = 0
  MinFee = 0
  Fees = {0}
  FreeFees = {0}
  Amounts = {}
  Genesis <- MCGenesis
  MaxTime = 2
  GuardianSets <- MCGuardianSets
  Delays = {1}
  MaxRecoveries = 2
  MaxEscrows = 1
  Plans <- MCPlans
  ShipBys = {1}
  Reviews = {1}
  BpsBase = 2
  Rates = {1}
  Circles <- MCCircles
INVARIANT RecoveryInv
PROPERTIES RecoveryKeepsFaith RolesMoveByRecovery
CHECK_DEADLOCK FALSE
