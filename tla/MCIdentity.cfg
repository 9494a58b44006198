SPECIFICATION IdentitySpec
CONSTANTS
  Addrs = {a1, a2}
  Names = {n1, n2}
  Numbers = {p1, p2}
  Codes = {k1, k2}
  Clients = {c1, c2}
  Scenarios <- MCScenarios
  MaxTries = 1
  MaxSends = 1
  MaxFails = 2
  MaxRestarts = 1
  MaxUnsaved = 1
INVARIANTS IdentityInv GuessesAreLimited
PROPERTY IdentityMovesByRecovery
SYMMETRY MCSymmetry
CHECK_DEADLOCK FALSE
