SPECIFICATION BackendFairSpec
CONSTANTS
  w1 = w1
  w2 = w2
  w3 = w3
  admin = admin
  Drafts = {d1}
  Wallets = {w1, w2, w3}
  Options = {o1}
  Slots = {2}
  Pools = {p1}
  MaxPast = 2
  People = {w1, w2, w3}
  Applicants = {w3}
  Admins <- MCAdmins
  Deals = {e1}
  Requests = {q1, q2}
  MaxMoves = 1
  Devices = {x1, x2}
  MaxSubs = 1
  Roles = {"buyer", "seller"}
  Topics = {"money", "circle", "escrow"}
  Counts = {1}
  Seat = 1
  MaxTxs = 2
  MaxRounds = 1
  MaxMonths = 1
  MaxFaults = 1
  Route <- MCRoute
  MaxUpdates = 3
  MaxCrashes = 1
  Burst = 2
  PerToken = 2
  SweepEvery = 3
  Cooldown = 2
  Handlers = {h1, h2}
  MaxClock = 7
  MaxSlips = 1
INVARIANTS CircleHasJoinedMembers ReviewsAreBought AnnouncedOnce RequestsAreLimited 
PROPERTIES PaymentIsAnnounced 
CHECK_DEADLOCK FALSE
