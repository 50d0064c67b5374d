CONSTANTS
  Peers = {p1, p2}
  Codes = {c1, c2}
  Operator = operator
  UseLimits = {1}
  None = None
  Groups = {}
  Secrets = {}
  Handlers = {h1, h2}
  NoFile = NoFile
  Empty = Empty
  Torn = Torn
  SeedCode = c1
  SeedUses = 1
  AllowBootstrap = TRUE
  DecayStep = 1
  DiskMayFail = TRUE
  Ops = {"join", "create"}
  MaxRequests = 3
  MaxCrashes = 1
SYMMETRY Symmetry
SPECIFICATION Spec
INVARIANTS
  TypeOK
  
  SeatAccounting
  Traceable
  DiskBehindMemory
PROPERTY
  FollowsLedger
CHECK_DEADLOCK FALSE
