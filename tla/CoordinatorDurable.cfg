CONSTANTS
  Peers = {p1, p2}
  Codes = {c1, c2}
  Operator = operator
  UseLimits = {1}
  None = None
  Groups = {g1}
  Secrets = {k1,k2}
  Handlers = {h1}
  NoFile = NoFile
  Empty = Empty
  Torn = Torn
  SeedCode = c1
  SeedUses = 1
  AllowBootstrap = TRUE
  DecayStep = 1
  DiskMayFail = FALSE
  Ops = {"join", "create", "group", "endorse"}
  MaxRequests = 5
  MaxCrashes = 2
SPECIFICATION Spec
INVARIANTS
  AckedIsDurable
  FileLoads
  FoundedOnce
CHECK_DEADLOCK FALSE
