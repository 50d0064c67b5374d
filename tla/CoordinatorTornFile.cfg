CONSTANTS
  Peers = {p1, p2}
  Codes = {c1, c2}
  Operator = operator
  UseLimits = {1}
  None = None
  Groups = {g1}
  Secrets = {k1}
  Handlers = {h1, h2}
  NoFile = NoFile
  Empty = Empty
  Torn = Torn
  SeedCode = None
  SeedUses = 1
  AllowBootstrap = TRUE
  DecayStep = 1
  DiskMayFail = FALSE
  Ops = {"join", "group"}
  MaxRequests = 3
  MaxCrashes = 1
SYMMETRY Symmetry
SPECIFICATION Spec
INVARIANTS
  FileLoads
CHECK_DEADLOCK FALSE
