CONSTANTS
  Peers = {p1, p2}
  Codes = {c1}
  Operator = operator
  UseLimits = {1}
  None = None
  Groups = {g1, g2}
  Secrets = {k1, k2}
  Handlers = {h1, h2}
  NoFile = NoFile
  Empty = Empty
  Torn = Torn
  SeedCode = c1
  SeedUses = 1
  AllowBootstrap = FALSE
  DecayStep = 2
  DiskMayFail = FALSE
  Ops = {"join", "group", "endorse", "report", "decay"}
  MaxRequests = 4
  MaxCrashes = 0
SYMMETRY Symmetry
SPECIFICATION Spec
INVARIANTS
  GroupsSound
PROPERTIES
  DecayShrinks
CHECK_DEADLOCK FALSE
