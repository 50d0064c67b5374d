CONSTANTS
  Nodes = {e1, e2, self}
  Self = self
  TrustWeight = 1
  LatencyWeight = 1
  low = low
  high = high
  coordinator = coordinator
  Halves <- MCHalves
  Excludes <- MCExcludes
  Handlers = {h1, h2}
  Main = Main
  Ticker = Ticker
  None = None
  MaxRequests = 2
SPECIFICATION Spec
INVARIANTS
  ScopeRespected
  SelectionAgrees
  RoutesRestored
PROPERTIES
  Converges
  Unlisted
CHECK_DEADLOCK FALSE
