CONSTANTS
  k1 = k1
  k2 = k2
  s1 = s1
  s2 = s2
  p1 = p1
  p2 = p2
  proxy1 = proxy1
  proxy2 = proxy2
  Callers = {k1, k2}
  Origin <- MCOrigin
  Hops <- MCHops
  Claimed <- MCClaimed
  Trusted = {proxy1, proxy2}
  Sources = {s1, s2}
  Identities = {p1, p2}
  Burst = 2
  Rate = 1
  Cost = 2
  IdleTime = 0
  FullMap = 2
  Window = 2
  Threshold = 2
  Tries = 2
  PerSecond = 2
  Drift <- MCDrift
  Skew = 3
  Ttl = 1
  None = None
  MaxTime = 4
  MaxCalls = 2
  MaxRestarts = 1
SPECIFICATION Spec
INVARIANTS
  TypeOK
  
  SourcesBounded
  RefusedForOwnUse
  ListedWasAlive
CHECK_DEADLOCK FALSE
