CONSTANTS
  Requesters = {r1, r2}
  MaxConns = 2
  MaxPerRequester = 1
  Burst = 1
  Tunnels = {s1,s2}
  Relays = {u1}
  Targets = {t1}
  Nobody = Nobody
SYMMETRY Symmetry
SPECIFICATION Spec
INVARIANTS
  
  OverdraftBounded
PROPERTIES
  ImplementsPool
