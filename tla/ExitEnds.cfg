CONSTANTS
  Requesters = {r1}
  MaxConns = 2
  MaxPerRequester = 2
  Burst = 1
  Tunnels = {s1, s2}
  Relays = {u1}
  Targets = {t1}
  Nobody = Nobody
SPECIFICATION FairSpec
PROPERTIES
  SetupEnds
  BlamedIsCut
  HungIsDrained
