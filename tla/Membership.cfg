CONSTANTS
  d1 = d1
  d2 = d2
  p1 = p1
  online = online
  offline = offline
  Devices = {d1, d2}
  Key <- MCKey
  Issuers = {online, offline}
  Grants <- MCGrants
  Online = online
  Roles = {"member", "exit"}
  Places = {a1, a2}
  Resolvers = {r1, r2}
  None = None
  CertTtl = 3
  RecordTtl = 2
  CheckTtl = 2
  MaxStaleness = 1
  Deadline = 1
  Span = 1
  MaxTime = 2
  MaxSigned = 4
  MaxFetches = 3
SYMMETRY Symmetry
SPECIFICATION Spec
INVARIANTS
  TypeOK
  
  ConflictCaught
  

  
CHECK_DEADLOCK FALSE
