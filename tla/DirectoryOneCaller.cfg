CONSTANTS
  Callers = {h1}
  e1 = e1
  e2 = e2
  e3 = e3
  Endpoints = {e1, e2, e3}
  Configured <- MCConfigured
  Lists <- MCLists
  None = None
  NoFile = NoFile
  Empty = Empty
  Torn = Torn
  DiskMayFail = FALSE
  MaxSerial = 2
  MaxLists = 2
  MaxRestarts = 0
SPECIFICATION FairSpec
INVARIANTS
  TypeOK
  NewestKept
PROPERTIES
  CallsReturn
