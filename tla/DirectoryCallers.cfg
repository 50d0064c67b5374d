CONSTANTS
  Callers = {h1, h2}
  e1 = e1
  e2 = e2
  e3 = e3
  Endpoints = {e1, e2}
  Configured <- MCOneAddress
  Lists <- MCOneList
  None = None
  NoFile = NoFile
  Empty = Empty
  Torn = Torn
  DiskMayFail = TRUE
  MaxSerial = 2
  MaxLists = 1
  MaxRestarts = 1
SYMMETRY Symmetry
SPECIFICATION Spec
INVARIANTS
  NoRollback
PROPERTIES
  FloorsRise
