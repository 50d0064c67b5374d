CONSTANTS
  Conns = {c1}
  Senders = {s1, s2}
  Exits = {e1, e2}
  None = None
  MaxSwitches = 3
SPECIFICATION Spec
INVARIANTS
  
  FreshExit

  
CHECK_DEADLOCK FALSE
