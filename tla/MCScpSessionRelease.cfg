SPECIFICATION Spec
CONSTANTS
  c1 = c1
  c2 = c2
  s = s
  Clients = {c1}
  Server = s
  Nobody = Nobody
  LenSize = 2
  ConSize = 2
  Lid <- MCLid
  GidIdx <- MCGidIdx
  MaxFaults = 1
INVARIANT
  ReleasedOnce
\* Every program ends.
CHECK_DEADLOCK FALSE
