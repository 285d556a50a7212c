SPECIFICATION FairSpec
CONSTANTS
  c1 = c1
  c2 = c2
  s = s
  Clients = {c1, c2}
  Server = s
  Nobody = Nobody
  LenSize = 2
  ConSize = 1
  Lid <- MCLid
  GidIdx <- MCGidIdx
  MaxFaults = 1
INVARIANTS
  TypeOK
  MessagesInFrame
  PacketsFindReceive
  StartsPipeline
  CleanTearDown
PROPERTY
  SetUpEnds
\* Every program ends.
CHECK_DEADLOCK FALSE
