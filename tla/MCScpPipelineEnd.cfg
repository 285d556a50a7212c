SPECIFICATION FairSpec
CONSTANTS
  Slots = 2
  RecvSlots = 3
  MaxWc = 2
  MaxChunks = 1
  MaxNodes = 1
  Faults = {}
PROPERTY
  SenderEnds
\* Both programs end, and the sender may wait for ever for a lost ACK.
CHECK_DEADLOCK FALSE
