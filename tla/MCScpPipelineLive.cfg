SPECIFICATION FairSpec
CONSTANTS
  Slots = 2
  RecvSlots = 3
  MaxWc = 2
  MaxChunks = 3
  MaxNodes = 1
  Faults = {}
PROPERTIES
  ReceiverFinishes
  WaitsEnd
\* Both programs end, and the sender may wait for ever for a lost ACK.
CHECK_DEADLOCK FALSE
