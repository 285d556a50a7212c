SPECIFICATION Spec
CONSTANTS
  Slots = 2
  RecvSlots = 4
  MaxWc = 1
  MaxChunks = 2
  MaxNodes = 3
  Faults = {}
INVARIANT
  IInv
\* Both programs end, and the sender may wait for ever for a lost ACK.
CHECK_DEADLOCK FALSE
