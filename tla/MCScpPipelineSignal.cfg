SPECIFICATION Spec
CONSTANTS
  Slots = 2
  RecvSlots = 3
  MaxWc = 2
  MaxChunks = 2
  MaxNodes = 2
  Faults = {}
INVARIANT
  SignalAfterWrite
\* Both programs end, and the sender may wait for ever for a lost ACK.
CHECK_DEADLOCK FALSE
