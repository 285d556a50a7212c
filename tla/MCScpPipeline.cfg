SPECIFICATION Spec
CONSTANTS
  Slots = 2
  RecvSlots = 3
  MaxWc = 2
  MaxChunks = 3
  MaxNodes = 1
  Faults = {"call", "link"}
INVARIANTS
  TypeOK
  SlotAccounting
  ProcessesWhatWasAnnounced
  NoRNR
  CdcBuffersIntact
  AckRingNotOverrun
  LocalSlotStable
  BlockedOnlyWhenFull
  CreditsAccurate
  NeverBothWait
PROPERTIES
  OverwriteOnlyAcked
  ImplementsChannel
\* Both programs end, and the sender may wait for ever for a lost ACK.
CHECK_DEADLOCK FALSE
