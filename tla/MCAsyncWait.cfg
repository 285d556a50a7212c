SPECIFICATION FairSpec
CONSTANTS
  CqSize = 4
  MaxWc = 2
  CallsFail = TRUE
INVARIANTS
  TypeOK
  NoLostWakeup
  NoStaleWakeup
  WakeInv
  EventsAcked
PROPERTY
  CallReturns
\* A call that fails ends the program's use of the queue.
CHECK_DEADLOCK FALSE
