SPECIFICATION FairSpec
CONSTANTS
  a = a
  b = b
  Name = {a, b}
  NoFd = NoFd
  Jobs <- MCJobs
  Window = 2
  ChunkSize = 2
  NameLen = 3
  LinkLimit = 2
  MaxFaults = 1
INVARIANTS
  TypeOK
  NoMixture
  CopyFaithful
  DepthBounded
PROPERTIES
  OnlyAnnounced
  TransferEnds
\* Every transfer ends.
CHECK_DEADLOCK FALSE
