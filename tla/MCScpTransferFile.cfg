SPECIFICATION Spec
CONSTANTS
  a = a
  b = b
  Name = {a, b}
  NoFd = NoFd
  Jobs <- MCJobs
  Window = 2
  ChunkSize = 2
  NameLen = 3
  LinkLimit = 2
  MaxFaults = 1
PROPERTY
  CompleteFileSent
\* Every transfer ends.
CHECK_DEADLOCK FALSE
