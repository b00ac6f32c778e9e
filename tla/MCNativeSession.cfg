SPECIFICATION FairSpec
CHECK_DEADLOCK FALSE
CONSTANTS
  PlainReaders = {p1}
  CipherReaders = {c1}
  Writers = {w1}
  QueueLimit = 2
  MaxTransfers = 3
  MaxWrites = 1
  MaxChunks = 2
  MaxNow = 1
INVARIANTS
  NothingMissed
  EndsOnce
PROPERTIES
  ImplementsSecureStream
  OperationsReturn
