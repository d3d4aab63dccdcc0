SPECIFICATION Spec
CONSTANTS
  Threads = {t1, t2}
  Content <- Streams
  BLOCK = 2
  NULL = NULL
INVARIANTS
  TypeOK
  OwnStream
  NothingMissing
PROPERTIES
  EveryCallReturns
