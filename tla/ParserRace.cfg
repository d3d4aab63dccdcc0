SPECIFICATION Spec
CONSTANTS
  Threads = {t1, t2}
  Content <- TwoStreams
  BLOCK = 2
  NULL = NULL
INVARIANT
  ParsesExclude
