SPECIFICATION Spec
CONSTANTS
  Values = {a, b}
  Buffers = {b1, b2, b3}
  NULL = NULL
  JUNK = JUNK
  SUCCESS = SUCCESS
  NOMEM = NOMEM
  VOID = VOID
  MIN_SIZE = 2
  MAX_COUNT = 5
SYMMETRY BufferSymmetry
INVARIANTS
  TypeOK
  ElementsFit
  OneOwner
PROPERTIES
  NoThrashing
  IsSequence
