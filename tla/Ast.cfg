SPECIFICATION Spec
CONSTANTS
  Programs <- AllPrograms
  MIN_SIZE = 2
  MAX_CALLS = 2
  MAX_ARRAYS = 1
INVARIANTS
  TypeOK
  SingleOwner
  NoOrphans
  SafeUnlessKnown
CHECK_DEADLOCK FALSE
