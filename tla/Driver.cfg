SPECIFICATION Spec
CONSTANTS
  CommandLines <- SmallCommandLines
  Content <- Texts
  LongNames <- Long
  BLOCK = 2
  NULL = NULL
INVARIANTS TypeOK ArgumentsHonoured OwnDefinitions OutputsAreWhole
PROPERTY DriverEnds
