SPECIFICATION Spec
CONSTANTS
  one = one
  ten = ten
  eleven = eleven
  five = five
  negative = negative
  Keys <- KeyNames
  Values = {v, w}
  KeyHash <- Hashes
  PrefixPairs <- OneIsPrefix
  MIN_SIZE = 4
  MAX_COUNT = 6
  NULL = NULL
INVARIANTS
  TypeOK
  NoDuplicates
  FoundUnlessLost
  CountCovers
  LoadBounded
