SPECIFICATION RunSpec
CONSTANTS
  tChar = tChar
  tByte = tByte
  tShort = tShort
  tInt = tInt
  tLong = tLong
  tFloat = tFloat
  tDouble = tDouble
  tVoid = tVoid
  tIntPtr = tIntPtr
  tNull = tNull
  tError = tError
  tString = tString
  NULL = NULL
  LOOP = LOOP
  TypeTable <- SmallTypes
  Modules <- SmallModules
  MaxTests = 5
INVARIANTS
  TypeOK
  NamesOnce
  BasicBlocks
  RunsAsWritten
  LiteralsResolve
  CalleesDeclared
  ContextRestored
