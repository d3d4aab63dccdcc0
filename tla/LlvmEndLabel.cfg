SPECIFICATION RunSpec
CONSTANTS
  tChar = tChar
  tByte = tByte
  tShort = tShort
  tInt = tInt
  tLong = tLong
  tFloat = tFloat
  tDouble = tDouble
  tVoid = tVoid
  tIntPtr = tIntPtr
  tNull = tNull
  tError = tError
  tString = tString
  NULL = NULL
  LOOP = LOOP
  TypeTable <- SmallTypes
  Modules <- OneSided
  MaxTests = 2
INVARIANT EndLabelsCreated
