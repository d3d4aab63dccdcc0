SPECIFICATION Spec
CONSTANTS
  tChar = tChar
  tByte = tByte
  tShort = tShort
  tInt = tInt
  tLong = tLong
  tFloat = tFloat
  tDouble = tDouble
  tVoid = tVoid
  tIntPtr = tIntPtr
  tNull = tNull
  tError = tError
  tString = tString
  NULL = NULL
  LOOP = LOOP
  JUNK = JUNK
  DEFAULT_CAP = 2
  Programs <- SmallPrograms
INVARIANTS
  TypeOK
  SuccessFillsSemantics
  LexicalBinding
  ScopeDiscipline
  GlobalScopeExact
  CalleesAreTyped
  NoFalseMissingReturn
  CrashOnlyAfterError
  VerdictMatchesAsts
PROPERTIES
  Termination
