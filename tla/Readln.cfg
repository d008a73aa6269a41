CONSTANTS
  a = a
  CR = CR
  LF = LF
  NUL = NUL
  Inputs <- MC_AllInputs
  Styles <- MC_AllStyles
  MaxChunk = 3
SPECIFICATION Spec
INVARIANTS
  TypeOK
  LinesIndependentOfReads
  AnyOnlyAddsEmptyLines
CHECK_DEADLOCK FALSE
