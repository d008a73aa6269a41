CONSTANTS
  b1 = b1
  b2 = b2
  x = x
  y = y
  r1 = r1
  NoRef = NoRef
  Bufs <- MC_Bufs
  Bytes <- MC_Bytes
  Refs <- MC_Refs
  RefData <- MC_RefData
  MaxLen = 2
  MaxUnreported = 2
SPECIFICATION Spec
SYMMETRY BufSymmetry
VIEW ChainView
CONSTRAINT InfoBound
INVARIANTS
  TypeOK
  LentMemoryIntact
  CbInfoAddsUp
PROPERTIES
  RefinesFlatBuffer
