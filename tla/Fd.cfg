SPECIFICATION Spec
CONSTANTS
  a = a
  b = b
  HOLE = HOLE
  Bytes = {a, b}
  Streams = {s1, s2}
  Bases = {0, 1}
  Files <- MCFiles
  Chunks <- MCChunks
  Offsets <- MCOffsets
  Sizes = {1, 2}
  Counts = {1}
  IntMod = 4
  MaxLen = 4
INVARIANTS
  TypeOK
  BehindBase
PROPERTY
  ImplementsHandles
SYMMETRY MCSymmetry
CHECK_DEADLOCK FALSE
