SPECIFICATION Spec
CONSTANTS
  a = a
  b = b
  HOLE = HOLE
  Bytes = {a, b}
  Chunks <- MCChunks
  Offsets <- MCOffsets
  Lengths <- MCLengths
  Errnos = {"EIO"}
  CacheSize = 2
  StdioSize = 1
  ErrLimit = 1
  MaxLen = 4
INVARIANT
  FailuresAreNotified
CHECK_DEADLOCK FALSE
