SPECIFICATION Spec
CONSTANTS
  a = a
  b = b
  HOLE = HOLE
  Bytes = {a, b}
  Chunks <- MCChunks
  Offsets <- MCOffsets
  Lengths <- MCLengths
  Errnos = {"ENOSPC"}
  CacheSize = 2
  StdioSize = 1
  ErrLimit = 1
  MaxLen = 4
INVARIANTS
  TypeOK
  FailuresAreNotified
  NoEarlyNotice
PROPERTY
  ImplementsFile
CHECK_DEADLOCK FALSE
