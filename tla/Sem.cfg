SPECIFICATION FairSpec
CONSTANTS
  d1 = d1
  d2 = d2
  d3 = d3
  u = u
  Threads = {d1, d2, d3, u}
  Profiles <- MCProfiles
  InitVals = {0, 1}
  MaxVal = 3
  SpuriousWakeups = TRUE
INVARIANTS
  TypeOK
  WakeupPerUnit
PROPERTIES
  UpDownOk
  UniqueStaysBinary
