SPECIFICATION Spec
CONSTANTS
  Packets <- MCPackets
  CsdLens = {10}
  Wrap = 3
  MaxPes = 355
  MaxUnits = 4
INVARIANTS
  TypeOK
  FragmentsFit
  WholePackets
  StreamsReadBack
  ContinuityCounts
  TablesLead
  PesLengthsExact
  TimesReadBack
CHECK_DEADLOCK FALSE
