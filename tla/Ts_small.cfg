SPECIFICATION Spec
CONSTANTS
  Packets <- MCSmallPackets
  CsdLens = {10}
  Wrap = 4
  MaxPes = 65535
  MaxUnits = 2
INVARIANT
  FragmentsFit
CHECK_DEADLOCK FALSE
