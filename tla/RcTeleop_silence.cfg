SPECIFICATION FairSpec
CONSTANTS
  Sticks = {a}
  Depth = 1
PROPERTY SilenceStops
