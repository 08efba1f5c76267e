SPECIFICATION FairPathSpec
CONSTANTS
  Sticks = {a}
  Depth = 2
  Failsafe = 1
INVARIANTS TypeOK 
PROPERTIES NavKeepsTopic FollowsLastSamples LostTransmitterStops
