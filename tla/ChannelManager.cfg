SPECIFICATION BoardSpec
CONSTANTS
  NumChannels = 2
  Kind <- Boards
  DebounceMs = 2
  MaxPeriod = 2
  MaxLag = 1
  ParamSet <- AnyParams
  Lossy = TRUE
  None = None
INVARIANTS TypeOK NoAcceptedEdgeLost HeartbeatGap
PROPERTIES EstopIsSampled HostConverges EdgeIsServed CommandApplied CommandEchoed
