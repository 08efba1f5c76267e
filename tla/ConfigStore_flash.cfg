SPECIFICATION Spec
CONSTANTS
  Names = {"pico_bridge"}
  KeyName = "namespace"
  DefaultName = "pico_bridge"
  Spaces = {"/"}
  Root = "/"
  Empty = ""
  ChannelNames = {c1}
  LongName = long
  CutName = c1
  CFG_MAX_CHANNELS = 1
  SureFits = 1
  Alphas = {305}
  MaxSets = 1
  None = None
INVARIANT BadNamesNeverReachFlash
