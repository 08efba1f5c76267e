SPECIFICATION UploadSpec
CONSTANTS
  Names = {"pico_bridge", "E_STOP"}
  KeyName = "namespace"
  DefaultName = "pico_bridge"
  Spaces = {"/"}
  Root = "/"
  Empty = ""
  ChannelNames = {c1, c2}
  LongName = long
  CutName = c2
  CFG_MAX_CHANNELS = 2
  SureFits = 1
  Alphas = {305}
  MaxSets = 3
  None = None
  NodeName = "E_STOP"
  ChannelName = c1
  Alpha = 305
INVARIANT SavedMeansUploaded
CHECK_DEADLOCK FALSE
