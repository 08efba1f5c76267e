SPECIFICATION Spec
CONSTANTS
  Names = {"pico_bridge", "namespace"}
  KeyName = "namespace"
  DefaultName = "pico_bridge"
  Spaces = {"/"}
  Root = "/"
  Empty = ""
  ChannelNames = {c1, c2, c3}
  LongName = long
  CutName = c1
  CFG_MAX_CHANNELS = 2
  SureFits = 1
  Alphas = {305}
  MaxSets = 3
  None = None
INVARIANTS TypeOK UniqueChannels
 
