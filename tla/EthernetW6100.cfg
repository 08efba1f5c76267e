SPECIFICATION FairSpec
CONSTANTS
  RX_MEM = 7
  Wrap = 14
  Frames <- TwoFrames
  Frag = 1
  Speeds = {100}
  Down = Down
  Rearm = TRUE
  SemLimit = 2
INVARIANTS TypeOK EventSeen FrameAnnounced CompletionNotLost OneAhead
PROPERTIES HandsUpInOrder FramesMove LinkIsReported
