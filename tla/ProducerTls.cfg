SPECIFICATION FairSpec
CONSTANTS
  QueueDepth = 2
  KeyframeInterval = 3
  Tls = TRUE
  MaxFrames = 4
  MaxMessages = 2
PROPERTIES
  FrameProcessed
CHECK_DEADLOCK FALSE
