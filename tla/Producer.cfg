SPECIFICATION FairSpec
CONSTANTS
  QueueDepth = 2
  KeyframeInterval = 3
  Tls = FALSE
  MaxFrames = 6
  MaxMessages = 2
INVARIANTS
  TypeOK
  FramesAccounted
  RequestNotForgotten
  IntervalRespected
PROPERTIES
  StopsCompletely
  RequestsAnswered
CHECK_DEADLOCK FALSE
