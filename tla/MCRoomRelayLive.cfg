SPECIFICATION FairSpec
CONSTANTS
  Connections = {c1}
  Watchers = {w1, w2}
  Reading = {w1}
  NoConnection = NoConnection
  BroadcastSize = 1
  OutboundSize = 1
  MaxFrames = 3
INVARIANT LagCounted
PROPERTY ReadersKeepUp
CHECK_DEADLOCK FALSE
