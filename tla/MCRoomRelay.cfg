SPECIFICATION Spec
CONSTANTS
  Connections = {c1, c2}
  Watchers = {w1}
  Reading = {}
  NoConnection = NoConnection
  BroadcastSize = 2
  OutboundSize = 1
  MaxFrames = 5
SYMMETRY ConnectionSymmetry
INVARIANTS
  TypeOK
  FencedGenerations
  CacheIsNewestKeyframe
  JoinMissesNoKeyframe
  SentInOrder
CHECK_DEADLOCK FALSE
