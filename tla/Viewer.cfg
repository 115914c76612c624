SPECIFICATION FairSpec
CONSTANTS
  Sizes = {s1, s2}
  NoSize = NoSize
  MaxDecodeQueue = 3
  MaxStarts = 2
  MaxDrops = 3
  MaxFailures = 3
INVARIANTS
  TypeOK
  ReadyIsDecodable
  OneConnection
PROPERTY Recovers
CHECK_DEADLOCK FALSE
