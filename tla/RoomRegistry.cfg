SPECIFICATION FairSpec
CONSTANTS
  Producers = {p1, p2, p3}
  Watchers = {w1, w2}
  Room = {r1, r2}
  NoRoom = NoRoom
  MaxGeneration = 2
INVARIANTS
  TypeOK
  WatcherCount
  NoOrphan
  ActiveIsLive
  NewestStaysCurrent
  GenerationsTellApart
  IdleRoomHasCleaner
PROPERTIES
  IdleRoomEnds
  DirectorySpec
