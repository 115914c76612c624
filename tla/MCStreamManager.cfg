SPECIFICATION Spec
CONSTANTS
  r1 = r1
  r2 = r2
  Order <- TwoRooms
  MaxStreams = 1
  Grace = 2
  MaxSessions = 2
  MaxFailures = 1
INVARIANTS
  TypeOK
PROPERTIES
  NoEarlyRelease
CHECK_DEADLOCK FALSE
