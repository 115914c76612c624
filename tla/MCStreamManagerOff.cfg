SPECIFICATION FairSpec
CONSTANTS
  r1 = r1
  r2 = r2
  Order <- TwoRooms
  MaxStreams = 1
  Grace = 1
  MaxSessions = 1
  MaxFailures = 1
PROPERTIES
  InactiveReleased
CHECK_DEADLOCK FALSE
