SPECIFICATION FairSpec
CONSTANTS
  Connections = {c1, c2}
  Reading = {c1}
  NoConnection = NoConnection
  CommandSize = 2
  OutboundSize = 1
  MaxRequests = 5
INVARIANTS
  TypeOK
  CommandsConserved
PROPERTIES
  ReplacedClosesDrained
  PathSpec
  CommandsArrive
  ReplacedEnds
CHECK_DEADLOCK FALSE
