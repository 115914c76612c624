SPECIFICATION Spec
CONSTANTS
  Producers = {p1, p2}
  Watchers = {w1, w2}
  Room = {r1, r2}
  NoRoom = NoRoom
  MaxGeneration = 3
PROPERTY RetentionHonoured
