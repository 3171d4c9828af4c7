\* Every call; a client program may end by quit: what is stuck is deadlocked.
SPECIFICATION FairSpec
CONSTANTS
  Clients = {c1, c2}
  Names = {n1}
  Rooms = {r1, r2}
  Nil = Nil
  Lines <- AllLines
  EXTIME = 1
  MaxLines = 3
  Droppable = {}
CHECK_DEADLOCK FALSE
PROPERTIES
  CallsReturn
  RoomsExpire
