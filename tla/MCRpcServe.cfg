\* One client with every call, which may quit while it is in a room.
SPECIFICATION FairSpec
CONSTANTS
  Clients = {c1}
  Names = {n1}
  Rooms = {r1, r2}
  Nil = Nil
  Lines <- AllLines
  EXTIME = 1
  MaxLines = 4
  Droppable = {}
CHECK_DEADLOCK FALSE
PROPERTY
  RoomsServe
