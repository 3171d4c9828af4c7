\* One client that leaves and goes on typing.
SPECIFICATION FairSpec
CONSTANTS
  Clients = {c1}
  Names = {n1}
  Rooms = {r1, r2}
  Nil = Nil
  Lines <- RoomLines
  EXTIME = 1
  MaxLines = 4
  Droppable = {}
CHECK_DEADLOCK FALSE
PROPERTY
  LeaveTakesEffect
