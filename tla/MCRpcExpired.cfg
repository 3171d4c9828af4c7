\* A client enters a room that nobody uses.
SPECIFICATION Spec
CONSTANTS
  Clients = {c1}
  Names = {n1}
  Rooms = {r1}
  Nil = Nil
  Lines <- MoveLines
  EXTIME = 1
  MaxLines = 3
  Droppable = {}
CHECK_DEADLOCK FALSE
PROPERTY
  OnlyLiveRoomsEntered
