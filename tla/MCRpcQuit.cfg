\* A client enters a room and quits.
SPECIFICATION Spec
CONSTANTS
  Clients = {c1}
  Names = {n1}
  Rooms = {r1}
  Nil = Nil
  Lines <- AllLines
  EXTIME = 1
  MaxLines = 3
  Droppable = {}
CHECK_DEADLOCK FALSE
INVARIANT
  ListedIsConnected
