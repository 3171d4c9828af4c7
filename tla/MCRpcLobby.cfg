\* A client whose room may expire wants to leave it.
SPECIFICATION Spec
CONSTANTS
  Clients = {c1}
  Names = {n1}
  Rooms = {r1}
  Nil = Nil
  Lines <- RoomLines
  EXTIME = 1
  MaxLines = 3
  Droppable = {}
CHECK_DEADLOCK FALSE
PROPERTY
  LobbyLeaveRefused
