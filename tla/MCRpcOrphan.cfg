\* A name is asked for twice.
SPECIFICATION Spec
CONSTANTS
  Clients = {c1}
  Names = {n1}
  Rooms = {r1, r2}
  Nil = Nil
  Lines <- RoomLines
  EXTIME = 1
  MaxLines = 4
  Droppable = {}
CHECK_DEADLOCK FALSE
PROPERTY
  DeletionOnlyWhenInactive
