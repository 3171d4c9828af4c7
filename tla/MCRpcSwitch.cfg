\* A client moves from one room to another.
SPECIFICATION Spec
CONSTANTS
  Clients = {c1}
  Names = {n1, n2}
  Rooms = {r1, r2}
  Nil = Nil
  Lines <- MoveLines
  EXTIME = 1
  MaxLines = 4
  Droppable = {}
CHECK_DEADLOCK FALSE
INVARIANT
  ListedIsSeated
