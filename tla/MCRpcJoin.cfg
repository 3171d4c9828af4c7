\* One client that is in a room enters it, or it expires meanwhile.
SPECIFICATION FairSpec
CONSTANTS
  Clients = {c1}
  Names = {n1}
  Rooms = {r1}
  Nil = Nil
  Lines <- MoveLines
  EXTIME = 1
  MaxLines = 3
  Droppable = {}
CHECK_DEADLOCK FALSE
PROPERTY
  JoinReturns
