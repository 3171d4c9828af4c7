\* Four connections for two places, nobody of whom types.
SPECIFICATION KSpec
CONSTANTS
  Clients = {c1, c2, c3, c4}
  Names = {n1}
  Users = {anon}
  CNAME = anon
  Rooms = {r1}
  Nil = Nil
  Lines <- RoomLines
  CLIENTMAX = 2
  EXTIME = 1
  HelpLines = 1
  MaxLines = 0
  Droppable = {c1, c2, c3, c4}
SYMMETRY Symmetry
CHECK_DEADLOCK FALSE
INVARIANT
  PlacesWithinLimit
