\* Two connections, one after the other, for one place.
SPECIFICATION Spec
CONSTANTS
  Clients = {c1, c2}
  Names = {n1}
  Users = {anon}
  CNAME = anon
  Rooms = {r1}
  Nil = Nil
  Lines <- WedgeLines
  CLIENTMAX = 1
  EXTIME = 1
  HelpLines = 1
  MaxLines = 0
  Droppable = {c2}
CHECK_DEADLOCK FALSE
PROPERTY
  TurnedAwayOnlyWhenFull
