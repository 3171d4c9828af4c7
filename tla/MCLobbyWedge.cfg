\* Clients in a room and in none, of which one may go at any moment.
SPECIFICATION FairSpec
CONSTANTS
  Clients = {c1, c2}
  Names = {n1}
  Users = {anon}
  CNAME = anon
  Rooms = {r1}
  Nil = Nil
  Lines <- WedgeLines
  CLIENTMAX = 2
  EXTIME = 1
  HelpLines = 1
  MaxLines = 3
  Droppable = {c2}
CHECK_DEADLOCK FALSE
PROPERTY
  StayersServed
