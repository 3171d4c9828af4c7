\* One client may hang up or quit at any moment; the server may block for good.
SPECIFICATION FairSpec
CONSTANTS
  Clients = {c1, c2, c3}
  Names = {n1}
  Users = {anon}
  CNAME = anon
  Rooms = {r1}
  Nil = Nil
  Lines <- QuittingLines
  CLIENTMAX = 2
  EXTIME = 1
  HelpLines = 1
  MaxLines = 3
  Droppable = {c2}
CHECK_DEADLOCK FALSE
INVARIANT
  DepartedStayOut
PROPERTY
  DepartureHandled
