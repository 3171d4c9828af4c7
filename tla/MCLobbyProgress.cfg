\* Peers that stay and read, and every command but quit: no deadlock, and
\* everything comes to an end.
SPECIFICATION FairSpec
CONSTANTS
  Clients = {c1, c2}
  Names = {n1}
  Users = {anon, bob}
  CNAME = anon
  Rooms = {r1, r2}
  Nil = Nil
  Lines <- StayingLines
  CLIENTMAX = 2
  EXTIME = 1
  HelpLines = 2
  MaxLines = 3
  Droppable = {}
INVARIANTS
  TypeOK
  LogsReadable
PROPERTIES
  LinesHandled
  RoomsExpire
