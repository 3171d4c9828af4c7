\* Three connections for two places, all of which may hang up or quit.
SPECIFICATION KSpec
CONSTANTS
  Clients = {c1, c2, c3}
  Names = {n1}
  Users = {anon}
  CNAME = anon
  Rooms = {r1}
  Nil = Nil
  Lines <- RoomLines
  CLIENTMAX = 2
  EXTIME = 1
  HelpLines = 1
  MaxLines = 3
  Droppable = {c1, c2, c3}
SYMMETRY Symmetry
CHECK_DEADLOCK FALSE
INVARIANTS
  KTypeOK
  MembershipAgrees
  SendsReachOpenChannels
  ClientsCounted
  KTimersAccounted
PROPERTIES
  KImplementsChatRooms
  DeletionOnlyWhenInactive
