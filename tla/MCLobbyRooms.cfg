\* Two clients that come, go and move between the rooms of two names, with
\* every line that changes a room or who is in it.
SPECIFICATION Spec
CONSTANTS
  Clients = {c1, c2}
  Names = {n1, n2}
  Users = {anon}
  CNAME = anon
  Rooms = {r1, r2}
  Nil = Nil
  Lines <- RoomLines
  CLIENTMAX = 2
  EXTIME = 1
  HelpLines = 1
  MaxLines = 3
  Droppable = {c1, c2}
SYMMETRY Symmetry
CHECK_DEADLOCK FALSE
INVARIANTS
  RoomsAccounted
  LogDelivered
  LogTellsMembership
  TaskOK
  MembershipAgrees
PROPERTIES
  DeletionOnlyWhenInactive
  ImplementsChatRooms
