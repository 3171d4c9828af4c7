\* Two clients, the lobby and one more room, a table of one entry.
SPECIFICATION FairSpec
CONSTANTS
  Clients = {c1, c2}
  Users = {u1}
  MAINLOBBY = lobby
  Rooms = {x}
  Nil = Nil
  Slots = 1
  MaxLines = 3
  Lines <- SomeLines
  MaxQueue = 1
INVARIANTS
  TypeOK
  BroadcastReachesAudience
PROPERTIES
  LinesHandled
  DeparturesForgotten
