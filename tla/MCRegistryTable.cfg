\* Two clients, the lobby and one more room, and a table with an entry to spare.
SPECIFICATION Spec
CONSTANTS
  Clients = {c1, c2}
  Users = {u1}
  MAINLOBBY = lobby
  Rooms = {x}
  Nil = Nil
  Slots = 3
  MaxLines = 2
  Lines <- SomeLines
  MaxQueue = 1
INVARIANT
  CurrentRoomsListed
