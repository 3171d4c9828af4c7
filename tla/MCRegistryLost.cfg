\* Two clients, one of which goes while main registers the other.
SPECIFICATION Spec
CONSTANTS
  Clients = {c1, c2}
  Users = {u1}
  MAINLOBBY = lobby
  Rooms = {x}
  Nil = Nil
  Slots = 1
  MaxLines = 1
  Lines <- SomeLines
  MaxQueue = 1
INVARIANT
  RegisteredListed
