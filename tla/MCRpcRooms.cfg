\* Every call but list and quit, two clients of which one may be killed, two room names.
SPECIFICATION Spec
CONSTANTS
  Clients = {c1, c2}
  Names = {n1, n2}
  Rooms = {r1, r2}
  Nil = Nil
  Lines <- LockingLines
  EXTIME = 1
  MaxLines = 4
  Droppable = {c1}
SYMMETRY Symmetry
CHECK_DEADLOCK FALSE
INVARIANTS
  TypeOK
  SeatedIsListed
PROPERTIES
  SeatsStableUnderLock
  SpeakerIsHeard
  RegistrationsStand
