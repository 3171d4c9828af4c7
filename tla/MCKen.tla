-------------------------------- MODULE MCKen --------------------------------
(* Instances of KenServer for TLC.                                          *)
EXTENDS KenServer, TLC

\* What changes a room, who is in it, or who is connected: ken's own handlers.
RoomLines == {l \in Line : l.cmd \in {"create", "enter", "quit"}}

\* All clients may hang up, so they are alike.
Symmetry == Permutations(Clients)
==============================================================================
