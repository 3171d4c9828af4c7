------------------------------- MODULE MCRpc ---------------------------------
(* Instances of RpcRooms for TLC: what people type, and symmetry.            *)
EXTENDS RpcRooms, TLC

AllLines == Line

\* What takes a lock or goes to a room.
LockingLines == {l \in Line : l.cmd \notin {"list", "quit"}}

\* What one room is used for.
RoomLines == {l \in Line : l.cmd \in {"create", "join", "leave", "say"}}

\* What moves a client between rooms.
MoveLines == {l \in Line : l.cmd \in {"create", "join"}}

\* Clients differ: one may be killed.
Symmetry == Permutations(Names) \cup Permutations(Rooms)
==============================================================================
