------------------------------- MODULE MCLobby -------------------------------
(* Instances of LobbyServer for TLC: what people type, and symmetry.        *)
EXTENDS LobbyServer, TLC

\* Everything but hanging up by command: the server's whole life.
StayingLines == {l \in Line : l.cmd # "quit"}

\* What changes a room or who is in it.
RoomLines == {l \in Line : l.cmd \in {"create", "enter", "leave", "say", "quit"}}

\* A room, company, and a way out of it.
QuittingLines == {l \in Line : l.cmd \in {"create", "enter", "quit"}}

\* A room, company and something to say.
WedgeLines == {l \in Line : l.cmd \in {"create", "enter", "say"}}

\* Clients are alike when all of them may hang up or none may.
Symmetry == Permutations(Clients) \cup Permutations(Rooms)
==============================================================================
