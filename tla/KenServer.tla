------------------------------ MODULE KenServer ------------------------------
(***************************************************************************)
(* The chat server of ken/server.go, from which newServer.go grew: the same*)
(* lobby goroutine, rooms, timers, readers, forwarders and writers, so it  *)
(* extends LobbyServer and takes its state, and the handlers in which the  *)
(* two programs agree, from there.  What is ken's own:                     *)
(*                                                                         *)
(*  - a client that leaves is taken off lobby.clients and its outgoing     *)
(*    channel is closed.  The lobby goroutine does that, while the main    *)
(*    goroutine appends to the same slice: both are cut here into the read *)
(*    of the slice and the write, so that one can lose the other's update. *)
(*    A slice is kept as the set of clients it counts; the elements two    *)
(*    such writes leave twice in one array are as many as they leave out.  *)
(*  - creating a room does not enter it, the log is replayed bare, and a   *)
(*    room tells its members that it is deleted, by a broadcast like any.  *)
(***************************************************************************)
EXTENDS LobbyServer

VARIABLES
  mainView,   \* lobby.clients as main read it, Nil unless it is appending
  lobbyView,  \* lobby.clients as the lobby read it, Nil unless removing
  closed,     \* clients whose outgoing channel is closed
  raced       \* history: some write to lobby.clients undid another

\* Nil is no list.
ASSUME ViewAssumption == \A view \in SUBSET Clients : view # Nil

listVars == <<mainView, lobbyView, closed, raced>>
kenVars == <<vars, listVars>>

RoomDeletion == [kind |-> "NOTE_ROOM_DELETION"]

KTask == Task \cup [op : {"depart", "close"}, who : Clients, arg : {Nil}]
              \cup [op : {"delete"}, who : {Nil}, arg : Rooms]

KRoomTypeOK ==
  /\ registry \in [Names -> Rooms \cup {Nil}]
  /\ roomName \in [Rooms -> Names \cup {Nil}]
  /\ roomClients \in [Rooms -> Seq(Clients)]
  /\ roomMsgs \in [Rooms -> Seq(Entry \cup {RoomDeletion})]
  /\ roomExpire \in [Rooms -> 0 .. EXTIME]
  /\ timers \in [Rooms -> Seq(0 .. EXTIME)]
  /\ quiet \in [Rooms -> 0 .. EXTIME]

KHandlerTypeOK ==
  /\ task \in KTask
  /\ out \in Seq(Send)

ListTypeOK ==
  /\ mainView \in (SUBSET Clients) \cup {Nil}
  /\ lobbyView \in (SUBSET Clients) \cup {Nil}
  /\ closed \in SUBSET Clients
  /\ raced \in BOOLEAN

KTypeOK ==
  NetTypeOK /\ KRoomTypeOK /\ ClientTypeOK /\ KHandlerTypeOK /\ ListTypeOK

KInit ==
  /\ Init
  /\ mainView = Nil
  /\ lobbyView = Nil
  /\ closed = {}
  /\ raced = FALSE

------------------------------------------------------------------------------
(* The main goroutine, and the end of a writer.                            *)

\* Join, called by main: the connection is turned away or its append begins.
KAccept(c) ==
  /\ accepting = Nil
  /\ conn[c] = "new"
  /\ writer' = [writer EXCEPT ![c] = "recv"]
  /\ \/ /\ Cardinality(curClients) >= CLIENTMAX
        /\ conn' = [conn EXCEPT ![c] = "closed"]
        /\ UNCHANGED <<accepting, mainView>>
     \/ /\ Cardinality(curClients) < CLIENTMAX
        /\ conn' = [conn EXCEPT ![c] = "open"]
        /\ accepting' = c
        /\ mainView' = curClients
  /\ UNCHANGED <<inq, fwd, curClients, lines, roomVars, clientVars, task, out,
                 lobbyView, closed, raced>>

\* The append is stored.
KAppend(c) ==
  /\ accepting = c
  /\ mainView # Nil
  /\ curClients' = mainView \cup {c}
  /\ raced' = (raced \/ mainView # curClients)
  /\ mainView' = Nil
  /\ UNCHANGED <<conn, inq, writer, fwd, accepting, lines, roomVars, clientVars,
                 task, out, lobbyView, closed>>

KSendWelcome(c) ==
  /\ mainView = Nil
  /\ SendWelcome(c)
  /\ UNCHANGED listVars

\* The channel is closed: a writer that waits at it ends.
WriterEnds(c) ==
  /\ c \in closed
  /\ writer[c] = "recv"
  /\ writer' = [writer EXCEPT ![c] = "dead"]
  /\ UNCHANGED <<conn, inq, fwd, accepting, curClients, lines, roomVars,
                 clientVars, task, out, listVars>>

------------------------------------------------------------------------------
(* The handlers in which ken differs.                                      *)

\* The room is made and its timer started; the creator stays where it is.
KCreateChatRoom(c, n) ==
  \/ /\ registry[n] # Nil
     /\ Reply(c, "ERR_CREATE")
     /\ UNCHANGED <<roomVars, clientVars, task>>
  \/ /\ registry[n] = Nil
     /\ \E r \in Rooms :
          /\ roomName[r] = Nil
          /\ roomName' = [roomName EXCEPT ![r] = n]
          /\ registry' = [registry EXCEPT ![n] = r]
          /\ roomExpire' = [roomExpire EXCEPT ![r] = EXTIME]
          /\ quiet' = [quiet EXCEPT ![r] = 0]
          /\ timers' = [timers EXCEPT ![r] = <<EXTIME>>]
     /\ Reply(c, "NOTE_ROOM_CREATE")
     /\ UNCHANGED <<roomClients, roomMsgs, clientVars, task>>

\* FAULT: who joins is not sent what was said before.
KJoinUnreplayed(c, r) ==
  /\ cRoom' = [cRoom EXCEPT ![c] = r]
  /\ got' = [got EXCEPT ![c] = <<>>]
  /\ out' = <<>>
  /\ task' = [op |-> "join", who |-> c, arg |-> Nil]

\* ChatRoom.Join up to the end of the log; FinishJoin is its rest.
KJoin(c, r) ==
  /\ cRoom' = [cRoom EXCEPT ![c] = r]
  /\ got' = [got EXCEPT ![c] = <<>>]
  /\ out' = [i \in DOMAIN roomMsgs[r] |-> [to |-> c, msg |-> roomMsgs[r][i]]]
  /\ task' = [op |-> "join", who |-> c, arg |-> Nil]

KJoinChatRoom(c, n) ==
  \/ /\ registry[n] = Nil
     /\ Reply(c, "ERR_ENTER")
     /\ UNCHANGED <<roomVars, clientVars, task>>
  \/ /\ registry[n] # Nil
     /\ cRoom[c] # Nil
     /\ StartLeave(c, "switch", n)
  \/ /\ registry[n] # Nil
     /\ cRoom[c] = Nil
     /\ KJoin(c, registry[n])
     /\ UNCHANGED <<roomVars, username>>

\* JoinChatRoom has left the old room and joins the other.
KFinishSwitch ==
  /\ Resume("switch")
  /\ RemoveMember(task.who)
  /\ KJoin(task.who, registry[task.arg])
  /\ UNCHANGED <<netVars, registry, roomName, roomMsgs, roomExpire, timers,
                 quiet, username, listVars>>

\* Parse: the line's handler is called.
KParse(c) ==
  /\ Take(c)
  /\ LET msg == Head(inq[c])
     IN \/ msg.cmd = "create" /\ KCreateChatRoom(c, msg.arg)
        \/ msg.cmd = "enter" /\ KJoinChatRoom(c, msg.arg)
        \/ msg.cmd = "leave" /\ LeaveCRoom(c)
        \/ msg.cmd = "list" /\ ListCRooms(c)
        \/ msg.cmd = "help" /\ Help(c)
        \/ msg.cmd = "name" /\ ChangeUsername(c, msg.arg)
        \/ msg.cmd = "say" /\ SendMsg(c)
  /\ UNCHANGED <<conn, writer, fwd, accepting, curClients, lines, listVars>>

\* FAULT: the channel of a client that is in a room is closed right away.
KLeaveClosing(c) ==
  /\ Idle
  /\ fwd[c] = "running"
  /\ conn[c] \in {"hungup", "closed"}
  /\ inq[c] = <<>>
  /\ fwd' = [fwd EXCEPT ![c] = "done"]
  /\ lobbyView' = curClients
  /\ task' = [op |-> "close", who |-> c, arg |-> Nil]
  /\ UNCHANGED <<roomVars, clientVars, out>>
  /\ UNCHANGED <<conn, inq, writer, accepting, curClients, lines,
                 mainView, closed, raced>>

\* Lobby.Leave, when the input of c has ended: c leaves its room, if it is in
\* one, which is told to c too, and then the lobby reads the list of clients.
KLeave(c) ==
  /\ Idle
  /\ fwd[c] = "running"
  /\ conn[c] \in {"hungup", "closed"}
  /\ inq[c] = <<>>
  /\ fwd' = [fwd EXCEPT ![c] = "done"]
  /\ \/ /\ cRoom[c] # Nil
        /\ StartLeave(c, "depart", Nil)
        /\ UNCHANGED lobbyView
     \/ /\ cRoom[c] = Nil
        /\ lobbyView' = curClients
        /\ task' = [op |-> "close", who |-> c, arg |-> Nil]
        /\ UNCHANGED <<roomVars, clientVars, out>>
  /\ UNCHANGED <<conn, inq, writer, accepting, curClients, lines,
                 mainView, closed, raced>>

\* c has left its room.
KFinishDepart ==
  /\ Resume("depart")
  /\ RemoveMember(task.who)
  /\ cRoom' = [cRoom EXCEPT ![task.who] = Nil]
  /\ got' = [got EXCEPT ![task.who] = <<>>]
  /\ lobbyView' = curClients
  /\ task' = [task EXCEPT !.op = "close"]
  /\ UNCHANGED <<netVars, registry, roomName, roomMsgs, roomExpire, timers,
                 quiet, username, out, mainView, closed, raced>>

\* FAULT: the client that is found is not taken out.
KCloseUncounted ==
  /\ Resume("close")
  /\ closed' = closed \cup {task.who}
  /\ lobbyView' = Nil
  /\ task' = NoTask
  /\ UNCHANGED <<netVars, roomVars, clientVars, out, mainView, raced>>

\* c is taken off the list as it was read, if it is there, and the channel to
\* its writer is closed.
KCloseOutgoing ==
  LET c == task.who
  IN /\ Resume("close")
     /\ \/ /\ c \in lobbyView
           /\ curClients' = lobbyView \ {c}
           /\ raced' = (raced \/ lobbyView # curClients)
        \/ /\ c \notin lobbyView
           /\ UNCHANGED <<curClients, raced>>
     /\ closed' = closed \cup {c}
     /\ lobbyView' = Nil
     /\ task' = NoTask
     /\ UNCHANGED <<conn, inq, writer, fwd, accepting, lines, roomVars,
                    clientVars, out, mainView>>

\* FAULT: the broadcast renews the expiry, so the room gets another timer too.
KDeleteRearming(r) ==
  /\ Idle
  /\ \E i \in DOMAIN timers[r] :
       /\ timers[r][i] = 0
       /\ \/ /\ roomExpire[r] > 0
             /\ timers' = [timers EXCEPT ![r] = Append(RemoveAt(@, i), roomExpire[r])]
             /\ UNCHANGED <<roomMsgs, roomExpire, out, task>>
          \/ /\ roomExpire[r] = 0
             /\ timers' = [timers EXCEPT ![r] = Append(RemoveAt(@, i), EXTIME)]
             /\ roomExpire' = [roomExpire EXCEPT ![r] = EXTIME]
             /\ roomMsgs' = [roomMsgs EXCEPT ![r] = Append(@, RoomDeletion)]
             /\ out' = ToEach(roomClients[r], RoomDeletion)
             /\ task' = [op |-> "delete", who |-> Nil, arg |-> r]
  /\ UNCHANGED <<netVars, registry, roomName, roomClients, quiet, clientVars,
                 listVars>>

\* A timer of r ends: the room gets another timer, or its members are told
\* that it is deleted; that is a broadcast, which renews the expiry.
KDeleteChatRoom(r) ==
  /\ Idle
  /\ \E i \in DOMAIN timers[r] :
       /\ timers[r][i] = 0
       /\ \/ /\ roomExpire[r] > 0
             /\ timers' = [timers EXCEPT ![r] = Append(RemoveAt(@, i), roomExpire[r])]
             /\ UNCHANGED <<roomMsgs, roomExpire, out, task>>
          \/ /\ roomExpire[r] = 0
             /\ timers' = [timers EXCEPT ![r] = RemoveAt(@, i)]
             /\ roomExpire' = [roomExpire EXCEPT ![r] = EXTIME]
             /\ roomMsgs' = [roomMsgs EXCEPT ![r] = Append(@, RoomDeletion)]
             /\ out' = ToEach(roomClients[r], RoomDeletion)
             /\ task' = [op |-> "delete", who |-> Nil, arg |-> r]
  /\ UNCHANGED <<netVars, registry, roomName, roomClients, quiet, clientVars,
                 listVars>>

\* FAULT: the room goes, its members stay.
KFinishDeleteSeated ==
  LET r == task.arg
  IN /\ Resume("delete")
     /\ registry' = [registry EXCEPT ![roomName[r]] = Nil]
     /\ task' = NoTask
     /\ UNCHANGED <<netVars, roomName, roomClients, roomMsgs, roomExpire, timers,
                    quiet, clientVars, out, listVars>>

\* All members were told: they are put into the lobby and the room is gone.
KFinishDelete ==
  LET r == task.arg
      members == Range(roomClients[r])
  IN /\ Resume("delete")
     /\ registry' = [registry EXCEPT ![roomName[r]] = Nil]
     /\ cRoom' = [c \in Clients |-> IF c \in members THEN Nil ELSE cRoom[c]]
     /\ got' = [c \in Clients |-> IF c \in members THEN <<>> ELSE got[c]]
     /\ task' = NoTask
     /\ UNCHANGED <<netVars, roomName, roomClients, roomMsgs, roomExpire, timers,
                    quiet, username, out, listVars>>

------------------------------------------------------------------------------
KLobby ==
  \/ \E c \in Clients : KParse(c) \/ KLeave(c)
  \/ \E c \in Clients : Quit(c) /\ UNCHANGED listVars
  \/ \E r \in Rooms : KDeleteChatRoom(r)
  \/ (LobbySend \/ FinishLeave \/ FinishRename \/ FinishJoin) /\ UNCHANGED listVars
  \/ KFinishSwitch \/ KFinishDepart \/ KCloseOutgoing \/ KFinishDelete

\* What newServer.go does alike: the network, the writers, time and rest.
Alike ==
  \/ \E c \in Clients : Peer(c) \/ Flush(c) \/ FlushFails(c)
  \/ Tick
  \/ Quiescent

KNext ==
  \/ KLobby
  \/ \E c \in Clients :
       KAccept(c) \/ KAppend(c) \/ KSendWelcome(c) \/ WriterEnds(c)
  \/ Alike /\ UNCHANGED listVars

KSpec == KInit /\ [][KNext]_kenVars

------------------------------------------------------------------------------
(* What makes the server correct.                                          *)

\* Nothing is sent on a channel that Lobby.Leave has closed, which would bring
\* the whole server down: no list a handler sends from still has the client.
SendsReachOpenChannels == \A i \in DOMAIN out : out[i].to \notin closed

Leaving(c) == task.op \in {"depart", "close"} /\ task.who = c

\* Unless main and the lobby wrote the list of clients over each other, it
\* counts just those whose append is stored and whose departure, which gives
\* the place back, is not handled yet.
ClientsCounted ==
  ~raced =>
    curClients = {c \in Clients :
                    \/ accepting = c /\ mainView = Nil
                    \/ fwd[c] = "running"
                    \/ Leaving(c)}

\* A registered room that is not being deleted has one timer, which never
\* sleeps past the expiry; a room whose deletion began has none and gets none,
\* though the news of the deletion renews its expiry.
KTimersAccounted ==
  \A r \in Rooms :
    IF Registered(r) /\ task # [op |-> "delete", who |-> Nil, arg |-> r]
    THEN Len(timers[r]) = 1 /\ timers[r][1] <= roomExpire[r]
    ELSE timers[r] = <<>>

\* The entries of a room's log, without the news of its deletion.
Shown(r) ==
  ElementsAt(roomMsgs[r], {i \in DOMAIN roomMsgs[r] : roomMsgs[r][i] \in Entry})

\* ken's server keeps the promises of ChatRooms too: a member is handed the
\* log from its start, without a gap, and a deleted room is closed for good
\* though the news of its deletion is logged in it and renews its expiry.
KChat ==
  INSTANCE ChatRooms WITH
    status <- [r \in Rooms |-> IF roomName[r] = Nil THEN "fresh"
                               ELSE IF Registered(r) THEN "open" ELSE "closed"],
    log <- [r \in Rooms |-> Shown(r)],
    seat <- cRoom,
    seen <- got

KImplementsChatRooms == KChat!Spec

------------------------------------------------------------------------------
(* What the source's texts say, and the code does not do.                   *)

\* ken/server.go:17 and 45: MAX_CLIENTS, from which on the "Server is full.":
\* however main and the lobby write the list of clients, no more are connected.
PlacesWithinLimit == Cardinality({c \in Clients : conn[c] = "open"}) <= CLIENTMAX
==============================================================================
