----------------------------- MODULE LobbyServer -----------------------------
(***************************************************************************)
(* The chat server of Evan's Work/newServer.go.                            *)
(*                                                                         *)
(* One goroutine, the lobby, owns every room, and every client's room and  *)
(* name.  Its select loop takes a line some client typed, the end of some  *)
(* client's input, or the expiry of a room, and runs the handler to its    *)
(* end before it selects again.  A handler talks to clients over unbuffered*)
(* channels: each send blocks the whole lobby until the client's writer    *)
(* goroutine comes back to receive.  Around the lobby run, concurrently,   *)
(* the main goroutine (which accepts and welcomes connections), and for    *)
(* each client a reader, a forwarder and a writer; one more goroutine      *)
(* sleeps for each room until it may have expired.                         *)
(*                                                                         *)
(* A handler that sends in the middle is cut at its sends: its messages go *)
(* to "out", "task" remembers what is left to do, and the rest is an action*)
(* of its own, enabled when "out" is drained.  Time is a countdown: an     *)
(* instant of the code is kept as how far ahead of now it lies.            *)
(*                                                                         *)
(* Definitions marked FAULT are plausible slips in the definition that     *)
(* follows them; no other definition refers to them.                       *)
(***************************************************************************)
EXTENDS Naturals, Sequences, FiniteSets, Functions, SequencesExt, Lists

CONSTANTS Clients,    \* connections: who comes back is another client
          Names,      \* names of rooms that people type
          Users,      \* names people take, the initial one included
          CNAME,      \* the name every client starts with
          Rooms,      \* CRoom objects
          Nil,        \* the nil pointer
          Lines,      \* what people type (a subset of Line)
          CLIENTMAX,  \* connections ever welcomed
          EXTIME,     \* ticks of inactivity after which a room expires
          HelpLines,  \* messages the help command sends (ten in the code)
          MaxLines,   \* bound: lines typed in a behaviour
          Droppable   \* clients that may hang up

\* A line, parsed: the command and its argument; "say" is any other text.
Line == [cmd : {"create", "enter"}, arg : Names]
          \cup [cmd : {"name"}, arg : Users]
          \cup [cmd : {"leave", "list", "help", "quit", "say"}, arg : {Nil}]

ASSUME NilAssumption == Nil \notin Clients \cup Names \cup Rooms
ASSUME NamesAssumption == IsFiniteSet(Names)
ASSUME CNameAssumption == CNAME \in Users
ASSUME LinesAssumption == Lines \subseteq Line
ASSUME LimitsAssumption == /\ CLIENTMAX \in Nat
                           /\ EXTIME \in Nat \ {0}
                           /\ HelpLines \in Nat
                           /\ MaxLines \in Nat
ASSUME DroppableAssumption == Droppable \subseteq Clients

VARIABLES
  \* the connections and their goroutines
  conn,         \* conn[c]: "new", "open", "hungup" by the peer, or "closed" here
  inq,          \* inq[c]: lines on their way from the socket to the lobby
  writer,       \* writer[c]: "none", "recv" (waiting), "write" or "dead"
  fwd,          \* fwd[c]: the forwarder is "none", "running" or "done"
  accepting,    \* the client the main goroutine is welcoming, or Nil
  curClients,   \* Lobby.curClients: everyone ever welcomed
  lines,        \* bound: how many lines were typed so far
  \* the lobby's rooms
  registry,     \* Lobby.cRoom: from names to rooms
  roomName,     \* roomName[r]: CRoom.cName, Nil before r is created
  roomClients,  \* roomClients[r]: CRoom.curClients
  roomMsgs,     \* roomMsgs[r]: CRoom.msgs
  roomExpire,   \* roomExpire[r]: ticks until CRoom.expire, 0 once passed
  timers,       \* timers[r]: for each goroutine sleeping for r, ticks left
  \* the clients as the lobby knows them
  cRoom,        \* cRoom[c]: Client.cRoom
  username,     \* username[c]: Client.username
  \* the lobby goroutine
  task,         \* what the running handler does once its sends are through
  out,          \* the sends it is at, each to a client's outMsg
  \* history, for the properties only
  got,          \* got[c]: log entries handed to c since it joined its room
  quiet         \* quiet[r]: ticks since something was last said in r

netVars == <<conn, inq, writer, fwd, accepting, curClients, lines>>
roomVars == <<registry, roomName, roomClients, roomMsgs, roomExpire, timers, quiet>>
clientVars == <<cRoom, username, got>>
vars == <<netVars, roomVars, clientVars, task, out>>

\* A message that a room keeps in its log: who caused it, the name it shows
\* for that client ("as") and the name that client has afterwards ("now").
Entry == [kind : {"enter", "leave", "say", "name"},
          who : Clients, as : Users, now : Users]

\* A message only for the one it is sent to, named after the constant.
Notice == [kind : {"NOTE_ROOM_CREATE", "NOTE_CHANGENAME", "NOTE_ROOM_DELETION",
                   "ERR_CREATE", "ERR_ENTER", "ERR_LEAVE", "ERR_SEND",
                   "BEGIN LOG", "END LOG", "list", "help"}]

Send == [to : Clients, msg : Entry \cup Notice]

NoTask == [op |-> "select", who |-> Nil, arg |-> Nil]
Task == {NoTask}
          \cup [op : {"leave", "join"}, who : Clients, arg : {Nil}]
          \cup [op : {"create", "switch"}, who : Clients, arg : Names]
          \cup [op : {"rename"}, who : Clients, arg : Users]

NetTypeOK ==
  /\ conn \in [Clients -> {"new", "open", "hungup", "closed"}]
  /\ inq \in [Clients -> Seq(Line)]
  /\ writer \in [Clients -> {"none", "recv", "write", "dead"}]
  /\ fwd \in [Clients -> {"none", "running", "done"}]
  /\ accepting \in Clients \cup {Nil}
  /\ curClients \in SUBSET Clients
  /\ lines \in 0 .. MaxLines

RoomTypeOK ==
  /\ registry \in [Names -> Rooms \cup {Nil}]
  /\ roomName \in [Rooms -> Names \cup {Nil}]
  /\ roomClients \in [Rooms -> Seq(Clients)]
  /\ roomMsgs \in [Rooms -> Seq(Entry)]
  /\ roomExpire \in [Rooms -> 0 .. EXTIME]
  /\ timers \in [Rooms -> Seq(0 .. EXTIME)]
  /\ quiet \in [Rooms -> 0 .. EXTIME]

ClientTypeOK ==
  /\ cRoom \in [Clients -> Rooms \cup {Nil}]
  /\ username \in [Clients -> Users]
  /\ got \in [Clients -> Seq(Entry)]

HandlerTypeOK ==
  /\ task \in Task
  /\ out \in Seq(Send)

\* The state is well formed.
TypeOK == NetTypeOK /\ RoomTypeOK /\ ClientTypeOK /\ HandlerTypeOK

Init ==
  /\ conn = [c \in Clients |-> "new"]
  /\ inq = [c \in Clients |-> <<>>]
  /\ writer = [c \in Clients |-> "none"]
  /\ fwd = [c \in Clients |-> "none"]
  /\ accepting = Nil
  /\ curClients = {}
  /\ lines = 0
  /\ registry = [n \in Names |-> Nil]
  /\ roomName = [r \in Rooms |-> Nil]
  /\ roomClients = [r \in Rooms |-> <<>>]
  /\ roomMsgs = [r \in Rooms |-> <<>>]
  /\ roomExpire = [r \in Rooms |-> 0]
  /\ timers = [r \in Rooms |-> <<>>]
  /\ cRoom = [c \in Clients |-> Nil]
  /\ username = [c \in Clients |-> CNAME]
  /\ task = NoTask
  /\ out = <<>>
  /\ got = [c \in Clients |-> <<>>]
  /\ quiet = [r \in Rooms |-> EXTIME]

------------------------------------------------------------------------------
(* The network, the main goroutine and the goroutines of a client.         *)

\* main accepts a connection, starts its reader and writer, and turns it away
\* or counts it; it then blocks in the welcome.
Accept(c) ==
  /\ accepting = Nil
  /\ conn[c] = "new"
  /\ writer' = [writer EXCEPT ![c] = "recv"]
  /\ \/ /\ Cardinality(curClients) >= CLIENTMAX
        /\ conn' = [conn EXCEPT ![c] = "closed"]
        /\ UNCHANGED <<curClients, accepting>>
     \/ /\ Cardinality(curClients) < CLIENTMAX
        /\ conn' = [conn EXCEPT ![c] = "open"]
        /\ curClients' = curClients \cup {c}
        /\ accepting' = c
  /\ UNCHANGED <<inq, fwd, lines, roomVars, clientVars, task, out>>

\* The writer receives the welcome; main starts the forwarder.
SendWelcome(c) ==
  /\ accepting = c
  /\ writer[c] = "recv"
  /\ writer' = [writer EXCEPT ![c] = "write"]
  /\ fwd' = [fwd EXCEPT ![c] = "running"]
  /\ accepting' = Nil
  /\ UNCHANGED <<conn, inq, curClients, lines, roomVars, clientVars, task, out>>

\* How many rooms the lines that are on their way may still create.
PendingCreates ==
  Cardinality(UNION {{<<c, i>> : i \in {k \in DOMAIN inq[c] : inq[c][k].cmd = "create"}}
                       : c \in Clients})

\* The peer types a line.  Both guards on the amount of input are bounds.
TypeLine(c, l) ==
  /\ conn[c] = "open"
  /\ lines < MaxLines
  /\ l.cmd = "create" =>
       PendingCreates < Cardinality({r \in Rooms : roomName[r] = Nil})
  /\ lines' = lines + 1
  /\ inq' = [inq EXCEPT ![c] = Append(@, l)]
  /\ UNCHANGED <<conn, writer, fwd, accepting, curClients,
                 roomVars, clientVars, task, out>>

\* The peer disconnects, or the network between breaks.
Hangup(c) ==
  /\ c \in Droppable
  /\ conn[c] = "open"
  /\ conn' = [conn EXCEPT ![c] = "hungup"]
  /\ UNCHANGED <<inq, writer, fwd, accepting, curClients, lines,
                 roomVars, clientVars, task, out>>

\* A reset or a close discards the input that was not read yet.
LoseInput(c) ==
  /\ conn[c] \in {"hungup", "closed"}
  /\ inq[c] # <<>>
  /\ inq' = [inq EXCEPT ![c] = Front(@)]
  /\ UNCHANGED <<conn, writer, fwd, accepting, curClients, lines,
                 roomVars, clientVars, task, out>>

\* FAULT: the writer gives up after its first message.
FlushOnce(c) ==
  /\ writer[c] = "write"
  /\ conn[c] # "closed"
  /\ writer' = [writer EXCEPT ![c] = "dead"]
  /\ UNCHANGED <<conn, inq, fwd, accepting, curClients, lines,
                 roomVars, clientVars, task, out>>

\* The writer writes its message out (into the void, if the peer is gone and
\* the network has not noticed yet) and waits for the next.
Flush(c) ==
  /\ writer[c] = "write"
  /\ conn[c] # "closed"
  /\ writer' = [writer EXCEPT ![c] = "recv"]
  /\ UNCHANGED <<conn, inq, fwd, accepting, curClients, lines,
                 roomVars, clientVars, task, out>>

\* The write fails: the writer ends and nobody receives from outMsg again.
FlushFails(c) ==
  /\ writer[c] = "write"
  /\ conn[c] \in {"hungup", "closed"}
  /\ writer' = [writer EXCEPT ![c] = "dead"]
  /\ UNCHANGED <<conn, inq, fwd, accepting, curClients, lines,
                 roomVars, clientVars, task, out>>

------------------------------------------------------------------------------
(* What the lobby's handlers are made of.                                  *)

\* FAULT: the select runs again between the sends of a handler and its rest.
IdleBetweenSends == out = <<>>

\* The lobby is in its select.
Idle == task = NoTask /\ out = <<>>

Registered(r) == \E n \in Names : registry[n] = r

EntryOf(kind, c) ==
  [kind |-> kind, who |-> c, as |-> username[c], now |-> username[c]]

\* The same message to each of a list of clients.
ToEach(cs, m) == [i \in DOMAIN cs |-> [to |-> cs[i], msg |-> m]]

\* n times the same message to one client.
Repeat(n, c, m) == [i \in 1 .. n |-> [to |-> c, msg |-> m]]

Reply(c, kind) == out' = <<[to |-> c, msg |-> [kind |-> kind]]>>

\* FAULT: the renewal of the expiry is forgotten.
BroadcastUnrenewed(r, e, members) ==
  /\ roomExpire' = roomExpire
  /\ quiet' = [quiet EXCEPT ![r] = 0]
  /\ roomMsgs' = [roomMsgs EXCEPT ![r] = Append(@, e)]
  /\ out' = ToEach(members, e)

\* FAULT: the message is sent but not kept.
BroadcastUnlogged(r, e, members) ==
  /\ roomExpire' = [roomExpire EXCEPT ![r] = EXTIME]
  /\ quiet' = [quiet EXCEPT ![r] = 0]
  /\ roomMsgs' = roomMsgs
  /\ out' = ToEach(members, e)

\* A room renews its expiry, keeps the message and sends it to its members.
Broadcast(r, e, members) ==
  /\ roomExpire' = [roomExpire EXCEPT ![r] = EXTIME]
  /\ quiet' = [quiet EXCEPT ![r] = 0]
  /\ roomMsgs' = [roomMsgs EXCEPT ![r] = Append(@, e)]
  /\ out' = ToEach(members, e)

\* FAULT: the replay of the log starts at its second entry.
HistorySkipping(c, r) ==
  [i \in 1 .. Len(roomMsgs[r]) - 1 |-> [to |-> c, msg |-> roomMsgs[r][i + 1]]]

\* What a room sends to one who joins: its log between two markers.
History(c, r) ==
  IF roomMsgs[r] = <<>>
  THEN <<>>
  ELSE Repeat(1, c, [kind |-> "BEGIN LOG"])
         \o [i \in DOMAIN roomMsgs[r] |-> [to |-> c, msg |-> roomMsgs[r][i]]]
         \o Repeat(1, c, [kind |-> "END LOG"])

\* CRoom.Join up to the end of the log; FinishJoin is its rest.
Join(c, r) ==
  /\ cRoom' = [cRoom EXCEPT ![c] = r]
  /\ got' = [got EXCEPT ![c] = <<>>]
  /\ out' = History(c, r)
  /\ task' = [op |-> "join", who |-> c, arg |-> Nil]

\* CRoom.Leave after its broadcast: c is taken off the list of its room.
RemoveMember(c) ==
  roomClients' = [roomClients EXCEPT ![cRoom[c]] = RemoveFirst(@, c)]

\* CRoom.Leave up to its broadcast, which its leaver gets too.
StartLeave(c, op, arg) ==
  /\ Broadcast(cRoom[c], EntryOf("leave", c), roomClients[cRoom[c]])
  /\ task' = [op |-> op, who |-> c, arg |-> arg]
  /\ UNCHANGED <<registry, roomName, roomClients, timers, clientVars>>

LeaveCRoom(c) ==
  \/ /\ cRoom[c] = Nil
     /\ Reply(c, "ERR_LEAVE")
     /\ UNCHANGED <<roomVars, clientVars, task>>
  \/ /\ cRoom[c] # Nil
     /\ StartLeave(c, "leave", Nil)

\* FAULT: a client that is in a room already just joins the other one too.
EnterWithoutLeaving(c, n) ==
  \/ /\ registry[n] = Nil
     /\ Reply(c, "ERR_ENTER")
     /\ task' = NoTask
     /\ UNCHANGED <<roomVars, clientVars>>
  \/ /\ registry[n] # Nil
     /\ Join(c, registry[n])
     /\ UNCHANGED <<roomVars, username>>

EnterCRoom(c, n) ==
  \/ /\ registry[n] = Nil
     /\ Reply(c, "ERR_ENTER")
     /\ task' = NoTask
     /\ UNCHANGED <<roomVars, clientVars>>
  \/ /\ registry[n] # Nil
     /\ cRoom[c] # Nil
     /\ StartLeave(c, "switch", n)
  \/ /\ registry[n] # Nil
     /\ cRoom[c] = Nil
     /\ Join(c, registry[n])
     /\ UNCHANGED <<roomVars, username>>

\* FAULT: a name that is taken is given to the new room.
CreateOverwriting(c, n) ==
  \E r \in Rooms :
    /\ roomName[r] = Nil
    /\ roomName' = [roomName EXCEPT ![r] = n]
    /\ registry' = [registry EXCEPT ![n] = r]
    /\ roomExpire' = [roomExpire EXCEPT ![r] = EXTIME]
    /\ quiet' = [quiet EXCEPT ![r] = 0]
    /\ timers' = [timers EXCEPT ![r] = <<EXTIME>>]
    /\ Reply(c, "NOTE_ROOM_CREATE")
    /\ task' = [op |-> "create", who |-> c, arg |-> n]
    /\ UNCHANGED <<roomClients, roomMsgs, clientVars>>

\* The room is made and its timer started; FinishCreate sits the creator down.
CreateCRoom(c, n) ==
  \/ /\ registry[n] # Nil
     /\ Reply(c, "ERR_CREATE")
     /\ UNCHANGED <<roomVars, clientVars, task>>
  \/ /\ registry[n] = Nil
     /\ \E r \in Rooms :
          /\ roomName[r] = Nil
          /\ roomName' = [roomName EXCEPT ![r] = n]
          /\ registry' = [registry EXCEPT ![n] = r]
          /\ roomExpire' = [roomExpire EXCEPT ![r] = EXTIME]
          /\ quiet' = [quiet EXCEPT ![r] = 0]
          /\ timers' = [timers EXCEPT ![r] = <<EXTIME>>]
     /\ Reply(c, "NOTE_ROOM_CREATE")
     /\ task' = [op |-> "create", who |-> c, arg |-> n]
     /\ UNCHANGED <<roomClients, roomMsgs, clientVars>>

SendMsg(c) ==
  \/ /\ cRoom[c] = Nil
     /\ Reply(c, "ERR_SEND")
     /\ UNCHANGED <<roomVars, clientVars, task>>
  \/ /\ cRoom[c] # Nil
     /\ Broadcast(cRoom[c], EntryOf("say", c), roomClients[cRoom[c]])
     /\ UNCHANGED <<registry, roomName, roomClients, timers, clientVars, task>>

\* Both branches tell the news first; FinishRename makes it true.
ChangeUsername(c, u) ==
  /\ \/ /\ cRoom[c] = Nil
        /\ Reply(c, "NOTE_CHANGENAME")
        /\ UNCHANGED roomVars
     \/ /\ cRoom[c] # Nil
        /\ Broadcast(cRoom[c], [EntryOf("name", c) EXCEPT !.now = u],
                     roomClients[cRoom[c]])
        /\ UNCHANGED <<registry, roomName, roomClients, timers>>
  /\ task' = [op |-> "rename", who |-> c, arg |-> u]
  /\ UNCHANGED clientVars

ListCRooms(c) ==
  /\ out' = Repeat(3 + Cardinality({n \in Names : registry[n] # Nil}),
                   c, [kind |-> "list"])
  /\ UNCHANGED <<roomVars, clientVars, task>>

Help(c) ==
  /\ out' = Repeat(HelpLines, c, [kind |-> "help"])
  /\ UNCHANGED <<roomVars, clientVars, task>>

------------------------------------------------------------------------------
(* The lobby goroutine: its select, and the rest of a handler it is in.    *)

\* The select takes a line from c's forwarder.
Take(c) ==
  /\ Idle
  /\ fwd[c] = "running"
  /\ inq[c] # <<>>
  /\ inq' = [inq EXCEPT ![c] = Tail(@)]

\* ParseMsg: the line's handler is called.
ParseMsg(c) ==
  /\ Take(c)
  /\ LET msg == Head(inq[c])
     IN \/ msg.cmd = "create" /\ CreateCRoom(c, msg.arg)
        \/ msg.cmd = "enter" /\ EnterCRoom(c, msg.arg)
        \/ msg.cmd = "leave" /\ LeaveCRoom(c)
        \/ msg.cmd = "list" /\ ListCRooms(c)
        \/ msg.cmd = "help" /\ Help(c)
        \/ msg.cmd = "name" /\ ChangeUsername(c, msg.arg)
        \/ msg.cmd = "say" /\ SendMsg(c)
  /\ UNCHANGED <<conn, writer, fwd, accepting, curClients, lines>>

\* ParseMsg for the quit command: Client.Quit closes the connection, which
\* ends the reader; leaving the room is up to the end of the input.
Quit(c) ==
  /\ Take(c)
  /\ Head(inq[c]).cmd = "quit"
  /\ conn' = [conn EXCEPT ![c] = "closed"]
  /\ UNCHANGED <<writer, fwd, accepting, curClients, lines,
                 roomVars, clientVars, task, out>>

\* FAULT: the end of a client's input is ignored.
IgnoreEOF(c) ==
  /\ Idle
  /\ fwd[c] = "running"
  /\ conn[c] \in {"hungup", "closed"}
  /\ inq[c] = <<>>
  /\ fwd' = [fwd EXCEPT ![c] = "done"]
  /\ UNCHANGED <<conn, inq, writer, accepting, curClients, lines,
                 roomVars, clientVars, task, out>>

\* FAULT: only a peer that hung up is taken out, not one that quit.
LeaveOnHangup(c) ==
  /\ Idle
  /\ fwd[c] = "running"
  /\ conn[c] = "hungup"
  /\ inq[c] = <<>>
  /\ fwd' = [fwd EXCEPT ![c] = "done"]
  /\ LeaveCRoom(c)
  /\ UNCHANGED <<conn, inq, writer, accepting, curClients, lines>>

\* The input of c has ended; its forwarder hands it to leaveRoom and ends.
LeaveOnEOF(c) ==
  /\ Idle
  /\ fwd[c] = "running"
  /\ conn[c] \in {"hungup", "closed"}
  /\ inq[c] = <<>>
  /\ fwd' = [fwd EXCEPT ![c] = "done"]
  /\ LeaveCRoom(c)
  /\ UNCHANGED <<conn, inq, writer, accepting, curClients, lines>>

\* FAULT: a room that is not due yet loses its timer.
DeleteWithoutRearming(r) ==
  /\ Idle
  /\ \E i \in DOMAIN timers[r] :
       /\ timers[r][i] = 0
       /\ timers' = [timers EXCEPT ![r] = RemoveAt(@, i)]
  /\ \/ /\ roomExpire[r] > 0
        /\ UNCHANGED <<registry, cRoom, got>>
     \/ /\ roomExpire[r] = 0
        /\ registry' = [registry EXCEPT ![roomName[r]] = Nil]
        /\ cRoom' = [c \in Clients |->
                       IF c \in Range(roomClients[r]) THEN Nil ELSE cRoom[c]]
        /\ got' = [c \in Clients |->
                     IF c \in Range(roomClients[r]) THEN <<>> ELSE got[c]]
  /\ UNCHANGED <<netVars, roomName, roomClients, roomMsgs, roomExpire, quiet,
                 username, task, out>>

\* A timer of r ends: a room that was used since gets another timer, for the
\* time it has left, and any other is deleted, with nothing sent to anybody.
DeleteCRoom(r) ==
  /\ Idle
  /\ \E i \in DOMAIN timers[r] :
       /\ timers[r][i] = 0
       /\ \/ /\ roomExpire[r] > 0
             /\ timers' = [timers EXCEPT ![r] = Append(RemoveAt(@, i), roomExpire[r])]
             /\ UNCHANGED <<registry, cRoom, got>>
          \/ /\ roomExpire[r] = 0
             /\ timers' = [timers EXCEPT ![r] = RemoveAt(@, i)]
             /\ registry' = [registry EXCEPT ![roomName[r]] = Nil]
             /\ cRoom' = [c \in Clients |->
                            IF c \in Range(roomClients[r]) THEN Nil ELSE cRoom[c]]
             /\ got' = [c \in Clients |->
                          IF c \in Range(roomClients[r]) THEN <<>> ELSE got[c]]
  /\ UNCHANGED <<netVars, roomName, roomClients, roomMsgs, roomExpire, quiet,
                 username, task, out>>

\* A writer that waits receives the next message the handler sends.
LobbySend ==
  /\ out # <<>>
  /\ LET c == Head(out).to
         m == Head(out).msg
     IN /\ writer[c] = "recv"
        /\ writer' = [writer EXCEPT ![c] = "write"]
        /\ got' = [got EXCEPT ![c] = IF m \in Entry THEN Append(@, m) ELSE @]
  /\ out' = Tail(out)
  /\ UNCHANGED <<conn, inq, fwd, accepting, curClients, lines,
                 roomVars, cRoom, username, task>>

\* The handler that is at op has sent all it had to send.
Resume(op) == out = <<>> /\ task.op = op

\* CreateCRoom goes on to EnterCRoom.
FinishCreate ==
  /\ Resume("create")
  /\ EnterCRoom(task.who, task.arg)
  /\ UNCHANGED netVars

\* CRoom.Leave is done.
FinishLeave ==
  /\ Resume("leave")
  /\ RemoveMember(task.who)
  /\ cRoom' = [cRoom EXCEPT ![task.who] = Nil]
  /\ got' = [got EXCEPT ![task.who] = <<>>]
  /\ task' = NoTask
  /\ UNCHANGED <<netVars, registry, roomName, roomMsgs, roomExpire, timers,
                 quiet, username, out>>

\* EnterCRoom has left the old room and joins the other.
FinishSwitch ==
  /\ Resume("switch")
  /\ RemoveMember(task.who)
  /\ Join(task.who, registry[task.arg])
  /\ UNCHANGED <<netVars, registry, roomName, roomMsgs, roomExpire, timers,
                 quiet, username>>

\* FAULT: the new name is announced but not taken.
FinishRenameUnnamed ==
  /\ Resume("rename")
  /\ task' = NoTask
  /\ UNCHANGED <<netVars, roomVars, clientVars, out>>

\* ChangeUsername is done.
FinishRename ==
  /\ Resume("rename")
  /\ username' = [username EXCEPT ![task.who] = task.arg]
  /\ task' = NoTask
  /\ UNCHANGED <<netVars, roomVars, cRoom, got, out>>

\* FAULT: who joins is put on the list only after its arrival was announced.
FinishJoinUnheard ==
  LET c == task.who
      r == cRoom[task.who]
  IN /\ Resume("join")
     /\ roomClients' = [roomClients EXCEPT ![r] = Append(@, c)]
     /\ Broadcast(r, EntryOf("enter", c), roomClients[r])
     /\ task' = NoTask
     /\ UNCHANGED <<netVars, registry, roomName, timers, clientVars>>

\* CRoom.Join is done: the member list grows, and all on it hear of it.
FinishJoin ==
  LET c == task.who
      r == cRoom[task.who]
  IN /\ Resume("join")
     /\ roomClients' = [roomClients EXCEPT ![r] = Append(@, c)]
     /\ Broadcast(r, EntryOf("enter", c), Append(roomClients[r], c))
     /\ task' = NoTask
     /\ UNCHANGED <<netVars, registry, roomName, timers, clientVars>>

Continue == FinishCreate \/ FinishLeave \/ FinishSwitch \/ FinishRename \/ FinishJoin

\* FAULT: a wait goes on past its end.
SoonerUnbounded(n) == n - 1

\* A wait of n, a tick later: sleeping for no time returns at once.
Sooner(n) == IF n > 0 THEN n - 1 ELSE 0

\* A tick passes, while there is a timer and something left to wait for.
Tick ==
  /\ \E r \in Rooms :
       /\ timers[r] # <<>>
       /\ {roomExpire[r]} \cup Range(timers[r]) # {0}
  /\ roomExpire' = [r \in Rooms |-> Sooner(roomExpire[r])]
  /\ timers' = [r \in Rooms |-> [i \in DOMAIN timers[r] |-> Sooner(timers[r][i])]]
  /\ quiet' = [r \in Rooms |-> IF quiet[r] < EXTIME THEN quiet[r] + 1 ELSE EXTIME]
  /\ UNCHANGED <<netVars, registry, roomName, roomClients, roomMsgs,
                 clientVars, task, out>>

\* Everybody has connected, all the input the bounds allow was handled, and
\* every room is gone: the server waits for ever, which is not a deadlock.
Quiescent ==
  /\ Idle
  /\ accepting = Nil
  /\ \A c \in Clients : conn[c] # "new" /\ writer[c] \in {"recv", "dead"}
  /\ \A c \in Clients : fwd[c] = "running" => conn[c] = "open" /\ inq[c] = <<>>
  /\ \A r \in Rooms : timers[r] = <<>>
  /\ UNCHANGED vars

Lobby ==
  \/ \E c \in Clients : ParseMsg(c) \/ Quit(c) \/ LeaveOnEOF(c)
  \/ \E r \in Rooms : DeleteCRoom(r)
  \/ LobbySend
  \/ Continue

Peer(c) == Hangup(c) \/ LoseInput(c) \/ \E l \in Lines : TypeLine(c, l)

Next ==
  \/ Lobby
  \/ \E c \in Clients :
       Accept(c) \/ SendWelcome(c) \/ Flush(c) \/ FlushFails(c) \/ Peer(c)
  \/ Tick
  \/ Quiescent

Spec == Init /\ [][Next]_vars

------------------------------------------------------------------------------
(* Fairness: a goroutine that can run runs in the end, a write to a socket  *)
(* succeeds or fails in the end, and time goes on.  People owe nothing.     *)

FairSpec ==
  /\ Spec
  /\ WF_vars(Lobby)
  /\ \A c \in Clients : /\ WF_vars(SendWelcome(c))
                        /\ WF_vars(Flush(c) \/ FlushFails(c))
  /\ WF_vars(Tick)

------------------------------------------------------------------------------
(* What makes the server correct.                                          *)

Joining(c) == task.op = "join" /\ task.who = c

\* What the rest of a handler may rely on, though the lobby was blocked in its
\* sends since: the client is in the room it leaves or joins, and the room it
\* moves to is still registered.
TaskOK ==
  /\ task.op \in {"leave", "switch", "join"} => cRoom[task.who] # Nil
  /\ task.op \in {"create", "switch"} => registry[task.arg] # Nil

\* The two records of who is in a room agree: Client.cRoom (which the handlers
\* test) and CRoom.curClients (which Broadcast sends to), but for a client that
\* is being sent the log.  Nobody is listed twice; nobody is in a deleted room.
MembershipAgrees ==
  /\ \A r \in Rooms : IsInjective(roomClients[r])
  /\ \A c \in Clients : cRoom[c] # Nil => Registered(cRoom[c])
  /\ \A r \in Rooms : Registered(r) =>
       \A c \in Clients :
         c \in Range(roomClients[r]) <=> cRoom[c] = r /\ ~Joining(c)

\* The registry, the rooms and the timers agree: a room is registered under its
\* own name, has one timer as long as it is registered and none otherwise, and
\* the timer never sleeps past the expiry that DeleteCRoom compares with.  The
\* expiry lies EXTIME after the last thing said, and nobody is listed in a room
\* that was not created yet.
RoomsAccounted ==
  /\ \A n \in Names : registry[n] # Nil => roomName[registry[n]] = n
  /\ \A r \in Rooms :
       /\ Registered(r) => Len(timers[r]) = 1 /\ timers[r][1] <= roomExpire[r]
       /\ ~Registered(r) => timers[r] = <<>>
       /\ quiet[r] + roomExpire[r] = EXTIME
       /\ roomName[r] = Nil => roomClients[r] = <<>>

\* The log entries that the handler is still to send to c.
InFlight(c) ==
  ElementsAt([i \in DOMAIN out |-> out[i].msg],
             {i \in DOMAIN out : out[i].to = c /\ out[i].msg \in Entry})

\* A client in a room was handed, or is about to be, the whole log of the room
\* in the room's order: the history Join replays and what Broadcast sends meet
\* without a gap or an overlap, and so does what a leaver is sent.
LogDelivered ==
  \A c \in Clients :
    cRoom[c] # Nil => got[c] \o InFlight(c) = roomMsgs[cRoom[c]]

\* Position i of log s is the last before position j by the author of j.
Precedes(s, i, j) ==
  /\ i < j
  /\ s[i].who = s[j].who
  /\ \A k \in i + 1 .. j - 1 : s[k].who # s[j].who

\* Whoever reads the log of a room can tell who did what: each author arrives
\* before anything else and again only after leaving, and goes by the name it
\* was last announced under (ChangeUsername and Leave show the old name, and
\* the name is changed only when its news is out).
LogsReadable ==
  \A r \in Rooms :
    LET s == roomMsgs[r]
    IN \A j \in DOMAIN s :
         /\ (\A i \in DOMAIN s : ~Precedes(s, i, j)) => s[j].kind = "enter"
         /\ \A i \in DOMAIN s : Precedes(s, i, j) =>
              /\ s[j].kind = "enter" <=> s[i].kind = "leave"
              /\ s[j].kind # "enter" => s[j].as = s[i].now

\* The log of a room tells who is in it: those who arrived and did not leave.
LogTellsMembership ==
  Idle =>
    \A r \in Rooms : Registered(r) =>
      \A c \in Clients :
        cRoom[c] = r <=>
          \E i \in DOMAIN roomMsgs[r] :
            /\ roomMsgs[r][i].who = c
            /\ roomMsgs[r][i].kind # "leave"
            /\ \A k \in i + 1 .. Len(roomMsgs[r]) : roomMsgs[r][k].who # c

\* Once the end of a client's input was handled, the client is in no room.
DepartedStayOut ==
  \A c \in Clients :
    fwd[c] = "done" /\ Idle =>
      /\ cRoom[c] = Nil
      /\ \A r \in Rooms : Registered(r) => c \notin Range(roomClients[r])

\* A room is deleted only when nothing was said in it for EXTIME, however its
\* timers and the renewals by Broadcast interleave.
DeletionOnlyWhenInactive ==
  [][\A r \in Rooms : Registered(r) /\ ~Registered(r)' => quiet[r] = EXTIME]_vars

\* The server keeps the promises of ChatRooms: what a client is handed is its
\* room's log from the start, only seated clients add to it, and a deleted
\* room is closed for good, though its object lives on.
Chat ==
  INSTANCE ChatRooms WITH
    status <- [r \in Rooms |-> IF roomName[r] = Nil THEN "fresh"
                               ELSE IF Registered(r) THEN "open" ELSE "closed"],
    log <- roomMsgs,
    seat <- cRoom,
    seen <- got

ImplementsChatRooms == Chat!Spec

\* The lobby is blocked for good on a client whose writer has ended.
Wedged == out # <<>> /\ writer[Head(out).to] = "dead"

\* With peers that stay, every line a client types is handled, and what it
\* sends is sent, whatever the others and the timers do meanwhile.
LinesHandled ==
  \A c \in Clients :
    fwd[c] = "running" /\ inq[c] # <<>> ~> inq[c] = <<>> /\ Idle

\* A room that nobody uses any more is deleted: its chain of timers ends only
\* with the room.  (The input of a behaviour is bounded, so all use ends.)
RoomsExpire == \A r \in Rooms : Registered(r) ~> ~Registered(r)

\* The end of a client's input reaches the lobby, unless the lobby is blocked
\* for good by then.
DepartureHandled ==
  \A c \in Clients :
    fwd[c] = "running" /\ conn[c] \in {"hungup", "closed"} ~>
      fwd[c] = "done" \/ Wedged

------------------------------------------------------------------------------
(* What comments of the source say, and the code does not do.              *)

\* newServer.go:203: the forwarder is to "Add the latest incoming message to the
\* lobby, for each client.", and 400-401: Broadcast sends "to each user within
\* it's channel": the lines of a client that stays and reads reach the lobby, and
\* what is under way to it is sent, whoever else goes, from a room or from none.
StayersServed ==
  \A c \in Clients :
    conn[c] = "open" /\ (inq[c] # <<>> \/ InFlight(c) # <<>>) ~>
      conn[c] # "open" \/ (inq[c] = <<>> /\ InFlight(c) = <<>>)

\* newServer.go:400-401 by itself: what Broadcast has begun to send is sent to
\* each client that stays, whoever else in the room goes.
BroadcastReachesAll ==
  \A c \in Clients :
    InFlight(c) # <<>> /\ conn[c] = "open" ~> InFlight(c) = <<>> \/ conn[c] # "open"

\* newServer.go:53-58: at most CLIENTMAX clients are "allowed to connect", and
\* the reason why one "cannot connect" is the "server being full": whoever is
\* turned away while the lobby is in its select, CLIENTMAX clients are there
\* whose end was not handled.
TurnedAwayOnlyWhenFull ==
  [][\A c \in Clients :
       Idle /\ conn[c] = "new" /\ conn'[c] = "closed" =>
         Cardinality({d \in curClients : fwd[d] # "done"}) >= CLIENTMAX]_vars
==============================================================================
