------------------------------ MODULE RpcRooms -------------------------------
(***************************************************************************)
(* The RPC chat server of Evan's Work/Assign 2/server with its client.     *)
(*                                                                         *)
(* Every room has a goroutine of its own, which owns the room's member     *)
(* list and log and serves the room's four channels one request at a time. *)
(* An RPC handler runs in the goroutine of its call: it reads Client.CRoom *)
(* under the client's read lock and keeps that lock while it waits for     *)
(* rooms to take its requests; a room that seats or unseats a client       *)
(* wants the same lock for writing.  The client program makes one call at  *)
(* a time for its user and, beside it, polls for messages with RecMsg.     *)
(*                                                                         *)
(* A goroutine is cut where it may block: at a channel operation and at a  *)
(* lock.  Both tables, of clients and of rooms, have a mutex that is held  *)
(* for one step only, which makes each operation on them one action.       *)
(*                                                                         *)
(* A message is nothing but a send, and a log is its length: no property   *)
(* depends on their text.  The name of a client is left out likewise, but  *)
(* not the lock under which it is changed.  Time is a countdown.           *)
(*                                                                         *)
(* Definitions marked FAULT are plausible slips in the definition that     *)
(* follows them; no other definition refers to them.                       *)
(***************************************************************************)
EXTENDS Naturals, Sequences, FiniteSets, Functions, SequencesExt

CONSTANTS Clients,    \* clients; who connects again is another client
          Names,      \* names of rooms that people type
          Rooms,      \* CRoom objects
          Nil,        \* the nil pointer
          Lines,      \* what people type (a subset of Line)
          EXTIME,     \* ticks of inactivity after which a room expires
          MaxLines,   \* bound: lines typed in a behaviour
          Droppable   \* clients whose program may be killed

\* A line that becomes a call (the help command is answered by the client).
Line == [cmd : {"create", "join"}, arg : Names]
          \cup [cmd : {"leave", "say", "list", "name", "quit"}, arg : {Nil}]

\* The goroutines that take locks: a client's handler and a room's loop.
Threads == Clients \cup Rooms

ASSUME NilAssumption == Nil \notin Threads \cup Names
ASSUME ThreadsAssumption == Clients \cap Rooms = {}
ASSUME LinesAssumption == Lines \subseteq Line
ASSUME LimitsAssumption == EXTIME \in Nat \ {0} /\ MaxLines \in Nat
ASSUME DroppableAssumption == Droppable \subseteq Clients

VARIABLES
  \* the tables
  curClients,   \* the clients whose token is known
  cRooms,       \* cRooms: from names to rooms
  \* Client
  cRoom,        \* cRoom[c]: Client.CRoom
  rlock,        \* rlock[c]: the threads that hold c's mutex for reading
  wlock,        \* wlock[c]: the thread that locked it, or waits for its readers
  \* calls and polls
  call,         \* call[c]: the call c's user is in, and where its handler is
  poll,         \* poll[c]: RecMsg is "wait"ing on outMsg; "none" before, "done" after
  welcome,      \* clients whose goroutine that sends SCONNECT still runs
  gone,         \* clients whose program has ended
  up,           \* the server runs: no handler has panicked
  lines,        \* bound: how many lines were typed so far
  \* CRoom
  roomName,     \* roomName[r]: CRoom.cName, Nil before r is made
  roomClients,  \* roomClients[r]: CRoom.curClients
  roomMsgs,     \* roomMsgs[r]: the length of CRoom.msgs
  roomExpire,   \* roomExpire[r]: ticks until CRoom.expire, 0 once passed
  timer,        \* timer[r]: what the goroutine of Delete has left to sleep, or Nil
  loop,         \* loop[r]: where r's goroutine is, and for which client
  out,          \* out[r]: the clients it is still to send to, or to unseat
  \* history, for the properties only
  quiet         \* quiet[r]: ticks since somebody came, spoke or left in r

tableVars == <<curClients, cRooms>>
lockVars == <<rlock, wlock>>
callVars == <<call, poll, welcome, gone, up, lines>>
roomVars == <<roomName, roomClients, roomMsgs, roomExpire, timer, loop, out, quiet>>
vars == <<tableVars, cRoom, lockVars, callVars, roomVars>>

\* A call: its kind or how far its handler is, the name it is about, the room
\* whose channel it waits at, and the room that it is to join.
Call == [op : {"out", "idle", "reply", "found", "renaming",
               "create", "join", "leave", "say", "list", "name", "quit",
               "joining", "leaving", "switching", "saying"},
         arg : Names \cup {Nil}, at : Rooms \cup {Nil}, room : Rooms \cup {Nil}]

CallAt(op) == [op |-> op, arg |-> Nil, at |-> Nil, room |-> Nil]

\* What a room's goroutine does: "none" before it is started, "select", or a
\* stage of Broadcast, AddClient, removeClient or Delete.
Loop == [op : {"none", "select", "said",
               "add", "adding", "greeting",
               "remove", "removing", "unlisted", "unseating",
               "closing", "evict", "evicting"},
         who : Clients \cup {Nil}]

At(op, c) == [op |-> op, who |-> c]

\* The state is well formed.
TypeOK ==
  /\ curClients \in SUBSET Clients
  /\ cRooms \in [Names -> Rooms \cup {Nil}]
  /\ cRoom \in [Clients -> Rooms \cup {Nil}]
  /\ rlock \in [Clients -> SUBSET Threads]
  /\ wlock \in [Clients -> Threads \cup {Nil}]
  /\ call \in [Clients -> Call]
  /\ poll \in [Clients -> {"none", "wait", "done"}]
  /\ welcome \in SUBSET Clients
  /\ gone \in SUBSET Clients
  /\ up \in BOOLEAN
  /\ lines \in 0 .. MaxLines
  /\ roomName \in [Rooms -> Names \cup {Nil}]
  /\ roomClients \in [Rooms -> Seq(Clients)]
  /\ roomMsgs \in [Rooms -> Nat]
  /\ roomExpire \in [Rooms -> 0 .. EXTIME]
  /\ timer \in [Rooms -> 0 .. EXTIME \cup {Nil}]
  /\ loop \in [Rooms -> Loop]
  /\ out \in [Rooms -> Seq(Clients)]
  /\ quiet \in [Rooms -> 0 .. EXTIME]

Init ==
  /\ curClients = {}
  /\ cRooms = [n \in Names |-> Nil]
  /\ cRoom = [c \in Clients |-> Nil]
  /\ rlock = [c \in Clients |-> {}]
  /\ wlock = [c \in Clients |-> Nil]
  /\ call = [c \in Clients |-> CallAt("out")]
  /\ poll = [c \in Clients |-> "none"]
  /\ welcome = {}
  /\ gone = {}
  /\ up = TRUE
  /\ lines = 0
  /\ roomName = [r \in Rooms |-> Nil]
  /\ roomClients = [r \in Rooms |-> <<>>]
  /\ roomMsgs = [r \in Rooms |-> 0]
  /\ roomExpire = [r \in Rooms |-> 0]
  /\ timer = [r \in Rooms |-> Nil]
  /\ loop = [r \in Rooms |-> At("none", Nil)]
  /\ out = [r \in Rooms |-> <<>>]
  /\ quiet = [r \in Rooms |-> EXTIME]

Registered(r) == \E n \in Names : cRooms[n] = r

------------------------------------------------------------------------------
(* The mutex of a client (sync.RWMutex) and its channel outMsg.             *)

\* Lock, first half: one writer at a time, and new readers wait for it.
Announce(t, c) ==
  /\ wlock[c] = Nil
  /\ wlock' = [wlock EXCEPT ![c] = t]

\* Lock, second half: the readers are out.
Exclusive(t, c) == wlock[c] = t /\ rlock[c] = {}

Unlock(c) == wlock' = [wlock EXCEPT ![c] = Nil]

RLock(t, c) ==
  /\ wlock[c] = Nil
  /\ rlock' = [rlock EXCEPT ![c] = @ \cup {t}]

RUnlock(t, c) == rlock' = [rlock EXCEPT ![c] = @ \ {t}]

\* RecMsg of c receives a message; the client polls again as long as it runs.
Receive(c) ==
  /\ poll[c] = "wait"
  /\ poll' = [poll EXCEPT ![c] = IF c \in gone THEN "done" ELSE "wait"]

------------------------------------------------------------------------------
(* The client program.                                                      *)

\* Connect: the token is known from now on, and the client begins to poll.
Connect(c) ==
  /\ call[c].op = "out"
  /\ call' = [call EXCEPT ![c] = CallAt("idle")]
  /\ curClients' = curClients \cup {c}
  /\ welcome' = welcome \cup {c}
  /\ poll' = [poll EXCEPT ![c] = "wait"]
  /\ UNCHANGED <<cRooms, cRoom, lockVars, gone, up, lines, roomVars>>

\* The user types a line.  The guards on the amount of input are bounds.
UsrParse(c, l) ==
  /\ call[c].op = "idle"
  /\ c \notin gone
  /\ lines < MaxLines
  /\ l.cmd = "create" =>
       Cardinality({d \in Clients : call[d].op = "create"})
         < Cardinality({r \in Rooms : roomName[r] = Nil})
  /\ lines' = lines + 1
  /\ call' = [call EXCEPT ![c] = [CallAt(l.cmd) EXCEPT !.arg = l.arg]]
  /\ UNCHANGED <<tableVars, cRoom, lockVars, poll, welcome, gone, up, roomVars>>

\* The client program ends; a RecMsg that waits on the server takes one more
\* message with it, unless the program was between two of them.
End(c) ==
  /\ gone' = gone \cup {c}
  /\ \E p \in {poll[c], "done"} : poll' = [poll EXCEPT ![c] = p]

\* The client program is killed, or cut off.
Drop(c) ==
  /\ c \in Droppable \ gone
  /\ call[c].op # "out"
  /\ End(c)
  /\ UNCHANGED <<tableVars, cRoom, lockVars, call, welcome, up, lines, roomVars>>

SendWelcome(c) ==
  /\ c \in welcome
  /\ Receive(c)
  /\ welcome' = welcome \ {c}
  /\ UNCHANGED <<tableVars, cRoom, lockVars, call, gone, up, lines, roomVars>>

------------------------------------------------------------------------------
(* The handlers of the Receiver.                                            *)

\* A handler returns, and the read lock it may hold is released.
Return(c) ==
  /\ call' = [call EXCEPT ![c] = CallAt("idle")]
  /\ RUnlock(c, c)

\* A handler goes on to wait at the channel of a room.
WaitAt(c, op, r) ==
  call' = [call EXCEPT ![c] = [CallAt(op) EXCEPT !.at = r]]

Answer(c) == call' = [call EXCEPT ![c] = CallAt("reply")]

\* FAULT: the check for a room of that name is not made.
CreateOverwriting(c) ==
  /\ call[c].op = "create"
  /\ \E r \in Rooms :
       /\ roomName[r] = Nil
       /\ roomName' = [roomName EXCEPT ![r] = call[c].arg]
       /\ roomExpire' = [roomExpire EXCEPT ![r] = EXTIME]
       /\ quiet' = [quiet EXCEPT ![r] = 0]
       /\ timer' = [timer EXCEPT ![r] = EXTIME]
       /\ loop' = [loop EXCEPT ![r] = At("select", Nil)]
       /\ cRooms' = [cRooms EXCEPT ![call[c].arg] = r]
  /\ Answer(c)
  /\ UNCHANGED <<curClients, cRoom, lockVars, poll, welcome, gone, up, lines,
                 roomClients, roomMsgs, out>>

\* The room is made, with its goroutine and its timer, before it turns out
\* whether the name is free; if it is not, the room stays, without a name.
CreateCRoom(c) ==
  /\ call[c].op = "create"
  /\ \E r \in Rooms :
       /\ roomName[r] = Nil
       /\ roomName' = [roomName EXCEPT ![r] = call[c].arg]
       /\ roomExpire' = [roomExpire EXCEPT ![r] = EXTIME]
       /\ quiet' = [quiet EXCEPT ![r] = 0]
       /\ timer' = [timer EXCEPT ![r] = EXTIME]
       /\ loop' = [loop EXCEPT ![r] = At("select", Nil)]
       /\ \/ /\ cRooms[call[c].arg] = Nil
             /\ cRooms' = [cRooms EXCEPT ![call[c].arg] = r]
          \/ /\ cRooms[call[c].arg] # Nil
             /\ UNCHANGED cRooms
  /\ Answer(c)
  /\ UNCHANGED <<curClients, cRoom, lockVars, poll, welcome, gone, up, lines,
                 roomClients, roomMsgs, out>>

\* The room is looked up before the client is locked.
JoinCRoom(c) ==
  /\ call[c].op = "join"
  /\ LET r == cRooms[call[c].arg]
     IN \/ r = Nil /\ Answer(c)
        \/ r # Nil /\ call' = [call EXCEPT ![c] = [CallAt("found") EXCEPT !.room = r]]
  /\ UNCHANGED <<tableVars, cRoom, lockVars, poll, welcome, gone, up, lines, roomVars>>

\* The rest of JoinCRoom under the read lock: first the old room is told.
JoinLocked(c) ==
  /\ call[c].op = "found"
  /\ RLock(c, c)
  /\ \/ /\ cRoom[c] = Nil
        /\ WaitAt(c, "joining", call[c].room)
     \/ /\ cRoom[c] # Nil
        /\ call' = [call EXCEPT ![c].op = "switching", ![c].at = cRoom[c]]
  /\ UNCHANGED <<tableVars, cRoom, wlock, poll, welcome, gone, up, lines, roomVars>>

\* FAULT: the client is not locked while the room is waited for.
SendMsgUnlocked(c) ==
  /\ call[c].op = "say"
  /\ wlock[c] = Nil
  /\ \/ cRoom[c] = Nil /\ Answer(c)
     \/ cRoom[c] # Nil /\ WaitAt(c, "saying", cRoom[c])
  /\ UNCHANGED <<tableVars, cRoom, lockVars, poll, welcome, gone, up, lines, roomVars>>

SendMsg(c) ==
  /\ call[c].op = "say"
  /\ RLock(c, c)
  /\ \/ cRoom[c] = Nil /\ Answer(c)
     \/ cRoom[c] # Nil /\ WaitAt(c, "saying", cRoom[c])
  /\ UNCHANGED <<tableVars, cRoom, wlock, poll, welcome, gone, up, lines, roomVars>>

\* FAULT: the client is not locked while the room is waited for.
LeaveCRoomUnlocked(c) ==
  /\ call[c].op = "leave"
  /\ wlock[c] = Nil
  /\ \/ /\ cRoom[c] = Nil
        /\ up' = FALSE
        /\ UNCHANGED call
     \/ /\ cRoom[c] # Nil
        /\ WaitAt(c, "leaving", cRoom[c])
        /\ UNCHANGED up
  /\ UNCHANGED <<tableVars, cRoom, lockVars, poll, welcome, gone, lines, roomVars>>

\* In the lobby there is no room to take the channel of: the handler panics,
\* and with it the server.
LeaveCRoom(c) ==
  /\ call[c].op = "leave"
  /\ RLock(c, c)
  /\ \/ /\ cRoom[c] = Nil
        /\ up' = FALSE
        /\ UNCHANGED call
     \/ /\ cRoom[c] # Nil
        /\ WaitAt(c, "leaving", cRoom[c])
        /\ UNCHANGED up
  /\ UNCHANGED <<tableVars, cRoom, wlock, poll, welcome, gone, lines, roomVars>>

ListCRooms(c) ==
  /\ call[c].op = "list"
  /\ Answer(c)
  /\ UNCHANGED <<tableVars, cRoom, lockVars, poll, welcome, gone, up, lines, roomVars>>

\* ChangeName locks the client for writing.
ChangeName(c) ==
  /\ call[c].op = "name"
  /\ Announce(c, c)
  /\ call' = [call EXCEPT ![c] = CallAt("renaming")]
  /\ UNCHANGED <<tableVars, cRoom, rlock, poll, welcome, gone, up, lines, roomVars>>

NameChanged(c) ==
  /\ call[c].op = "renaming"
  /\ Exclusive(c, c)
  /\ Unlock(c)
  /\ Return(c)
  /\ UNCHANGED <<tableVars, cRoom, poll, welcome, gone, up, lines, roomVars>>

\* The token is forgotten, the room is not told; the client program ends.
Quit(c) ==
  /\ call[c].op = "quit"
  /\ curClients' = curClients \ {c}
  /\ call' = [call EXCEPT ![c] = CallAt("idle")]
  /\ End(c)
  /\ UNCHANGED <<cRooms, cRoom, lockVars, welcome, up, lines, roomVars>>

\* The handler's own message is received, and the handler returns.
SendReply(c) ==
  /\ call[c].op = "reply"
  /\ Receive(c)
  /\ Return(c)
  /\ UNCHANGED <<tableVars, cRoom, wlock, welcome, gone, up, lines, roomVars>>

------------------------------------------------------------------------------
(* The goroutine of a room: its select.                                     *)

\* The room is in its select, and c's handler at its channel for op.
Takes(r, c, op) ==
  /\ loop[r].op = "select"
  /\ call[c].op = op
  /\ call[c].at = r

Enter(r, op, c) == loop' = [loop EXCEPT ![r] = At(op, c)]

\* A room renews its expiry, keeps the message and begins to send it to its
\* members, and then what is for one client only.
Broadcast(r, to) ==
  /\ roomExpire' = [roomExpire EXCEPT ![r] = EXTIME]
  /\ roomMsgs' = [roomMsgs EXCEPT ![r] = @ + 1]
  /\ out' = [out EXCEPT ![r] = roomClients[r] \o to]

TakeJoin(r, c) ==
  /\ Takes(r, c, "joining")
  /\ Return(c)
  /\ Enter(r, "add", c)
  /\ UNCHANGED <<tableVars, cRoom, wlock, poll, welcome, gone, up, lines, roomName,
                 roomClients, roomMsgs, roomExpire, timer, out, quiet>>

\* LeaveCRoom returns; JoinCRoom goes on to the room that is to be joined.
TakeLeave(r, c) ==
  /\ \/ /\ Takes(r, c, "leaving")
        /\ Return(c)
     \/ /\ Takes(r, c, "switching")
        /\ WaitAt(c, "joining", call[c].room)
        /\ UNCHANGED rlock
  /\ Enter(r, "remove", c)
  /\ UNCHANGED <<tableVars, cRoom, wlock, poll, welcome, gone, up, lines, roomName,
                 roomClients, roomMsgs, roomExpire, timer, out, quiet>>

TakeMessage(r, c) ==
  /\ Takes(r, c, "saying")
  /\ Return(c)
  /\ Broadcast(r, <<>>)
  /\ quiet' = [quiet EXCEPT ![r] = 0]
  /\ Enter(r, "said", Nil)
  /\ UNCHANGED <<tableVars, cRoom, wlock, poll, welcome, gone, up, lines, roomName,
                 roomClients, timer>>

\* FAULT: a room that is not due yet loses its timer.
TakeExpiryOnce(r) ==
  /\ loop[r].op = "select"
  /\ timer[r] = 0
  /\ timer' = [timer EXCEPT ![r] = Nil]
  /\ \/ /\ roomExpire[r] > 0
        /\ UNCHANGED <<roomExpire, roomMsgs, out, loop>>
     \/ /\ roomExpire[r] = 0
        /\ Broadcast(r, <<>>)
        /\ Enter(r, "closing", Nil)
  /\ UNCHANGED <<tableVars, cRoom, lockVars, callVars, roomName, roomClients, quiet>>

\* Delete: a room that was used since gets another timer, for the time it has
\* left; any other announces its end.
TakeExpiry(r) ==
  /\ loop[r].op = "select"
  /\ timer[r] = 0
  /\ \/ /\ roomExpire[r] > 0
        /\ timer' = [timer EXCEPT ![r] = roomExpire[r]]
        /\ UNCHANGED <<roomExpire, roomMsgs, out, loop>>
     \/ /\ roomExpire[r] = 0
        /\ timer' = [timer EXCEPT ![r] = Nil]
        /\ Broadcast(r, <<>>)
        /\ Enter(r, "closing", Nil)
  /\ UNCHANGED <<tableVars, cRoom, lockVars, callVars, roomName, roomClients, quiet>>

------------------------------------------------------------------------------
(* The goroutine of a room: what it does for a request.                     *)

\* One send of a loop is received.
RoomSend(r) ==
  /\ loop[r].op \in {"said", "greeting", "removing", "closing"}
  /\ out[r] # <<>>
  /\ Receive(Head(out[r]))
  /\ out' = [out EXCEPT ![r] = Tail(@)]
  /\ UNCHANGED <<tableVars, cRoom, lockVars, call, welcome, gone, up, lines, roomName,
                 roomClients, roomMsgs, roomExpire, timer, loop, quiet>>

\* All sends of stage op are through.
Sent(r, op) == loop[r].op = op /\ out[r] = <<>>

Said(r) ==
  /\ Sent(r, "said")
  /\ Enter(r, "select", Nil)
  /\ UNCHANGED <<tableVars, cRoom, lockVars, callVars, roomName, roomClients, roomMsgs,
                 roomExpire, timer, out, quiet>>

\* A room asks for the lock of the client it has to do with.
RoomLock(r) ==
  /\ \/ /\ loop[r].op \in {"add", "unlisted"}
        /\ Announce(r, loop[r].who)
        /\ Enter(r, IF loop[r].op = "add" THEN "adding" ELSE "unseating", loop[r].who)
     \/ /\ loop[r].op = "evict"
        /\ out[r] # <<>>
        /\ Announce(r, Head(out[r]))
        /\ Enter(r, "evicting", Nil)
  /\ UNCHANGED <<tableVars, cRoom, rlock, callVars, roomName, roomClients, roomMsgs,
                 roomExpire, timer, out, quiet>>

\* AddClient, the client locked: the arrival is broadcast to the members, and
\* then the log, arrival included, is sent to the client.
AddClient(r) ==
  LET c == loop[r].who
  IN /\ loop[r].op = "adding"
     /\ Exclusive(r, c)
     /\ Broadcast(r, [i \in 1 .. roomMsgs[r] + 1 |-> c])
     /\ quiet' = [quiet EXCEPT ![r] = 0]
     /\ Enter(r, "greeting", c)
     /\ UNCHANGED <<tableVars, cRoom, lockVars, callVars, roomName, roomClients, timer>>

\* FAULT: the client is not unlocked.
ClientAddedLocked(r) ==
  LET c == loop[r].who
  IN /\ Sent(r, "greeting")
     /\ roomClients' = [roomClients EXCEPT ![r] = Append(@, c)]
     /\ cRoom' = [cRoom EXCEPT ![c] = r]
     /\ Enter(r, "select", Nil)
     /\ UNCHANGED <<tableVars, lockVars, callVars, roomName, roomMsgs, roomExpire,
                    timer, out, quiet>>

ClientAdded(r) ==
  LET c == loop[r].who
  IN /\ Sent(r, "greeting")
     /\ roomClients' = [roomClients EXCEPT ![r] = Append(@, c)]
     /\ cRoom' = [cRoom EXCEPT ![c] = r]
     /\ Unlock(c)
     /\ Enter(r, "select", Nil)
     /\ UNCHANGED <<tableVars, rlock, callVars, roomName, roomMsgs, roomExpire,
                    timer, out, quiet>>

\* removeClient, in three parts: the departure is broadcast under the read
\* lock, the client is taken off the list under none, and unseated under the
\* write lock.
RemoveClient(r) ==
  LET c == loop[r].who
  IN /\ loop[r].op = "remove"
     /\ RLock(r, c)
     /\ Broadcast(r, <<>>)
     /\ quiet' = [quiet EXCEPT ![r] = 0]
     /\ Enter(r, "removing", c)
     /\ UNCHANGED <<tableVars, cRoom, wlock, callVars, roomName, roomClients, timer>>

Unlist(r) ==
  LET c == loop[r].who
  IN /\ Sent(r, "removing")
     /\ RUnlock(r, c)
     /\ roomClients' = [roomClients EXCEPT ![r] = RemoveFirst(@, c)]
     /\ Enter(r, "unlisted", c)
     /\ UNCHANGED <<tableVars, cRoom, wlock, callVars, roomName, roomMsgs, roomExpire,
                    timer, out, quiet>>

\* FAULT: the client is unseated under the read locks of others.
UnseatAnyway(r) ==
  LET c == loop[r].who
  IN /\ loop[r].op = "unseating"
     /\ wlock[c] = r
     /\ cRoom' = [cRoom EXCEPT ![c] = Nil]
     /\ Unlock(c)
     /\ Enter(r, "select", Nil)
     /\ UNCHANGED <<tableVars, rlock, callVars, roomName, roomClients, roomMsgs,
                    roomExpire, timer, out, quiet>>

Unseat(r) ==
  LET c == loop[r].who
  IN /\ loop[r].op = "unseating"
     /\ Exclusive(r, c)
     /\ cRoom' = [cRoom EXCEPT ![c] = Nil]
     /\ Unlock(c)
     /\ Enter(r, "select", Nil)
     /\ UNCHANGED <<tableVars, rlock, callVars, roomName, roomClients, roomMsgs,
                    roomExpire, timer, out, quiet>>

\* Delete, the end announced: the members, who stay on the list, are to be
\* unseated one by one.
Close(r) ==
  /\ Sent(r, "closing")
  /\ out' = [out EXCEPT ![r] = roomClients[r]]
  /\ Enter(r, "evict", Nil)
  /\ UNCHANGED <<tableVars, cRoom, lockVars, callVars, roomName, roomClients, roomMsgs,
                 roomExpire, timer, quiet>>

Evict(r) ==
  LET c == Head(out[r])
  IN /\ loop[r].op = "evicting"
     /\ Exclusive(r, c)
     /\ cRoom' = [cRoom EXCEPT ![c] = Nil]
     /\ Unlock(c)
     /\ out' = [out EXCEPT ![r] = Tail(@)]
     /\ Enter(r, "evict", Nil)
     /\ UNCHANGED <<tableVars, rlock, callVars, roomName, roomClients, roomMsgs,
                    roomExpire, timer, quiet>>

\* deleteCRoom: whichever room has the name now goes out of the table.
DeleteCRoom(r) ==
  /\ Sent(r, "evict")
  /\ cRooms' = [cRooms EXCEPT ![roomName[r]] = Nil]
  /\ Enter(r, "select", Nil)
  /\ UNCHANGED <<curClients, cRoom, lockVars, callVars, roomName, roomClients, roomMsgs,
                 roomExpire, timer, out, quiet>>

------------------------------------------------------------------------------

\* FAULT: a wait goes on past its end.
SoonerUnbounded(n) == n - 1

\* A wait of n, a tick later.
Sooner(n) == IF n > 0 THEN n - 1 ELSE 0

\* A tick passes, while there is a timer and something left to wait for.
Tick ==
  /\ \E r \in Rooms : timer[r] # Nil /\ {timer[r], roomExpire[r]} # {0}
  /\ roomExpire' = [r \in Rooms |-> Sooner(roomExpire[r])]
  /\ timer' = [r \in Rooms |-> IF timer[r] = Nil THEN Nil ELSE Sooner(timer[r])]
  /\ quiet' = [r \in Rooms |-> IF quiet[r] < EXTIME THEN quiet[r] + 1 ELSE EXTIME]
  /\ UNCHANGED <<tableVars, cRoom, lockVars, callVars, roomName, roomClients, roomMsgs,
                 loop, out>>

Handler(c) ==
  \/ CreateCRoom(c) \/ JoinCRoom(c) \/ JoinLocked(c) \/ SendMsg(c) \/ LeaveCRoom(c)
  \/ ListCRooms(c) \/ ChangeName(c) \/ NameChanged(c) \/ Quit(c) \/ SendReply(c)

Listen(r) ==
  \/ \E c \in Clients : TakeJoin(r, c) \/ TakeLeave(r, c) \/ TakeMessage(r, c)
  \/ TakeExpiry(r) \/ RoomSend(r) \/ Said(r) \/ RoomLock(r)
  \/ AddClient(r) \/ ClientAdded(r) \/ RemoveClient(r) \/ Unlist(r) \/ Unseat(r)
  \/ Close(r) \/ Evict(r) \/ DeleteCRoom(r)

User(c) == Connect(c) \/ Drop(c) \/ \E l \in Lines : UsrParse(c, l)

Next ==
  /\ up
  /\ \/ \E c \in Clients : User(c) \/ SendWelcome(c) \/ Handler(c)
     \/ \E r \in Rooms : Listen(r)
     \/ Tick

Spec == Init /\ [][Next]_vars

------------------------------------------------------------------------------
(* Fairness: a goroutine that can run runs in the end, and time goes on.    *)

FairSpec ==
  /\ Spec
  /\ \A c \in Clients : WF_vars(up /\ SendWelcome(c)) /\ WF_vars(up /\ Handler(c))
  /\ \A r \in Rooms : WF_vars(up /\ Listen(r))
  /\ WF_vars(up /\ Tick)

------------------------------------------------------------------------------
(* What the locks and channels are for.                                     *)

\* Who reads a client's room under the read lock can rely on it: the room does
\* not change before the lock is released, whatever the rooms do.
SeatsStableUnderLock ==
  [][\A c \in Clients : rlock[c] # {} => cRoom'[c] = cRoom[c]]_vars

\* A client that is in a room is on the room's list, except while that room's
\* goroutine has taken it off and waits to unseat it; and a room is asked to
\* remove only clients that it lists, so that removeClient finds them.
SeatedIsListed ==
  /\ \A c \in Clients : cRoom[c] # Nil =>
       \/ c \in Range(roomClients[cRoom[c]])
       \/ loop[cRoom[c]].op \in {"unlisted", "unseating"} /\ loop[cRoom[c]].who = c
  /\ \A r \in Rooms : loop[r].op \in {"remove", "removing"} =>
       loop[r].who \in Range(roomClients[r])

\* Whoever speaks hears itself: the room that takes the message, however long
\* the handler waited for it, is a room that still sends to the speaker.
SpeakerIsHeard ==
  [][\A c \in Clients : call[c].op = "saying" /\ call'[c].op # "saying" =>
       c \in Range(out'[call[c].at])]_vars

\* A name belongs to one room until that name is deleted, although CreateCRoom
\* makes a room for every request.
RegistrationsStand ==
  [][\A n \in Names :
       /\ cRooms'[n] # Nil => roomName'[cRooms'[n]] = n
       /\ cRooms[n] # Nil => cRooms'[n] \in {cRooms[n], Nil}]_vars

\* The threads of which one must move before thread t can.  A sender whose
\* receiver never polls again waits for itself.
WaitsFor(t) ==
  IF t \in Clients
  THEN LET at == call[t].at
       IN CASE call[t].op \in {"found", "say", "leave", "name"} -> {wlock[t]} \ {Nil}
            [] call[t].op = "renaming" -> rlock[t]
            [] at # Nil -> IF loop[at].op = "select" THEN {} ELSE {at}
            [] call[t].op = "reply" /\ poll[t] = "done" -> {t}
            [] OTHER -> {}
  ELSE LET c == IF loop[t].op \in {"evict", "evicting"} /\ out[t] # <<>>
                THEN Head(out[t]) ELSE loop[t].who
       IN CASE c # Nil /\ loop[t].op \in {"add", "unlisted", "remove", "evict"} ->
                 {wlock[c]} \ {Nil}
            [] loop[t].op \in {"adding", "unseating", "evicting"} -> rlock[c]
            [] out[t] # <<>> -> IF poll[Head(out[t])] = "done" THEN {t} ELSE {}
            [] OTHER -> {}

\* Some threads wait for each other, or for a client that is gone, for ever.
Deadlocked ==
  \E T \in SUBSET Threads :
    T # {} /\ \A t \in T : WaitsFor(t) \cap T # {}

\* Nothing but a deadlock or a panic keeps a call from returning.
CallsReturn ==
  \A c \in Clients :
    call[c].op \notin {"out", "idle"} ~> call[c].op = "idle" \/ Deadlocked \/ ~up

\* Nothing but a deadlock or a panic keeps an unused room from being deleted.
RoomsExpire ==
  \A r \in Rooms : Registered(r) ~> ~Registered(r) \/ Deadlocked \/ ~up

------------------------------------------------------------------------------
(* What the source's texts and comments say, and the code does not do.      *)

\* client/main.go:35-37: the commands by which one "enters a chat named chan.",
\* "leaves the current channel." and "quits the chat client." need rooms that
\* serve: whatever a room has taken on, for whom ever, it comes to the end of it,
\* unless the server has panicked (LobbyLeaveRefused is about that).
RoomsServe ==
  \A r \in Rooms :
    loop[r].op \notin {"none", "select"} ~> loop[r].op = "select" \/ ~up

\* client/main.go:36 by itself: a client whose leave was taken by its room is out
\* of that room in the end.
LeaveTakesEffect ==
  \A r \in Rooms, c \in Clients :
    loop[r] = At("remove", c) /\ call[c].op = "idle" ~> cRoom[c] # r

\* main.go:23: "Chat room is being deleted due to inactivity."
DeletionOnlyWhenInactive ==
  [][\A r \in Rooms : Registered(r) /\ ~Registered(r)' => quiet[r] = EXTIME]_vars

\* cRoom.go:12-13: a room holds the "list of all connected clients to that
\* channel": who is on the list, and not under way, is in the room.
ListedIsSeated ==
  \A r \in Rooms, c \in Clients :
    /\ c \in Range(roomClients[r])
    /\ Registered(r)
    /\ call[c].op = "idle"
    /\ \A q \in Rooms : loop[q].op = "select"
    => cRoom[c] = r

\* cRoom.go:12-13 again: who is on the "list of all connected clients to that
\* channel", and not under way, is connected; its token is known.
ListedIsConnected ==
  \A r \in Rooms, c \in Clients :
    /\ c \in Range(roomClients[r])
    /\ Registered(r)
    /\ call[c].op = "idle"
    /\ \A q \in Rooms : loop[q].op = "select"
    => c \in curClients

\* client/main.go:35: the command "enters a chat named chan.": a call to enter a
\* room that exists comes to an end.
JoinReturns == \A c \in Clients : call[c].op = "found" ~> call[c].op = "idle"

\* server/main.go:25,29: among the "error commands that a user can encounter" is
\* "You cannot leave the lobby!": to leave while in no room, which an expiry in
\* between may be the reason of, is answered, and the server goes on.
LobbyLeaveRefused ==
  [][\A c \in Clients : call[c].op = "leave" /\ cRoom[c] = Nil => up']_vars

\* server/main.go:28: "Chat room does not exist, you cannot join.": the room
\* that takes a client in has not been deleted since it was looked up.
OnlyLiveRoomsEntered ==
  [][\A c \in Clients : call[c].op = "joining" /\ call'[c].op # "joining" =>
       Registered(call[c].at)]_vars
==============================================================================
