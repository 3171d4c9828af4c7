---------------------------- MODULE RegistryServer ----------------------------
(***************************************************************************)
(* The first chat server: server.go (and serverref.go, which has the same  *)
(* goroutines but no table of rooms) on top of util/util.go.               *)
(*                                                                         *)
(* There is no lobby goroutine.  Every client has a reader, which hands on *)
(* the lines it reads, and a handler, which does what they say and writes  *)
(* to everybody's connection itself; the main goroutine accepts.  All of   *)
(* them share the list curClients without a lock, so an update is cut here *)
(* into its read and its write, and a broadcast, which ranges over the     *)
(* list it read at its start, into one step per client of that list.       *)
(* Slices are values here: not modelled is what two of them do to one      *)
(* array, or half of a slice seen by a goroutine without the other half.   *)
(*                                                                         *)
(* Definitions marked FAULT are plausible slips in the definition that     *)
(* follows them; no other definition refers to them.                       *)
(***************************************************************************)
EXTENDS Naturals, Sequences, FiniteSets, Functions, SequencesExt

CONSTANTS Clients,    \* connections
          Users,      \* names that people take
          MAINLOBBY,  \* the room every client starts in
          Rooms,      \* the other names of rooms
          Nil,        \* the empty string
          Slots,      \* entries of the table of rooms (ten in the code)
          Lines,      \* what people type (a subset of Line)
          MaxLines,   \* bound: lines typed in a behaviour
          MaxQueue    \* bound: lines of a client on their way at a time

\* A line, parsed; "other" is any action or text the server only answers.
Line == [cmd : {"user"}, arg : Users \cup {Nil}]
          \cup [cmd : {"enter"}, arg : Rooms \cup {MAINLOBBY, Nil}]
          \cup [cmd : {"message", "leave", "disconnect", "list", "other"}, arg : {Nil}]

ASSUME NilAssumption == Nil \notin Clients \cup Users \cup Rooms \cup {MAINLOBBY}
ASSUME RoomsAssumption == MAINLOBBY \notin Rooms
ASSUME LinesAssumption == Lines \subseteq Line
ASSUME BoundsAssumption == Slots \in Nat \ {0} /\ MaxLines \in Nat /\ MaxQueue \in Nat

Threads == Clients \X {"reader", "handler"}

VARIABLES
  conn,       \* conn[c]: "new", "open", "hungup" by the peer, or "closed" here
  inq,        \* inq[c]: lines that c's handler has not taken yet
  lines,      \* bound: how many lines were typed so far
  user,       \* user[c]: Client.User
  room,       \* room[c]: Client.Room
  curClients, \* the list of clients
  rooms,      \* the table of rooms
  accepting,  \* the client main is registering, or Nil
  mainView,   \* curClients as main read it
  pc,         \* pc[t]: "off", "idle", "tell" (it broadcasts), "store" or "ended"
  todo,       \* todo[t]: what is left of the list a broadcast read
  telling,    \* telling[t]: the type of that message, and what comes after it
  view,       \* view[t]: curClients as Close read it
  \* history, for the properties only
  lost,       \* the clients whose entry in the list a stale write undid
  due         \* due[t]: who must still be sent what t broadcasts

peerVars == <<conn, inq, lines>>
mainVars == <<accepting, mainView>>
listVars == <<curClients, lost>>
threadVars == <<pc, todo, telling, view>>
vars == <<peerVars, user, room, rooms, mainVars, listVars, threadVars, due>>

Telling == [type : {"message", "connect", "enter", "leave", "disconnected", "none"},
            after : {"wait", "table", "lobby", "close"}]

RoomNames == Rooms \cup {MAINLOBBY}

\* The state is well formed, and no client is twice in the list.
TypeOK ==
  /\ conn \in [Clients -> {"new", "open", "hungup", "closed"}]
  /\ inq \in [Clients -> Seq(Line)]
  /\ lines \in 0 .. MaxLines
  /\ user \in [Clients -> Users \cup {Nil}]
  /\ room \in [Clients -> RoomNames]
  /\ {curClients, mainView} \subseteq Seq(Clients)
  /\ rooms \in [1 .. Slots -> RoomNames \cup {Nil}]
  /\ accepting \in Clients \cup {Nil}
  /\ pc \in [Threads -> {"off", "idle", "tell", "store", "ended"}]
  /\ {todo, view} \subseteq [Threads -> Seq(Clients)]
  /\ telling \in [Threads -> Telling]
  /\ due \in [Threads -> SUBSET Clients]
  /\ lost \subseteq Clients
  /\ IsInjective(curClients)

Init ==
  /\ conn = [c \in Clients |-> "new"]
  /\ inq = [c \in Clients |-> <<>>]
  /\ lines = 0
  /\ user = [c \in Clients |-> Nil]
  /\ room = [c \in Clients |-> MAINLOBBY]
  /\ curClients = <<>>
  /\ rooms = [i \in 1 .. Slots |-> IF i = 1 THEN MAINLOBBY ELSE Nil]
  /\ accepting = Nil
  /\ mainView = <<>>
  /\ pc = [t \in Threads |-> "off"]
  /\ todo = [t \in Threads |-> <<>>]
  /\ telling = [t \in Threads |-> [type |-> "none", after |-> "wait"]]
  /\ view = [t \in Threads |-> <<>>]
  /\ lost = {}
  /\ due = [t \in Threads |-> {}]

------------------------------------------------------------------------------
(* The peers.                                                              *)

\* d is no longer owed what is being broadcast.
Excuse(d) == due' = [t \in Threads |-> due[t] \ {d}]

\* d changes its room, and so is owed no longer what is said in a room.
Moved(d) == [t \in Threads |-> IF telling[t].type = "message" THEN due[t] \ {d} ELSE due[t]]

TypeLine(c, l) ==
  /\ conn[c] = "open"
  /\ lines < MaxLines
  /\ Len(inq[c]) < MaxQueue
  /\ lines' = lines + 1
  /\ inq' = [inq EXCEPT ![c] = Append(@, l)]
  /\ UNCHANGED <<conn, user, room, rooms, mainVars, listVars, threadVars, due>>

Hangup(c) ==
  /\ conn[c] = "open"
  /\ conn' = [conn EXCEPT ![c] = "hungup"]
  /\ Excuse(c)
  /\ UNCHANGED <<inq, lines, user, room, rooms, mainVars, listVars, threadVars>>

\* A reset or a close discards the input that was not read yet.
LoseInput(c) ==
  /\ conn[c] \in {"hungup", "closed"}
  /\ inq[c] # <<>>
  /\ inq' = [inq EXCEPT ![c] = Front(@)]
  /\ UNCHANGED <<conn, lines, user, room, rooms, mainVars, listVars,
                 threadVars, due>>

------------------------------------------------------------------------------
(* The main goroutine: it accepts c, reads the list and appends c to it.   *)

Accept(c) ==
  /\ accepting = Nil
  /\ conn[c] = "new"
  /\ conn' = [conn EXCEPT ![c] = "open"]
  /\ accepting' = c
  /\ mainView' = curClients
  /\ UNCHANGED <<inq, lines, user, room, rooms, listVars, threadVars, due>>

\* Who came onto the list or went off it since it was read as s: a write of s
\* undoes that.
ChangedSince(s) ==
  (Range(s) \ Range(curClients)) \cup (Range(curClients) \ Range(s))

\* The append is stored; the reader and the handler start.
Register ==
  LET c == accepting
  IN /\ accepting # Nil
     /\ curClients' = Append(mainView, c)
     /\ lost' = lost \cup ChangedSince(mainView)
     /\ accepting' = Nil
     /\ mainView' = <<>>
     /\ pc' = [pc EXCEPT ![<<c, "reader">>] = "idle", ![<<c, "handler">>] = "idle"]
     /\ UNCHANGED <<peerVars, user, room, rooms, todo, telling, view, due>>

------------------------------------------------------------------------------
(* SendClientMessage and Close, which both threads of a client call.       *)

\* Who has to hear what the client of t, in room r, is about to broadcast: all
\* whose threads run, but for those whose registration is lost already.
Audience(type, r) ==
  {d \in Clients \ lost :
     /\ pc[<<d, "reader">>] # "off" /\ conn[d] = "open"
     /\ user[d] # Nil
     /\ type = "message" => room[d] = r}

\* SendClientMessage to all: the list is read.  Without a name (u is the name
\* by now) there is nothing to range over.
StartTelling(t, u, type, after, audience) ==
  /\ pc' = [pc EXCEPT ![t] = "tell"]
  /\ telling' = [telling EXCEPT ![t] = [type |-> type, after |-> after]]
  /\ todo' = [todo EXCEPT ![t] = IF u = Nil THEN <<>> ELSE curClients]
  /\ due' = [due EXCEPT ![t] = IF u = Nil THEN {} ELSE audience]
  /\ UNCHANGED view

\* Does the loop write to d, the client it has come to?
Hears(t, d) ==
  /\ user[d] # Nil
  /\ telling[t].type = "message" => room[d] = room[t[1]]

\* FAULT: the loop ends at the first client that is passed over.
TellNextBreaking(t) ==
  /\ todo[t] # <<>>
  /\ todo' = [todo EXCEPT ![t] = IF Hears(t, Head(@)) THEN Tail(@) ELSE <<>>]
  /\ due' = [due EXCEPT ![t] = IF Hears(t, Head(todo[t])) THEN @ \ {Head(todo[t])} ELSE @]
  /\ UNCHANGED <<peerVars, user, room, rooms, mainVars, listVars,
                 pc, telling, view>>

\* The loop comes to the next client, and writes to it or passes over it.
TellNext(t) ==
  /\ todo[t] # <<>>
  /\ todo' = [todo EXCEPT ![t] = Tail(@)]
  /\ due' = [due EXCEPT ![t] = IF Hears(t, Head(todo[t])) THEN @ \ {Head(todo[t])} ELSE @]
  /\ UNCHANGED <<peerVars, user, room, rooms, mainVars, listVars,
                 pc, telling, view>>

Told(t, after) ==
  /\ pc[t] = "tell"
  /\ todo[t] = <<>>
  /\ telling[t].after = after

\* Close: the connection is closed and the list is read.
Close(t) ==
  /\ conn' = [conn EXCEPT ![t[1]] = "closed"]
  /\ view' = [view EXCEPT ![t] = curClients]
  /\ pc' = [pc EXCEPT ![t] = "store"]

\* FAULT: the index starts at 0, so a client that is not found is taken to be
\* the first of the list.
RemoveEntryFromZero(t) ==
  LET c == t[1]
  IN /\ pc[t] = "store"
     /\ curClients' = IF c \in Range(view[t]) \/ view[t] = <<>> THEN RemoveFirst(view[t], c)
                       ELSE Tail(view[t])
     /\ lost' = (lost \cup ChangedSince(view[t])) \ {c}
     /\ view' = [view EXCEPT ![t] = <<>>]
     /\ pc' = [pc EXCEPT ![t] = IF t[2] = "reader" THEN "ended" ELSE "idle"]
     /\ UNCHANGED <<peerVars, user, room, rooms, mainVars, todo, telling, due>>

\* FAULT: the new list is as long as the old one.
RemoveEntryUncut(t) ==
  LET c == t[1]
  IN /\ pc[t] = "store"
     /\ curClients' = IF c \in Range(view[t]) THEN Append(RemoveFirst(view[t], c), Nil) ELSE view[t]
     /\ lost' = (lost \cup ChangedSince(view[t])) \ {c}
     /\ view' = [view EXCEPT ![t] = <<>>]
     /\ pc' = [pc EXCEPT ![t] = IF t[2] = "reader" THEN "ended" ELSE "idle"]
     /\ UNCHANGED <<peerVars, user, room, rooms, mainVars, todo, telling, due>>

\* Close: the list, as it was read, is stored without the client, or as it is
\* if the other thread took the client off before.
RemoveEntry(t) ==
  LET c == t[1]
  IN /\ pc[t] = "store"
     /\ curClients' = RemoveFirst(view[t], c)
     /\ lost' = (lost \cup ChangedSince(view[t])) \ {c}
     /\ view' = [view EXCEPT ![t] = <<>>]
     /\ pc' = [pc EXCEPT ![t] = IF t[2] = "reader" THEN "ended" ELSE "idle"]
     /\ UNCHANGED <<peerVars, user, room, rooms, mainVars, todo, telling, due>>

------------------------------------------------------------------------------
(* The reader at the end of the input, and the handler's cases.            *)

\* FAULT: the reader ends without a word.
EndOfInputIgnored(c) ==
  LET t == <<c, "reader">>
  IN /\ pc[t] = "idle"
     /\ conn[c] \in {"hungup", "closed"}
     /\ inq[c] = <<>>
     /\ pc' = [pc EXCEPT ![t] = "ended"]
     /\ UNCHANGED <<peerVars, user, room, rooms, mainVars, listVars,
                    todo, telling, view, due>>

\* waitForUserIn: the input has ended, which is broadcast before the client is
\* closed (for the second time, if it asked for the end itself).
EndOfInput(c) ==
  LET t == <<c, "reader">>
  IN /\ pc[t] = "idle"
     /\ conn[c] \in {"hungup", "closed"}
     /\ inq[c] = <<>>
     /\ StartTelling(t, user[c], "disconnected", "close", Audience("disconnected", room[c]))
     /\ UNCHANGED <<peerVars, user, room, rooms, mainVars, listVars>>

CloseTold(c) ==
  LET t == <<c, "reader">>
  IN /\ Told(t, "close")
     /\ Close(t)
     /\ Excuse(c)
     /\ UNCHANGED <<inq, lines, user, room, rooms, mainVars, listVars,
                    todo, telling>>

\* HandleUserInput takes a line.
Take(c, cmd) ==
  /\ pc[<<c, "handler">>] = "idle"
  /\ inq[c] # <<>>
  /\ Head(inq[c]).cmd = cmd
  /\ inq' = [inq EXCEPT ![c] = Tail(@)]

Message(c) ==
  /\ Take(c, "message")
  /\ StartTelling(<<c, "handler">>, user[c], "message", "wait", Audience("message", room[c]))
  /\ UNCHANGED <<conn, lines, user, room, rooms, mainVars, listVars>>

\* The name is taken and announced; the empty name makes the client anonymous.
User(c) ==
  LET u == Head(inq[c]).arg
      audience == Audience("connect", room[c])
  IN /\ Take(c, "user")
     /\ user' = [user EXCEPT ![c] = u]
     /\ pc' = [pc EXCEPT ![<<c, "handler">>] = "tell"]
     /\ telling' = [telling EXCEPT ![<<c, "handler">>] = [type |-> "connect", after |-> "wait"]]
     /\ todo' = [todo EXCEPT ![<<c, "handler">>] = IF u = Nil THEN <<>> ELSE curClients]
     /\ due' = [t \in Threads |->
                  CASE t = <<c, "handler">> -> IF u = Nil THEN {} ELSE audience
                    [] t # <<c, "handler">> -> IF u = Nil THEN due[t] \ {c} ELSE due[t]]
     /\ UNCHANGED <<conn, lines, room, rooms, mainVars, listVars, view>>

\* The client asks for its end, which is not broadcast.
Disconnect(c) ==
  /\ Take(c, "disconnect")
  /\ Close(<<c, "handler">>)
  /\ Excuse(c)
  /\ UNCHANGED <<lines, user, room, rooms, mainVars, listVars, todo, telling>>

\* The client changes its room, which is broadcast to everybody.
Enter(c) ==
  LET r == Head(inq[c]).arg
      t == <<c, "handler">>
  IN /\ Take(c, "enter")
     /\ r # Nil
     /\ room' = [room EXCEPT ![c] = r]
     /\ pc' = [pc EXCEPT ![t] = "tell"]
     /\ telling' = [telling EXCEPT ![t] = [type |-> "enter", after |-> "table"]]
     /\ todo' = [todo EXCEPT ![t] = IF user[c] = Nil THEN <<>> ELSE curClients]
     /\ due' = [Moved(c) EXCEPT ![t] = IF user[c] = Nil THEN {} ELSE Audience("enter", r)]
     /\ UNCHANGED <<conn, lines, user, rooms, mainVars, listVars, view>>

\* The room goes into the first entry that is empty or holds another room.
ListRoom(c) ==
  LET r == room[c]
      others == {i \in 1 .. Slots : rooms[i] # r}
  IN /\ Told(<<c, "handler">>, "table")
     /\ rooms' = IF others = {} THEN rooms
                 ELSE [rooms EXCEPT ![Min(others)] = r]
     /\ pc' = [pc EXCEPT ![<<c, "handler">>] = "idle"]
     /\ UNCHANGED <<peerVars, user, room, mainVars, listVars, todo, telling, view, due>>

\* The departure from a room is broadcast before it takes place.
Leave(c) ==
  /\ Take(c, "leave")
  /\ room[c] # MAINLOBBY
  /\ StartTelling(<<c, "handler">>, user[c], "leave", "lobby", Audience("leave", room[c]))
  /\ UNCHANGED <<conn, lines, user, room, rooms, mainVars, listVars>>

BackToLobby(c) ==
  /\ Told(<<c, "handler">>, "lobby")
  /\ room' = [room EXCEPT ![c] = MAINLOBBY]
  /\ pc' = [pc EXCEPT ![<<c, "handler">>] = "idle"]
  /\ due' = Moved(c)
  /\ UNCHANGED <<peerVars, user, rooms, mainVars, listVars, todo, telling, view>>

\* The lines that change nothing: at most their client is sent an answer.
Answer(c) ==
  /\ \/ Take(c, "list")
     \/ Take(c, "other")
     \/ Take(c, "enter") /\ Head(inq[c]).arg = Nil
     \/ Take(c, "leave") /\ room[c] = MAINLOBBY
  /\ UNCHANGED <<conn, lines, user, room, rooms, mainVars, listVars,
                 threadVars, due>>

\* FAULT: the handler ends with the first message it has sent.
ToldAndGone(c) ==
  /\ Told(<<c, "handler">>, "wait")
  /\ pc' = [pc EXCEPT ![<<c, "handler">>] = "ended"]
  /\ UNCHANGED <<peerVars, user, room, rooms, mainVars, listVars,
                 todo, telling, view, due>>

\* A message or a name is out: the handler waits for the next line.
Wait(c) ==
  /\ Told(<<c, "handler">>, "wait")
  /\ pc' = [pc EXCEPT ![<<c, "handler">>] = "idle"]
  /\ UNCHANGED <<peerVars, user, room, rooms, mainVars, listVars,
                 todo, telling, view, due>>

Reader(c) ==
  EndOfInput(c) \/ TellNext(<<c, "reader">>) \/ CloseTold(c) \/ RemoveEntry(<<c, "reader">>)

Handler(c) ==
  \/ Message(c) \/ User(c) \/ Disconnect(c) \/ Enter(c) \/ Leave(c) \/ Answer(c)
  \/ TellNext(<<c, "handler">>) \/ Wait(c) \/ ListRoom(c) \/ BackToLobby(c)
  \/ RemoveEntry(<<c, "handler">>)

\* All input the bounds allow was handled: the server waits for ever.
Quiescent ==
  /\ accepting = Nil
  /\ \A c \in Clients : conn[c] # "new" /\ inq[c] = <<>>
  /\ \A c \in Clients : pc[<<c, "handler">>] = "idle"
  /\ \A c \in Clients :
       IF conn[c] = "open" THEN pc[<<c, "reader">>] = "idle" ELSE pc[<<c, "reader">>] = "ended"
  /\ UNCHANGED vars

Peer(c) == Hangup(c) \/ LoseInput(c) \/ \E l \in Lines : TypeLine(c, l)

Next ==
  \/ \E c \in Clients : Accept(c) \/ Reader(c) \/ Handler(c) \/ Peer(c)
  \/ Register
  \/ Quiescent

Spec == Init /\ [][Next]_vars

\* Goroutines that can run do; a write to a connection ends, in an error or not.
FairSpec ==
  /\ Spec
  /\ WF_vars(Register)
  /\ \A c \in Clients : WF_vars(Reader(c)) /\ WF_vars(Handler(c))

------------------------------------------------------------------------------
(* What makes the server correct.                                          *)

\* A broadcast reaches everybody it is for: whoever is registered, connected,
\* named and (for a message) in the room of the sender from its start to its
\* end, whatever joins, leaves, closes or is renamed and whatever updates of the
\* list are lost while the loop is under way.  Not owed anything are those whom
\* a lost update had taken off the list before it began.
BroadcastReachesAudience ==
  \A t \in Threads : pc[t] = "tell" /\ todo[t] = <<>> => due[t] = {}

\* Every line that arrives is handled, broadcast included.
LinesHandled ==
  \A c \in Clients :
    pc[<<c, "handler">>] # "off" /\ inq[c] # <<>> ~>
      inq[c] = <<>> /\ pc[<<c, "handler">>] = "idle"

\* Whoever departs is off the list in the end and stays off it, although both
\* its threads close it and others store lists they read before; only a stale
\* write that brings this very client back is excepted.
DeparturesForgotten ==
  \A c \in Clients :
    <>[](conn[c] \in {"hungup", "closed"} =>
           pc[<<c, "reader">>] = "ended" /\ (c \in Range(curClients) => c \in lost))

------------------------------------------------------------------------------
(* What the comments claim, and the code does not keep.                    *)

\* A client is on the list from the moment its threads run until it goes:
\* "Register the connection upon connecting and cache them." (util.go:81)
RegisteredListed ==
  \A c \in Clients :
    conn[c] = "open" /\ pc[<<c, "reader">>] # "off" => c \in Range(curClients)

\* The table, "Array of rooms to list." (server.go:17), from which a client is
\* answered that wants "to list all current rooms" (server.go:118), has the room
\* of every client whose handler has come to rest.
CurrentRoomsListed ==
  \A c \in Clients :
    conn[c] = "open" /\ pc[<<c, "handler">>] = "idle" => room[c] \in Range(rooms)
==============================================================================
