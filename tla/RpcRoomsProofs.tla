---------------------------- MODULE RpcRoomsProofs ----------------------------
(***************************************************************************)
(* For every value of the constants of RpcRooms: the state is well formed; *)
(* who reads a client's room under the lock can rely on it; a client that  *)
(* is in a room is on its list and hears what it says there; and a name    *)
(* belongs to one room until it is deleted.                                *)
(***************************************************************************)
EXTENDS RpcRooms, ListLemmas

\* What a handler that waits has at hand: the name it looks up, the room it
\* is to join, and the channel it waits at.  A handler that waits at the
\* channel of its client's room has the client locked for reading.
CallOK(c) ==
  /\ call[c].op \in {"create", "join"} => call[c].arg \in Names
  /\ call[c].op \in {"found", "switching"} => call[c].room \in Rooms
  /\ call[c].op \in {"joining", "leaving", "switching", "saying"} =>
       call[c].at \in Rooms
  /\ call[c].op \in {"leaving", "switching", "saying"} =>
       c \in rlock[c] /\ call[c].at = cRoom[c]

\* What a room's goroutine has at hand: the client it works for, and whom it is
\* to unseat next.  A room that sends a client the log has it locked, for
\* writing and without readers.
LoopOK(r) ==
  /\ loop[r].op \in {"add", "adding", "greeting",
                     "remove", "removing", "unlisted", "unseating"} =>
       loop[r].who \in Clients
  /\ loop[r].op = "evicting" => out[r] # <<>>
  /\ loop[r].op = "greeting" =>
       wlock[loop[r].who] = r /\ rlock[loop[r].who] = {}

CallsOK == \A c \in Clients : CallOK(c)
LoopsOK == \A r \in Rooms : LoopOK(r)

\* A room is known under its own name only, and runs only once it has one.
NamesOK ==
  /\ \A n \in Names : cRooms[n] # Nil => roomName[cRooms[n]] = n
  /\ \A r \in Rooms : roomName[r] = Nil => loop[r].op = "none"

\* SeatedIsListed, room by room.
SeatsOK(r) ==
  /\ \A c \in Clients : cRoom[c] = r =>
       \/ c \in Range(roomClients[r])
       \/ loop[r].op \in {"unlisted", "unseating"} /\ loop[r].who = c
  /\ loop[r].op \in {"remove", "removing"} => loop[r].who \in Range(roomClients[r])

Inv == TypeOK /\ CallsOK /\ LoopsOK /\ NamesOK /\ SeatedIsListed

------------------------------------------------------------------------------
(* Well-formedness.                                                         *)

\* The calls that handlers are put at.
LEMMA CallAtType ==
  ASSUME NEW op \in {"out", "idle", "reply", "found", "renaming",
                     "create", "join", "leave", "say", "list", "name", "quit",
                     "joining", "leaving", "switching", "saying"},
         NEW a \in Names \cup {Nil}, NEW r \in Rooms \cup {Nil}
  PROVE  /\ CallAt(op) \in Call
         /\ [CallAt(op) EXCEPT !.arg = a] \in Call
         /\ [CallAt(op) EXCEPT !.at = r] \in Call
         /\ [CallAt(op) EXCEPT !.room = r] \in Call
BY DEF CallAt, Call

\* Broadcast leaves a list of clients to send to.
LEMMA BroadcastType ==
  ASSUME TypeOK, NEW r \in Rooms, NEW to \in Seq(Clients), Broadcast(r, to)
  PROVE  /\ roomExpire' \in [Rooms -> 0 .. EXTIME]
         /\ roomMsgs' \in [Rooms -> Nat]
         /\ out' \in [Rooms -> Seq(Clients)]
<1>1. roomClients[r] \o to \in Seq(Clients)
  BY ConcatProperties DEF TypeOK
<1> QED BY <1>1, LimitsAssumption DEF TypeOK, Broadcast

LEMMA ReceiveType ==
  ASSUME TypeOK, NEW c \in Clients, Receive(c)
  PROVE  poll' \in [Clients -> {"none", "wait", "done"}]
BY DEF TypeOK, Receive

LEMMA UserType ==
  ASSUME TypeOK, NEW c \in Clients, User(c) \/ SendWelcome(c)
  PROVE  TypeOK'
<1>1. CASE Connect(c)
  <2>1. CallAt("idle") \in Call
    BY CallAtType
  <2> QED BY <1>1, <2>1 DEF Connect, TypeOK, lockVars, roomVars
<1>2. ASSUME NEW l \in Lines, UsrParse(c, l)
      PROVE  TypeOK'
  <2>1. [CallAt(l.cmd) EXCEPT !.arg = l.arg] \in Call
    <3>1. /\ l.cmd \in {"create", "join", "leave", "say", "list", "name", "quit"}
          /\ l.arg \in Names \cup {Nil}
      BY LinesAssumption DEF Line
    <3> QED BY <3>1, CallAtType
  <2>2. lines' \in 0 .. MaxLines
    BY <1>2, LimitsAssumption DEF UsrParse, TypeOK
  <2> QED BY <1>2, <2>1, <2>2 DEF UsrParse, TypeOK, tableVars, lockVars, roomVars
<1>3. CASE Drop(c)
  BY <1>3 DEF Drop, End, TypeOK, tableVars, lockVars, roomVars
<1>4. CASE SendWelcome(c)
  BY <1>4, ReceiveType DEF SendWelcome, TypeOK, tableVars, lockVars, roomVars
<1> QED BY <1>1, <1>2, <1>3, <1>4 DEF User

\* The mutex of a client is taken and given back by threads only.
LEMMA LockType ==
  ASSUME TypeOK, NEW t \in Threads, NEW c \in Clients
  PROVE  /\ Announce(t, c) \/ Unlock(c) => wlock' \in [Clients -> Threads \cup {Nil}]
         /\ RLock(t, c) \/ RUnlock(t, c) => rlock' \in [Clients -> SUBSET Threads]
<1>1. Announce(t, c) \/ Unlock(c) => wlock' \in [Clients -> Threads \cup {Nil}]
  BY DEF TypeOK, Announce, Unlock
<1>2. rlock[c] \cup {t} \in SUBSET Threads /\ rlock[c] \ {t} \in SUBSET Threads
  BY DEF TypeOK
<1>3. RLock(t, c) \/ RUnlock(t, c) => rlock' \in [Clients -> SUBSET Threads]
  BY <1>2 DEF TypeOK, RLock, RUnlock
<1> QED BY <1>1, <1>3

LEMMA ReturnType ==
  ASSUME TypeOK, NEW c \in Clients, Return(c)
  PROVE  /\ call' \in [Clients -> Call]
         /\ rlock' \in [Clients -> SUBSET Threads]
<1>1. CallAt("idle") \in Call /\ c \in Threads
  BY CallAtType DEF Threads
<1> QED BY <1>1, LockType DEF Return, TypeOK

LEMMA AnswerType ==
  ASSUME TypeOK, NEW c \in Clients, Answer(c)
  PROVE  call' \in [Clients -> Call]
<1>1. CallAt("reply") \in Call
  BY CallAtType
<1> QED BY <1>1 DEF Answer, TypeOK

LEMMA WaitAtType ==
  ASSUME TypeOK, NEW c \in Clients, NEW r \in Rooms,
         NEW op \in {"joining", "leaving", "saying"}, WaitAt(c, op, r)
  PROVE  call' \in [Clients -> Call]
<1>1. [CallAt(op) EXCEPT !.at = r] \in Call
  BY CallAtType
<1> QED BY <1>1 DEF WaitAt, TypeOK

LEMMA CreateCRoomType ==
  ASSUME TypeOK, CallsOK, NEW c \in Clients, CreateCRoom(c)
  PROVE  TypeOK'
<1>1. call[c].arg \in Names
  BY DEF CreateCRoom, CallsOK, CallOK
<1>2. At("select", Nil) \in Loop
  BY DEF At, Loop
<1>3. /\ roomName' \in [Rooms -> Names \cup {Nil}]
      /\ loop' \in [Rooms -> Loop]
      /\ cRooms' \in [Names -> Rooms \cup {Nil}]
  <2>1. PICK r \in Rooms :
          /\ roomName' = [roomName EXCEPT ![r] = call[c].arg]
          /\ loop' = [loop EXCEPT ![r] = At("select", Nil)]
          /\ cRooms' \in {cRooms, [cRooms EXCEPT ![call[c].arg] = r]}
    BY DEF CreateCRoom
  <2> QED BY <1>1, <1>2, <2>1 DEF TypeOK
<1>4. /\ roomExpire' \in [Rooms -> 0 .. EXTIME]
      /\ quiet' \in [Rooms -> 0 .. EXTIME]
      /\ timer' \in [Rooms -> 0 .. EXTIME \cup {Nil}]
  BY LimitsAssumption DEF CreateCRoom, TypeOK
<1>5. call' \in [Clients -> Call]
  BY AnswerType DEF CreateCRoom
<1> QED BY <1>3, <1>4, <1>5 DEF CreateCRoom, TypeOK, lockVars

LEMMA HandlerType ==
  ASSUME TypeOK, CallsOK, NEW c \in Clients, Handler(c)
  PROVE  TypeOK'
<1>0. c \in Threads /\ cRoom[c] \in Rooms \cup {Nil}
  BY DEF Threads, TypeOK
<1>1. CASE JoinCRoom(c)
  <2> DEFINE r == cRooms[call[c].arg]
  <2>1. CASE r = Nil
    BY <1>1, <2>1, AnswerType DEF JoinCRoom, TypeOK, tableVars, lockVars, roomVars
  <2>2. CASE r # Nil
    <3>1. r \in Rooms
      BY <1>1, <2>2 DEF JoinCRoom, CallsOK, CallOK, TypeOK
    <3>2. [CallAt("found") EXCEPT !.room = r] \in Call
      BY <3>1, CallAtType
    <3> QED
      BY <1>1, <2>2, <3>2 DEF JoinCRoom, Answer, TypeOK, tableVars, lockVars, roomVars
  <2> QED BY <2>1, <2>2
<1>2. CASE JoinLocked(c)
  <2>1. call' \in [Clients -> Call]
    <3>1. CASE cRoom[c] = Nil
      <4>1. call[c].room \in Rooms
        BY <1>2 DEF JoinLocked, CallsOK, CallOK
      <4> QED BY <1>2, <3>1, <4>1, WaitAtType DEF JoinLocked
    <3>2. CASE cRoom[c] # Nil
      <4> DEFINE k == [[call[c] EXCEPT !.op = "switching"] EXCEPT !.at = cRoom[c]]
      <4>1. call[c] \in Call
        BY DEF TypeOK
      <4>2. k \in Call
        BY <1>0, <4>1 DEF Call
      <4>3. call' = [call EXCEPT ![c] = k]
        BY <1>2, <3>2, <4>1 DEF JoinLocked, TypeOK
      <4> QED BY <4>2, <4>3 DEF TypeOK
    <3> QED BY <3>1, <3>2
  <2>2. rlock' \in [Clients -> SUBSET Threads]
    BY <1>0, <1>2, LockType DEF JoinLocked
  <2> QED BY <1>2, <2>1, <2>2 DEF JoinLocked, TypeOK, tableVars, roomVars
<1>3. CASE SendMsg(c) \/ LeaveCRoom(c)
  <2>1. call' \in [Clients -> Call]
    BY <1>0, <1>3, AnswerType, WaitAtType DEF SendMsg, LeaveCRoom, TypeOK
  <2>2. rlock' \in [Clients -> SUBSET Threads]
    BY <1>0, <1>3, LockType DEF SendMsg, LeaveCRoom
  <2> QED BY <1>3, <2>1, <2>2 DEF SendMsg, LeaveCRoom, TypeOK, tableVars, roomVars
<1>4. CASE ListCRooms(c)
  BY <1>4, AnswerType DEF ListCRooms, TypeOK, tableVars, lockVars, roomVars
<1>5. CASE ChangeName(c)
  <2>1. CallAt("renaming") \in Call
    BY CallAtType
  <2>2. wlock' \in [Clients -> Threads \cup {Nil}]
    BY <1>0, <1>5, LockType DEF ChangeName
  <2> QED BY <1>5, <2>1, <2>2 DEF ChangeName, TypeOK, tableVars, roomVars
<1>6. CASE NameChanged(c)
  <2>1. wlock' \in [Clients -> Threads \cup {Nil}]
    BY <1>0, <1>6, LockType DEF NameChanged
  <2> QED BY <1>6, <2>1, ReturnType DEF NameChanged, TypeOK, tableVars, roomVars
<1>7. CASE Quit(c)
  <2>1. CallAt("idle") \in Call
    BY CallAtType
  <2> QED BY <1>7, <2>1 DEF Quit, End, TypeOK, lockVars, roomVars
<1>8. CASE SendReply(c)
  BY <1>8, ReturnType, ReceiveType DEF SendReply, TypeOK, tableVars, roomVars
<1> QED
  BY <1>1, <1>2, <1>3, <1>4, <1>5, <1>6, <1>7, <1>8, CreateCRoomType DEF Handler

LEMMA EnterType ==
  ASSUME TypeOK, NEW r \in Rooms,
         NEW op \in {"none", "select", "said", "add", "adding", "greeting",
                     "remove", "removing", "unlisted", "unseating",
                     "closing", "evict", "evicting"},
         NEW c \in Clients \cup {Nil}, Enter(r, op, c)
  PROVE  loop' \in [Rooms -> Loop]
<1>1. At(op, c) \in Loop
  BY DEF At, Loop
<1> QED BY <1>1 DEF Enter, TypeOK

\* Requests from handlers, and expiry.
LEMMA RequestType ==
  ASSUME TypeOK, CallsOK, NEW r \in Rooms, NEW c \in Clients,
         TakeJoin(r, c) \/ TakeLeave(r, c) \/ TakeMessage(r, c)
  PROVE  TypeOK'
<1>1. CASE TakeJoin(r, c)
  <2>1. loop' \in [Rooms -> Loop]
    BY <1>1, EnterType DEF TakeJoin
  <2> QED BY <1>1, <2>1, ReturnType DEF TakeJoin, TypeOK, tableVars
<1>2. CASE TakeLeave(r, c)
  <2>1. loop' \in [Rooms -> Loop]
    BY <1>2, EnterType DEF TakeLeave
  <2>2. /\ call' \in [Clients -> Call]
        /\ rlock' \in [Clients -> SUBSET Threads]
    <3>1. CASE Return(c)
      BY <3>1, ReturnType
    <3>2. CASE call[c].op = "switching" /\ WaitAt(c, "joining", call[c].room)
               /\ UNCHANGED rlock
      <4>1. call[c].room \in Rooms
        BY <3>2 DEF CallsOK, CallOK
      <4> QED BY <3>2, <4>1, WaitAtType DEF TypeOK
    <3> QED BY <1>2, <3>1, <3>2 DEF TakeLeave, Takes
  <2> QED BY <1>2, <2>1, <2>2 DEF TakeLeave, TypeOK, tableVars
<1>3. CASE TakeMessage(r, c)
  <2>1. loop' \in [Rooms -> Loop]
    BY <1>3, EnterType DEF TakeMessage
  <2>2. /\ roomExpire' \in [Rooms -> 0 .. EXTIME]
        /\ roomMsgs' \in [Rooms -> Nat]
        /\ out' \in [Rooms -> Seq(Clients)]
    BY <1>3, EmptySeq, BroadcastType DEF TakeMessage
  <2>3. quiet' \in [Rooms -> 0 .. EXTIME]
    BY <1>3, LimitsAssumption DEF TakeMessage, TypeOK
  <2> QED BY <1>3, <2>1, <2>2, <2>3, ReturnType DEF TakeMessage, TypeOK, tableVars
<1> QED BY <1>1, <1>2, <1>3

LEMMA TakeExpiryType ==
  ASSUME TypeOK, NEW r \in Rooms, TakeExpiry(r)
  PROVE  TypeOK'
<1>1. timer' \in [Rooms -> 0 .. EXTIME \cup {Nil}]
  BY DEF TakeExpiry, TypeOK
<1>2. /\ roomExpire' \in [Rooms -> 0 .. EXTIME]
      /\ roomMsgs' \in [Rooms -> Nat]
      /\ out' \in [Rooms -> Seq(Clients)]
      /\ loop' \in [Rooms -> Loop]
  <2>1. CASE UNCHANGED <<roomExpire, roomMsgs, out, loop>>
    BY <2>1 DEF TypeOK
  <2>2. CASE Broadcast(r, <<>>) /\ Enter(r, "closing", Nil)
    BY <2>2, EmptySeq, BroadcastType, EnterType
  <2> QED BY <2>1, <2>2 DEF TakeExpiry
<1> QED BY <1>1, <1>2 DEF TakeExpiry, TypeOK, tableVars, lockVars, callVars

\* What a room does for a request.
LEMMA AddType ==
  ASSUME TypeOK, LoopsOK, NEW r \in Rooms, AddClient(r) \/ ClientAdded(r)
  PROVE  TypeOK'
<1> DEFINE c == loop[r].who
<1>1. c \in Clients
  BY DEF AddClient, ClientAdded, Sent, LoopsOK, LoopOK
<1> HIDE DEF c
<1>2. CASE AddClient(r)
  <2>1. [i \in 1 .. roomMsgs[r] + 1 |-> c] \in Seq(Clients)
    <3>1. roomMsgs[r] + 1 \in Nat
      BY DEF TypeOK
    <3> QED BY <1>1, <3>1
  <2>2. /\ roomExpire' \in [Rooms -> 0 .. EXTIME]
        /\ roomMsgs' \in [Rooms -> Nat]
        /\ out' \in [Rooms -> Seq(Clients)]
    BY <1>2, <2>1, BroadcastType DEF AddClient, c
  <2>3. loop' \in [Rooms -> Loop]
    BY <1>1, <1>2, EnterType DEF AddClient, c
  <2>4. quiet' \in [Rooms -> 0 .. EXTIME]
    BY <1>2, LimitsAssumption DEF AddClient, TypeOK
  <2> QED
    BY <1>2, <2>2, <2>3, <2>4 DEF AddClient, TypeOK, tableVars, lockVars, callVars
<1>3. CASE ClientAdded(r)
  <2>1. loop' \in [Rooms -> Loop]
    BY <1>3, EnterType DEF ClientAdded
  <2>2. roomClients' \in [Rooms -> Seq(Clients)]
    <3>1. Append(roomClients[r], c) \in Seq(Clients)
      BY <1>1, AppendProperties DEF TypeOK
    <3> QED BY <1>3, <3>1 DEF ClientAdded, TypeOK, c
  <2>3. /\ cRoom' \in [Clients -> Rooms \cup {Nil}]
        /\ wlock' \in [Clients -> Threads \cup {Nil}]
    BY <1>3 DEF ClientAdded, Unlock, TypeOK
  <2> QED BY <1>3, <2>1, <2>2, <2>3 DEF ClientAdded, TypeOK, tableVars, callVars
<1> QED BY <1>2, <1>3

LEMMA RemoveType ==
  ASSUME TypeOK, LoopsOK, NEW r \in Rooms,
         RemoveClient(r) \/ Unlist(r) \/ Unseat(r)
  PROVE  TypeOK'
<1> DEFINE c == loop[r].who
<1>1. c \in Clients /\ r \in Threads
  BY DEF RemoveClient, Unlist, Unseat, Sent, LoopsOK, LoopOK, Threads
<1> HIDE DEF c
<1>2. CASE RemoveClient(r)
  <2>1. /\ roomExpire' \in [Rooms -> 0 .. EXTIME]
        /\ roomMsgs' \in [Rooms -> Nat]
        /\ out' \in [Rooms -> Seq(Clients)]
    BY <1>2, EmptySeq, BroadcastType DEF RemoveClient
  <2>2. loop' \in [Rooms -> Loop] /\ rlock' \in [Clients -> SUBSET Threads]
    BY <1>1, <1>2, EnterType, LockType DEF RemoveClient, c
  <2>3. quiet' \in [Rooms -> 0 .. EXTIME]
    BY <1>2, LimitsAssumption DEF RemoveClient, TypeOK
  <2> QED BY <1>2, <2>1, <2>2, <2>3 DEF RemoveClient, TypeOK, tableVars, callVars
<1>3. CASE Unlist(r)
  <2>1. loop' \in [Rooms -> Loop] /\ rlock' \in [Clients -> SUBSET Threads]
    BY <1>1, <1>3, EnterType, LockType DEF Unlist, c
  <2>2. roomClients' \in [Rooms -> Seq(Clients)]
    <3>1. RemoveFirst(roomClients[r], c) \in Seq(Clients)
      BY RemoveFirstProperties DEF TypeOK
    <3> QED BY <1>3, <3>1 DEF Unlist, TypeOK, c
  <2> QED BY <1>3, <2>1, <2>2 DEF Unlist, TypeOK, tableVars, callVars
<1>4. CASE Unseat(r)
  <2>1. loop' \in [Rooms -> Loop]
    BY <1>4, EnterType DEF Unseat
  <2>2. /\ cRoom' \in [Clients -> Rooms \cup {Nil}]
        /\ wlock' \in [Clients -> Threads \cup {Nil}]
    BY <1>4 DEF Unseat, Unlock, TypeOK
  <2> QED BY <1>4, <2>1, <2>2 DEF Unseat, TypeOK, tableVars, callVars
<1> QED BY <1>2, <1>3, <1>4

LEMMA DeleteType ==
  ASSUME TypeOK, LoopsOK, NEW r \in Rooms, Close(r) \/ Evict(r) \/ DeleteCRoom(r)
  PROVE  TypeOK'
<1>1. loop' \in [Rooms -> Loop]
  BY EnterType DEF Close, Evict, DeleteCRoom
<1>2. CASE Close(r)
  BY <1>1, <1>2 DEF Close, TypeOK, tableVars, lockVars, callVars
<1>3. CASE Evict(r)
  <2>1. Tail(out[r]) \in Seq(Clients)
    BY <1>3, HeadTailProperties DEF Evict, LoopsOK, LoopOK, TypeOK
  <2>2. /\ cRoom' \in [Clients -> Rooms \cup {Nil}]
        /\ wlock' \in [Clients -> Threads \cup {Nil}]
    BY <1>3 DEF Evict, Unlock, TypeOK
  <2> QED BY <1>1, <1>3, <2>1, <2>2 DEF Evict, TypeOK, tableVars, callVars
<1>4. CASE DeleteCRoom(r)
  BY <1>1, <1>4 DEF DeleteCRoom, TypeOK, lockVars, callVars
<1> QED BY <1>2, <1>3, <1>4

LEMMA ListenType ==
  ASSUME TypeOK, CallsOK, LoopsOK, NEW r \in Rooms, Listen(r)
  PROVE  TypeOK'
<1>1. CASE RoomSend(r)
  <2>1. Head(out[r]) \in Clients /\ Tail(out[r]) \in Seq(Clients)
    BY <1>1, HeadTailProperties DEF RoomSend, TypeOK
  <2> QED
    BY <1>1, <2>1, ReceiveType DEF RoomSend, TypeOK, tableVars, lockVars
<1>2. CASE Said(r)
  BY <1>2, EnterType DEF Said, TypeOK, tableVars, lockVars, callVars
<1>3. CASE RoomLock(r)
  <2>1. r \in Threads
    BY DEF Threads
  <2>2. loop' \in [Rooms -> Loop] /\ wlock' \in [Clients -> Threads \cup {Nil}]
    <3>1. CASE loop[r].op \in {"add", "unlisted"}
      <4>1. loop[r].who \in Clients
        BY <3>1 DEF LoopsOK, LoopOK
      <4> QED BY <1>3, <2>1, <3>1, <4>1, EnterType, LockType DEF RoomLock
    <3>2. CASE loop[r].op = "evict"
      <4>1. Head(out[r]) \in Clients
        BY <1>3, <3>2, HeadTailProperties DEF RoomLock, TypeOK
      <4> QED BY <1>3, <2>1, <3>2, <4>1, EnterType, LockType DEF RoomLock
    <3> QED BY <1>3, <3>1, <3>2 DEF RoomLock
  <2> QED BY <1>3, <2>2 DEF RoomLock, TypeOK, tableVars, callVars
<1> QED
  BY <1>1, <1>2, <1>3, RequestType, TakeExpiryType, AddType, RemoveType, DeleteType
     DEF Listen

LEMMA TickType ==
  ASSUME TypeOK, Tick
  PROVE  TypeOK'
<1>1. \A n \in 0 .. EXTIME : Sooner(n) \in 0 .. EXTIME
  BY LimitsAssumption DEF Sooner
<1>2. roomExpire' \in [Rooms -> 0 .. EXTIME]
  BY <1>1 DEF Tick, TypeOK
<1>3. timer' \in [Rooms -> 0 .. EXTIME \cup {Nil}]
  BY <1>1 DEF Tick, TypeOK
<1>4. quiet' \in [Rooms -> 0 .. EXTIME]
  BY LimitsAssumption DEF Tick, TypeOK
<1> QED
  BY <1>2, <1>3, <1>4 DEF Tick, TypeOK, tableVars, lockVars, callVars

LEMMA TypeNext ==
  ASSUME TypeOK, CallsOK, LoopsOK, [Next]_vars
  PROVE  TypeOK'
<1>1. CASE UNCHANGED vars
  BY <1>1 DEF TypeOK, vars, tableVars, lockVars, callVars, roomVars
<1> QED BY <1>1, UserType, HandlerType, ListenType, TickType DEF Next

------------------------------------------------------------------------------
(* Locks: what one thread does to a mutex, and what the others keep.        *)

\* Thread t does something to the mutex of c, or nothing.
LockStep(t, c) ==
  /\ Announce(t, c) \/ (wlock[c] = t /\ Unlock(c)) \/ UNCHANGED wlock
  /\ RLock(t, c) \/ RUnlock(t, c) \/ UNCHANGED rlock

\* Besides, no handler but that of t moves.
StepBy(t, c) == LockStep(t, c) /\ \A d \in Clients : d # t => call'[d] = call[d]

LEMMA OthersLocks ==
  ASSUME TypeOK, NEW t \in Threads, NEW c \in Clients, LockStep(t, c),
         NEW d \in Clients
  PROVE  /\ \A q \in Rooms : q # t /\ wlock[d] = q /\ rlock[d] = {} =>
              wlock'[d] = q /\ rlock'[d] = {}
         /\ \A e \in Clients : e # t /\ e \in rlock[d] => e \in rlock'[d]
<1>1. \A q \in Rooms : q # Nil
  BY NilAssumption DEF Threads
<1>2. /\ wlock'[d] = wlock[d] \/ (d = c /\ wlock[d] \in {Nil, t})
      /\ \/ rlock'[d] = rlock[d]
         \/ d = c /\ rlock'[d] = rlock[d] \ {t}
         \/ d = c /\ wlock[d] = Nil /\ rlock'[d] = rlock[d] \cup {t}
  BY DEF LockStep, Announce, Unlock, RLock, RUnlock, TypeOK
<1> QED BY <1>1, <1>2

\* A client's room changes only while nobody reads it.
SeatsStable == \A c \in Clients : rlock[c] # {} => cRoom'[c] = cRoom[c]

LEMMA SeatsStep ==
  ASSUME TypeOK, LoopsOK, [Next]_vars
  PROVE  SeatsStable
<1>1. ASSUME UNCHANGED cRoom
      PROVE  SeatsStable
  BY <1>1 DEF SeatsStable
<1>2. ASSUME NEW r \in Rooms, NEW c \in Clients, NEW s, rlock[c] = {},
             cRoom' = [cRoom EXCEPT ![c] = s]
      PROVE  SeatsStable
  BY <1>2 DEF SeatsStable, TypeOK
<1>3. ASSUME NEW r \in Rooms, ClientAdded(r)
      PROVE  SeatsStable
  <2>1. loop[r].who \in Clients /\ rlock[loop[r].who] = {}
    BY <1>3 DEF ClientAdded, Sent, LoopsOK, LoopOK
  <2> QED BY <1>2, <1>3, <2>1 DEF ClientAdded
<1>4. ASSUME NEW r \in Rooms, Unseat(r)
      PROVE  SeatsStable
  <2>1. loop[r].who \in Clients /\ rlock[loop[r].who] = {}
    BY <1>4 DEF Unseat, Exclusive, LoopsOK, LoopOK
  <2> QED BY <1>2, <1>4, <2>1 DEF Unseat
<1>5. ASSUME NEW r \in Rooms, Evict(r)
      PROVE  SeatsStable
  <2>1. Head(out[r]) \in Clients /\ rlock[Head(out[r])] = {}
    BY <1>5, HeadTailProperties DEF Evict, Exclusive, LoopsOK, LoopOK, TypeOK
  <2> QED BY <1>2, <1>5, <2>1 DEF Evict
<1>6. ASSUME NEW c \in Clients, User(c) \/ SendWelcome(c) \/ Handler(c)
      PROVE  UNCHANGED cRoom
  BY <1>6 DEF User, Connect, UsrParse, Drop, SendWelcome, Handler, CreateCRoom,
              JoinCRoom, JoinLocked, SendMsg, LeaveCRoom, ListCRooms, ChangeName,
              NameChanged, Quit, SendReply
<1>7. ASSUME NEW r \in Rooms, Listen(r)
      PROVE  SeatsStable
  <2>1. \/ ClientAdded(r) \/ Unseat(r) \/ Evict(r)
        \/ UNCHANGED cRoom
    BY <1>7 DEF Listen, TakeJoin, TakeLeave, TakeMessage, TakeExpiry, RoomSend, Said,
                RoomLock, AddClient, RemoveClient, Unlist, Close, DeleteCRoom
  <2> QED BY <1>1, <1>3, <1>4, <1>5, <2>1
<1>8. CASE Tick \/ UNCHANGED vars
  BY <1>1, <1>8 DEF Tick, vars
<1> QED BY <1>1, <1>6, <1>7, <1>8 DEF Next

\* The handlers that do not move have at hand what they had.
LEMMA OthersCalls ==
  ASSUME TypeOK, CallsOK, SeatsStable, NEW t \in Threads, NEW c \in Clients,
         StepBy(t, c), t \in Clients => CallOK(t)'
  PROVE  CallsOK'
<1> SUFFICES ASSUME NEW d \in Clients, d # t
             PROVE  CallOK(d)'
  BY DEF CallsOK
<1>1. call'[d] = call[d]
  BY DEF StepBy
<1>2. d \in rlock[d] => d \in rlock'[d]
  BY OthersLocks DEF StepBy
<1>3. d \in rlock[d] => cRoom'[d] = cRoom[d]
  BY DEF SeatsStable
<1> QED BY <1>1, <1>2, <1>3 DEF CallsOK, CallOK

\* So have the rooms that do not move.
LEMMA OthersLoops ==
  ASSUME TypeOK, LoopsOK, NEW t \in Threads, NEW c \in Clients, LockStep(t, c),
         \A q \in Rooms : \/ LoopOK(q)'
                          \/ q # t /\ loop'[q] = loop[q] /\ out'[q] = out[q]
  PROVE  LoopsOK'
<1> SUFFICES ASSUME NEW q \in Rooms, q # t, loop'[q] = loop[q], out'[q] = out[q]
             PROVE  LoopOK(q)'
  BY DEF LoopsOK
<1>1. LoopOK(q)
  BY DEF LoopsOK
<1>2. loop[q].op = "greeting" =>
        wlock'[loop[q].who] = q /\ rlock'[loop[q].who] = {}
  BY <1>1, OthersLocks DEF LoopOK
<1> QED BY <1>1, <1>2 DEF LoopOK

\* Nobody has to do with a lock or a channel.
LEMMA NothingMoves ==
  ASSUME CallsOK, LoopsOK, UNCHANGED <<call, cRoom, lockVars, loop, out>>
  PROVE  CallsOK' /\ LoopsOK'
<1>1. CallsOK'
  <2> SUFFICES ASSUME NEW c \in Clients PROVE CallOK(c)'
    BY DEF CallsOK
  <2> QED BY DEF CallsOK, CallOK, lockVars
<1>2. LoopsOK'
  <2> SUFFICES ASSUME NEW r \in Rooms PROVE LoopOK(r)'
    BY DEF LoopsOK
  <2> QED BY DEF LoopsOK, LoopOK, lockVars
<1> QED BY <1>1, <1>2

------------------------------------------------------------------------------
(* What handlers and rooms have at hand.                                    *)

LEMMA CallOps ==
  ASSUME TypeOK, NEW c \in Clients, NEW k, call' = [call EXCEPT ![c] = k]
  PROVE  /\ call'[c] = k
         /\ \A d \in Clients : d # c => call'[d] = call[d]
BY DEF TypeOK

\* A handler that returns or answers has nothing to rely on.
LEMMA RestingCall ==
  ASSUME TypeOK, NEW c \in Clients,
         NEW op \in {"out", "idle", "reply", "renaming"},
         call' = [call EXCEPT ![c] = CallAt(op)]
  PROVE  CallOK(c)' /\ \A d \in Clients : d # c => call'[d] = call[d]
<1>1. call'[c] = CallAt(op) /\ CallAt(op).op = op
  BY DEF TypeOK, CallAt
<1>2. CallOK(c)'
  BY <1>1 DEF CallOK
<1> QED BY <1>2, CallOps

LEMMA UserCalls ==
  ASSUME TypeOK, CallsOK, LoopsOK, SeatsStable, NEW c \in Clients,
         User(c) \/ SendWelcome(c)
  PROVE  CallsOK' /\ LoopsOK'
<1>0. c \in Threads
  BY DEF Threads
<1>1. /\ LockStep(c, c)
      /\ UNCHANGED <<loop, out>>
      /\ c \notin Rooms
  <2>1. UNCHANGED <<lockVars, roomVars>>
    BY DEF User, Connect, UsrParse, Drop, SendWelcome
  <2> QED BY <2>1, ThreadsAssumption DEF LockStep, lockVars, roomVars
<1>2. LoopsOK'
  BY <1>0, <1>1, OthersLoops
<1>3. CASE Connect(c)
  <2>1. CallOK(c)' /\ \A d \in Clients : d # c => call'[d] = call[d]
    BY <1>3, RestingCall DEF Connect
  <2> QED BY <1>0, <1>1, <1>2, <2>1, OthersCalls DEF StepBy
<1>4. ASSUME NEW l \in Lines, UsrParse(c, l)
      PROVE  CallsOK'
  <2>1. /\ l.cmd \in {"create", "join", "leave", "say", "list", "name", "quit"}
        /\ l.cmd \in {"create", "join"} => l.arg \in Names
    BY LinesAssumption DEF Line
  <2>2. /\ call'[c] = [CallAt(l.cmd) EXCEPT !.arg = l.arg]
        /\ \A d \in Clients : d # c => call'[d] = call[d]
    BY <1>4, CallOps DEF UsrParse
  <2>3. CallOK(c)'
    BY <2>1, <2>2 DEF CallOK, CallAt
  <2> QED BY <1>0, <1>1, <2>2, <2>3, OthersCalls DEF StepBy
<1>5. CASE Drop(c) \/ SendWelcome(c)
  BY <1>5, NothingMoves DEF Drop, SendWelcome, roomVars
<1> QED BY <1>2, <1>3, <1>4, <1>5 DEF User

\* A handler's step touches its own client's mutex only; if it then waits, it
\* has what it needs.
LEMMA HandlerLocks ==
  ASSUME TypeOK, NEW c \in Clients, Handler(c)
  PROVE  LockStep(c, c)
<1>1. ASSUME UNCHANGED lockVars
      PROVE  LockStep(c, c)
  BY <1>1 DEF LockStep, lockVars
<1>2. CASE JoinLocked(c) \/ SendMsg(c) \/ LeaveCRoom(c)
  BY <1>2 DEF JoinLocked, SendMsg, LeaveCRoom, LockStep
<1>3. CASE ChangeName(c) \/ NameChanged(c) \/ SendReply(c)
  BY <1>3 DEF ChangeName, NameChanged, SendReply, Return, Exclusive, LockStep
<1>4. CASE CreateCRoom(c) \/ JoinCRoom(c) \/ ListCRooms(c) \/ Quit(c)
  BY <1>1, <1>4 DEF CreateCRoom, JoinCRoom, ListCRooms, Quit
<1> QED BY <1>2, <1>3, <1>4 DEF Handler

LEMMA HandlerCall ==
  ASSUME TypeOK, CallsOK, SeatsStable, NEW c \in Clients, Handler(c)
  PROVE  CallOK(c)' /\ \A d \in Clients : d # c => call'[d] = call[d]
<1>1. CASE CreateCRoom(c) \/ ListCRooms(c)
  BY <1>1, RestingCall DEF CreateCRoom, ListCRooms, Answer
<1>2. CASE JoinCRoom(c)
  <2> DEFINE r == cRooms[call[c].arg]
  <2>1. CASE r = Nil
    BY <1>2, <2>1, RestingCall DEF JoinCRoom, Answer
  <2>2. CASE r # Nil
    <3>1. r \in Rooms
      BY <1>2, <2>2 DEF JoinCRoom, CallsOK, CallOK, TypeOK
    <3>2. /\ call'[c] = [CallAt("found") EXCEPT !.room = r]
          /\ \A d \in Clients : d # c => call'[d] = call[d]
      BY <1>2, <2>2 DEF JoinCRoom, Answer, TypeOK
    <3>3. call'[c].op = "found" /\ call'[c].room = r
      BY <3>2 DEF CallAt
    <3> QED BY <3>1, <3>2, <3>3 DEF CallOK
  <2> QED BY <2>1, <2>2
<1>3. ASSUME NEW op \in {"joining", "leaving", "saying"}, NEW r \in Rooms,
             WaitAt(c, op, r), op # "joining" => RLock(c, c) /\ r = cRoom[c],
             UNCHANGED cRoom
      PROVE  CallOK(c)' /\ \A d \in Clients : d # c => call'[d] = call[d]
  <2>1. /\ call'[c] = [CallAt(op) EXCEPT !.at = r]
        /\ \A d \in Clients : d # c => call'[d] = call[d]
    BY <1>3 DEF WaitAt, TypeOK
  <2>2. call'[c].op = op /\ call'[c].at = r
    BY <2>1 DEF CallAt
  <2>3. op # "joining" => c \in rlock'[c]
    BY <1>3 DEF RLock, TypeOK
  <2> QED BY <1>3, <2>1, <2>2, <2>3 DEF CallOK
<1>4. CASE JoinLocked(c)
  <2>1. call[c].room \in Rooms /\ cRoom[c] \in Rooms \cup {Nil}
    BY <1>4 DEF JoinLocked, CallsOK, CallOK, TypeOK
  <2>2. CASE cRoom[c] = Nil
    BY <1>3, <1>4, <2>1, <2>2 DEF JoinLocked
  <2>3. CASE cRoom[c] # Nil
    <3> DEFINE k == [[call[c] EXCEPT !.op = "switching"] EXCEPT !.at = cRoom[c]]
    <3>1. call[c] \in Call
      BY DEF TypeOK
    <3>2. call' = [call EXCEPT ![c] = k]
      BY <1>4, <2>3, <3>1 DEF JoinLocked, TypeOK
    <3>3. call'[c] = k /\ \A d \in Clients : d # c => call'[d] = call[d]
      BY <3>2, CallOps
    <3>4. k.op = "switching" /\ k.at = cRoom[c] /\ k.room = call[c].room
      BY <3>1 DEF Call
    <3>5. c \in rlock'[c] /\ UNCHANGED cRoom
      BY <1>4 DEF JoinLocked, RLock, TypeOK
    <3> HIDE DEF k
    <3> QED BY <2>1, <2>3, <3>3, <3>4, <3>5 DEF CallOK
  <2> QED BY <2>2, <2>3
<1>5. CASE SendMsg(c) \/ LeaveCRoom(c)
  <2>1. cRoom[c] \in Rooms \cup {Nil}
    BY DEF TypeOK
  <2>2. CASE cRoom[c] = Nil
    <3>1. CASE UNCHANGED call /\ call[c].op = "leave"
      BY <3>1 DEF CallOK
    <3>2. CASE Answer(c)
      BY <3>2, RestingCall DEF Answer
    <3> QED BY <1>5, <2>2, <3>1, <3>2 DEF SendMsg, LeaveCRoom
  <2>3. CASE cRoom[c] # Nil
    BY <1>3, <1>5, <2>1, <2>3 DEF SendMsg, LeaveCRoom
  <2> QED BY <2>2, <2>3
<1>6. CASE ChangeName(c) \/ NameChanged(c) \/ Quit(c) \/ SendReply(c)
  BY <1>6, RestingCall DEF ChangeName, NameChanged, Quit, SendReply, Return
<1> QED BY <1>1, <1>2, <1>4, <1>5, <1>6 DEF Handler

LEMMA HandlerCalls ==
  ASSUME TypeOK, CallsOK, LoopsOK, SeatsStable, NEW c \in Clients, Handler(c)
  PROVE  CallsOK' /\ LoopsOK'
<1>1. c \in Threads /\ c \notin Rooms
  BY ThreadsAssumption DEF Threads
<1>2. LockStep(c, c)
  BY HandlerLocks
<1>3. CallsOK'
  BY <1>1, <1>2, HandlerCall, OthersCalls DEF StepBy
<1>4. LoopsOK'
  <2> SUFFICES ASSUME NEW q \in Rooms
               PROVE  LoopOK(q)' \/ (loop'[q] = loop[q] /\ out'[q] = out[q])
    BY <1>1, <1>2, OthersLoops
  <2>1. CASE CreateCRoom(c)
    <3>1. UNCHANGED out /\ loop'[q] \in {loop[q], At("select", Nil)}
      BY <2>1 DEF CreateCRoom, TypeOK
    <3>2. At("select", Nil).op = "select"
      BY DEF At
    <3> QED BY <3>1, <3>2 DEF LoopOK
  <2>2. CASE ~CreateCRoom(c)
    BY <2>2 DEF Handler, JoinCRoom, JoinLocked, SendMsg, LeaveCRoom, ListCRooms,
                ChangeName, NameChanged, Quit, SendReply, roomVars
  <2> QED BY <2>1, <2>2
<1> QED BY <1>3, <1>4

\* Where a room's goroutine goes.
LEMMA LoopOps ==
  ASSUME TypeOK, NEW r \in Rooms, NEW op, NEW c, Enter(r, op, c)
  PROVE  /\ loop'[r].op = op /\ loop'[r].who = c
         /\ \A q \in Rooms : q # r => loop'[q] = loop[q]
<1>1. loop'[r] = At(op, c) /\ \A q \in Rooms : q # r => loop'[q] = loop[q]
  BY DEF Enter, TypeOK
<1> QED BY <1>1 DEF At

\* A room that takes a request.
LEMMA RequestCalls ==
  ASSUME TypeOK, CallsOK, LoopsOK, SeatsStable, NEW r \in Rooms, NEW c \in Clients,
         TakeJoin(r, c) \/ TakeLeave(r, c) \/ TakeMessage(r, c)
  PROVE  CallsOK' /\ LoopsOK'
<1>1. c \in Threads /\ c \notin Rooms
  BY ThreadsAssumption DEF Threads
<1>2. LockStep(c, c)
  BY DEF TakeJoin, TakeLeave, TakeMessage, Return, LockStep
<1>3. CallOK(c)' /\ \A d \in Clients : d # c => call'[d] = call[d]
  <2>1. CASE Return(c)
    BY <2>1, RestingCall DEF Return
  <2>2. CASE call[c].op = "switching" /\ WaitAt(c, "joining", call[c].room)
    <3>1. call[c].room \in Rooms
      BY <2>2 DEF CallsOK, CallOK
    <3>2. /\ call'[c] = [CallAt("joining") EXCEPT !.at = call[c].room]
          /\ \A d \in Clients : d # c => call'[d] = call[d]
      BY <2>2 DEF WaitAt, TypeOK
    <3>3. call'[c].op = "joining" /\ call'[c].at = call[c].room
      BY <3>2 DEF CallAt
    <3> QED BY <3>1, <3>2, <3>3 DEF CallOK
  <2> QED BY <2>1, <2>2 DEF TakeJoin, TakeLeave, TakeMessage, Takes
<1>4. CallsOK'
  BY <1>1, <1>2, <1>3, OthersCalls DEF StepBy
<1>5. PICK op \in {"add", "remove", "said"} :
        Enter(r, op, IF op = "said" THEN Nil ELSE c)
  BY DEF TakeJoin, TakeLeave, TakeMessage
<1>6. LoopOK(r)'
  <2>1. loop'[r].op = op /\ loop'[r].who = IF op = "said" THEN Nil ELSE c
    BY <1>5, LoopOps
  <2> QED BY <2>1 DEF LoopOK
<1>7. ASSUME NEW q \in Rooms, q # r
      PROVE  loop'[q] = loop[q] /\ out'[q] = out[q]
  <2>1. loop'[q] = loop[q]
    BY <1>5, <1>7, LoopOps
  <2>2. out'[q] = out[q]
    BY <1>7 DEF TakeJoin, TakeLeave, TakeMessage, Broadcast, TypeOK
  <2> QED BY <2>1, <2>2
<1>8. LoopsOK'
  BY <1>1, <1>2, <1>6, <1>7, OthersLoops
<1> QED BY <1>4, <1>8

\* A room that goes on without a lock.
LEMMA UnlockedCalls ==
  ASSUME TypeOK, CallsOK, LoopsOK, NEW r \in Rooms,
         TakeExpiry(r) \/ RoomSend(r) \/ Said(r) \/ Close(r) \/ DeleteCRoom(r)
  PROVE  CallsOK' /\ LoopsOK'
<1>1. UNCHANGED <<call, cRoom, rlock, wlock>>
  BY DEF TakeExpiry, RoomSend, Said, Close, DeleteCRoom, lockVars, callVars
<1>2. CallsOK'
  <2> SUFFICES ASSUME NEW c \in Clients PROVE CallOK(c)'
    BY DEF CallsOK
  <2> QED BY <1>1 DEF CallsOK, CallOK
<1>3. \/ loop'[r] = loop[r] /\ loop[r].op # "evicting"
      \/ loop'[r].op \in {"select", "closing", "evict"}
  <2>1. CASE UNCHANGED loop
    BY <2>1 DEF TakeExpiry, RoomSend, Said, Close, DeleteCRoom, Sent
  <2>2. ASSUME NEW op \in {"select", "closing", "evict"}, Enter(r, op, Nil)
        PROVE  loop'[r].op = op
    BY <2>2, LoopOps
  <2> QED BY <2>1, <2>2 DEF TakeExpiry, RoomSend, Said, Close, DeleteCRoom
<1>4. LoopOK(r)'
  <2>1. LoopOK(r)
    BY DEF LoopsOK
  <2> QED BY <1>1, <1>3, <2>1 DEF LoopOK
<1>5. ASSUME NEW q \in Rooms, q # r
      PROVE  loop'[q] = loop[q] /\ out'[q] = out[q]
  BY <1>5 DEF TakeExpiry, RoomSend, Said, Close, DeleteCRoom, Enter, Broadcast, TypeOK
<1>6. LoopsOK'
  <2> SUFFICES ASSUME NEW q \in Rooms, q # r PROVE LoopOK(q)'
    BY <1>4 DEF LoopsOK
  <2>1. LoopOK(q) /\ loop'[q] = loop[q] /\ out'[q] = out[q]
    BY <1>5 DEF LoopsOK
  <2> QED BY <1>1, <2>1 DEF LoopOK
<1> QED BY <1>2, <1>6

\* A room that asks for the mutex of a client, or uses it.
LEMMA LockedCalls ==
  ASSUME TypeOK, CallsOK, LoopsOK, SeatsStable, NEW r \in Rooms,
         \/ RoomLock(r) \/ AddClient(r) \/ ClientAdded(r)
         \/ RemoveClient(r) \/ Unlist(r) \/ Unseat(r) \/ Evict(r)
  PROVE  CallsOK' /\ LoopsOK'
<1>1. r \in Threads /\ r \notin Clients
  BY ThreadsAssumption DEF Threads
<1>2. /\ loop[r].op \in {"add", "adding", "greeting", "remove", "removing",
                         "unlisted", "unseating"} => loop[r].who \in Clients
      /\ loop[r].op = "evicting" \/ out[r] # <<>> => Head(out[r]) \in Clients
  BY HeadTailProperties DEF LoopsOK, LoopOK, TypeOK
<1>3. PICK c \in Clients : LockStep(r, c)
  <2>1. CASE RoomLock(r)
    BY <1>2, <2>1 DEF RoomLock, LockStep
  <2>2. CASE AddClient(r)
    BY <1>2, <2>2 DEF AddClient, LockStep, lockVars
  <2>3. CASE ClientAdded(r)
    BY <1>2, <2>3 DEF ClientAdded, Sent, LockStep, LoopsOK, LoopOK
  <2>4. CASE RemoveClient(r) \/ Unlist(r)
    BY <1>2, <2>4 DEF RemoveClient, Unlist, Sent, LockStep
  <2>5. CASE Unseat(r) \/ Evict(r)
    BY <1>2, <2>5 DEF Unseat, Evict, Exclusive, LockStep
  <2> QED BY <2>1, <2>2, <2>3, <2>4, <2>5
<1>4. CallsOK'
  <2>1. UNCHANGED call
    BY DEF RoomLock, AddClient, ClientAdded, RemoveClient, Unlist, Unseat, Evict, callVars
  <2> QED BY <1>1, <1>3, <2>1, OthersCalls DEF StepBy
<1>5. LoopOK(r)'
  <2>1. ASSUME NEW op \in {"adding", "removing", "unlisted", "unseating"},
               Enter(r, op, loop[r].who), loop[r].who \in Clients
        PROVE  LoopOK(r)'
    <3>1. loop'[r].op = op /\ loop'[r].who = loop[r].who
      BY <2>1, LoopOps
    <3> QED BY <2>1, <3>1 DEF LoopOK
  <2>2. ASSUME NEW op \in {"select", "evict"}, Enter(r, op, Nil)
        PROVE  LoopOK(r)'
    <3>1. loop'[r].op = op
      BY <2>2, LoopOps
    <3> QED BY <3>1 DEF LoopOK
  <2>3. CASE RoomLock(r)
    <3>1. CASE loop[r].op \in {"add", "unlisted"}
      BY <1>2, <2>1, <2>3, <3>1 DEF RoomLock
    <3>2. CASE loop[r].op = "evict"
      <4>1. loop'[r].op = "evicting" /\ out'[r] # <<>>
        BY <2>3, <3>2, LoopOps DEF RoomLock
      <4> QED BY <4>1 DEF LoopOK
    <3> QED BY <2>3, <3>1, <3>2 DEF RoomLock
  <2>4. CASE AddClient(r)
    <3>1. loop'[r].op = "greeting" /\ loop'[r].who = loop[r].who
      BY <2>4, LoopOps DEF AddClient
    <3>2. /\ loop[r].who \in Clients
          /\ wlock'[loop[r].who] = r /\ rlock'[loop[r].who] = {}
      BY <1>2, <2>4 DEF AddClient, Exclusive, lockVars
    <3> QED BY <3>1, <3>2 DEF LoopOK
  <2>5. CASE RemoveClient(r) \/ Unlist(r)
    BY <1>2, <2>1, <2>5 DEF RemoveClient, Unlist, Sent
  <2>6. CASE ClientAdded(r) \/ Unseat(r) \/ Evict(r)
    BY <2>2, <2>6 DEF ClientAdded, Unseat, Evict
  <2> QED BY <2>3, <2>4, <2>5, <2>6
<1>6. ASSUME NEW q \in Rooms, q # r
      PROVE  loop'[q] = loop[q] /\ out'[q] = out[q]
  <2>1. loop'[q] = loop[q]
    BY <1>6 DEF RoomLock, AddClient, ClientAdded, RemoveClient, Unlist, Unseat, Evict,
                Enter, TypeOK
  <2>2. out'[q] = out[q]
    BY <1>6 DEF RoomLock, AddClient, ClientAdded, RemoveClient, Unlist, Unseat, Evict,
                Broadcast, TypeOK
  <2> QED BY <2>1, <2>2
<1>7. LoopsOK'
  BY <1>1, <1>3, <1>5, <1>6, OthersLoops
<1> QED BY <1>4, <1>7

LEMMA HandNext ==
  ASSUME TypeOK, CallsOK, LoopsOK, [Next]_vars
  PROVE  CallsOK' /\ LoopsOK'
<1>1. SeatsStable
  BY SeatsStep
<1>2. CASE Tick \/ UNCHANGED vars
  BY <1>2, NothingMoves DEF Tick, vars, callVars, roomVars
<1>3. ASSUME NEW c \in Clients, User(c) \/ SendWelcome(c) \/ Handler(c)
      PROVE  CallsOK' /\ LoopsOK'
  BY <1>1, <1>3, UserCalls, HandlerCalls
<1>4. ASSUME NEW r \in Rooms, Listen(r)
      PROVE  CallsOK' /\ LoopsOK'
  BY <1>1, <1>4, RequestCalls, UnlockedCalls, LockedCalls DEF Listen
<1> QED BY <1>2, <1>3, <1>4 DEF Next

------------------------------------------------------------------------------
(* Names.                                                                   *)

\* What a step may do to the table of rooms.
NamesMove ==
  \A n \in Names :
    /\ cRooms'[n] # Nil => roomName'[cRooms'[n]] = n
    /\ cRooms[n] # Nil => cRooms'[n] \in {cRooms[n], Nil}

LEMMA NamesStep ==
  ASSUME TypeOK, CallsOK, NamesOK, [Next]_vars
  PROVE  NamesOK' /\ NamesMove
<1>1. CASE UNCHANGED <<cRooms, roomName, loop>>
  BY <1>1 DEF NamesOK, NamesMove
<1>2. ASSUME NEW r \in Rooms, UNCHANGED <<cRooms, roomName>>,
             loop[r].op # "none", \A q \in Rooms : q # r => loop'[q] = loop[q]
      PROVE  NamesOK' /\ NamesMove
  BY <1>2 DEF NamesOK, NamesMove
<1>3. ASSUME NEW c \in Clients, CreateCRoom(c)
      PROVE  NamesOK' /\ NamesMove
  <2> DEFINE n == call[c].arg
  <2>1. n \in Names /\ n # Nil
    BY <1>3, NilAssumption DEF CreateCRoom, CallsOK, CallOK
  <2> HIDE DEF n
  <2>2. PICK r \in Rooms :
          /\ roomName[r] = Nil
          /\ roomName' = [roomName EXCEPT ![r] = n]
          /\ loop' = [loop EXCEPT ![r] = At("select", Nil)]
          /\ \/ cRooms[n] = Nil /\ cRooms' = [cRooms EXCEPT ![n] = r]
             \/ cRooms[n] # Nil /\ UNCHANGED cRooms
    BY <1>3 DEF CreateCRoom, n
  <2>3. \A q \in Rooms : roomName'[q] = IF q = r THEN n ELSE roomName[q]
    BY <2>2 DEF TypeOK
  <2>4. \A q \in Rooms : roomName'[q] = Nil => loop'[q] = loop[q]
    BY <2>1, <2>2, <2>3 DEF TypeOK
  <2>5. \A m \in Names : \/ cRooms'[m] = cRooms[m]
                         \/ m = n /\ cRooms[m] = Nil /\ cRooms'[m] = r
    <3>1. cRooms \in [Names -> Rooms \cup {Nil}]
      BY DEF TypeOK
    <3> QED BY <2>1, <2>2, <3>1
  <2>6. \A m \in Names : cRooms[m] # Nil => cRooms[m] \in Rooms /\ cRooms[m] # r
    BY <2>2, NilAssumption DEF NamesOK, TypeOK
  <2>7. \A m \in Names : cRooms'[m] # Nil => roomName'[cRooms'[m]] = m
    BY <2>2, <2>3, <2>5, <2>6 DEF NamesOK
  <2>8. \A q \in Rooms : roomName'[q] = Nil => loop'[q].op = "none"
    BY <2>1, <2>3, <2>4 DEF NamesOK
  <2> QED BY <2>5, <2>7, <2>8 DEF NamesOK, NamesMove
<1>4. ASSUME NEW r \in Rooms, DeleteCRoom(r)
      PROVE  NamesOK' /\ NamesMove
  <2>1. /\ UNCHANGED roomName
        /\ \A m \in Names : cRooms'[m] \in {cRooms[m], Nil}
    BY <1>4 DEF DeleteCRoom, TypeOK
  <2>2. loop[r].op = "evict" /\ \A q \in Rooms : q # r => loop'[q] = loop[q]
    BY <1>4, LoopOps DEF DeleteCRoom, Sent
  <2>3. roomName'[r] # Nil
    BY <2>1, <2>2 DEF NamesOK
  <2> QED BY <2>1, <2>2, <2>3 DEF NamesOK, NamesMove
<1>5. ASSUME NEW c \in Clients, User(c) \/ SendWelcome(c) \/ Handler(c)
      PROVE  CreateCRoom(c) \/ UNCHANGED <<cRooms, roomName, loop>>
  BY <1>5 DEF User, Connect, UsrParse, Drop, SendWelcome, Handler, JoinCRoom,
              JoinLocked, SendMsg, LeaveCRoom, ListCRooms, ChangeName, NameChanged,
              Quit, SendReply, tableVars, roomVars
<1>6. ASSUME NEW r \in Rooms, Listen(r), ~DeleteCRoom(r)
      PROVE  /\ UNCHANGED <<cRooms, roomName>>
             /\ loop[r].op # "none"
             /\ \A q \in Rooms : q # r => loop'[q] = loop[q]
  <2>1. UNCHANGED <<cRooms, roomName>> /\ loop[r].op # "none"
    BY <1>6 DEF Listen, TakeJoin, TakeLeave, TakeMessage, TakeExpiry, RoomSend, Said,
                RoomLock, AddClient, ClientAdded, RemoveClient, Unlist, Unseat, Close,
                Evict, Takes, Sent, tableVars
  <2>2. UNCHANGED loop \/ \E op, c : Enter(r, op, c)
    BY <1>6 DEF Listen, TakeJoin, TakeLeave, TakeMessage, TakeExpiry, RoomSend, Said,
                RoomLock, AddClient, ClientAdded, RemoveClient, Unlist, Unseat, Close,
                Evict
  <2> QED BY <2>1, <2>2 DEF Enter, TypeOK
<1>7. CASE Tick \/ UNCHANGED vars
  BY <1>1, <1>7 DEF Tick, vars, tableVars, roomVars
<1> QED BY <1>1, <1>2, <1>3, <1>4, <1>5, <1>6, <1>7 DEF Next

------------------------------------------------------------------------------
(* Members.                                                                 *)

LEMMA SeatsHere ==
  ASSUME TypeOK, SeatedIsListed, NEW r \in Rooms
  PROVE  SeatsOK(r)
BY NilAssumption DEF SeatsOK, SeatedIsListed, Threads

LEMMA SeatsNext ==
  ASSUME TypeOK', \A r \in Rooms : SeatsOK(r)'
  PROVE  SeatedIsListed'
<1>1. \A c \in Clients : cRoom'[c] # Nil => cRoom'[c] \in Rooms
  BY DEF TypeOK
<1> QED BY <1>1 DEF SeatsOK, SeatedIsListed

\* Nothing happens in r, and nobody else comes to be in it.
LEMMA SeatsKept ==
  ASSUME NEW r \in Rooms, SeatsOK(r),
         loop'[r] = loop[r], roomClients'[r] = roomClients[r],
         \A c \in Clients : cRoom'[c] = r => cRoom[c] = r
  PROVE  SeatsOK(r)'
BY DEF SeatsOK

\* The list of r does not get shorter, and it is not under way to remove.
LEMMA SeatsGrow ==
  ASSUME NEW r \in Rooms, SeatsOK(r),
         loop[r].op \notin {"unlisted", "unseating"},
         loop'[r].op \notin {"remove", "removing"},
         Range(roomClients[r]) \subseteq Range(roomClients'[r]),
         \A c \in Clients : cRoom'[c] = r => cRoom[c] = r \/ c \in Range(roomClients'[r])
  PROVE  SeatsOK(r)'
BY DEF SeatsOK

\* A room is asked to remove only a client that it lists: the client is in this
\* room, as its handler holds the lock, and this room is not removing anybody.
LEMMA TakerIsListed ==
  ASSUME TypeOK, CallsOK, SeatedIsListed, NEW r \in Rooms, NEW c \in Clients,
         NEW op \in {"leaving", "switching", "saying"}, Takes(r, c, op)
  PROVE  c \in Range(roomClients[r])
<1>1. cRoom[c] = r
  BY DEF Takes, CallsOK, CallOK
<1>2. loop[r].op = "select"
  BY DEF Takes
<1> QED BY <1>1, <1>2, SeatsHere DEF SeatsOK

LEMMA RequestSeats ==
  ASSUME TypeOK, CallsOK, SeatedIsListed, NEW r \in Rooms, NEW c \in Clients,
         TakeJoin(r, c) \/ TakeLeave(r, c) \/ TakeMessage(r, c)
  PROVE  SeatsOK(r)'
<1>1. SeatsOK(r)
  BY SeatsHere
<1>2. loop[r].op = "select" /\ UNCHANGED <<cRoom, roomClients>>
  BY DEF TakeJoin, TakeLeave, TakeMessage, Takes
<1>3. CASE TakeJoin(r, c) \/ TakeMessage(r, c)
  <2>1. loop'[r].op \in {"add", "said"}
    BY <1>3, LoopOps DEF TakeJoin, TakeMessage
  <2> QED BY <1>1, <1>2, <2>1, SeatsGrow
<1>4. CASE TakeLeave(r, c)
  <2>1. loop'[r].op = "remove" /\ loop'[r].who = c
    BY <1>4, LoopOps DEF TakeLeave
  <2>2. c \in Range(roomClients[r])
    BY <1>4, TakerIsListed DEF TakeLeave
  <2> QED BY <1>1, <1>2, <2>1, <2>2 DEF SeatsOK
<1> QED BY <1>3, <1>4

LEMMA RemoveSeats ==
  ASSUME TypeOK, LoopsOK, SeatedIsListed, NEW r \in Rooms,
         RemoveClient(r) \/ Unlist(r) \/ Unseat(r)
  PROVE  SeatsOK(r)'
<1> DEFINE c == loop[r].who
<1>1. SeatsOK(r)
  BY SeatsHere
<1>2. c \in Clients
  BY DEF RemoveClient, Unlist, Unseat, Sent, LoopsOK, LoopOK
<1> HIDE DEF c
<1>3. CASE RemoveClient(r)
  <2>1. /\ loop[r].op = "remove" /\ loop'[r].op = "removing" /\ loop'[r].who = c
        /\ UNCHANGED <<cRoom, roomClients>>
    BY <1>3, LoopOps DEF RemoveClient, c
  <2> QED BY <1>1, <2>1 DEF SeatsOK, c
<1>4. CASE Unlist(r)
  <2>1. /\ loop[r].op = "removing" /\ loop'[r].op = "unlisted" /\ loop'[r].who = c
        /\ UNCHANGED cRoom
    BY <1>4, LoopOps DEF Unlist, Sent, c
  <2>2. roomClients'[r] = RemoveFirst(roomClients[r], c)
    BY <1>4 DEF Unlist, TypeOK, c
  <2>3. Range(roomClients[r]) \ {c} \subseteq Range(roomClients'[r])
    BY <2>2, RangeRemoveFirst DEF TypeOK
  <2> QED BY <1>1, <2>1, <2>3 DEF SeatsOK
<1>5. CASE Unseat(r)
  <2>1. /\ loop[r].op = "unseating" /\ loop'[r].op = "select"
        /\ UNCHANGED roomClients
    BY <1>5, LoopOps DEF Unseat
  <2>2. \A d \in Clients : cRoom'[d] = IF d = c THEN Nil ELSE cRoom[d]
    BY <1>5 DEF Unseat, TypeOK, c
  <2>3. r # Nil
    BY NilAssumption DEF Threads
  <2> QED BY <1>1, <2>1, <2>2, <2>3 DEF SeatsOK, c
<1> QED BY <1>3, <1>4, <1>5

LEMMA ListenSeats ==
  ASSUME TypeOK, CallsOK, LoopsOK, SeatedIsListed, NEW r \in Rooms, Listen(r)
  PROVE  SeatsOK(r)'
<1>1. SeatsOK(r) /\ r # Nil
  BY SeatsHere, NilAssumption DEF Threads
<1>2. CASE TakeExpiry(r) \/ Said(r) \/ AddClient(r) \/ Close(r) \/ DeleteCRoom(r)
  <2>1. /\ loop[r].op \in {"select", "said", "adding", "closing", "evict"}
        /\ UNCHANGED <<cRoom, roomClients>>
    BY <1>2 DEF TakeExpiry, Said, AddClient, Close, DeleteCRoom, Sent
  <2>2. \/ UNCHANGED loop
        \/ \E op \in {"closing", "select", "greeting", "evict"} : \E c : Enter(r, op, c)
    BY <1>2 DEF TakeExpiry, Said, AddClient, Close, DeleteCRoom
  <2>3. loop'[r].op \notin {"remove", "removing"}
    BY <2>1, <2>2, LoopOps
  <2> QED BY <1>1, <2>1, <2>3, SeatsGrow
<1>3. CASE RoomSend(r)
  BY <1>1, <1>3, SeatsKept DEF RoomSend
<1>4. CASE RoomLock(r)
  <2>1. UNCHANGED <<cRoom, roomClients>>
    BY <1>4 DEF RoomLock
  <2>2. CASE loop[r].op = "unlisted"
    <3>1. loop'[r].op = "unseating" /\ loop'[r].who = loop[r].who
      BY <1>4, <2>2, LoopOps DEF RoomLock
    <3> QED BY <1>1, <2>1, <2>2, <3>1 DEF SeatsOK
  <2>3. CASE loop[r].op \in {"add", "evict"}
    <3>1. loop'[r].op \in {"adding", "evicting"}
      BY <1>4, <2>3, LoopOps DEF RoomLock
    <3> QED BY <1>1, <2>1, <2>3, <3>1, SeatsGrow
  <2> QED BY <1>4, <2>2, <2>3 DEF RoomLock
<1>5. CASE ClientAdded(r)
  <2> DEFINE c == loop[r].who
  <2>1. c \in Clients /\ loop[r].op = "greeting" /\ loop'[r].op = "select"
    BY <1>5, LoopOps DEF ClientAdded, Sent, LoopsOK, LoopOK
  <2>2. /\ roomClients'[r] = Append(roomClients[r], c)
        /\ \A d \in Clients : cRoom'[d] = IF d = c THEN r ELSE cRoom[d]
    BY <1>5 DEF ClientAdded, TypeOK
  <2> HIDE DEF c
  <2>3. Range(roomClients[r]) \cup {c} \subseteq Range(roomClients'[r])
    BY <2>1, <2>2, RangeAppend DEF TypeOK
  <2> QED BY <1>1, <2>1, <2>2, <2>3, SeatsGrow
<1>6. CASE Evict(r)
  <2>1. /\ loop[r].op = "evicting" /\ loop'[r].op = "evict"
        /\ UNCHANGED roomClients
    BY <1>6, LoopOps DEF Evict
  <2>2. \A d \in Clients : cRoom'[d] \in {cRoom[d], Nil}
    BY <1>6 DEF Evict, TypeOK
  <2> QED BY <1>1, <2>1, <2>2, SeatsGrow
<1> QED
  BY <1>2, <1>3, <1>4, <1>5, <1>6, RequestSeats, RemoveSeats DEF Listen

LEMMA MembersNext ==
  ASSUME TypeOK, CallsOK, LoopsOK, NamesOK, SeatedIsListed, [Next]_vars
  PROVE  SeatedIsListed'
<1>1. TypeOK'
  BY TypeNext
<1> SUFFICES ASSUME NEW q \in Rooms PROVE SeatsOK(q)'
  BY <1>1, SeatsNext
<1>2. SeatsOK(q) /\ q # Nil
  BY SeatsHere, NilAssumption DEF Threads
<1>3. CASE UNCHANGED <<cRoom, roomClients, loop>>
  BY <1>2, <1>3, SeatsKept
<1>4. ASSUME NEW c \in Clients, CreateCRoom(c)
      PROVE  SeatsOK(q)'
  <2>1. UNCHANGED <<cRoom, roomClients>>
    BY <1>4 DEF CreateCRoom
  <2>2. \/ loop'[q] = loop[q]
        \/ loop[q].op = "none" /\ loop'[q] = At("select", Nil)
    BY <1>4 DEF CreateCRoom, NamesOK, TypeOK
  <2>3. At("select", Nil).op = "select"
    BY DEF At
  <2> QED BY <1>2, <2>1, <2>2, <2>3, SeatsKept, SeatsGrow
<1>5. ASSUME NEW c \in Clients, User(c) \/ SendWelcome(c) \/ Handler(c)
      PROVE  CreateCRoom(c) \/ UNCHANGED <<cRoom, roomClients, loop>>
  BY <1>5 DEF User, Connect, UsrParse, Drop, SendWelcome, Handler, JoinCRoom,
              JoinLocked, SendMsg, LeaveCRoom, ListCRooms, ChangeName, NameChanged,
              Quit, SendReply, roomVars
<1>6. ASSUME NEW r \in Rooms, Listen(r), r # q
      PROVE  SeatsOK(q)'
  <2>1. loop'[q] = loop[q]
    <3>1. UNCHANGED loop \/ \E op, c : Enter(r, op, c)
      BY <1>6 DEF Listen, TakeJoin, TakeLeave, TakeMessage, TakeExpiry, RoomSend, Said,
                  RoomLock, AddClient, ClientAdded, RemoveClient, Unlist, Unseat,
                  Close, Evict, DeleteCRoom
    <3> QED BY <1>6, <3>1 DEF Enter, TypeOK
  <2>2. roomClients'[q] = roomClients[q]
    BY <1>6 DEF Listen, TakeJoin, TakeLeave, TakeMessage, TakeExpiry, RoomSend, Said,
                RoomLock, AddClient, ClientAdded, RemoveClient, Unlist, Unseat,
                Close, Evict, DeleteCRoom, TypeOK
  <2>3. \A c \in Clients : cRoom'[c] \in {cRoom[c], r, Nil}
    BY <1>6 DEF Listen, TakeJoin, TakeLeave, TakeMessage, TakeExpiry, RoomSend, Said,
                RoomLock, AddClient, ClientAdded, RemoveClient, Unlist, Unseat,
                Close, Evict, DeleteCRoom, TypeOK
  <2> QED BY <1>2, <1>6, <2>1, <2>2, <2>3, SeatsKept
<1>7. CASE Tick \/ UNCHANGED vars
  BY <1>3, <1>7 DEF Tick, vars, roomVars
<1> QED BY <1>3, <1>4, <1>5, <1>6, <1>7, ListenSeats DEF Next

------------------------------------------------------------------------------
(* The theorems.                                                            *)

LEMMA InvInit == Init => Inv
<1> SUFFICES ASSUME Init PROVE Inv
  OBVIOUS
<1>1. CallAt("out") \in Call /\ CallAt("out").op = "out"
  BY CallAtType DEF CallAt
<1>2. At("none", Nil) \in Loop /\ At("none", Nil).op = "none"
  BY DEF At, Loop
<1>3. TypeOK
  BY <1>1, <1>2, EmptySeq, LimitsAssumption DEF Init, TypeOK
<1>4. CallsOK
  BY <1>1 DEF Init, CallsOK, CallOK
<1>5. LoopsOK
  BY <1>2 DEF Init, LoopsOK, LoopOK
<1>6. NamesOK
  BY <1>2 DEF Init, NamesOK
<1>7. SeatedIsListed
  BY <1>2 DEF Init, SeatedIsListed
<1> QED BY <1>3, <1>4, <1>5, <1>6, <1>7 DEF Inv

LEMMA Invariance == Spec => []Inv
<1>1. Inv /\ [Next]_vars => Inv'
  BY TypeNext, HandNext, NamesStep, MembersNext DEF Inv
<1> QED BY <1>1, InvInit, PTL DEF Spec

\* The state is well formed, whichever way handlers and rooms take turns.
THEOREM RpcTypes == Spec => []TypeOK
<1>1. Inv => TypeOK
  BY DEF Inv
<1> QED BY <1>1, Invariance, PTL

\* A client that is in a room is on the room's list, and a room is asked to
\* remove only clients on its list, so that removeClient always finds them.
THEOREM MembersListed == Spec => []SeatedIsListed
<1>1. Inv => SeatedIsListed
  BY DEF Inv
<1> QED BY <1>1, Invariance, PTL

\* Who holds a client's mutex for reading finds the client in the same room
\* until it releases the mutex.
THEOREM LockProtects == Spec => SeatsStableUnderLock
<1>1. Inv /\ [Next]_vars =>
        [\A c \in Clients : rlock[c] # {} => cRoom'[c] = cRoom[c]]_vars
  BY SeatsStep DEF Inv, SeatsStable
<1> QED BY <1>1, Invariance, PTL DEF Spec, SeatsStableUnderLock

\* A name belongs to one room until that name is deleted.
THEOREM NamesStand == Spec => RegistrationsStand
<1>1. Inv /\ [Next]_vars =>
        [\A n \in Names :
           /\ cRooms'[n] # Nil => roomName'[cRooms'[n]] = n
           /\ cRooms[n] # Nil => cRooms'[n] \in {cRooms[n], Nil}]_vars
  BY NamesStep DEF Inv, NamesMove
<1> QED BY <1>1, Invariance, PTL DEF Spec, RegistrationsStand

\* Only the room at whose channel a speaker waits takes its message, and sends
\* it to the list, which the speaker is on.
LEMMA SpeakerStep ==
  ASSUME Inv, [Next]_vars, NEW c \in Clients,
         call[c].op = "saying", call'[c].op # "saying"
  PROVE  c \in Range(out'[call[c].at])
<1> USE DEF Inv
<1>1. ASSUME NEW d \in Clients, User(d) \/ SendWelcome(d) \/ Handler(d)
      PROVE  FALSE
  <2>1. call'[c] # call[c]
    OBVIOUS
  <2>2. d = c
    BY <1>1, <2>1, HandlerCall, SeatsStep
       DEF User, Connect, UsrParse, Drop, SendWelcome, TypeOK, Next
  <2> QED
    BY <1>1, <2>1, <2>2 DEF User, Connect, UsrParse, Drop, SendWelcome, Handler,
       CreateCRoom, JoinCRoom, JoinLocked, SendMsg, LeaveCRoom, ListCRooms,
       ChangeName, NameChanged, Quit, SendReply
<1>2. ASSUME NEW r \in Rooms, NEW d \in Clients, TakeMessage(r, d)
      PROVE  c \in Range(out'[call[c].at])
  <2>1. d = c
    BY <1>2 DEF TakeMessage, Return, TypeOK
  <2>2. call[c].at = r /\ c \in Range(roomClients[r])
    BY <1>2, <2>1, TakerIsListed DEF TakeMessage, Takes
  <2>3. out'[r] = roomClients[r] \o <<>>
    BY <1>2 DEF TakeMessage, Broadcast, TypeOK
  <2>4. roomClients[r] \o <<>> = roomClients[r]
    BY ConcatEmptySeq DEF TypeOK
  <2> QED BY <2>2, <2>3, <2>4
<1>3. ASSUME NEW r \in Rooms, Listen(r), call'[c] # call[c]
      PROVE  \E d \in Clients : TakeMessage(r, d)
  <2>1. PICK d \in Clients : TakeJoin(r, d) \/ TakeLeave(r, d) \/ TakeMessage(r, d)
    BY <1>3 DEF Listen, TakeExpiry, RoomSend, Said, RoomLock, AddClient, ClientAdded,
                RemoveClient, Unlist, Unseat, Close, Evict, DeleteCRoom, callVars
  <2>2. d = c
    BY <1>3, <2>1 DEF TakeJoin, TakeLeave, TakeMessage, Return, WaitAt, TypeOK
  <2> QED BY <2>1, <2>2 DEF TakeJoin, TakeLeave, Takes
<1>4. CASE Tick \/ UNCHANGED vars
  BY <1>4 DEF Tick, vars, callVars
<1> QED BY <1>1, <1>2, <1>3, <1>4 DEF Next

\* Whoever speaks hears itself, however long its handler waited for the room.
THEOREM SpeakersHear == Spec => SpeakerIsHeard
<1>1. Inv /\ [Next]_vars =>
        [\A c \in Clients : call[c].op = "saying" /\ call'[c].op # "saying" =>
           c \in Range(out'[call[c].at])]_vars
  BY SpeakerStep
<1> QED BY <1>1, Invariance, PTL DEF Spec, SpeakerIsHeard
==============================================================================
