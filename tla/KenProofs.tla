------------------------------ MODULE KenProofs ------------------------------
(***************************************************************************)
(* Proofs about KenServer for every value of its constants.  The handlers  *)
(* that ken shares with newServer.go are proved again here: a room of ken's*)
(* also keeps the news of its deletion, and a client that leaves may have  *)
(* ended before it left its room.  The refinement of ChatRooms rests on    *)
(* what the lobby still has to send to a client: whatever handler is under *)
(* way and wherever it is cut, that is just what the client does not have  *)
(* yet of the entries of its room's log.                                   *)
(***************************************************************************)
EXTENDS KenServer, ListLemmas, FiniteSetTheorems, TLAPS

------------------------------------------------------------------------------
(* Well-formedness: what the parts of a handler leave behind.               *)

\* What a handler that was blocked in its sends relies on: the client is in the
\* room it leaves or joins, the room it moves to is still registered, and the
\* list of clients was read before it is written.
KTaskOK ==
  /\ task.op \in {"leave", "switch", "depart", "join"} => cRoom[task.who] # Nil
  /\ task.op = "switch" => registry[task.arg] # Nil
  /\ task.op = "close" => lobbyView \in SUBSET Clients

KTypeInv == KTypeOK /\ KTaskOK

\* What a handler owes at the end of each of its actions.
KHandlerOK == KRoomTypeOK' /\ ClientTypeOK' /\ KHandlerTypeOK' /\ KTaskOK'

LEMMA EntryOfType ==
  ASSUME KTypeOK, NEW c \in Clients, NEW k \in {"enter", "leave", "say", "name"}
  PROVE  EntryOf(k, c) \in Entry
BY DEF KTypeOK, ClientTypeOK, EntryOf, Entry

\* A message to each of a list, to one client, or to one client n times.
LEMMA ToEachType ==
  ASSUME NEW cs \in Seq(Clients), NEW m \in Entry \cup Notice
  PROVE  /\ ToEach(cs, m) \in Seq(Send)
         /\ DOMAIN ToEach(cs, m) = 1 .. Len(cs)
         /\ \A i \in 1 .. Len(cs) : ToEach(cs, m)[i].to = cs[i]
<1>1. /\ Len(cs) \in Nat
      /\ DOMAIN cs = 1 .. Len(cs)
      /\ \A i \in 1 .. Len(cs) : cs[i] \in Clients
  BY LenProperties, ElementOfSeq
<1>2. ToEach(cs, m) = [i \in 1 .. Len(cs) |-> [to |-> cs[i], msg |-> m]]
  BY <1>1 DEF ToEach
<1>3. \A i \in 1 .. Len(cs) : [to |-> cs[i], msg |-> m] \in Send
  BY <1>1 DEF Send
<1> QED BY <1>1, <1>2, <1>3

LEMMA ReplyType ==
  ASSUME NEW c \in Clients, NEW k, [kind |-> k] \in Notice, Reply(c, k)
  PROVE  out' \in Seq(Send)
BY DEF Reply, Send

LEMMA RepeatType ==
  ASSUME NEW n \in Nat, NEW c \in Clients, NEW m \in Entry \cup Notice
  PROVE  Repeat(n, c, m) \in Seq(Send)
BY DEF Repeat, Send

LEMMA BroadcastType ==
  ASSUME KTypeOK, NEW r \in Rooms, NEW e \in Entry, NEW members \in Seq(Clients),
         Broadcast(r, e, members)
  PROVE  /\ roomExpire' \in [Rooms -> 0 .. EXTIME]
         /\ quiet' \in [Rooms -> 0 .. EXTIME]
         /\ roomMsgs' \in [Rooms -> Seq(Entry \cup {RoomDeletion})]
         /\ out' \in Seq(Send)
<1>1. /\ roomExpire' \in [Rooms -> 0 .. EXTIME]
      /\ quiet' \in [Rooms -> 0 .. EXTIME]
  BY LimitsAssumption DEF KTypeOK, KRoomTypeOK, Broadcast
<1>2. roomMsgs' \in [Rooms -> Seq(Entry \cup {RoomDeletion})]
  <2>1. roomMsgs \in [Rooms -> Seq(Entry \cup {RoomDeletion})]
    BY DEF KTypeOK, KRoomTypeOK
  <2>2. Append(roomMsgs[r], e) \in Seq(Entry \cup {RoomDeletion})
    BY <2>1, AppendProperties
  <2> QED BY <2>1, <2>2 DEF Broadcast
<1>3. out' \in Seq(Send)
  BY ToEachType DEF Broadcast
<1> QED BY <1>1, <1>2, <1>3

LEMMA ReplyOnlyOK ==
  ASSUME KTypeOK, out' \in Seq(Send), task' = NoTask,
         UNCHANGED <<roomVars, clientVars>>
  PROVE  KHandlerOK
<1>1. KRoomTypeOK' /\ ClientTypeOK'
  BY DEF KTypeOK, KRoomTypeOK, ClientTypeOK, roomVars, clientVars
<1>2. task' \in KTask /\ KTaskOK'
  BY DEF KTask, Task, KTaskOK, NoTask
<1> QED BY <1>1, <1>2 DEF KHandlerOK, KHandlerTypeOK

LEMMA StartLeaveType ==
  ASSUME KTypeOK, NEW c \in Clients, cRoom[c] # Nil, NEW op, NEW arg,
         \/ op \in {"leave", "depart"} /\ arg = Nil
         \/ op = "switch" /\ arg \in Names /\ registry[arg] # Nil,
         StartLeave(c, op, arg)
  PROVE  KHandlerOK
<1>1. /\ cRoom[c] \in Rooms
      /\ roomClients[cRoom[c]] \in Seq(Clients)
  BY DEF KTypeOK, ClientTypeOK, KRoomTypeOK
<1>2. EntryOf("leave", c) \in Entry
  BY EntryOfType
<1>3. /\ roomExpire' \in [Rooms -> 0 .. EXTIME]
      /\ quiet' \in [Rooms -> 0 .. EXTIME]
      /\ roomMsgs' \in [Rooms -> Seq(Entry \cup {RoomDeletion})]
      /\ out' \in Seq(Send)
  <2>1. Broadcast(cRoom[c], EntryOf("leave", c), roomClients[cRoom[c]])
    BY DEF StartLeave
  <2> QED BY <1>1, <1>2, <2>1, BroadcastType
<1>4. KRoomTypeOK' /\ ClientTypeOK'
  BY <1>3 DEF StartLeave, KTypeOK, KRoomTypeOK, ClientTypeOK, clientVars
<1>5. task' = [op |-> op, who |-> c, arg |-> arg]
  BY DEF StartLeave
<1>6. task' \in KTask
  BY <1>5 DEF KTask, Task
<1>7. KTaskOK'
  BY <1>5 DEF StartLeave, KTaskOK, clientVars
<1> QED BY <1>3, <1>4, <1>6, <1>7 DEF KHandlerOK, KHandlerTypeOK

\* The log of a room, each entry sent to the one who joins.
LEMMA ReplayType ==
  ASSUME NEW c \in Clients, NEW s \in Seq(Entry \cup {RoomDeletion})
  PROVE  [i \in DOMAIN s |-> [to |-> c, msg |-> s[i]]] \in Seq(Send)
<1>1. /\ Len(s) \in Nat
      /\ DOMAIN s = 1 .. Len(s)
      /\ \A i \in 1 .. Len(s) : s[i] \in Entry \cup {RoomDeletion}
  BY LenProperties, ElementOfSeq
<1>2. RoomDeletion \in Notice
  BY DEF RoomDeletion, Notice
<1>3. \A i \in 1 .. Len(s) : [to |-> c, msg |-> s[i]] \in Send
  BY <1>1, <1>2 DEF Send
<1> QED BY <1>1, <1>3

LEMMA JoinType ==
  ASSUME KTypeOK, NEW c \in Clients, NEW r \in Rooms, KJoin(c, r)
  PROVE  /\ cRoom' \in [Clients -> Rooms \cup {Nil}]
         /\ got' \in [Clients -> Seq(Entry)]
         /\ KHandlerTypeOK'
         /\ KTaskOK'
<1>1. cRoom' \in [Clients -> Rooms \cup {Nil}]
  BY DEF KTypeOK, ClientTypeOK, KJoin
<1>2. got' \in [Clients -> Seq(Entry)]
  BY EmptySeq DEF KTypeOK, ClientTypeOK, KJoin
<1>3. out' \in Seq(Send)
  <2>1. roomMsgs[r] \in Seq(Entry \cup {RoomDeletion})
    BY DEF KTypeOK, KRoomTypeOK
  <2> QED BY <2>1, ReplayType DEF KJoin
<1>4. task' \in KTask
  BY DEF KJoin, KTask, Task
<1>5. KTaskOK'
  BY NilAssumption DEF KJoin, KTaskOK, KTypeOK, ClientTypeOK
<1> QED BY <1>1, <1>2, <1>3, <1>4, <1>5 DEF KHandlerTypeOK

------------------------------------------------------------------------------
(* Well-formedness: the commands.                                           *)

LEMMA LeaveCRoomOK ==
  ASSUME KTypeOK, task = NoTask, NEW c \in Clients, LeaveCRoom(c)
  PROVE  KHandlerOK
<1>1. CASE cRoom[c] = Nil
  <2>1. /\ Reply(c, "ERR_LEAVE")
        /\ task' = NoTask
        /\ UNCHANGED <<roomVars, clientVars>>
    BY <1>1 DEF LeaveCRoom, StartLeave
  <2>2. out' \in Seq(Send)
    BY <2>1, ReplyType DEF Notice
  <2> QED BY <2>1, <2>2, ReplyOnlyOK
<1>2. CASE cRoom[c] # Nil
  <2>1. StartLeave(c, "leave", Nil)
    BY <1>2 DEF LeaveCRoom
  <2> QED BY <1>2, <2>1, StartLeaveType
<1> QED BY <1>1, <1>2

LEMMA KJoinChatRoomOK ==
  ASSUME KTypeOK, task = NoTask, NEW c \in Clients, NEW n \in Names,
         KJoinChatRoom(c, n)
  PROVE  KHandlerOK
<1>1. CASE registry[n] = Nil
  <2>1. /\ Reply(c, "ERR_ENTER")
        /\ task' = NoTask
        /\ UNCHANGED <<roomVars, clientVars>>
    BY <1>1 DEF KJoinChatRoom
  <2>2. out' \in Seq(Send)
    BY <2>1, ReplyType DEF Notice
  <2> QED BY <2>1, <2>2, ReplyOnlyOK
<1>2. CASE registry[n] # Nil /\ cRoom[c] # Nil
  <2>1. StartLeave(c, "switch", n)
    BY <1>2 DEF KJoinChatRoom
  <2> QED BY <1>2, <2>1, StartLeaveType
<1>3. CASE registry[n] # Nil /\ cRoom[c] = Nil
  <2>1. KJoin(c, registry[n]) /\ UNCHANGED <<roomVars, username>>
    BY <1>3 DEF KJoinChatRoom
  <2>2. registry[n] \in Rooms
    BY <1>3 DEF KTypeOK, KRoomTypeOK
  <2>3. /\ cRoom' \in [Clients -> Rooms \cup {Nil}]
        /\ got' \in [Clients -> Seq(Entry)]
        /\ KHandlerTypeOK'
        /\ KTaskOK'
    BY <2>1, <2>2, JoinType
  <2>4. KRoomTypeOK' /\ username' \in [Clients -> Users]
    BY <2>1 DEF KTypeOK, KRoomTypeOK, ClientTypeOK, roomVars
  <2> QED BY <2>3, <2>4 DEF KHandlerOK, ClientTypeOK
<1> QED BY <1>1, <1>2, <1>3

LEMMA KCreateChatRoomOK ==
  ASSUME KTypeOK, task = NoTask, NEW c \in Clients, NEW n \in Names,
         KCreateChatRoom(c, n)
  PROVE  KHandlerOK
<1>1. task' = NoTask /\ UNCHANGED <<roomClients, roomMsgs, clientVars>>
  BY DEF KCreateChatRoom, roomVars
<1>2. out' \in Seq(Send)
  BY ReplyType DEF KCreateChatRoom, Notice
<1>3. CASE registry[n] # Nil
  <2>1. UNCHANGED roomVars
    BY <1>3 DEF KCreateChatRoom
  <2> QED BY <1>1, <1>2, <2>1, ReplyOnlyOK
<1>4. CASE registry[n] = Nil
  <2>1. PICK r \in Rooms :
          /\ roomName' = [roomName EXCEPT ![r] = n]
          /\ registry' = [registry EXCEPT ![n] = r]
          /\ roomExpire' = [roomExpire EXCEPT ![r] = EXTIME]
          /\ quiet' = [quiet EXCEPT ![r] = 0]
          /\ timers' = [timers EXCEPT ![r] = <<EXTIME>>]
    BY <1>4 DEF KCreateChatRoom
  <2>2. <<EXTIME>> \in Seq(0 .. EXTIME)
    BY LimitsAssumption
  <2>3. timers' \in [Rooms -> Seq(0 .. EXTIME)]
    BY <2>1, <2>2 DEF KTypeOK, KRoomTypeOK
  <2>4. KRoomTypeOK'
    BY <1>1, <2>1, <2>3, LimitsAssumption DEF KTypeOK, KRoomTypeOK
  <2>5. ClientTypeOK' /\ KHandlerTypeOK' /\ KTaskOK'
    BY <1>1, <1>2 DEF KTypeOK, ClientTypeOK, clientVars, KHandlerTypeOK, KTaskOK,
                      KTask, Task, NoTask
  <2> QED BY <2>4, <2>5 DEF KHandlerOK
<1> QED BY <1>3, <1>4

\* A message to the room a client is in.
LEMMA SpeakingOK ==
  ASSUME KTypeOK, NEW c \in Clients, cRoom[c] # Nil, NEW e \in Entry,
         Broadcast(cRoom[c], e, roomClients[cRoom[c]]),
         UNCHANGED <<registry, roomName, roomClients, timers>>
  PROVE  KRoomTypeOK' /\ out' \in Seq(Send)
<1>1. /\ cRoom[c] \in Rooms
      /\ roomClients[cRoom[c]] \in Seq(Clients)
  BY DEF KTypeOK, ClientTypeOK, KRoomTypeOK
<1>2. /\ roomExpire' \in [Rooms -> 0 .. EXTIME]
      /\ quiet' \in [Rooms -> 0 .. EXTIME]
      /\ roomMsgs' \in [Rooms -> Seq(Entry \cup {RoomDeletion})]
      /\ out' \in Seq(Send)
  BY <1>1, BroadcastType
<1> QED BY <1>2 DEF KTypeOK, KRoomTypeOK

LEMMA SendMsgOK ==
  ASSUME KTypeOK, task = NoTask, NEW c \in Clients, SendMsg(c)
  PROVE  KHandlerOK
<1>1. CASE cRoom[c] = Nil
  <2>1. /\ Reply(c, "ERR_SEND")
        /\ task' = NoTask
        /\ UNCHANGED <<roomVars, clientVars>>
    BY <1>1 DEF SendMsg
  <2>2. out' \in Seq(Send)
    BY <2>1, ReplyType DEF Notice
  <2> QED BY <2>1, <2>2, ReplyOnlyOK
<1>2. CASE cRoom[c] # Nil
  <2>1. /\ Broadcast(cRoom[c], EntryOf("say", c), roomClients[cRoom[c]])
        /\ UNCHANGED <<registry, roomName, roomClients, timers, clientVars, task>>
    BY <1>2 DEF SendMsg
  <2>2. KRoomTypeOK' /\ out' \in Seq(Send)
    BY <1>2, <2>1, EntryOfType, SpeakingOK
  <2>3. ClientTypeOK' /\ task' \in KTask /\ KTaskOK'
    BY <2>1 DEF KTypeOK, ClientTypeOK, clientVars, KTask, Task, KTaskOK, NoTask
  <2> QED BY <2>2, <2>3 DEF KHandlerOK, KHandlerTypeOK
<1> QED BY <1>1, <1>2

LEMMA ChangeUsernameOK ==
  ASSUME KTypeOK, NEW c \in Clients, NEW u \in Users, ChangeUsername(c, u)
  PROVE  KHandlerOK
<1>1. /\ task' = [op |-> "rename", who |-> c, arg |-> u]
      /\ UNCHANGED clientVars
  BY DEF ChangeUsername
<1>2. task' \in KTask /\ KTaskOK' /\ ClientTypeOK'
  BY <1>1 DEF KTask, Task, KTaskOK, KTypeOK, ClientTypeOK, clientVars
<1>3. CASE cRoom[c] = Nil
  <2>1. Reply(c, "NOTE_CHANGENAME") /\ UNCHANGED roomVars
    BY <1>3 DEF ChangeUsername
  <2>2. out' \in Seq(Send)
    BY <2>1, ReplyType DEF Notice
  <2>3. KRoomTypeOK'
    BY <2>1 DEF KTypeOK, KRoomTypeOK, roomVars
  <2> QED BY <1>2, <2>2, <2>3 DEF KHandlerOK, KHandlerTypeOK
<1>4. CASE cRoom[c] # Nil
  <2> DEFINE e == [EntryOf("name", c) EXCEPT !.now = u]
  <2>1. /\ Broadcast(cRoom[c], e, roomClients[cRoom[c]])
        /\ UNCHANGED <<registry, roomName, roomClients, timers>>
    BY <1>4 DEF ChangeUsername
  <2>2. e \in Entry
    BY DEF KTypeOK, ClientTypeOK, EntryOf, Entry
  <2> HIDE DEF e
  <2>3. KRoomTypeOK' /\ out' \in Seq(Send)
    BY <1>4, <2>1, <2>2, SpeakingOK
  <2> QED BY <1>2, <2>3 DEF KHandlerOK, KHandlerTypeOK
<1> QED BY <1>3, <1>4

------------------------------------------------------------------------------
(* Well-formedness: the actions.                                            *)

LEMMA KTypeInit == KInit => KTypeInv
<1> SUFFICES ASSUME KInit PROVE KTypeInv
  OBVIOUS
<1>1. NetTypeOK
  BY EmptySeq, LimitsAssumption DEF KInit, Init, NetTypeOK
<1>2. KRoomTypeOK
  BY EmptySeq, LimitsAssumption DEF KInit, Init, KRoomTypeOK
<1>3. ClientTypeOK
  BY EmptySeq, CNameAssumption DEF KInit, Init, ClientTypeOK
<1>4. KHandlerTypeOK /\ KTaskOK
  BY EmptySeq DEF KInit, Init, KHandlerTypeOK, KTask, Task, KTaskOK, NoTask
<1>5. ListTypeOK
  <2>1. raced \in BOOLEAN
    BY Zenon DEF KInit
  <2>2. mainView = Nil /\ lobbyView = Nil /\ closed = {}
    BY Zenon DEF KInit
  <2> QED BY <2>1, <2>2 DEF ListTypeOK
<1> QED BY <1>1, <1>2, <1>3, <1>4, <1>5 DEF KTypeInv, KTypeOK

\* What main and the goroutines of a client do leaves the lobby's state alone.
LEMMA OutsideStep ==
  ASSUME KTypeInv, NetTypeOK', ListTypeOK',
         UNCHANGED <<roomVars, clientVars, task, out, lobbyView>>
  PROVE  KTypeInv'
BY DEF KTypeInv, KTypeOK, KTaskOK, KRoomTypeOK, ClientTypeOK, KHandlerTypeOK,
       roomVars, clientVars

LEMMA ConnectTypes ==
  ASSUME KTypeInv, NEW c \in Clients,
         KAccept(c) \/ KAppend(c) \/ KSendWelcome(c) \/ WriterEnds(c)
  PROVE  KTypeInv'
<1>0. NetTypeOK /\ ListTypeOK
  BY DEF KTypeInv, KTypeOK
<1>1. CASE KAccept(c)
  <2>1. NetTypeOK'
    BY <1>0, <1>1 DEF NetTypeOK, KAccept
  <2>2. ListTypeOK'
    BY <1>0, <1>1 DEF NetTypeOK, ListTypeOK, KAccept
  <2> QED BY <1>1, <2>1, <2>2, OutsideStep DEF KAccept
<1>2. CASE KAppend(c)
  <2>1. /\ curClients' = mainView \cup {c}
        /\ mainView # Nil
        /\ mainView' = Nil
        /\ UNCHANGED <<conn, inq, writer, fwd, accepting, lines, roomVars, clientVars,
                       task, out, lobbyView, closed>>
    BY <1>2, Zenon DEF KAppend
  <2>2. mainView \in SUBSET Clients
    BY <1>0, <2>1, Zenon DEF ListTypeOK
  <2>3. raced' \in BOOLEAN
    BY <1>2, Zenon DEF KAppend
  <2>4. NetTypeOK'
    BY <1>0, <2>1, <2>2 DEF NetTypeOK
  <2>5. ListTypeOK'
    BY <1>0, <2>1, <2>3 DEF ListTypeOK
  <2> QED BY <2>1, <2>4, <2>5, OutsideStep
<1>3. CASE KSendWelcome(c)
  <2>1. NetTypeOK'
    BY <1>0, <1>3 DEF NetTypeOK, KSendWelcome, SendWelcome
  <2>2. ListTypeOK'
    BY <1>0, <1>3 DEF ListTypeOK, KSendWelcome, listVars
  <2> QED BY <1>3, <2>1, <2>2, OutsideStep DEF KSendWelcome, SendWelcome, listVars
<1>4. CASE WriterEnds(c)
  <2>1. NetTypeOK'
    BY <1>0, <1>4 DEF NetTypeOK, WriterEnds
  <2>2. ListTypeOK'
    BY <1>0, <1>4 DEF ListTypeOK, WriterEnds, listVars
  <2> QED BY <1>4, <2>1, <2>2, OutsideStep DEF WriterEnds, listVars
<1> QED BY <1>1, <1>2, <1>3, <1>4

LEMMA PeerTypes ==
  ASSUME KTypeInv, UNCHANGED listVars, NEW c \in Clients,
         Peer(c) \/ Flush(c) \/ FlushFails(c)
  PROVE  KTypeInv'
<1>0. NetTypeOK /\ ListTypeOK' /\ UNCHANGED lobbyView
  BY DEF KTypeInv, KTypeOK, ListTypeOK, listVars
<1>1. CASE Flush(c)
  <2>1. NetTypeOK'
    BY <1>0, <1>1 DEF NetTypeOK, Flush
  <2> QED BY <1>0, <1>1, <2>1, OutsideStep DEF Flush
<1>2. CASE FlushFails(c)
  <2>1. NetTypeOK'
    BY <1>0, <1>2 DEF NetTypeOK, FlushFails
  <2> QED BY <1>0, <1>2, <2>1, OutsideStep DEF FlushFails
<1>3. CASE Hangup(c)
  <2>1. NetTypeOK'
    BY <1>0, <1>3 DEF NetTypeOK, Hangup
  <2> QED BY <1>0, <1>3, <2>1, OutsideStep DEF Hangup
<1>4. CASE LoseInput(c)
  <2>1. Front(inq[c]) \in Seq(Line)
    <3>1. inq[c] \in Seq(Line)
      BY <1>0 DEF NetTypeOK
    <3>2. \A i \in 1 .. Len(inq[c]) - 1 : inq[c][i] \in Line
      BY <3>1, ElementOfSeq, LenProperties
    <3>3. Len(inq[c]) - 1 \in Int
      BY <3>1, LenProperties
    <3> QED BY <3>2, <3>3, SubSeqProperties DEF Front
  <2>2. NetTypeOK'
    BY <1>0, <1>4, <2>1 DEF NetTypeOK, LoseInput
  <2> QED BY <1>0, <1>4, <2>2, OutsideStep DEF LoseInput
<1>5. ASSUME NEW l \in Lines, TypeLine(c, l)
      PROVE  KTypeInv'
  <2>1. Append(inq[c], l) \in Seq(Line)
    BY <1>0, LinesAssumption, AppendProperties DEF NetTypeOK
  <2>2. inq' \in [Clients -> Seq(Line)]
    BY <1>0, <1>5, <2>1 DEF NetTypeOK, TypeLine
  <2>3. lines' \in 0 .. MaxLines
    BY <1>0, <1>5, LimitsAssumption DEF NetTypeOK, TypeLine
  <2>4. NetTypeOK'
    BY <1>0, <1>5, <2>2, <2>3 DEF NetTypeOK, TypeLine
  <2> QED BY <1>0, <1>5, <2>4, OutsideStep DEF TypeLine
<1> QED BY <1>1, <1>2, <1>3, <1>4, <1>5 DEF Peer

LEMMA KParseTypes ==
  ASSUME KTypeInv, NEW c \in Clients, KParse(c)
  PROVE  KTypeInv'
<1> DEFINE msg == Head(inq[c])
<1>1. /\ KTypeOK
      /\ task = NoTask
      /\ inq[c] \in Seq(Line)
      /\ inq[c] # <<>>
      /\ inq' = [inq EXCEPT ![c] = Tail(@)]
      /\ UNCHANGED <<conn, writer, fwd, accepting, curClients, lines, listVars>>
  BY DEF KTypeInv, KTypeOK, NetTypeOK, KParse, Take, Idle
<1>2. msg \in Line /\ Tail(inq[c]) \in Seq(Line)
  BY <1>1, HeadTailProperties
<1>3. NetTypeOK' /\ ListTypeOK'
  BY <1>1, <1>2 DEF KTypeOK, NetTypeOK, ListTypeOK, listVars
<1>4. KHandlerOK
  <2>1. CASE msg.cmd = "create" /\ KCreateChatRoom(c, msg.arg)
    <3>1. msg.arg \in Names
      BY <1>2, <2>1 DEF Line
    <3> QED BY <1>1, <2>1, <3>1, KCreateChatRoomOK
  <2>2. CASE msg.cmd = "enter" /\ KJoinChatRoom(c, msg.arg)
    <3>1. msg.arg \in Names
      BY <1>2, <2>2 DEF Line
    <3> QED BY <1>1, <2>2, <3>1, KJoinChatRoomOK
  <2>3. CASE LeaveCRoom(c)
    BY <1>1, <2>3, LeaveCRoomOK
  <2>4. CASE ListCRooms(c)
    <3>1. Cardinality({n \in Names : registry[n] # Nil}) \in Nat
      BY NamesAssumption, FS_Subset, FS_CardinalityType
    <3>2. 3 + Cardinality({n \in Names : registry[n] # Nil}) \in Nat
      BY <3>1
    <3>3. out' \in Seq(Send)
      BY <2>4, <3>2, RepeatType DEF ListCRooms, Notice
    <3> QED BY <1>1, <2>4, <3>3, ReplyOnlyOK DEF ListCRooms
  <2>5. CASE Help(c)
    <3>1. out' \in Seq(Send)
      BY <2>5, RepeatType, LimitsAssumption DEF Help, Notice
    <3> QED BY <1>1, <2>5, <3>1, ReplyOnlyOK DEF Help
  <2>6. CASE msg.cmd = "name" /\ ChangeUsername(c, msg.arg)
    <3>1. msg.arg \in Users
      BY <1>2, <2>6 DEF Line
    <3> QED BY <1>1, <2>6, <3>1, ChangeUsernameOK
  <2>7. CASE SendMsg(c)
    BY <1>1, <2>7, SendMsgOK
  <2> QED BY <2>1, <2>2, <2>3, <2>4, <2>5, <2>6, <2>7 DEF KParse
<1> QED BY <1>3, <1>4 DEF KHandlerOK, KTypeInv, KTypeOK

LEMMA KLeaveTypes ==
  ASSUME KTypeInv, NEW c \in Clients, KLeave(c)
  PROVE  KTypeInv'
<1>1. KTypeOK /\ NetTypeOK /\ ListTypeOK /\ task = NoTask
  BY DEF KTypeInv, KTypeOK, KLeave, Idle
<1>2. NetTypeOK'
  BY <1>1 DEF NetTypeOK, KLeave
<1>3. CASE cRoom[c] # Nil
  <2>1. StartLeave(c, "depart", Nil) /\ UNCHANGED listVars
    BY <1>3 DEF KLeave, listVars
  <2>2. KHandlerOK
    BY <1>1, <1>3, <2>1, StartLeaveType
  <2>3. ListTypeOK'
    BY <1>1, <2>1 DEF ListTypeOK, listVars
  <2> QED BY <1>2, <2>2, <2>3 DEF KHandlerOK, KTypeInv, KTypeOK
<1>4. CASE cRoom[c] = Nil
  <2>1. /\ lobbyView' = curClients
        /\ task' = [op |-> "close", who |-> c, arg |-> Nil]
        /\ UNCHANGED <<roomVars, clientVars, out, mainView, closed, raced>>
    BY <1>4 DEF KLeave
  <2>2. ListTypeOK'
    BY <1>1, <2>1 DEF ListTypeOK, NetTypeOK
  <2>3. KRoomTypeOK' /\ ClientTypeOK'
    BY <1>1, <2>1 DEF KTypeOK, KRoomTypeOK, ClientTypeOK, roomVars, clientVars
  <2>4. KHandlerTypeOK' /\ KTaskOK'
    BY <1>1, <2>1 DEF KTypeOK, KHandlerTypeOK, KTask, KTaskOK, NetTypeOK
  <2> QED BY <1>2, <2>2, <2>3, <2>4 DEF KTypeInv, KTypeOK
<1> QED BY <1>3, <1>4

LEMMA QuitTypes ==
  ASSUME KTypeInv, NEW c \in Clients, Quit(c), UNCHANGED listVars
  PROVE  KTypeInv'
<1>1. inq[c] \in Seq(Line) /\ inq[c] # <<>>
  BY DEF KTypeInv, KTypeOK, NetTypeOK, Quit, Take
<1>2. Tail(inq[c]) \in Seq(Line)
  BY <1>1, HeadTailProperties
<1>3. NetTypeOK' /\ ListTypeOK'
  BY <1>2 DEF KTypeInv, KTypeOK, NetTypeOK, Quit, Take, ListTypeOK, listVars
<1> QED BY <1>3, OutsideStep DEF Quit, listVars

LEMMA KDeleteChatRoomTypes ==
  ASSUME KTypeInv, NEW r \in Rooms, KDeleteChatRoom(r)
  PROVE  KTypeInv'
<1>1. /\ KTypeOK
      /\ task = NoTask /\ out = <<>>
      /\ UNCHANGED <<netVars, registry, roomName, roomClients, quiet, clientVars, listVars>>
  BY DEF KTypeInv, KDeleteChatRoom, Idle
<1>2. PICK i \in DOMAIN timers[r] :
       \/ /\ timers' = [timers EXCEPT ![r] = Append(RemoveAt(@, i), roomExpire[r])]
          /\ UNCHANGED <<roomMsgs, roomExpire, out, task>>
       \/ /\ timers' = [timers EXCEPT ![r] = RemoveAt(@, i)]
          /\ roomExpire' = [roomExpire EXCEPT ![r] = EXTIME]
          /\ roomMsgs' = [roomMsgs EXCEPT ![r] = Append(@, RoomDeletion)]
          /\ out' = ToEach(roomClients[r], RoomDeletion)
          /\ task' = [op |-> "delete", who |-> Nil, arg |-> r]
  BY DEF KDeleteChatRoom
<1>3. timers[r] \in Seq(0 .. EXTIME) /\ i \in 1 .. Len(timers[r])
  BY <1>1, LenProperties DEF KTypeOK, KRoomTypeOK
<1>4. RemoveAt(timers[r], i) \in Seq(0 .. EXTIME)
  BY <1>3, RemoveAtProperties
<1>5. Append(RemoveAt(timers[r], i), roomExpire[r]) \in Seq(0 .. EXTIME)
  BY <1>1, <1>4, AppendProperties DEF KTypeOK, KRoomTypeOK
<1>6. timers' \in [Rooms -> Seq(0 .. EXTIME)]
  BY <1>1, <1>2, <1>4, <1>5 DEF KTypeOK, KRoomTypeOK
<1>7. roomExpire' \in [Rooms -> 0 .. EXTIME]
  <2>1. roomExpire' = roomExpire \/ roomExpire' = [roomExpire EXCEPT ![r] = EXTIME]
    BY <1>2
  <2>2. roomExpire \in [Rooms -> 0 .. EXTIME]
    BY <1>1 DEF KTypeOK, KRoomTypeOK
  <2>3. EXTIME \in 0 .. EXTIME
    BY LimitsAssumption
  <2> QED BY <2>1, <2>2, <2>3
<1>8. roomMsgs' \in [Rooms -> Seq(Entry \cup {RoomDeletion})]
  <2>1. roomMsgs \in [Rooms -> Seq(Entry \cup {RoomDeletion})]
    BY <1>1 DEF KTypeOK, KRoomTypeOK
  <2>2. Append(roomMsgs[r], RoomDeletion) \in Seq(Entry \cup {RoomDeletion})
    BY <2>1, AppendProperties
  <2> QED BY <1>2, <2>1, <2>2
<1>9. KRoomTypeOK'
  BY <1>1, <1>6, <1>7, <1>8 DEF KTypeOK, KRoomTypeOK
<1>10. KHandlerTypeOK'
  <2>1. ToEach(roomClients[r], RoomDeletion) \in Seq(Send)
    BY <1>1, ToEachType DEF KTypeOK, KRoomTypeOK, RoomDeletion, Notice
  <2>2. [op |-> "delete", who |-> Nil, arg |-> r] \in KTask
    BY DEF KTask
  <2> QED BY <1>1, <1>2, <2>1, <2>2 DEF KTypeOK, KHandlerTypeOK
<1>11. KTaskOK'
  BY <1>1, <1>2 DEF KTaskOK, NoTask
<1>12. NetTypeOK' /\ ClientTypeOK' /\ ListTypeOK'
  BY <1>1 DEF KTypeOK, NetTypeOK, ClientTypeOK, ListTypeOK, netVars, clientVars, listVars
<1> QED BY <1>9, <1>10, <1>11, <1>12 DEF KTypeInv, KTypeOK

LEMMA LobbySendTypes ==
  ASSUME KTypeInv, LobbySend, UNCHANGED listVars
  PROVE  KTypeInv'
<1> DEFINE c == Head(out).to
           m == Head(out).msg
<1>1. out \in Seq(Send) /\ out # <<>>
  BY DEF KTypeInv, KTypeOK, KHandlerTypeOK, LobbySend
<1>2. c \in Clients /\ Tail(out) \in Seq(Send)
  <2>1. Head(out) \in Send /\ Tail(out) \in Seq(Send)
    BY <1>1, HeadTailProperties
  <2> QED BY <2>1 DEF Send
<1>3. NetTypeOK' /\ ListTypeOK'
  BY DEF KTypeInv, KTypeOK, NetTypeOK, ListTypeOK, LobbySend, listVars
<1>4. got' \in [Clients -> Seq(Entry)]
  <2>1. CASE m \in Entry
    <3>1. Append(got[c], m) \in Seq(Entry)
      BY <1>2, <2>1, AppendProperties DEF KTypeInv, KTypeOK, ClientTypeOK
    <3>2. got' = [got EXCEPT ![c] = Append(@, m)]
      BY <2>1 DEF LobbySend
    <3> HIDE DEF c, m
    <3> QED BY <3>1, <3>2 DEF KTypeInv, KTypeOK, ClientTypeOK
  <2>2. CASE m \notin Entry
    BY <2>2 DEF LobbySend, KTypeInv, KTypeOK, ClientTypeOK
  <2> QED BY <2>1, <2>2
<1>5. KRoomTypeOK' /\ ClientTypeOK'
  BY <1>4 DEF KTypeInv, KTypeOK, KRoomTypeOK, ClientTypeOK, LobbySend, roomVars
<1>6. KHandlerTypeOK' /\ KTaskOK'
  BY <1>2 DEF KTypeInv, KTypeOK, KHandlerTypeOK, KTaskOK, LobbySend, roomVars, listVars
<1> QED BY <1>3, <1>5, <1>6 DEF KTypeInv, KTypeOK

\* What the task says is of the right kind.
LEMMA TaskTypes ==
  ASSUME KTypeInv
  PROVE  /\ task.op \notin {"select", "delete"} => task.who \in Clients
         /\ task.op = "switch" => task.arg \in Names
         /\ task.op = "rename" => task.arg \in Users
         /\ task.op = "delete" => task.arg \in Rooms
BY DEF KTypeInv, KTypeOK, KHandlerTypeOK, KTask, Task, NoTask

LEMMA RemoveMemberType ==
  ASSUME KTypeInv, NEW c \in Clients, cRoom[c] # Nil, RemoveMember(c)
  PROVE  roomClients' \in [Rooms -> Seq(Clients)]
<1>1. cRoom[c] \in Rooms /\ roomClients[cRoom[c]] \in Seq(Clients)
  BY DEF KTypeInv, KTypeOK, KRoomTypeOK, ClientTypeOK
<1>2. RemoveFirst(roomClients[cRoom[c]], c) \in Seq(Clients)
  BY <1>1, RemoveFirstProperties
<1> QED BY <1>1, <1>2 DEF RemoveMember, KTypeInv, KTypeOK, KRoomTypeOK

LEMMA FinishTypes ==
  ASSUME KTypeInv, UNCHANGED listVars,
         FinishLeave \/ FinishRename \/ FinishJoin \/ KFinishSwitch
  PROVE  KTypeInv'
<1> DEFINE c == task.who
<1>0. /\ c \in Clients
      /\ UNCHANGED netVars
  BY TaskTypes DEF FinishLeave, KFinishSwitch, FinishRename, FinishJoin, Resume
<1>1. NetTypeOK' /\ ListTypeOK'
  BY <1>0 DEF KTypeInv, KTypeOK, NetTypeOK, ListTypeOK, netVars, listVars
<1>2. CASE FinishLeave
  <2>1. roomClients' \in [Rooms -> Seq(Clients)]
    BY <1>0, <1>2, RemoveMemberType DEF FinishLeave, Resume, KTypeInv, KTaskOK
  <2>2. KRoomTypeOK'
    BY <1>2, <2>1 DEF FinishLeave, KTypeInv, KTypeOK, KRoomTypeOK
  <2>3. ClientTypeOK'
    BY <1>0, <1>2, EmptySeq DEF FinishLeave, KTypeInv, KTypeOK, ClientTypeOK
  <2>4. KHandlerTypeOK' /\ KTaskOK'
    BY <1>2 DEF FinishLeave, KTypeInv, KTypeOK, KHandlerTypeOK, KTask, Task, KTaskOK, NoTask
  <2> QED BY <1>1, <2>2, <2>3, <2>4 DEF KTypeInv, KTypeOK
<1>3. CASE KFinishSwitch
  <2>1. roomClients' \in [Rooms -> Seq(Clients)]
    BY <1>0, <1>3, RemoveMemberType DEF KFinishSwitch, Resume, KTypeInv, KTaskOK
  <2>2. KRoomTypeOK'
    BY <1>3, <2>1 DEF KFinishSwitch, KTypeInv, KTypeOK, KRoomTypeOK
  <2>3. registry[task.arg] \in Rooms
    BY <1>3, TaskTypes DEF KFinishSwitch, Resume, KTypeInv, KTaskOK, KTypeOK, KRoomTypeOK
  <2>4. /\ cRoom' \in [Clients -> Rooms \cup {Nil}]
        /\ got' \in [Clients -> Seq(Entry)]
        /\ KHandlerTypeOK'
        /\ KTaskOK'
    BY <1>0, <1>3, <2>3, JoinType DEF KFinishSwitch, KTypeInv
  <2> QED BY <1>1, <1>3, <2>2, <2>4 DEF KFinishSwitch, KTypeInv, KTypeOK, ClientTypeOK
<1>4. CASE FinishRename
  <2>1. ClientTypeOK'
    BY <1>0, <1>4, TaskTypes DEF FinishRename, Resume, KTypeInv, KTypeOK, ClientTypeOK
  <2>2. KRoomTypeOK' /\ KHandlerTypeOK' /\ KTaskOK'
    BY <1>4 DEF FinishRename, KTypeInv, KTypeOK, KRoomTypeOK, KHandlerTypeOK, KTask, Task,
                KTaskOK, NoTask, roomVars
  <2> QED BY <1>1, <2>1, <2>2 DEF KTypeInv, KTypeOK
<1>5. CASE FinishJoin
  <2> DEFINE r == cRoom[c]
  <2>1. r \in Rooms /\ Append(roomClients[r], c) \in Seq(Clients)
    <3>1. r \in Rooms
      BY <1>0, <1>5 DEF FinishJoin, Resume, KTypeInv, KTaskOK, KTypeOK, ClientTypeOK
    <3> QED BY <1>0, <3>1, AppendProperties DEF KTypeInv, KTypeOK, KRoomTypeOK
  <2>2. EntryOf("enter", c) \in Entry
    BY <1>0, EntryOfType DEF KTypeInv
  <2>3. /\ roomClients' = [roomClients EXCEPT ![r] = Append(@, c)]
        /\ Broadcast(r, EntryOf("enter", c), Append(roomClients[r], c))
        /\ task' = NoTask
        /\ UNCHANGED <<registry, roomName, timers, clientVars>>
    BY <1>5 DEF FinishJoin
  <2> HIDE DEF c, r
  <2>4. /\ roomExpire' \in [Rooms -> 0 .. EXTIME]
        /\ quiet' \in [Rooms -> 0 .. EXTIME]
        /\ roomMsgs' \in [Rooms -> Seq(Entry \cup {RoomDeletion})]
        /\ out' \in Seq(Send)
    BY <2>1, <2>2, <2>3, BroadcastType DEF KTypeInv
  <2>5. KRoomTypeOK'
    BY <2>1, <2>3, <2>4 DEF KTypeInv, KTypeOK, KRoomTypeOK
  <2>6. ClientTypeOK' /\ task' \in KTask /\ KTaskOK'
    BY <2>3 DEF KTypeInv, KTypeOK, ClientTypeOK, clientVars, KTask, Task, KTaskOK, NoTask
  <2> QED BY <1>1, <2>4, <2>5, <2>6 DEF KTypeInv, KTypeOK, KHandlerTypeOK
<1> QED
  BY <1>2, <1>3, <1>4, <1>5

LEMMA DepartureTypes ==
  ASSUME KTypeInv, KFinishDepart \/ KCloseOutgoing \/ KFinishDelete
  PROVE  KTypeInv'
<1>0. KTypeOK /\ NetTypeOK /\ KRoomTypeOK /\ ClientTypeOK /\ KHandlerTypeOK /\ ListTypeOK
  BY DEF KTypeInv, KTypeOK
<1>1. CASE KFinishDepart
  <2>1. task.who \in Clients /\ cRoom[task.who] # Nil /\ task.op = "depart"
    BY <1>1, TaskTypes DEF KFinishDepart, Resume, KTypeInv, KTaskOK
  <2>2. roomClients' \in [Rooms -> Seq(Clients)]
    BY <1>1, <2>1, RemoveMemberType DEF KFinishDepart
  <2>3. KRoomTypeOK' /\ NetTypeOK'
    BY <1>0, <1>1, <2>2 DEF KFinishDepart, KRoomTypeOK, NetTypeOK, netVars
  <2>4. ClientTypeOK'
    BY <1>0, <1>1, <2>1, EmptySeq DEF KFinishDepart, ClientTypeOK
  <2>5. ListTypeOK'
    BY <1>0, <1>1 DEF KFinishDepart, ListTypeOK, NetTypeOK
  <2>6. task' = [op |-> "close", who |-> task.who, arg |-> Nil] /\ out' = out
    BY <1>0, <1>1, <2>1 DEF KFinishDepart, KHandlerTypeOK, KTask, Task, NoTask
  <2>7. lobbyView' \in SUBSET Clients
    BY <1>0, <1>1 DEF KFinishDepart, NetTypeOK
  <2>8. KHandlerTypeOK' /\ KTaskOK'
    BY <1>0, <2>1, <2>6, <2>7 DEF KHandlerTypeOK, KTask, KTaskOK
  <2> QED BY <2>3, <2>4, <2>5, <2>8 DEF KTypeInv, KTypeOK
<1>2. CASE KCloseOutgoing
  <2>1. /\ task.who \in Clients
        /\ closed' = closed \cup {task.who}
        /\ lobbyView' = Nil
        /\ task' = NoTask
        /\ UNCHANGED <<conn, inq, writer, fwd, accepting, lines, roomVars,
                       clientVars, out, mainView>>
    BY <1>2, TaskTypes DEF KCloseOutgoing, Resume
  <2>2. curClients' \in SUBSET Clients
    <3>1. curClients' = lobbyView \ {task.who} \/ curClients' = curClients
      BY <1>2, Zenon DEF KCloseOutgoing
    <3>2. lobbyView \in SUBSET Clients
      BY <1>2 DEF KTypeInv, KTaskOK, KCloseOutgoing, Resume
    <3> QED BY <1>0, <3>1, <3>2 DEF NetTypeOK
  <2>3. raced' \in BOOLEAN
    <3>1. raced \in BOOLEAN
      BY <1>0, Zenon DEF ListTypeOK
    <3> QED BY <1>2, <3>1, Zenon DEF KCloseOutgoing
  <2>4. NetTypeOK' /\ ListTypeOK'
    BY <1>0, <2>1, <2>2, <2>3 DEF NetTypeOK, ListTypeOK
  <2>5. KRoomTypeOK' /\ ClientTypeOK' /\ KHandlerTypeOK' /\ KTaskOK'
    BY <1>0, <2>1 DEF KRoomTypeOK, ClientTypeOK, KHandlerTypeOK, KTaskOK, roomVars,
                      clientVars, KTask, Task, NoTask
  <2> QED BY <2>4, <2>5 DEF KTypeInv, KTypeOK
<1>3. CASE KFinishDelete
  <2>1. /\ UNCHANGED <<netVars, roomName, roomClients, roomMsgs, roomExpire, timers,
                       quiet, username, out, listVars>>
        /\ task' = NoTask
        /\ registry' = [registry EXCEPT ![roomName[task.arg]] = Nil]
        /\ cRoom' = [c \in Clients |->
                       IF c \in Range(roomClients[task.arg]) THEN Nil ELSE cRoom[c]]
        /\ got' = [c \in Clients |->
                     IF c \in Range(roomClients[task.arg]) THEN <<>> ELSE got[c]]
    BY <1>3 DEF KFinishDelete
  <2>2. NetTypeOK' /\ ListTypeOK'
    BY <1>0, <2>1 DEF NetTypeOK, ListTypeOK, netVars, listVars
  <2>3. KRoomTypeOK'
    BY <1>0, <2>1 DEF KRoomTypeOK
  <2>4. ClientTypeOK'
    BY <1>0, <2>1, EmptySeq DEF ClientTypeOK
  <2>5. KHandlerTypeOK' /\ KTaskOK'
    BY <1>0, <2>1 DEF KHandlerTypeOK, KTaskOK, KTask, Task, NoTask
  <2> QED BY <2>2, <2>3, <2>4, <2>5 DEF KTypeInv, KTypeOK
<1> QED BY <1>1, <1>2, <1>3

LEMMA TickTypes ==
  ASSUME KTypeInv, Tick, UNCHANGED listVars
  PROVE  KTypeInv'
<1>1. \A k \in 0 .. EXTIME : Sooner(k) \in 0 .. EXTIME
  BY LimitsAssumption DEF Sooner
<1>2. roomExpire' \in [Rooms -> 0 .. EXTIME]
  BY <1>1 DEF KTypeInv, KTypeOK, KRoomTypeOK, Tick
<1>3. quiet' \in [Rooms -> 0 .. EXTIME]
  BY LimitsAssumption DEF KTypeInv, KTypeOK, KRoomTypeOK, Tick
<1>4. timers' \in [Rooms -> Seq(0 .. EXTIME)]
  <2>1. ASSUME NEW r \in Rooms
        PROVE  [i \in DOMAIN timers[r] |-> Sooner(timers[r][i])] \in Seq(0 .. EXTIME)
    <3>1. timers[r] \in Seq(0 .. EXTIME)
      BY DEF KTypeInv, KTypeOK, KRoomTypeOK
    <3>2. /\ Len(timers[r]) \in Nat
          /\ DOMAIN timers[r] = 1 .. Len(timers[r])
          /\ \A i \in 1 .. Len(timers[r]) : timers[r][i] \in 0 .. EXTIME
      BY <3>1, LenProperties, ElementOfSeq
    <3>3. \A i \in 1 .. Len(timers[r]) : Sooner(timers[r][i]) \in 0 .. EXTIME
      BY <1>1, <3>2
    <3> QED BY <3>2, <3>3
  <2> QED BY <2>1 DEF Tick
<1>5. KRoomTypeOK'
  BY <1>2, <1>3, <1>4 DEF KTypeInv, KTypeOK, KRoomTypeOK, Tick
<1> QED
  BY <1>5 DEF KTypeInv, KTypeOK, NetTypeOK, ClientTypeOK, KHandlerTypeOK, ListTypeOK,
              KTaskOK, Tick, netVars, clientVars, listVars

LEMMA StutterTypes ==
  ASSUME KTypeInv, UNCHANGED kenVars
  PROVE  KTypeInv'
BY DEF KTypeInv, KTypeOK, KTaskOK, NetTypeOK, KRoomTypeOK, ClientTypeOK, KHandlerTypeOK,
       ListTypeOK, kenVars, vars, netVars, roomVars, clientVars, listVars

LEMMA KTypeNext == KTypeInv /\ [KNext]_kenVars => KTypeInv'
<1> SUFFICES ASSUME KTypeInv, [KNext]_kenVars PROVE KTypeInv'
  OBVIOUS
<1>1. CASE UNCHANGED kenVars
  BY <1>1, StutterTypes
<1>2. CASE KLobby
  <2>1. KFinishSwitch => UNCHANGED listVars
    BY DEF KFinishSwitch
  <2> QED
    BY <1>2, <2>1, KParseTypes, KLeaveTypes, QuitTypes, KDeleteChatRoomTypes,
       LobbySendTypes, FinishTypes, DepartureTypes DEF KLobby
<1>3. ASSUME NEW c \in Clients,
             KAccept(c) \/ KAppend(c) \/ KSendWelcome(c) \/ WriterEnds(c)
      PROVE  KTypeInv'
  BY <1>3, ConnectTypes
<1>4. CASE Alike /\ UNCHANGED listVars
  <2>1. Quiescent => UNCHANGED kenVars
    BY <1>4 DEF Quiescent, kenVars
  <2> QED BY <1>1, <1>4, <2>1, PeerTypes, TickTypes DEF Alike
<1> QED
  BY <1>1, <1>2, <1>3, <1>4 DEF KNext

\* In every reachable state of ken's server the variables have their types.
THEOREM KTypes == KSpec => []KTypeOK
<1>1. KTypeInv => KTypeOK
  BY DEF KTypeInv
<1> QED BY <1>1, KTypeInit, KTypeNext, PTL DEF KSpec

------------------------------------------------------------------------------
(* Connections: a client has a forwarder from its welcome to its departure,  *)
(* and its channel is closed after that.                                     *)

Connections ==
  /\ \A c \in Clients :
       /\ conn[c] = "new" => fwd[c] = "none" /\ accepting # c
       /\ accepting = c => fwd[c] = "none"
       /\ c \in closed => fwd[c] = "done" /\ cRoom[c] = Nil
  /\ task.op \in {"leave", "switch", "join", "rename"} => fwd[task.who] = "running"
  /\ task.op \in {"depart", "close"} => fwd[task.who] = "done"
  /\ task.op = "close" => cRoom[task.who] = Nil

LEMMA ConnectionsInit == KInit => Connections
<1> SUFFICES ASSUME KInit PROVE Connections
  OBVIOUS
<1>1. /\ fwd = [c \in Clients |-> "none"]
      /\ accepting = Nil /\ task = NoTask /\ closed = {}
  BY Zenon DEF KInit, Init
<1> QED BY <1>1, NilAssumption DEF Connections, NoTask

\* A handler seats only a client that is connected, and goes on only for one.
LEMMA HandlerConnections ==
  ASSUME KTypeInv, Connections, UNCHANGED <<conn, fwd, accepting, closed>>,
         \A c \in Clients : cRoom'[c] \in {cRoom[c], Nil} \/ fwd[c] = "running",
         \/ task'.op \in {"select", "delete"}
         \/ /\ task'.op \in {"leave", "switch", "join", "rename"}
            /\ fwd[task'.who] = "running"
         \/ task' = task
  PROVE  Connections'
<1>1. ASSUME NEW c \in Clients
      PROVE  /\ conn'[c] = "new" => fwd'[c] = "none" /\ accepting' # c
             /\ accepting' = c => fwd'[c] = "none"
             /\ c \in closed' => fwd'[c] = "done" /\ cRoom'[c] = Nil
  BY DEF Connections
<1>2. /\ task'.op \in {"leave", "switch", "join", "rename"} => fwd'[task'.who] = "running"
      /\ task'.op \in {"depart", "close"} => fwd'[task'.who] = "done"
  BY DEF Connections
<1>3. task'.op = "close" => cRoom'[task'.who] = Nil
  <2>1. SUFFICES ASSUME task'.op = "close" PROVE cRoom'[task'.who] = Nil
    OBVIOUS
  <2>2. task' = task /\ task.op = "close" /\ task.who \in Clients
    BY <2>1, TaskTypes
  <2> QED BY <2>2 DEF Connections
<1> QED BY <1>1, <1>2, <1>3 DEF Connections

LEMMA KParseConnections ==
  ASSUME KTypeInv, Connections, NEW c \in Clients, KParse(c)
  PROVE  Connections'
<1> DEFINE msg == Head(inq[c])
<1>1. /\ task = NoTask
      /\ fwd[c] = "running"
      /\ UNCHANGED <<conn, fwd, accepting, closed>>
  BY DEF KParse, Take, Idle, listVars
<1>2. /\ \A d \in Clients : cRoom'[d] = cRoom[d] \/ d = c
      /\ \/ task' = task
         \/ task'.op \in {"leave", "switch", "join", "rename"} /\ task'.who = c
  <2>1. CASE KCreateChatRoom(c, msg.arg)
    BY <2>1 DEF KCreateChatRoom, clientVars
  <2>2. CASE KJoinChatRoom(c, msg.arg)
    <3>1. CASE registry[msg.arg] = Nil
      BY <2>2, <3>1 DEF KJoinChatRoom, clientVars
    <3>2. CASE registry[msg.arg] # Nil /\ cRoom[c] # Nil
      <4>1. StartLeave(c, "switch", msg.arg)
        BY <2>2, <3>2 DEF KJoinChatRoom
      <4> QED BY <4>1 DEF StartLeave, clientVars
    <3>3. CASE registry[msg.arg] # Nil /\ cRoom[c] = Nil
      <4>1. KJoin(c, registry[msg.arg])
        BY <2>2, <3>3 DEF KJoinChatRoom
      <4> QED BY <4>1 DEF KJoin, KTypeInv, KTypeOK, ClientTypeOK
    <3> QED BY <3>1, <3>2, <3>3
  <2>3. CASE LeaveCRoom(c)
    BY <2>3 DEF LeaveCRoom, StartLeave, clientVars
  <2>4. CASE ListCRooms(c) \/ Help(c) \/ SendMsg(c)
    BY <2>4 DEF ListCRooms, Help, SendMsg, clientVars
  <2>5. CASE ChangeUsername(c, msg.arg)
    BY <2>5 DEF ChangeUsername, clientVars
  <2> QED BY <2>1, <2>2, <2>3, <2>4, <2>5 DEF KParse
<1> QED BY <1>1, <1>2, HandlerConnections

LEMMA DepartureConnections ==
  ASSUME KTypeInv, Connections,
         KFinishDepart \/ KCloseOutgoing \/ \E c \in Clients : KLeave(c)
  PROVE  Connections'
<1>1. ASSUME NEW c \in Clients, KLeave(c)
      PROVE  Connections'
  <2>1. /\ fwd[c] = "running"
        /\ fwd' = [fwd EXCEPT ![c] = "done"]
        /\ UNCHANGED <<conn, accepting, closed, cRoom>>
        /\ task'.who = c
        /\ \/ task'.op = "depart"
           \/ task'.op = "close" /\ cRoom[c] = Nil
    BY <1>1 DEF KLeave, StartLeave, clientVars
  <2> QED BY <2>1 DEF Connections, KTypeInv, KTypeOK, NetTypeOK
<1>2. CASE KFinishDepart
  <2>1. /\ task.who \in Clients /\ task.op = "depart"
        /\ cRoom' = [cRoom EXCEPT ![task.who] = Nil]
        /\ UNCHANGED <<conn, fwd, accepting, closed>>
    BY <1>2, TaskTypes DEF KFinishDepart, Resume, netVars
  <2>2. task' = [op |-> "close", who |-> task.who, arg |-> Nil]
    BY <1>2, <2>1 DEF KFinishDepart, KTypeInv, KTypeOK, KHandlerTypeOK, KTask, Task, NoTask
  <2> QED BY <2>1, <2>2 DEF Connections, KTypeInv, KTypeOK, ClientTypeOK
<1>3. CASE KCloseOutgoing
  <2>1. /\ task.op = "close"
        /\ closed' = closed \cup {task.who}
        /\ task' = NoTask
        /\ UNCHANGED <<conn, fwd, accepting, cRoom>>
    BY <1>3 DEF KCloseOutgoing, Resume, clientVars
  <2> QED BY <2>1 DEF Connections, NoTask
<1> QED BY <1>1, <1>2, <1>3

\* What happens outside of the lobby.
LEMMA OutsideConnections ==
  ASSUME KTypeInv, Connections, NEW c \in Clients,
         \/ KAccept(c) \/ KAppend(c) \/ KSendWelcome(c) \/ WriterEnds(c)
         \/ (Peer(c) \/ Flush(c) \/ FlushFails(c) \/ Quit(c)) /\ UNCHANGED listVars
  PROVE  Connections'
<1>0. UNCHANGED <<cRoom, task, closed>>
  BY DEF KAccept, KAppend, KSendWelcome, SendWelcome, WriterEnds, Peer, Hangup, LoseInput,
         TypeLine, Flush, FlushFails, Quit, clientVars, listVars
<1>1. CASE KAccept(c)
  <2>1. /\ fwd' = fwd
        /\ conn[c] = "new" /\ conn'[c] # "new"
        /\ \A d \in Clients : d # c => conn'[d] = conn[d]
        /\ accepting' \in {accepting, c}
    BY <1>1 DEF KAccept, KTypeInv, KTypeOK, NetTypeOK
  <2> QED BY <1>0, <2>1 DEF Connections
<1>2. CASE KSendWelcome(c)
  <2>1. /\ accepting = c /\ accepting' = Nil
        /\ conn' = conn
        /\ fwd' = [fwd EXCEPT ![c] = "running"]
    BY <1>2 DEF KSendWelcome, SendWelcome
  <2>2. /\ conn[c] # "new" /\ fwd[c] = "none"
        /\ c \notin closed
    BY <2>1 DEF Connections
  <2>3. \A d \in Clients : d # c => fwd'[d] = fwd[d]
    BY <2>1 DEF KTypeInv, KTypeOK, NetTypeOK
  <2>4. ASSUME NEW d \in Clients
        PROVE  /\ conn'[d] = "new" => fwd'[d] = "none" /\ accepting' # d
               /\ accepting' = d => fwd'[d] = "none"
               /\ d \in closed' => fwd'[d] = "done" /\ cRoom'[d] = Nil
    BY <1>0, <2>1, <2>2, <2>3, NilAssumption DEF Connections
  <2>5. /\ task'.op \in {"leave", "switch", "join", "rename"} => fwd'[task'.who] = "running"
        /\ task'.op \in {"depart", "close"} => fwd'[task'.who] = "done"
    <3>1. task.op \in {"leave", "switch", "join", "rename", "depart", "close"}
            => task.who # c
      BY <2>2 DEF Connections
    <3> QED BY <1>0, <2>2, <2>3, <3>1, TaskTypes DEF Connections
  <2> QED BY <1>0, <2>4, <2>5 DEF Connections
<1>3. CASE /\ UNCHANGED <<fwd, accepting>>
           /\ \A d \in Clients : conn'[d] = "new" => conn[d] = "new"
  BY <1>0, <1>3 DEF Connections
<1>4. CASE KAppend(c) \/ WriterEnds(c)
  BY <1>3, <1>4 DEF KAppend, WriterEnds
<1>5. CASE Peer(c) \/ Flush(c) \/ FlushFails(c) \/ Quit(c)
  <2>1. UNCHANGED <<fwd, accepting>>
    BY <1>5 DEF Peer, Hangup, LoseInput, TypeLine, Flush, FlushFails, Quit
  <2>2. \A d \in Clients : conn'[d] = "new" => conn[d] = "new"
    BY <1>5 DEF Peer, Hangup, LoseInput, TypeLine, Flush, FlushFails, Quit,
                KTypeInv, KTypeOK, NetTypeOK
  <2> QED BY <1>3, <2>1, <2>2
<1> QED BY <1>1, <1>2, <1>4, <1>5

LEMMA FinishConnections ==
  ASSUME KTypeInv, Connections, UNCHANGED listVars,
         \/ FinishLeave \/ FinishRename \/ FinishJoin \/ KFinishSwitch \/ KFinishDelete
         \/ LobbySend \/ Tick \/ \E r \in Rooms : KDeleteChatRoom(r)
  PROVE  Connections'
<1>0. UNCHANGED <<conn, fwd, accepting, closed>>
  BY DEF FinishLeave, FinishRename, FinishJoin, KFinishSwitch, KFinishDelete, LobbySend,
         Tick, KDeleteChatRoom, netVars, listVars
<1>1. \A c \in Clients : cRoom'[c] \in {cRoom[c], Nil} \/ fwd[c] = "running"
  <2>1. CASE KFinishSwitch
    <3>1. fwd[task.who] = "running"
      BY <2>1 DEF KFinishSwitch, Resume, Connections
    <3> QED BY <2>1, <3>1 DEF KFinishSwitch, KJoin, KTypeInv, KTypeOK, ClientTypeOK
  <2>2. CASE FinishLeave
    BY <2>2 DEF FinishLeave, KTypeInv, KTypeOK, ClientTypeOK
  <2>3. CASE KFinishDelete
    BY <2>3 DEF KFinishDelete
  <2>4. CASE cRoom' = cRoom
    BY <2>4
  <2>5. ASSUME \/ FinishRename \/ FinishJoin \/ LobbySend \/ Tick
               \/ \E r \in Rooms : KDeleteChatRoom(r)
        PROVE  cRoom' = cRoom
    BY <2>5 DEF FinishRename, FinishJoin, LobbySend, Tick, KDeleteChatRoom, clientVars
  <2> QED BY <2>1, <2>2, <2>3, <2>4, <2>5
<1>2. \/ task'.op \in {"select", "delete"}
      \/ task'.op = "join" /\ fwd[task'.who] = "running"
      \/ task' = task
  <2>1. CASE KFinishSwitch
    <3>1. fwd[task.who] = "running"
      BY <2>1 DEF KFinishSwitch, Resume, Connections
    <3> QED BY <2>1, <3>1 DEF KFinishSwitch, KJoin
  <2>2. FinishLeave \/ FinishRename \/ FinishJoin \/ KFinishDelete => task' = NoTask
    BY DEF FinishLeave, FinishRename, FinishJoin, KFinishDelete
  <2>3. LobbySend \/ Tick => task' = task
    BY DEF LobbySend, Tick
  <2>4. ASSUME NEW r \in Rooms, KDeleteChatRoom(r)
        PROVE  task'.op = "delete" \/ task' = task
    BY <2>4 DEF KDeleteChatRoom
  <2> QED BY <2>1, <2>2, <2>3, <2>4 DEF NoTask
<1> QED BY <1>0, <1>1, <1>2, HandlerConnections

LEMMA ConnectionsNext == KTypeInv /\ Connections /\ [KNext]_kenVars => Connections'
<1> SUFFICES ASSUME KTypeInv, Connections, [KNext]_kenVars PROVE Connections'
  OBVIOUS
<1>1. CASE UNCHANGED kenVars
  BY <1>1 DEF Connections, kenVars, vars, netVars, clientVars, listVars
<1>2. CASE KLobby
  <2>1. KFinishSwitch \/ KFinishDelete \/ (\E r \in Rooms : KDeleteChatRoom(r))
          => UNCHANGED listVars
    BY DEF KFinishSwitch, KFinishDelete, KDeleteChatRoom
  <2> QED
    BY <1>2, <2>1, KParseConnections, DepartureConnections, OutsideConnections,
       FinishConnections DEF KLobby
<1>3. ASSUME NEW c \in Clients,
             KAccept(c) \/ KAppend(c) \/ KSendWelcome(c) \/ WriterEnds(c)
      PROVE  Connections'
  BY <1>3, OutsideConnections
<1>4. CASE Alike /\ UNCHANGED listVars
  <2>1. Quiescent => UNCHANGED kenVars
    BY <1>4 DEF Quiescent, kenVars
  <2> QED BY <1>1, <1>4, <2>1, OutsideConnections, FinishConnections DEF Alike
<1> QED
  BY <1>1, <1>2, <1>3, <1>4 DEF KNext

------------------------------------------------------------------------------
(* Rooms: who is in them, their names and their timers.                     *)

Deleting(r) == task.op = "delete" /\ task.arg = r

\* What KTimersAccounted says of a room, and what it rests on: the expiry of a
\* room that is not being deleted lies EXTIME after the last word, and one that
\* is being deleted was silent that long.
RoomAgrees(r) ==
  /\ Registered(r) /\ ~Deleting(r) =>
       /\ Len(timers[r]) = 1 /\ timers[r][1] <= roomExpire[r]
       /\ quiet[r] + roomExpire[r] = EXTIME
  /\ ~Registered(r) \/ Deleting(r) => timers[r] = <<>>
  /\ Deleting(r) => Registered(r) /\ quiet[r] = EXTIME
  /\ roomName[r] = Nil => roomClients[r] = <<>>

NamesAgree == \A n \in Names : registry[n] # Nil => roomName[registry[n]] = n

KRoomInv == NamesAgree /\ (\A r \in Rooms : RoomAgrees(r)) /\ MembershipAgrees

LEMMA KRoomInit == KInit => KRoomInv
<1> SUFFICES ASSUME KInit PROVE KRoomInv
  OBVIOUS
<1>1. /\ registry = [n \in Names |-> Nil]
      /\ roomName = [r \in Rooms |-> Nil]
      /\ roomClients = [r \in Rooms |-> <<>>]
      /\ timers = [r \in Rooms |-> <<>>]
      /\ cRoom = [c \in Clients |-> Nil]
      /\ task = NoTask
  BY Zenon DEF KInit, Init
<1>2. \A r \in Rooms : ~Registered(r) /\ ~Deleting(r)
  BY <1>1, NilAssumption DEF Registered, Deleting, NoTask
<1>3. NamesAgree /\ \A r \in Rooms : RoomAgrees(r)
  BY <1>1, <1>2 DEF NamesAgree, RoomAgrees
<1>4. MembershipAgrees
  BY <1>1, <1>2 DEF MembershipAgrees, IsInjective
<1> QED BY <1>3, <1>4 DEF KRoomInv

\* What there is to show of the next state.
LEMMA MembershipNext ==
  ASSUME \A r \in Rooms : IsInjective(roomClients'[r]),
         \A d \in Clients : cRoom'[d] # Nil => \E m \in Names : registry'[m] = cRoom'[d],
         \A r \in Rooms : (\E m \in Names : registry'[m] = r) =>
           \A d \in Clients :
             d \in Range(roomClients'[r]) <=> cRoom'[d] = r /\ ~Joining(d)'
  PROVE  MembershipAgrees'
BY DEF MembershipAgrees, Registered

\* A room's timer sleeps no longer than a room that was just used lives.
LEMMA FirstTimer ==
  ASSUME KTypeInv, NEW r \in Rooms, Len(timers[r]) = 1
  PROVE  timers[r][1] \in 0 .. EXTIME
<1>1. timers[r] \in Seq(0 .. EXTIME) /\ 1 \in 1 .. Len(timers[r])
  BY DEF KTypeInv, KTypeOK, KRoomTypeOK
<1> QED BY <1>1, ElementOfSeq

\* Steps that leave rooms, seats and timers as they are; a room that is not
\* being deleted may be used.
Used(r) == roomExpire'[r] = EXTIME /\ quiet'[r] = 0

Steady ==
  /\ UNCHANGED <<registry, roomName, roomClients, timers, cRoom>>
  /\ \A c \in Clients : Joining(c)' <=> Joining(c)
  /\ \A r \in Rooms : Deleting(r)' <=> Deleting(r)
  /\ \A r \in Rooms :
       \/ roomExpire'[r] = roomExpire[r] /\ quiet'[r] = quiet[r]
       \/ Used(r) /\ ~Deleting(r)

LEMMA SteadyStep ==
  ASSUME KTypeInv, KRoomInv, Steady
  PROVE  KRoomInv'
<1>1. \A r \in Rooms : Registered(r)' <=> Registered(r)
  BY DEF Registered, Steady
<1>2. NamesAgree'
  BY DEF Steady, KRoomInv, NamesAgree
<1>3. ASSUME NEW r \in Rooms
      PROVE  RoomAgrees(r)'
  <2>1. /\ timers'[r] = timers[r]
        /\ roomName'[r] = roomName[r]
        /\ roomClients'[r] = roomClients[r]
        /\ Deleting(r)' <=> Deleting(r)
        /\ \/ roomExpire'[r] = roomExpire[r] /\ quiet'[r] = quiet[r]
           \/ Used(r) /\ ~Deleting(r)
        /\ RoomAgrees(r)
    BY DEF Steady, KRoomInv
  <2>2. Len(timers[r]) = 1 => timers[r][1] \in 0 .. EXTIME
    BY FirstTimer
  <2>3. Used(r) => /\ quiet'[r] + roomExpire'[r] = EXTIME
                   /\ \A k \in 0 .. EXTIME : k <= roomExpire'[r]
    BY LimitsAssumption DEF Used
  <2> QED BY <1>1, <2>1, <2>2, <2>3 DEF RoomAgrees
<1>4. MembershipAgrees'
  BY <1>1 DEF Steady, KRoomInv, MembershipAgrees, KTypeInv, KTypeOK, ClientTypeOK
<1> QED BY <1>2, <1>3, <1>4 DEF KRoomInv

\* A broadcast uses one room and leaves the others alone.
LEMMA BroadcastUses ==
  ASSUME KTypeInv, NEW r \in Rooms, NEW e, NEW members, Broadcast(r, e, members)
  PROVE  \A q \in Rooms :
           IF q = r THEN Used(q) ELSE roomExpire'[q] = roomExpire[q] /\ quiet'[q] = quiet[q]
BY DEF Broadcast, Used, KTypeInv, KTypeOK, KRoomTypeOK

LEMMA SpeakingSteady ==
  ASSUME KTypeInv, NEW c \in Clients, cRoom[c] # Nil, NEW e,
         Broadcast(cRoom[c], e, roomClients[cRoom[c]]),
         UNCHANGED <<registry, roomName, roomClients, timers, cRoom>>,
         task = NoTask, task'.op \notin {"join", "delete"}
  PROVE  Steady
<1>1. cRoom[c] \in Rooms
  BY DEF KTypeInv, KTypeOK, ClientTypeOK
<1>2. \A q \in Rooms :
        IF q = cRoom[c] THEN Used(q)
        ELSE roomExpire'[q] = roomExpire[q] /\ quiet'[q] = quiet[q]
  BY <1>1, BroadcastUses
<1>3. /\ \A d \in Clients : Joining(d)' <=> Joining(d)
      /\ \A q \in Rooms : ~Deleting(q) /\ ~Deleting(q)'
  BY DEF Joining, Deleting, NoTask
<1> QED BY <1>2, <1>3 DEF Steady

LEMMA StartLeaveSteady ==
  ASSUME KTypeInv, NEW c \in Clients, cRoom[c] # Nil, NEW arg,
         NEW op \in {"leave", "switch", "depart"}, task = NoTask, StartLeave(c, op, arg)
  PROVE  Steady
BY SpeakingSteady DEF StartLeave, clientVars

LEMMA RestSteady ==
  ASSUME UNCHANGED <<roomVars, cRoom>>,
         task.op \notin {"join", "delete"}, task'.op \notin {"join", "delete"}
  PROVE  Steady
BY DEF Steady, Joining, Deleting, roomVars

\* A step that the rooms, the seats and the running handler do not notice.
LEMMA UnnoticedStep ==
  ASSUME KTypeInv, KRoomInv, UNCHANGED <<roomVars, cRoom, task>>
  PROVE  KRoomInv'
<1>1. Steady
  BY DEF Steady, Joining, Deleting, roomVars
<1> QED BY <1>1, SteadyStep

\* A client in the lobby begins to join a room.
LEMMA KJoinStep ==
  ASSUME KTypeInv, KRoomInv, task = NoTask, NEW c \in Clients, NEW n \in Names,
         registry[n] # Nil, cRoom[c] = Nil, KJoin(c, registry[n]),
         UNCHANGED roomVars
  PROVE  KRoomInv'
<1>1. registry[n] \in Rooms
  BY DEF KTypeInv, KTypeOK, KRoomTypeOK
<1>2. /\ \A r \in Rooms : Registered(r)' <=> Registered(r)
      /\ \A r \in Rooms : ~Deleting(r) /\ ~Deleting(r)'
  BY DEF Registered, roomVars, Deleting, KJoin, NoTask
<1>3. NamesAgree' /\ \A r \in Rooms : RoomAgrees(r)'
  BY <1>2 DEF KRoomInv, NamesAgree, RoomAgrees, roomVars
<1>4. cRoom' = [cRoom EXCEPT ![c] = registry[n]]
  BY DEF KJoin
<1>5. \A d \in Clients : ~Joining(d) /\ (Joining(d)' <=> d = c)
  BY DEF KJoin, Joining, NoTask
<1>6. ASSUME NEW d \in Clients, cRoom'[d] # Nil
      PROVE  \E m \in Names : registry'[m] = cRoom'[d]
  <2>1. CASE d = c
    BY <1>4, <2>1 DEF KTypeInv, KTypeOK, ClientTypeOK, roomVars
  <2>2. CASE d # c
    <3>1. cRoom'[d] = cRoom[d]
      BY <1>4, <2>2 DEF KTypeInv, KTypeOK, ClientTypeOK
    <3> QED BY <1>6, <3>1 DEF KRoomInv, MembershipAgrees, Registered, roomVars
  <2> QED BY <2>1, <2>2
<1>7. ASSUME NEW r \in Rooms, \E m \in Names : registry'[m] = r, NEW d \in Clients
      PROVE  d \in Range(roomClients'[r]) <=> cRoom'[d] = r /\ ~Joining(d)'
  <2>1. d \in Range(roomClients[r]) <=> cRoom[d] = r
    BY <1>5, <1>7 DEF KRoomInv, MembershipAgrees, Registered, roomVars
  <2>2. roomClients' = roomClients /\ r # Nil
    BY NilAssumption DEF roomVars
  <2>3. cRoom'[d] = IF d = c THEN registry[n] ELSE cRoom[d]
    BY <1>4 DEF KTypeInv, KTypeOK, ClientTypeOK
  <2> QED BY <1>5, <2>1, <2>2, <2>3
<1>8. \A r \in Rooms : IsInjective(roomClients'[r])
  BY DEF KRoomInv, MembershipAgrees, roomVars
<1> QED BY <1>3, <1>6, <1>7, <1>8, MembershipNext DEF KRoomInv

\* A room that comes into being is registered once and is empty.
LEMMA KCreateRooms ==
  ASSUME KTypeInv, KRoomInv, task = NoTask, NEW c \in Clients, NEW n \in Names,
         registry[n] = Nil, KCreateChatRoom(c, n)
  PROVE  KRoomInv'
<1>1. PICK r \in Rooms :
        /\ roomName[r] = Nil
        /\ roomName' = [roomName EXCEPT ![r] = n]
        /\ registry' = [registry EXCEPT ![n] = r]
        /\ roomExpire' = [roomExpire EXCEPT ![r] = EXTIME]
        /\ quiet' = [quiet EXCEPT ![r] = 0]
        /\ timers' = [timers EXCEPT ![r] = <<EXTIME>>]
  BY DEF KCreateChatRoom
<1>2. UNCHANGED <<roomClients, cRoom, task>>
  BY DEF KCreateChatRoom, clientVars
<1>3. /\ registry \in [Names -> Rooms \cup {Nil}]
      /\ roomName \in [Rooms -> Names \cup {Nil}]
      /\ roomExpire \in [Rooms -> 0 .. EXTIME]
      /\ quiet \in [Rooms -> 0 .. EXTIME]
      /\ timers \in [Rooms -> Seq(0 .. EXTIME)]
      /\ cRoom \in [Clients -> Rooms \cup {Nil}]
  BY DEF KTypeInv, KTypeOK, KRoomTypeOK, ClientTypeOK
<1>4. r # Nil /\ n # Nil
  BY NilAssumption
<1>5. \A m \in Names : registry[m] # r
  BY <1>1, <1>3, <1>4, NilAssumption DEF KRoomInv, NamesAgree
<1>6. \A m \in Names : registry'[m] = IF m = n THEN r ELSE registry[m]
  BY <1>1, <1>3
<1>7. NamesAgree'
  <2>1. SUFFICES ASSUME NEW m \in Names, registry'[m] # Nil
                 PROVE  roomName'[registry'[m]] = m
    BY DEF NamesAgree
  <2>2. CASE m = n
    BY <1>1, <1>3, <1>6, <2>2
  <2>3. CASE m # n
    <3>1. registry'[m] = registry[m] /\ registry[m] # r
      BY <1>5, <1>6, <2>3
    <3>2. registry[m] \in Rooms /\ roomName[registry[m]] = m
      BY <1>3, <2>1, <3>1 DEF KRoomInv, NamesAgree
    <3> QED BY <1>1, <1>3, <3>1, <3>2
  <2> QED BY <2>2, <2>3
<1>8. ASSUME NEW q \in Rooms
      PROVE  RoomAgrees(q)'
  <2>1. ~Deleting(q) /\ ~Deleting(q)'
    BY <1>2 DEF Deleting, NoTask
  <2>2. CASE q = r
    <3>1. /\ Registered(q)'
          /\ timers'[q] = <<EXTIME>>
          /\ roomExpire'[q] = EXTIME
          /\ quiet'[q] = 0
          /\ roomName'[q] = n
      BY <1>1, <1>3, <1>6, <2>2 DEF Registered
    <3>2. Len(timers'[q]) = 1 /\ timers'[q][1] <= roomExpire'[q]
      BY <3>1, LimitsAssumption
    <3>3. quiet'[q] + roomExpire'[q] = EXTIME
      BY <3>1, LimitsAssumption
    <3> QED BY <1>4, <2>1, <3>1, <3>2, <3>3 DEF RoomAgrees
  <2>3. CASE q # r
    <3>1. /\ timers'[q] = timers[q]
          /\ roomExpire'[q] = roomExpire[q]
          /\ quiet'[q] = quiet[q]
          /\ roomName'[q] = roomName[q]
          /\ roomClients'[q] = roomClients[q]
      BY <1>1, <1>2, <1>3, <2>3
    <3>2. Registered(q)' <=> Registered(q)
      BY <1>6, <2>3, NilAssumption DEF Registered
    <3>3. RoomAgrees(q)
      BY DEF KRoomInv
    <3> QED BY <2>1, <3>1, <3>2, <3>3 DEF RoomAgrees
  <2> QED BY <2>2, <2>3
<1>9. \A q \in Rooms : IsInjective(roomClients'[q])
  BY <1>2 DEF KRoomInv, MembershipAgrees
<1>10. ASSUME NEW d \in Clients, cRoom'[d] # Nil
       PROVE  \E m \in Names : registry'[m] = cRoom'[d]
  <2>1. PICK m \in Names : registry[m] = cRoom[d]
    BY <1>2, <1>10 DEF KRoomInv, MembershipAgrees, Registered
  <2>2. m # n
    BY <1>2, <1>10, <2>1
  <2> QED BY <1>2, <1>6, <2>1, <2>2
<1>11. ASSUME NEW q \in Rooms, \E m \in Names : registry'[m] = q, NEW d \in Clients
       PROVE  d \in Range(roomClients'[q]) <=> cRoom'[d] = q /\ ~Joining(d)'
  <2>1. ~Joining(d)' /\ ~Joining(d)
    BY <1>2 DEF Joining, NoTask
  <2>2. CASE q = r
    <3>1. Range(roomClients'[q]) = {}
      BY <1>1, <1>2, <2>2 DEF KRoomInv, RoomAgrees, Range
    <3>2. cRoom[d] # r
      BY <1>4, <1>5 DEF KRoomInv, MembershipAgrees, Registered
    <3> QED BY <1>2, <2>2, <3>1, <3>2
  <2>3. CASE q # r
    <3>1. Registered(q)
      BY <1>6, <1>11, <2>3 DEF Registered
    <3> QED BY <1>2, <2>1, <3>1 DEF KRoomInv, MembershipAgrees
  <2> QED BY <2>2, <2>3
<1> QED BY <1>7, <1>8, <1>9, <1>10, <1>11, MembershipNext DEF KRoomInv

LEMMA KParseRooms ==
  ASSUME KTypeInv, KRoomInv, NEW c \in Clients, KParse(c)
  PROVE  KRoomInv'
<1> DEFINE msg == Head(inq[c])
<1>1. task = NoTask /\ msg \in Line
  <2>1. inq[c] \in Seq(Line) /\ inq[c] # <<>> /\ task = NoTask
    BY DEF KTypeInv, KTypeOK, NetTypeOK, KParse, Take, Idle
  <2> QED BY <2>1, HeadTailProperties
<1>2. CASE msg.cmd = "create" /\ KCreateChatRoom(c, msg.arg)
  <2>1. msg.arg \in Names
    BY <1>1, <1>2 DEF Line
  <2>2. CASE registry[msg.arg] = Nil
    BY <1>1, <1>2, <2>1, <2>2, KCreateRooms
  <2>3. CASE registry[msg.arg] # Nil
    BY <1>1, <1>2, <2>3, UnnoticedStep DEF KCreateChatRoom, clientVars
  <2> QED BY <2>2, <2>3
<1>3. CASE msg.cmd = "enter" /\ KJoinChatRoom(c, msg.arg)
  <2>1. msg.arg \in Names
    BY <1>1, <1>3 DEF Line
  <2>2. CASE registry[msg.arg] = Nil
    BY <1>3, <2>2, UnnoticedStep DEF KJoinChatRoom, clientVars
  <2>3. CASE registry[msg.arg] # Nil /\ cRoom[c] # Nil
    <3>1. StartLeave(c, "switch", msg.arg)
      BY <1>3, <2>3 DEF KJoinChatRoom
    <3> QED BY <1>1, <2>3, <3>1, StartLeaveSteady, SteadyStep
  <2>4. CASE registry[msg.arg] # Nil /\ cRoom[c] = Nil
    <3>1. KJoin(c, registry[msg.arg]) /\ UNCHANGED roomVars
      BY <1>3, <2>4 DEF KJoinChatRoom
    <3> QED BY <1>1, <2>1, <2>4, <3>1, KJoinStep
  <2> QED BY <2>2, <2>3, <2>4
<1>4. CASE LeaveCRoom(c)
  <2>1. CASE cRoom[c] = Nil
    BY <1>4, <2>1, UnnoticedStep DEF LeaveCRoom, clientVars, StartLeave
  <2>2. CASE cRoom[c] # Nil
    BY <1>1, <1>4, <2>2, StartLeaveSteady, SteadyStep DEF LeaveCRoom
  <2> QED BY <2>1, <2>2
<1>5. CASE ListCRooms(c) \/ Help(c)
  BY <1>5, UnnoticedStep DEF ListCRooms, Help, clientVars
<1>6. CASE ChangeUsername(c, msg.arg)
  <2>1. task'.op = "rename" /\ UNCHANGED cRoom
    BY <1>6 DEF ChangeUsername, clientVars
  <2>2. CASE cRoom[c] = Nil
    BY <1>1, <1>6, <2>1, <2>2, RestSteady, SteadyStep DEF ChangeUsername, NoTask
  <2>3. CASE cRoom[c] # Nil
    <3>1. /\ \E e : Broadcast(cRoom[c], e, roomClients[cRoom[c]])
          /\ UNCHANGED <<registry, roomName, roomClients, timers>>
      BY <1>6, <2>3 DEF ChangeUsername
    <3> QED BY <1>1, <2>1, <2>3, <3>1, SpeakingSteady, SteadyStep
  <2> QED BY <2>2, <2>3
<1>7. CASE SendMsg(c)
  <2>1. task' = task /\ UNCHANGED cRoom
    BY <1>1, <1>7 DEF SendMsg, clientVars
  <2>2. CASE cRoom[c] = Nil
    BY <1>7, <2>1, <2>2, UnnoticedStep DEF SendMsg
  <2>3. CASE cRoom[c] # Nil
    <3>1. /\ Broadcast(cRoom[c], EntryOf("say", c), roomClients[cRoom[c]])
          /\ UNCHANGED <<registry, roomName, roomClients, timers>>
      BY <1>7, <2>3 DEF SendMsg
    <3> QED BY <1>1, <2>1, <2>3, <3>1, SpeakingSteady, SteadyStep DEF NoTask
  <2> QED BY <2>2, <2>3
<1> QED
  BY <1>2, <1>3, <1>4, <1>5, <1>6, <1>7 DEF KParse

LEMMA KLeaveRooms ==
  ASSUME KTypeInv, KRoomInv, NEW c \in Clients, KLeave(c)
  PROVE  KRoomInv'
<1>1. task = NoTask
  BY DEF KLeave, Idle
<1>2. CASE cRoom[c] # Nil
  BY <1>1, <1>2, StartLeaveSteady, SteadyStep DEF KLeave
<1>3. CASE cRoom[c] = Nil
  BY <1>1, <1>3, RestSteady, SteadyStep DEF KLeave, NoTask, clientVars
<1> QED BY <1>2, <1>3

\* The timer of a room ends.  There is no other, so either the room gets one
\* timer in its place or the room, which was silent for EXTIME, is left without.
LEMMA KDeleteChatRoomRooms ==
  ASSUME KTypeInv, KRoomInv, NEW r \in Rooms, KDeleteChatRoom(r)
  PROVE  KRoomInv'
<1>1. /\ task = NoTask
      /\ UNCHANGED <<registry, roomName, roomClients, quiet, cRoom>>
      /\ timers \in [Rooms -> Seq(0 .. EXTIME)]
      /\ roomExpire \in [Rooms -> 0 .. EXTIME]
      /\ quiet[r] \in 0 .. EXTIME
  BY DEF KDeleteChatRoom, Idle, clientVars, KTypeInv, KTypeOK, KRoomTypeOK
<1>2. PICK i \in DOMAIN timers[r] :
       \/ /\ timers' = [timers EXCEPT ![r] = Append(RemoveAt(@, i), roomExpire[r])]
          /\ UNCHANGED <<roomExpire, task>>
       \/ /\ roomExpire[r] = 0
          /\ timers' = [timers EXCEPT ![r] = RemoveAt(@, i)]
          /\ roomExpire' = [roomExpire EXCEPT ![r] = EXTIME]
          /\ task' = [op |-> "delete", who |-> Nil, arg |-> r]
  BY DEF KDeleteChatRoom
<1>3. /\ \A q \in Rooms : ~Deleting(q)
      /\ \A q \in Rooms : Registered(q)' <=> Registered(q)
      /\ \A d \in Clients : ~Joining(d) /\ ~Joining(d)'
  BY <1>1, <1>2 DEF Deleting, Registered, Joining, NoTask
<1>4. Registered(r) /\ Len(timers[r]) = 1
  <2>1. timers[r] # <<>>
    BY <1>2
  <2> QED BY <1>3, <2>1 DEF KRoomInv, RoomAgrees
<1>5. RemoveAt(timers[r], i) = <<>>
  <2>1. timers[r] \in Seq(0 .. EXTIME) /\ i \in 1 .. Len(timers[r])
    BY <1>1, <1>4, LenProperties
  <2>2. RemoveAt(timers[r], i) \in Seq(0 .. EXTIME) /\ Len(RemoveAt(timers[r], i)) = 0
    BY <1>4, <2>1, RemoveAtProperties
  <2> QED BY <2>2, EmptySeq
<1>6. NamesAgree' /\ MembershipAgrees'
  BY <1>1, <1>3, MembershipNext DEF KRoomInv, NamesAgree, MembershipAgrees, Registered
<1>7. ASSUME NEW q \in Rooms, q # r
      PROVE  RoomAgrees(q)'
  <2>1. /\ timers'[q] = timers[q]
        /\ roomExpire'[q] = roomExpire[q]
        /\ ~Deleting(q)'
    BY <1>1, <1>2, <1>7 DEF Deleting, NoTask
  <2>2. RoomAgrees(q)
    BY DEF KRoomInv
  <2> QED BY <1>1, <1>3, <2>1, <2>2 DEF RoomAgrees
<1>8. RoomAgrees(r)'
  <2>1. RoomAgrees(r)
    BY DEF KRoomInv
  <2>2. CASE /\ timers' = [timers EXCEPT ![r] = Append(RemoveAt(@, i), roomExpire[r])]
             /\ UNCHANGED <<roomExpire, task>>
    <3>1. Append(RemoveAt(timers[r], i), roomExpire[r]) = <<roomExpire[r]>>
      <4>1. PICK x : x = roomExpire[r]
        OBVIOUS
      <4>2. Append(<<>>, x) = <<x>>
        OBVIOUS
      <4> QED BY ONLY <1>5, <4>1, <4>2
    <3>2. timers'[r] = <<roomExpire[r]>>
      BY <1>1, <2>2, <3>1
    <3>3. Len(timers'[r]) = 1 /\ timers'[r][1] <= roomExpire'[r]
      <4>1. PICK x : x = roomExpire[r]
        OBVIOUS
      <4>2. x \in Nat /\ roomExpire'[r] = x
        BY <1>1, <2>2, <4>1, LimitsAssumption
      <4>3. PICK new : new = timers'[r]
        OBVIOUS
      <4>4. new = <<x>>
        BY ONLY <3>2, <4>1, <4>3
      <4>5. Len(new) = 1 /\ new[1] <= x
        BY ONLY <4>2, <4>4
      <4> QED BY ONLY <4>2, <4>3, <4>5
    <3>4. ~Deleting(r)'
      BY <1>1, <2>2 DEF Deleting, NoTask
    <3> QED BY <1>1, <1>3, <1>4, <2>1, <2>2, <3>3, <3>4 DEF RoomAgrees
  <2>3. CASE /\ roomExpire[r] = 0
             /\ timers' = [timers EXCEPT ![r] = RemoveAt(@, i)]
             /\ task' = [op |-> "delete", who |-> Nil, arg |-> r]
    <3>1. timers'[r] = <<>>
      BY <1>1, <1>5, <2>3
    <3>2. quiet[r] = EXTIME
      BY <1>1, <1>3, <1>4, <2>1, <2>3, LimitsAssumption DEF RoomAgrees
    <3>3. Deleting(r)'
      BY <2>3 DEF Deleting
    <3> QED BY <1>1, <1>3, <1>4, <2>1, <3>1, <3>2, <3>3 DEF RoomAgrees
  <2> QED BY <1>2, <2>2, <2>3
<1> QED BY <1>6, <1>7, <1>8 DEF KRoomInv

\* All members were told.  The room that goes is the one registered under its
\* name, and whoever is in it is on its list and put out.
LEMMA KFinishDeleteRooms ==
  ASSUME KTypeInv, KRoomInv, KFinishDelete
  PROVE  KRoomInv'
<1> DEFINE r == task.arg
<1>1. /\ task.op = "delete" /\ r \in Rooms
      /\ task' = NoTask
      /\ registry' = [registry EXCEPT ![roomName[r]] = Nil]
      /\ cRoom' = [c \in Clients |-> IF c \in Range(roomClients[r]) THEN Nil ELSE cRoom[c]]
      /\ UNCHANGED <<roomName, roomClients, roomExpire, timers, quiet>>
      /\ registry \in [Names -> Rooms \cup {Nil}]
  BY TaskTypes DEF KFinishDelete, Resume, KTypeInv, KTypeOK, KRoomTypeOK
<1>2. /\ \A d \in Clients : ~Joining(d) /\ ~Joining(d)'
      /\ \A q \in Rooms : (Deleting(q) <=> q = r) /\ ~Deleting(q)'
  BY <1>1 DEF Joining, Deleting, NoTask
<1>3. RoomAgrees(r) /\ Registered(r) /\ timers[r] = <<>>
  BY <1>1, <1>2 DEF KRoomInv, RoomAgrees
<1> HIDE DEF r
<1>4. PICK n \in Names : registry[n] = r /\ roomName[r] = n
  BY <1>1, <1>3, NilAssumption DEF Registered, KRoomInv, NamesAgree
<1>5. \A m \in Names : registry'[m] = IF m = n THEN Nil ELSE registry[m]
  BY <1>1, <1>4
<1>6. \A m \in Names : registry[m] = r => m = n
  BY <1>1, <1>4, NilAssumption DEF KRoomInv, NamesAgree
<1>7. \A q \in Rooms : Registered(q)' <=> Registered(q) /\ q # r
  BY <1>1, <1>4, <1>5, <1>6, NilAssumption DEF Registered
<1>8. NamesAgree'
  BY <1>1, <1>5 DEF KRoomInv, NamesAgree
<1>9. ASSUME NEW q \in Rooms
      PROVE  RoomAgrees(q)'
  <2>1. RoomAgrees(q)
    BY DEF KRoomInv
  <2>2. CASE q = r
    BY <1>1, <1>2, <1>3, <1>7, <2>2 DEF RoomAgrees
  <2>3. CASE q # r
    BY <1>1, <1>2, <1>7, <2>1, <2>3 DEF RoomAgrees
  <2> QED BY <2>2, <2>3
<1>10. \A q \in Rooms : IsInjective(roomClients'[q])
  BY <1>1 DEF KRoomInv, MembershipAgrees
<1>11. \A d \in Clients : d \in Range(roomClients[r]) <=> cRoom[d] = r
  BY <1>1, <1>2, <1>3 DEF KRoomInv, MembershipAgrees
<1>12. ASSUME NEW d \in Clients, cRoom'[d] # Nil
       PROVE  \E m \in Names : registry'[m] = cRoom'[d]
  <2>1. cRoom'[d] = cRoom[d] /\ cRoom[d] # r
    BY <1>1, <1>11, <1>12
  <2>2. PICK m \in Names : registry[m] = cRoom[d]
    BY <1>12, <2>1 DEF KRoomInv, MembershipAgrees, Registered
  <2> QED BY <1>4, <1>5, <2>1, <2>2
<1>13. ASSUME NEW q \in Rooms, \E m \in Names : registry'[m] = q, NEW d \in Clients
       PROVE  d \in Range(roomClients'[q]) <=> cRoom'[d] = q /\ ~Joining(d)'
  <2>1. Registered(q) /\ q # r
    BY <1>7, <1>13 DEF Registered
  <2>2. d \in Range(roomClients[q]) <=> cRoom[d] = q
    BY <1>2, <2>1 DEF KRoomInv, MembershipAgrees
  <2>3. cRoom'[d] = IF cRoom[d] = r THEN Nil ELSE cRoom[d]
    BY <1>1, <1>11
  <2> QED BY <1>1, <1>2, <2>1, <2>2, <2>3, NilAssumption
<1> QED BY <1>8, <1>9, <1>10, <1>12, <1>13, MembershipNext DEF KRoomInv

\* A member taken off the list of its room.
LEMMA RemoveMemberEffect ==
  ASSUME KTypeInv, KRoomInv, task.op # "join", NEW c \in Clients, cRoom[c] # Nil,
         RemoveMember(c)
  PROVE  /\ \A r \in Rooms : IsInjective(roomClients'[r])
         /\ \A r \in Rooms : Registered(r) =>
              \A d \in Clients :
                d \in Range(roomClients'[r]) <=> cRoom[d] = r /\ d # c
         /\ \A r \in Rooms : roomName[r] = Nil => roomClients'[r] = <<>>
<1> DEFINE q == cRoom[c]
<1>1. /\ q \in Rooms
      /\ Registered(q)
      /\ roomClients[q] \in Seq(Clients)
      /\ roomClients \in [Rooms -> Seq(Clients)]
      /\ IsInjective(roomClients[q])
  BY DEF KTypeInv, KTypeOK, KRoomTypeOK, ClientTypeOK, KRoomInv, MembershipAgrees
<1>2. /\ IsInjective(RemoveFirst(roomClients[q], c))
      /\ Range(RemoveFirst(roomClients[q], c)) = Range(roomClients[q]) \ {c}
  BY <1>1, RemoveFirstProperties
<1>3. \A r \in Rooms : roomClients'[r] = IF r = q THEN RemoveFirst(roomClients[q], c)
                                         ELSE roomClients[r]
  BY <1>1 DEF RemoveMember
<1>4. \A r \in Rooms : IsInjective(roomClients'[r])
  BY <1>2, <1>3 DEF KRoomInv, MembershipAgrees
<1>5. ASSUME NEW r \in Rooms, Registered(r), NEW d \in Clients
      PROVE  d \in Range(roomClients'[r]) <=> cRoom[d] = r /\ d # c
  <2>1. d \in Range(roomClients[r]) <=> cRoom[d] = r
    BY <1>5 DEF KRoomInv, MembershipAgrees, Joining
  <2>2. CASE r = q
    BY <1>2, <1>3, <2>1, <2>2
  <2>3. CASE r # q
    BY <1>3, <2>1, <2>3
  <2> QED BY <2>2, <2>3
<1>6. ASSUME NEW r \in Rooms, roomName[r] = Nil
      PROVE  roomClients'[r] = <<>>
  <2>1. r # q
    BY <1>1, <1>6, NilAssumption DEF Registered, KRoomInv, NamesAgree
  <2> QED BY <1>3, <1>6, <2>1 DEF KRoomInv, RoomAgrees
<1> QED BY <1>4, <1>5, <1>6

\* The end of a handler that takes the client off its room's list: the room is
\* left for the lobby (z = Nil) or for a room that the client begins to join.
LEMMA LeftStep ==
  ASSUME KTypeInv, KRoomInv, task.op \notin {"join", "delete"}, task'.op # "delete",
         NEW c \in Clients, cRoom[c] # Nil, RemoveMember(c),
         UNCHANGED <<registry, roomName, roomExpire, timers, quiet>>,
         NEW z, z # Nil => Registered(z),
         cRoom' = [cRoom EXCEPT ![c] = z],
         \A d \in Clients : Joining(d)' <=> d = c /\ z # Nil
  PROVE  KRoomInv'
<1>1. /\ \A r \in Rooms : IsInjective(roomClients'[r])
      /\ \A r \in Rooms : Registered(r) =>
           \A d \in Clients :
             d \in Range(roomClients'[r]) <=> cRoom[d] = r /\ d # c
      /\ \A r \in Rooms : roomName[r] = Nil => roomClients'[r] = <<>>
  BY RemoveMemberEffect
<1>2. \A d \in Clients : cRoom'[d] = IF d = c THEN z ELSE cRoom[d]
  BY DEF KTypeInv, KTypeOK, ClientTypeOK
<1>3. /\ \A r \in Rooms : ~Deleting(r) /\ ~Deleting(r)'
      /\ \A r \in Rooms : Registered(r)' <=> Registered(r)
  BY DEF Deleting, Registered
<1>4. NamesAgree' /\ \A r \in Rooms : RoomAgrees(r)'
  BY <1>1, <1>3 DEF KRoomInv, NamesAgree, RoomAgrees
<1>5. ASSUME NEW d \in Clients, cRoom'[d] # Nil
      PROVE  \E m \in Names : registry'[m] = cRoom'[d]
  BY <1>2, <1>5 DEF KRoomInv, MembershipAgrees, Registered
<1>6. ASSUME NEW r \in Rooms, \E m \in Names : registry'[m] = r, NEW d \in Clients
      PROVE  d \in Range(roomClients'[r]) <=> cRoom'[d] = r /\ ~Joining(d)'
  <2>1. d \in Range(roomClients'[r]) <=> cRoom[d] = r /\ d # c
    BY <1>1, <1>6 DEF Registered
  <2>2. r # Nil
    BY NilAssumption
  <2> QED BY <1>2, <2>1, <2>2
<1> QED BY <1>1, <1>4, <1>5, <1>6, MembershipNext DEF KRoomInv

LEMMA FinishRooms ==
  ASSUME KTypeInv, KRoomInv,
         FinishLeave \/ KFinishDepart \/ KFinishSwitch
  PROVE  KRoomInv'
<1> DEFINE c == task.who
<1>1. /\ c \in Clients
      /\ cRoom[c] # Nil
      /\ task.op \in {"leave", "depart", "switch"}
      /\ RemoveMember(c)
      /\ UNCHANGED <<registry, roomName, roomExpire, timers, quiet>>
  BY TaskTypes DEF FinishLeave, KFinishDepart, KFinishSwitch, Resume, KTypeInv, KTaskOK
<1>2. CASE FinishLeave \/ KFinishDepart
  <2>1. cRoom' = [cRoom EXCEPT ![c] = Nil]
    BY <1>2 DEF FinishLeave, KFinishDepart
  <2>2. task'.op \notin {"join", "delete"}
    <3>1. CASE FinishLeave
      BY <3>1 DEF FinishLeave, NoTask
    <3>2. CASE KFinishDepart
      <4>1. task' = [op |-> "close", who |-> c, arg |-> Nil]
        BY <3>2 DEF KFinishDepart, Resume, KTypeInv, KTypeOK, KHandlerTypeOK, KTask, Task,
                    NoTask
      <4> QED BY <4>1
    <3> QED BY <1>2, <3>1, <3>2
  <2>3. \A d \in Clients : ~Joining(d)'
    BY <2>2 DEF Joining
  <2> HIDE DEF c
  <2> QED BY <1>1, <2>1, <2>2, <2>3, LeftStep
<1>3. CASE KFinishSwitch
  <2> DEFINE z == registry[task.arg]
  <2>1. z # Nil /\ Registered(z)
    BY <1>3, TaskTypes DEF KFinishSwitch, Resume, KTypeInv, KTaskOK, Registered
  <2>2. /\ cRoom' = [cRoom EXCEPT ![c] = z]
        /\ task' = [op |-> "join", who |-> c, arg |-> Nil]
    BY <1>3 DEF KFinishSwitch, KJoin
  <2>3. \A d \in Clients : Joining(d)' <=> d = c
    BY <2>2 DEF Joining
  <2> HIDE DEF c, z
  <2> QED BY <1>1, <2>1, <2>2, <2>3, LeftStep
<1> QED BY <1>2, <1>3

LEMMA FinishJoinRooms ==
  ASSUME KTypeInv, KRoomInv, FinishJoin
  PROVE  KRoomInv'
<1> DEFINE c == task.who
           q == cRoom[c]
<1>1. /\ c \in Clients
      /\ q # Nil
      /\ \A d \in Clients : (Joining(d) <=> d = c) /\ ~Joining(d)'
      /\ \A r \in Rooms : ~Deleting(r) /\ ~Deleting(r)'
  BY TaskTypes DEF FinishJoin, Resume, KTypeInv, KTaskOK, NoTask, Joining, Deleting
<1>2. q \in Rooms /\ Registered(q)
  BY <1>1 DEF KTypeInv, KTypeOK, ClientTypeOK, KRoomInv, MembershipAgrees
<1>3. /\ roomClients' = [roomClients EXCEPT ![q] = Append(@, c)]
      /\ Broadcast(q, EntryOf("enter", c), Append(roomClients[q], c))
      /\ UNCHANGED <<registry, roomName, timers, cRoom>>
  BY DEF FinishJoin, clientVars
<1>4. /\ roomClients \in [Rooms -> Seq(Clients)]
      /\ roomClients[q] \in Seq(Clients)
      /\ IsInjective(roomClients[q])
      /\ c \notin Range(roomClients[q])
  BY <1>1, <1>2 DEF KTypeInv, KTypeOK, KRoomTypeOK, KRoomInv, MembershipAgrees
<1>5. /\ IsInjective(Append(roomClients[q], c))
      /\ Range(Append(roomClients[q], c)) = Range(roomClients[q]) \cup {c}
  BY <1>1, <1>4, AppendFreshProperties
<1>6. \A r \in Rooms : roomClients'[r] = IF r = q THEN Append(roomClients[q], c)
                                         ELSE roomClients[r]
  BY <1>2, <1>3, <1>4
<1>7. \A r \in Rooms : IsInjective(roomClients'[r])
  BY <1>5, <1>6 DEF KRoomInv, MembershipAgrees
<1>8. ASSUME NEW r \in Rooms, \E m \in Names : registry'[m] = r, NEW d \in Clients
      PROVE  d \in Range(roomClients'[r]) <=> cRoom'[d] = r /\ ~Joining(d)'
  <2>1. d \in Range(roomClients[r]) <=> cRoom[d] = r /\ d # c
    BY <1>1, <1>3, <1>8 DEF KRoomInv, MembershipAgrees, Registered
  <2>2. CASE r = q
    BY <1>1, <1>3, <1>5, <1>6, <2>1, <2>2
  <2>3. CASE r # q
    BY <1>1, <1>3, <1>6, <2>1, <2>3
  <2> QED BY <2>2, <2>3
<1>9. \A d \in Clients : cRoom'[d] # Nil => \E m \in Names : registry'[m] = cRoom'[d]
  BY <1>3 DEF KRoomInv, MembershipAgrees, Registered
<1>10. MembershipAgrees'
  BY <1>7, <1>8, <1>9, MembershipNext
<1>11. \A r \in Rooms :
         IF r = q THEN Used(r) ELSE roomExpire'[r] = roomExpire[r] /\ quiet'[r] = quiet[r]
  BY <1>2, <1>3, BroadcastUses
<1>12. \A r \in Rooms : Registered(r)' <=> Registered(r)
  BY <1>3 DEF Registered
<1> HIDE DEF c, q
<1>13. ASSUME NEW r \in Rooms
       PROVE  RoomAgrees(r)'
  <2>1. RoomAgrees(r)
    BY DEF KRoomInv
  <2>2. CASE r = q
    <3>1. Len(timers[r]) = 1 /\ timers[r][1] \in 0 .. EXTIME
      BY <1>1, <1>2, <2>1, <2>2, FirstTimer DEF RoomAgrees
    <3>2. Len(timers'[r]) = 1 /\ timers'[r][1] <= roomExpire'[r]
      BY <1>3, <1>11, <2>2, <3>1, LimitsAssumption DEF Used
    <3>3. quiet'[r] + roomExpire'[r] = EXTIME
      BY <1>11, <2>2, LimitsAssumption DEF Used
    <3>4. roomName'[r] # Nil
      BY <1>2, <1>3, <2>2, NilAssumption DEF Registered, KRoomInv, NamesAgree
    <3> QED BY <1>1, <1>2, <1>12, <2>2, <3>2, <3>3, <3>4 DEF RoomAgrees
  <2>3. CASE r # q
    BY <1>1, <1>3, <1>6, <1>11, <1>12, <2>1, <2>3 DEF RoomAgrees
  <2> QED BY <2>2, <2>3
<1>14. NamesAgree'
  BY <1>3 DEF KRoomInv, NamesAgree
<1> QED BY <1>10, <1>13, <1>14 DEF KRoomInv

\* Timers and expiry come closer together: no timer is overtaken.
LEMMA TickRooms ==
  ASSUME KTypeInv, KRoomInv, Tick
  PROVE  KRoomInv'
<1>1. UNCHANGED <<registry, roomName, roomClients, cRoom, task>>
  BY DEF Tick, clientVars
<1>2. MembershipAgrees' /\ NamesAgree'
  BY <1>1, MembershipNext DEF KRoomInv, MembershipAgrees, NamesAgree, Registered, Joining
<1>3. \A r \in Rooms : (Registered(r)' <=> Registered(r)) /\ (Deleting(r)' <=> Deleting(r))
  BY <1>1 DEF Registered, Deleting
<1>4. ASSUME NEW r \in Rooms
      PROVE  RoomAgrees(r)'
  <2>1. /\ timers[r] \in Seq(0 .. EXTIME)
        /\ roomExpire[r] \in 0 .. EXTIME
        /\ quiet[r] \in 0 .. EXTIME
    BY DEF KTypeInv, KTypeOK, KRoomTypeOK
  <2>2. /\ roomExpire'[r] = Sooner(roomExpire[r])
        /\ timers'[r] = [i \in DOMAIN timers[r] |-> Sooner(timers[r][i])]
        /\ quiet'[r] = IF quiet[r] < EXTIME THEN quiet[r] + 1 ELSE EXTIME
    BY DEF Tick
  <2>3. RoomAgrees(r)
    BY DEF KRoomInv
  <2>4. /\ quiet[r] + roomExpire[r] = EXTIME => quiet'[r] + roomExpire'[r] = EXTIME
        /\ quiet[r] = EXTIME => quiet'[r] = EXTIME
    <3>1. EXTIME \in Nat \ {0}
      BY LimitsAssumption
    <3>2. \A a, b \in 0 .. EXTIME :
            a + b = EXTIME => (IF a < EXTIME THEN a + 1 ELSE EXTIME) + Sooner(b) = EXTIME
      BY <3>1 DEF Sooner
    <3>3. quiet[r] = EXTIME => quiet'[r] = EXTIME
      BY <2>2, <3>1
    <3> QED BY <2>1, <2>2, <3>2, <3>3
  <2>5. ASSUME Len(timers[r]) = 1, timers[r][1] <= roomExpire[r]
        PROVE  Len(timers'[r]) = 1 /\ timers'[r][1] <= roomExpire'[r]
    <3>1. DOMAIN timers[r] = 1 .. 1 /\ timers[r][1] \in 0 .. EXTIME
      BY <2>1, <2>5, LenProperties, FirstTimer
    <3>2. timers'[r] = [i \in 1 .. 1 |-> Sooner(timers[r][i])]
      BY <2>2, <3>1
    <3>3. Sooner(timers[r][1]) <= Sooner(roomExpire[r])
      BY <2>1, <2>5, <3>1, LimitsAssumption DEF Sooner
    <3>4. timers'[r][1] = Sooner(timers[r][1]) /\ Len(timers'[r]) = 1
      <4> DEFINE f == [i \in 1 .. 1 |-> Sooner(timers[r][i])]
      <4>1. DOMAIN f = 1 .. 1 /\ f[1] = Sooner(timers[r][1])
        OBVIOUS
      <4>2. f \in [1 .. 1 -> {f[1]}]
        OBVIOUS
      <4>3. f \in Seq({f[1]})
        BY <4>2
      <4>4. Len(f) = 1
        BY <4>1, <4>3, LenProperties
      <4> QED BY <3>2, <4>1, <4>4
    <3> QED BY <2>2, <3>3, <3>4
  <2>6. ASSUME timers[r] = <<>>
        PROVE  timers'[r] = <<>>
    <3>1. DOMAIN timers[r] = {}
      BY <2>6
    <3> QED BY <2>2, <3>1
  <2> QED BY <1>1, <1>3, <2>3, <2>4, <2>5, <2>6 DEF RoomAgrees
<1> QED BY <1>2, <1>4 DEF KRoomInv

LEMMA KRoomNext == KTypeInv /\ KRoomInv /\ [KNext]_kenVars => KRoomInv'
<1> SUFFICES ASSUME KTypeInv, KRoomInv, [KNext]_kenVars PROVE KRoomInv'
  OBVIOUS
<1>1. CASE UNCHANGED kenVars
  BY <1>1, UnnoticedStep DEF kenVars, vars, clientVars
<1>2. CASE KLobby
  <2>1. ASSUME NEW c \in Clients, Quit(c)
        PROVE  KRoomInv'
    BY <2>1, UnnoticedStep DEF Quit, clientVars
  <2>2. CASE LobbySend
    BY <2>2, UnnoticedStep DEF LobbySend
  <2>3. CASE FinishRename
    BY <2>3, RestSteady, SteadyStep DEF FinishRename, Resume, NoTask
  <2>4. CASE KCloseOutgoing
    BY <2>4, RestSteady, SteadyStep DEF KCloseOutgoing, Resume, NoTask, clientVars
  <2> QED
    BY <1>2, <2>1, <2>2, <2>3, <2>4, KParseRooms, KLeaveRooms, KDeleteChatRoomRooms,
       FinishRooms, FinishJoinRooms, KFinishDeleteRooms DEF KLobby
<1>3. ASSUME NEW c \in Clients,
             \/ KAccept(c) \/ KAppend(c) \/ KSendWelcome(c) \/ WriterEnds(c)
             \/ Peer(c) \/ Flush(c) \/ FlushFails(c)
      PROVE  KRoomInv'
  <2>1. UNCHANGED <<roomVars, cRoom, task>>
    BY <1>3 DEF KAccept, KAppend, KSendWelcome, SendWelcome, WriterEnds, Flush, FlushFails,
                Peer, Hangup, LoseInput, TypeLine, clientVars
  <2> QED BY <2>1, UnnoticedStep
<1>4. CASE Alike /\ UNCHANGED listVars
  <2>1. Quiescent => UNCHANGED kenVars
    BY <1>4 DEF Quiescent, kenVars
  <2> QED BY <1>1, <1>3, <1>4, <2>1, TickRooms DEF Alike
<1> QED
  BY <1>1, <1>2, <1>3, <1>4 DEF KNext

------------------------------------------------------------------------------
(* The list of connected clients.                                           *)

\* The lobby found the client it takes off the list, unless an update of the
\* list was lost.
Found == task.op = "close" /\ ~raced => task.who \in lobbyView

CountInv == ClientsCounted /\ Found

LEMMA CountInit == KInit => CountInv
<1> SUFFICES ASSUME KInit PROVE CountInv
  OBVIOUS
<1>1. /\ fwd = [c \in Clients |-> "none"]
      /\ accepting = Nil /\ task = NoTask /\ curClients = {}
  BY Zenon DEF KInit, Init
<1> QED BY <1>1, NilAssumption DEF CountInv, ClientsCounted, Found, Leaving, NoTask

LEMMA PlacesKept ==
  ASSUME CountInv, UNCHANGED <<accepting, mainView, fwd, curClients, lobbyView, raced>>,
         \A c \in Clients : Leaving(c)' <=> Leaving(c),
         task'.op = "close" => task' = task
  PROVE  CountInv'
BY DEF CountInv, ClientsCounted, Found

\* main welcomes a client, or stores its append.
LEMMA ArrivalCounts ==
  ASSUME KTypeInv, Connections, CountInv, NEW c \in Clients,
         KAccept(c) \/ KAppend(c) \/ KSendWelcome(c)
  PROVE  CountInv'
<1>1. CASE KAccept(c)
  <2>1. /\ UNCHANGED <<fwd, curClients, lobbyView, raced, task>>
        /\ accepting = Nil
        /\ \/ UNCHANGED <<accepting, mainView>>
           \/ accepting' = c /\ mainView' = curClients
    BY <1>1, Zenon DEF KAccept
  <2>2. curClients # Nil
    BY ViewAssumption DEF KTypeInv, KTypeOK, NetTypeOK
  <2>3. \A d \in Clients : ~(accepting = d /\ mainView = Nil)
                           /\ ~(accepting' = d /\ mainView' = Nil)
    BY <2>1, <2>2, NilAssumption
  <2> QED BY <2>1, <2>3 DEF CountInv, ClientsCounted, Found, Leaving
<1>2. CASE KAppend(c)
  <2>1. /\ accepting = c /\ mainView # Nil
        /\ curClients' = mainView \cup {c}
        /\ raced' = (raced \/ mainView # curClients)
        /\ mainView' = Nil
        /\ UNCHANGED <<accepting, fwd, task, lobbyView>>
    BY <1>2, Zenon DEF KAppend
  <2>2. ClientsCounted'
    <3>1. SUFFICES ASSUME ~raced'
                   PROVE  curClients' = {d \in Clients :
                                           \/ accepting' = d /\ mainView' = Nil
                                           \/ fwd'[d] = "running"
                                           \/ Leaving(d)'}
      BY DEF ClientsCounted
    <3>2. ~raced /\ mainView = curClients
      BY <2>1, <3>1, Zenon
    <3>3. curClients = {d \in Clients : fwd[d] = "running" \/ Leaving(d)}
      BY <2>1, <3>2 DEF CountInv, ClientsCounted
    <3>4. \A d \in Clients : Leaving(d)' <=> Leaving(d)
      BY <2>1 DEF Leaving
    <3>5. /\ curClients' = curClients \cup {c}
          /\ accepting' = c /\ mainView' = Nil /\ fwd' = fwd
      BY <2>1, <3>2
    <3> QED BY <3>3, <3>4, <3>5
  <2>3. Found'
    <3>1. ~raced' => ~raced
      BY <2>1, Zenon
    <3> QED BY <2>1, <3>1, Zenon DEF CountInv, Found
  <2> QED BY <2>2, <2>3 DEF CountInv
<1>3. CASE KSendWelcome(c)
  <2>1. /\ accepting = c /\ mainView = Nil
        /\ accepting' = Nil
        /\ fwd' = [fwd EXCEPT ![c] = "running"]
        /\ UNCHANGED <<curClients, task, mainView, lobbyView, raced>>
    BY <1>3 DEF KSendWelcome, SendWelcome, listVars
  <2>2. \A d \in Clients : fwd'[d] = IF d = c THEN "running" ELSE fwd[d]
    BY <2>1 DEF KTypeInv, KTypeOK, NetTypeOK
  <2>3. \A d \in Clients : Leaving(d)' <=> Leaving(d)
    BY <2>1 DEF Leaving
  <2> QED BY <2>1, <2>2, <2>3, NilAssumption DEF CountInv, ClientsCounted, Found
<1> QED BY <1>1, <1>2, <1>3

\* The lobby handles the end of a client's input.
LEMMA DepartureCounts ==
  ASSUME KTypeInv, Connections, CountInv, NEW c \in Clients,
         KLeave(c) \/ (task.who = c /\ (KFinishDepart \/ KCloseOutgoing))
  PROVE  CountInv'
<1>1. CASE KLeave(c)
  <2>1. /\ task = NoTask
        /\ fwd[c] = "running"
        /\ fwd' = [fwd EXCEPT ![c] = "done"]
        /\ UNCHANGED <<accepting, curClients, mainView, raced>>
        /\ task'.who = c
        /\ \/ task'.op = "depart"
           \/ task'.op = "close" /\ lobbyView' = curClients
    BY <1>1 DEF KLeave, Idle, StartLeave
  <2>2. \A d \in Clients : fwd'[d] = IF d = c THEN "done" ELSE fwd[d]
    BY <2>1 DEF KTypeInv, KTypeOK, NetTypeOK
  <2>3. \A d \in Clients : ~Leaving(d) /\ (Leaving(d)' <=> d = c)
    BY <2>1 DEF Leaving, NoTask
  <2>4. accepting # c
    BY <2>1 DEF Connections
  <2>5. ClientsCounted'
    BY <2>1, <2>2, <2>3, <2>4 DEF CountInv, ClientsCounted
  <2>6. Found'
    BY <2>1 DEF CountInv, ClientsCounted, Found
  <2> QED BY <2>5, <2>6 DEF CountInv
<1>2. CASE task.who = c /\ KFinishDepart
  <2>1. /\ task.op = "depart"
        /\ UNCHANGED <<accepting, mainView, fwd, curClients, raced>>
        /\ lobbyView' = curClients
    BY <1>2 DEF KFinishDepart, Resume, netVars
  <2>2. task' = [op |-> "close", who |-> c, arg |-> Nil]
    BY <1>2, <2>1 DEF KFinishDepart, KTypeInv, KTypeOK, KHandlerTypeOK, KTask, Task, NoTask
  <2>3. \A d \in Clients : Leaving(d)' <=> Leaving(d)
    BY <1>2, <2>1, <2>2 DEF Leaving
  <2>4. Leaving(c)
    BY <1>2, <2>1 DEF Leaving
  <2>5. ClientsCounted'
    BY <2>1, <2>3 DEF CountInv, ClientsCounted
  <2>6. Found'
    BY <2>1, <2>2, <2>4 DEF CountInv, ClientsCounted, Found
  <2> QED BY <2>5, <2>6 DEF CountInv
<1>3. CASE task.who = c /\ KCloseOutgoing
  <2>1. /\ task.op = "close" /\ task' = NoTask
        /\ UNCHANGED <<accepting, mainView, fwd>>
    BY <1>3 DEF KCloseOutgoing, Resume
  <2>2. \/ /\ c \in lobbyView
           /\ curClients' = lobbyView \ {c}
           /\ raced' = (raced \/ lobbyView # curClients)
        \/ /\ c \notin lobbyView
           /\ UNCHANGED <<curClients, raced>>
    BY <1>3, Zenon DEF KCloseOutgoing
  <2>3. ClientsCounted'
    <3>1. SUFFICES ASSUME ~raced'
                   PROVE  curClients' = {d \in Clients :
                                           \/ accepting' = d /\ mainView' = Nil
                                           \/ fwd'[d] = "running"
                                           \/ Leaving(d)'}
      BY DEF ClientsCounted
    <3>2. ~raced
      BY <2>2, <3>1, Zenon
    <3>3. c \in lobbyView
      BY <1>3, <2>1, <3>2 DEF CountInv, Found
    <3>4. lobbyView = curClients /\ curClients' = lobbyView \ {c}
      BY <2>2, <3>1, <3>3, Zenon
    <3>5. fwd[c] = "done" /\ accepting # c
      BY <1>3, <2>1 DEF Connections
    <3>6. \A d \in Clients : (Leaving(d) <=> d = c) /\ ~Leaving(d)'
      BY <1>3, <2>1 DEF Leaving, NoTask
    <3> QED BY <2>1, <3>2, <3>4, <3>5, <3>6 DEF CountInv, ClientsCounted
  <2>4. Found'
    BY <2>1 DEF Found, NoTask
  <2> QED BY <2>3, <2>4 DEF CountInv
<1> QED BY <1>1, <1>2, <1>3

LEMMA CountNext == KTypeInv /\ Connections /\ CountInv /\ [KNext]_kenVars => CountInv'
<1> SUFFICES ASSUME KTypeInv, Connections, CountInv, [KNext]_kenVars PROVE CountInv'
  OBVIOUS
<1>1. CASE UNCHANGED kenVars
  BY <1>1, PlacesKept DEF kenVars, vars, netVars, listVars, Leaving
<1>2. CASE KLobby
  <2>1. ASSUME NEW c \in Clients, KParse(c)
        PROVE  CountInv'
    <3>1. /\ UNCHANGED <<accepting, mainView, fwd, curClients, lobbyView, raced>>
          /\ task = NoTask
      BY <2>1 DEF KParse, Take, Idle, listVars
    <3>2. task' = task \/ task'.op \in {"leave", "switch", "join", "rename"}
      <4>1. \E n : \/ KCreateChatRoom(c, n) \/ KJoinChatRoom(c, n) \/ LeaveCRoom(c)
                   \/ ListCRooms(c) \/ Help(c) \/ ChangeUsername(c, n) \/ SendMsg(c)
        BY <2>1 DEF KParse
      <4>2. PICK n : \/ KCreateChatRoom(c, n) \/ KJoinChatRoom(c, n) \/ LeaveCRoom(c)
                     \/ ListCRooms(c) \/ Help(c) \/ ChangeUsername(c, n) \/ SendMsg(c)
        BY ONLY <4>1
      <4>3. CASE KCreateChatRoom(c, n)
        BY ONLY <4>3 DEF KCreateChatRoom
      <4>4. CASE KJoinChatRoom(c, n)
        BY ONLY <4>4 DEF KJoinChatRoom, StartLeave, KJoin
      <4>5. CASE LeaveCRoom(c)
        BY ONLY <4>5 DEF LeaveCRoom, StartLeave
      <4>6. CASE ListCRooms(c) \/ Help(c) \/ SendMsg(c)
        BY ONLY <4>6 DEF ListCRooms, Help, SendMsg
      <4>7. CASE ChangeUsername(c, n)
        BY ONLY <4>7 DEF ChangeUsername
      <4> QED BY ONLY <4>2, <4>3, <4>4, <4>5, <4>6, <4>7
    <3> QED BY <3>1, <3>2, PlacesKept DEF Leaving, NoTask
  <2>2. ASSUME NEW c \in Clients, KLeave(c)
        PROVE  CountInv'
    BY <2>2, DepartureCounts
  <2>3. CASE KFinishDepart \/ KCloseOutgoing
    <3>1. task.who \in Clients
      BY <2>3, TaskTypes DEF KFinishDepart, KCloseOutgoing, Resume
    <3> QED BY <2>3, <3>1, DepartureCounts
  <2>4. ASSUME NEW c \in Clients, Quit(c), UNCHANGED listVars
        PROVE  CountInv'
    BY <2>4, PlacesKept DEF Quit, listVars, Leaving
  <2>5. CASE LobbySend /\ UNCHANGED listVars
    BY <2>5, PlacesKept DEF LobbySend, listVars, Leaving
  <2>6. ASSUME \/ (FinishLeave \/ FinishRename \/ FinishJoin) /\ UNCHANGED listVars
               \/ KFinishSwitch
               \/ KFinishDelete
        PROVE  CountInv'
    <3>1. /\ UNCHANGED <<accepting, mainView, fwd, curClients, lobbyView, raced>>
          /\ task.op \notin {"depart", "close"}
          /\ task'.op \notin {"depart", "close"}
      BY <2>6 DEF FinishLeave, FinishRename, FinishJoin, KFinishSwitch, KFinishDelete,
                  Resume, KJoin, netVars, listVars, NoTask
    <3> QED BY <3>1, PlacesKept DEF Leaving
  <2>7. ASSUME NEW r \in Rooms, KDeleteChatRoom(r)
        PROVE  CountInv'
    <3>1. /\ UNCHANGED <<accepting, mainView, fwd, curClients, lobbyView, raced>>
          /\ task = NoTask
          /\ task' = task \/ task'.op = "delete"
      BY <2>7 DEF KDeleteChatRoom, Idle, netVars, listVars
    <3> QED BY <3>1, PlacesKept DEF Leaving, NoTask
  <2> QED
    BY <1>2, <2>1, <2>2, <2>3, <2>4, <2>5, <2>6, <2>7 DEF KLobby
<1>3. ASSUME NEW c \in Clients, KAccept(c) \/ KAppend(c) \/ KSendWelcome(c)
      PROVE  CountInv'
  BY <1>3, ArrivalCounts
<1>4. ASSUME NEW c \in Clients,
             WriterEnds(c) \/ (UNCHANGED listVars /\ (Peer(c) \/ Flush(c) \/ FlushFails(c)))
      PROVE  CountInv'
  <2>1. UNCHANGED <<accepting, mainView, fwd, curClients, lobbyView, raced, task>>
    BY <1>4 DEF WriterEnds, Peer, Hangup, LoseInput, TypeLine, Flush, FlushFails, listVars
  <2> QED BY <2>1, PlacesKept DEF Leaving
<1>5. CASE Alike /\ UNCHANGED listVars
  <2>1. Quiescent => UNCHANGED kenVars
    BY <1>5 DEF Quiescent, kenVars
  <2>2. CASE Tick
    BY <1>5, <2>2, PlacesKept DEF Tick, netVars, listVars, Leaving
  <2> QED BY <1>1, <1>4, <1>5, <2>1, <2>2 DEF Alike
<1> QED
  BY <1>1, <1>2, <1>3, <1>4, <1>5 DEF KNext

------------------------------------------------------------------------------
(* The channels of those who left.                                          *)

\* All who are listed in a registered room have an open channel: a client's is
\* closed only after it left its room, and it joins no other.
LEMMA MembersOpen ==
  ASSUME KTypeInv, Connections, KRoomInv, NEW r \in Rooms, Registered(r)
  PROVE  /\ roomClients[r] \in Seq(Clients)
         /\ \A i \in 1 .. Len(roomClients[r]) : roomClients[r][i] \notin closed
<1>1. roomClients[r] \in Seq(Clients)
  BY DEF KTypeInv, KTypeOK, KRoomTypeOK
<1>2. ASSUME NEW i \in 1 .. Len(roomClients[r])
      PROVE  roomClients[r][i] \notin closed
  <2> DEFINE d == roomClients[r][i]
  <2>1. d \in Clients /\ d \in Range(roomClients[r])
    BY <1>1, LenProperties, ElementOfSeq DEF Range
  <2>2. cRoom[d] = r
    BY <2>1 DEF KRoomInv, MembershipAgrees
  <2> QED BY <2>1, <2>2, NilAssumption DEF Connections
<1> QED BY <1>1, <1>2

LEMMA ToEachOpen ==
  ASSUME NEW cs \in Seq(Clients), NEW m \in Entry \cup Notice,
         \A i \in 1 .. Len(cs) : cs[i] \notin closed,
         out' = ToEach(cs, m), closed' = closed
  PROVE  SendsReachOpenChannels'
BY ToEachType DEF SendsReachOpenChannels

LEMMA ToOneOpen ==
  ASSUME NEW c \in Clients, c \notin closed, closed' = closed,
         \A i \in DOMAIN out' : out'[i].to = c
  PROVE  SendsReachOpenChannels'
BY DEF SendsReachOpenChannels

\* A message to the room a client is in.
LEMMA SpeakingOpen ==
  ASSUME KTypeInv, Connections, KRoomInv, NEW c \in Clients, cRoom[c] # Nil,
         NEW e \in Entry, Broadcast(cRoom[c], e, roomClients[cRoom[c]]), closed' = closed
  PROVE  SendsReachOpenChannels'
<1>1. cRoom[c] \in Rooms /\ Registered(cRoom[c])
  BY DEF KTypeInv, KTypeOK, ClientTypeOK, KRoomInv, MembershipAgrees
<1> QED BY <1>1, MembersOpen, ToEachOpen DEF Broadcast

LEMMA StartLeaveOpen ==
  ASSUME KTypeInv, Connections, KRoomInv, NEW c \in Clients, cRoom[c] # Nil,
         NEW op, NEW arg, StartLeave(c, op, arg), closed' = closed
  PROVE  SendsReachOpenChannels'
<1>1. EntryOf("leave", c) \in Entry
  BY EntryOfType DEF KTypeInv
<1> QED BY <1>1, SpeakingOpen DEF StartLeave

LEMMA KParseOpen ==
  ASSUME KTypeInv, Connections, KRoomInv, NEW c \in Clients, KParse(c)
  PROVE  SendsReachOpenChannels'
<1> DEFINE msg == Head(inq[c])
<1>1. /\ c \notin closed
      /\ closed' = closed
  BY DEF KParse, Take, Connections, listVars
<1>2. msg \in Line
  <2>1. inq[c] \in Seq(Line) /\ inq[c] # <<>>
    BY DEF KTypeInv, KTypeOK, NetTypeOK, KParse, Take
  <2> QED BY <2>1, HeadTailProperties
<1>3. ASSUME NEW k, Reply(c, k)
      PROVE  SendsReachOpenChannels'
  <2>1. \A i \in DOMAIN out' : out'[i].to = c
    BY <1>3 DEF Reply
  <2> QED BY <1>1, <2>1, ToOneOpen
<1>4. CASE KCreateChatRoom(c, msg.arg)
  BY <1>3, <1>4 DEF KCreateChatRoom
<1>5. CASE KJoinChatRoom(c, msg.arg)
  <2>1. CASE registry[msg.arg] = Nil
    BY <1>3, <1>5, <2>1 DEF KJoinChatRoom
  <2>2. CASE registry[msg.arg] # Nil /\ cRoom[c] # Nil
    <3>1. StartLeave(c, "switch", msg.arg)
      BY <1>5, <2>2 DEF KJoinChatRoom
    <3> QED BY <1>1, <2>2, <3>1, StartLeaveOpen
  <2>3. CASE registry[msg.arg] # Nil /\ cRoom[c] = Nil
    <3>1. KJoin(c, registry[msg.arg])
      BY <1>5, <2>3 DEF KJoinChatRoom
    <3>2. \A i \in DOMAIN out' : out'[i].to = c
      BY <3>1 DEF KJoin
    <3> QED BY <1>1, <3>2, ToOneOpen
  <2> QED BY <2>1, <2>2, <2>3
<1>6. CASE LeaveCRoom(c)
  BY <1>1, <1>3, <1>6, StartLeaveOpen DEF LeaveCRoom
<1>7. CASE ListCRooms(c) \/ Help(c)
  <2>0. \A n, m : \A i \in DOMAIN Repeat(n, c, m) : Repeat(n, c, m)[i].to = c
    BY DEF Repeat
  <2>1. \A i \in DOMAIN out' : out'[i].to = c
    BY <1>7, <2>0 DEF ListCRooms, Help
  <2> QED BY <1>1, <2>1, ToOneOpen
<1>8. CASE msg.cmd = "name" /\ ChangeUsername(c, msg.arg)
  <2>1. [EntryOf("name", c) EXCEPT !.now = msg.arg] \in Entry
    <3>1. msg.arg \in Users
      BY <1>2, <1>8 DEF Line
    <3> QED BY <3>1 DEF KTypeInv, KTypeOK, ClientTypeOK, EntryOf, Entry
  <2>2. CASE cRoom[c] = Nil
    BY <1>3, <1>8, <2>2 DEF ChangeUsername
  <2>3. CASE cRoom[c] # Nil
    BY <1>1, <1>8, <2>1, <2>3, SpeakingOpen DEF ChangeUsername
  <2> QED BY <2>2, <2>3
<1>9. CASE SendMsg(c)
  <2>1. CASE cRoom[c] = Nil
    BY <1>3, <1>9, <2>1 DEF SendMsg
  <2>2. CASE cRoom[c] # Nil
    <3>1. EntryOf("say", c) \in Entry
      BY EntryOfType DEF KTypeInv
    <3> QED BY <1>1, <1>9, <2>2, <3>1, SpeakingOpen DEF SendMsg
  <2> QED BY <2>1, <2>2
<1> QED
  BY <1>4, <1>5, <1>6, <1>7, <1>8, <1>9 DEF KParse

LEMMA FinishJoinOpen ==
  ASSUME KTypeInv, Connections, KRoomInv, FinishJoin, closed' = closed
  PROVE  SendsReachOpenChannels'
<1> DEFINE c == task.who
           r == cRoom[c]
<1>1. c \in Clients /\ r # Nil /\ c \notin closed
  BY TaskTypes DEF FinishJoin, Resume, KTypeInv, KTaskOK, Connections
<1>2. r \in Rooms /\ Registered(r)
  BY <1>1 DEF KTypeInv, KTypeOK, ClientTypeOK, KRoomInv, MembershipAgrees
<1>3. /\ roomClients[r] \in Seq(Clients)
      /\ \A i \in 1 .. Len(roomClients[r]) : roomClients[r][i] \notin closed
  BY <1>2, MembersOpen
<1>4. out' = ToEach(Append(roomClients[r], c), EntryOf("enter", c))
  BY DEF FinishJoin, Broadcast
<1>5. EntryOf("enter", c) \in Entry
  BY <1>1, EntryOfType DEF KTypeInv
<1> HIDE DEF c, r
<1>6. /\ Append(roomClients[r], c) \in Seq(Clients)
      /\ Len(Append(roomClients[r], c)) = Len(roomClients[r]) + 1
      /\ \A i \in 1 .. Len(roomClients[r]) : Append(roomClients[r], c)[i] = roomClients[r][i]
      /\ Append(roomClients[r], c)[Len(roomClients[r]) + 1] = c
  BY <1>1, <1>3, AppendProperties
<1>7. Len(roomClients[r]) \in Nat
  BY <1>3, LenProperties
<1>8. \A i \in 1 .. Len(Append(roomClients[r], c)) : Append(roomClients[r], c)[i] \notin closed
  BY <1>1, <1>3, <1>6, <1>7
<1> QED BY <1>4, <1>5, <1>6, <1>8, ToEachOpen

LEMMA KDeleteChatRoomOpen ==
  ASSUME KTypeInv, Connections, KRoomInv, SendsReachOpenChannels,
         NEW r \in Rooms, KDeleteChatRoom(r)
  PROVE  SendsReachOpenChannels'
<1>1. closed' = closed /\ timers[r] # <<>>
  BY DEF KDeleteChatRoom, listVars
<1>2. Registered(r)
  BY <1>1 DEF KRoomInv, RoomAgrees
<1>3. RoomDeletion \in Notice
  BY DEF RoomDeletion, Notice
<1>4. out' = out \/ out' = ToEach(roomClients[r], RoomDeletion)
  BY DEF KDeleteChatRoom
<1>5. CASE out' = out
  BY <1>1, <1>5 DEF SendsReachOpenChannels
<1>6. CASE out' = ToEach(roomClients[r], RoomDeletion)
  BY <1>1, <1>2, <1>3, <1>6, MembersOpen, ToEachOpen
<1> QED BY <1>4, <1>5, <1>6

LEMMA LobbySendOpen ==
  ASSUME KTypeInv, SendsReachOpenChannels, LobbySend, closed' = closed
  PROVE  SendsReachOpenChannels'
<1>1. out \in Seq(Send) /\ out # <<>> /\ out' = Tail(out)
  BY DEF LobbySend, KTypeInv, KTypeOK, KHandlerTypeOK
<1>2. /\ out' \in Seq(Send)
      /\ Len(out') = Len(out) - 1
      /\ \A i \in 1 .. Len(out) - 1 : out'[i] = out[i + 1]
  BY <1>1, HeadTailProperties
<1>3. /\ Len(out) \in Nat
      /\ DOMAIN out = 1 .. Len(out)
      /\ DOMAIN out' = 1 .. Len(out) - 1
  BY <1>1, <1>2, LenProperties
<1> QED BY <1>2, <1>3 DEF SendsReachOpenChannels

LEMMA OpenNext ==
  KTypeInv /\ Connections /\ KRoomInv /\ SendsReachOpenChannels /\ [KNext]_kenVars
    => SendsReachOpenChannels'
<1> SUFFICES ASSUME KTypeInv, Connections, KRoomInv, SendsReachOpenChannels, [KNext]_kenVars
             PROVE  SendsReachOpenChannels'
  OBVIOUS
<1>1. CASE UNCHANGED <<out, closed>> \/ out' = <<>>
  BY <1>1 DEF SendsReachOpenChannels
<1>2. CASE UNCHANGED kenVars
  BY <1>1, <1>2 DEF kenVars, vars, listVars
<1>3. CASE KLobby
  <2>1. ASSUME NEW c \in Clients, KLeave(c)
        PROVE  SendsReachOpenChannels'
    <3>1. closed' = closed /\ out = <<>>
      BY <2>1 DEF KLeave, Idle
    <3> QED BY <1>1, <2>1, <3>1, StartLeaveOpen DEF KLeave
  <2>2. CASE KFinishDepart \/ KCloseOutgoing \/ KFinishDelete \/ FinishLeave \/ FinishRename
    BY <1>1, <2>2 DEF KFinishDepart, KCloseOutgoing, KFinishDelete, FinishLeave, FinishRename,
                      Resume
  <2>3. CASE KFinishSwitch
    <3>1. /\ \A i \in DOMAIN out' : out'[i].to = task.who
          /\ closed' = closed
          /\ task.who \in Clients
      BY <2>3, TaskTypes DEF KFinishSwitch, KJoin, Resume, listVars
    <3>2. task.who \notin closed
      BY <2>3, <3>1 DEF KFinishSwitch, Resume, Connections
    <3> QED BY <3>1, <3>2, ToOneOpen
  <2>4. ASSUME NEW c \in Clients, Quit(c), UNCHANGED listVars
        PROVE  SendsReachOpenChannels'
    BY <1>1, <2>4 DEF Quit, listVars
  <2>5. UNCHANGED listVars => closed' = closed
    BY DEF listVars
  <2> QED
    BY <1>3, <2>1, <2>2, <2>3, <2>4, <2>5, KParseOpen, KDeleteChatRoomOpen, LobbySendOpen,
       FinishJoinOpen DEF KLobby
<1>4. ASSUME NEW c \in Clients,
             \/ KAccept(c) \/ KAppend(c) \/ KSendWelcome(c) \/ WriterEnds(c)
             \/ (UNCHANGED listVars /\ (Peer(c) \/ Flush(c) \/ FlushFails(c)))
      PROVE  SendsReachOpenChannels'
  BY <1>1, <1>4 DEF KAccept, KAppend, KSendWelcome, SendWelcome, WriterEnds, Flush,
                    FlushFails, Peer, Hangup, LoseInput, TypeLine, listVars
<1>5. CASE Alike /\ UNCHANGED listVars
  <2>1. Quiescent => UNCHANGED kenVars
    BY <1>5 DEF Quiescent, kenVars
  <2>2. Tick => UNCHANGED <<out, closed>>
    BY <1>5 DEF Tick, listVars
  <2> QED BY <1>1, <1>2, <1>4, <1>5, <2>1, <2>2 DEF Alike
<1> QED
  BY <1>2, <1>3, <1>4, <1>5 DEF KNext

------------------------------------------------------------------------------
(* The theorems.                                                            *)

KInv == KTypeInv /\ Connections /\ KRoomInv /\ CountInv /\ SendsReachOpenChannels

LEMMA Invariance == KSpec => []KInv
<1>1. KInit => KInv
  <2>1. KInit => out = <<>>
    BY Zenon DEF KInit, Init
  <2>2. KInit => SendsReachOpenChannels
    BY <2>1 DEF SendsReachOpenChannels
  <2> QED BY <2>2, KTypeInit, ConnectionsInit, KRoomInit, CountInit DEF KInv
<1>2. KInv /\ [KNext]_kenVars => KInv'
  BY KTypeNext, ConnectionsNext, KRoomNext, CountNext, OpenNext DEF KInv
<1> QED BY <1>1, <1>2, PTL DEF KSpec

\* The two records of who is in a room agree in every reachable state, though
\* departures, deletions and moves are cut at their sends.
THEOREM KMembers == KSpec => []MembershipAgrees
<1>1. KInv => MembershipAgrees
  BY DEF KInv, KRoomInv
<1> QED BY <1>1, Invariance, PTL

\* A registered room has one timer that does not sleep past its expiry, and a
\* room whose deletion has begun has none and gets none.
THEOREM KTimers == KSpec => []KTimersAccounted
<1>1. KInv => KTimersAccounted
  <2> SUFFICES ASSUME KInv PROVE KTimersAccounted
    OBVIOUS
  <2>1. ASSUME NEW r \in Rooms
        PROVE  Deleting(r) <=> task = [op |-> "delete", who |-> Nil, arg |-> r]
    BY DEF Deleting, KInv, KTypeInv, KTypeOK, KHandlerTypeOK, KTask, Task, NoTask
  <2> QED BY <2>1 DEF KInv, KRoomInv, RoomAgrees, KTimersAccounted
<1> QED BY <1>1, Invariance, PTL

\* Nothing is ever sent on a channel that a departure has closed.
THEOREM NoSendOnClosed == KSpec => []SendsReachOpenChannels
<1>1. KInv => SendsReachOpenChannels
  BY DEF KInv
<1> QED BY <1>1, Invariance, PTL

\* As long as no update of lobby.clients was lost, it counts the clients whose
\* place was not given back, and no others.
THEOREM PlacesCounted == KSpec => []ClientsCounted
<1>1. KInv => ClientsCounted
  BY DEF KInv, CountInv
<1> QED BY <1>1, Invariance, PTL

\* Only a room that was told of its deletion is ever unregistered.
LEMMA DeletionStep ==
  ASSUME KInv, [KNext]_kenVars
  PROVE  \A r \in Rooms : Registered(r) /\ ~Registered(r)' => quiet[r] = EXTIME
<1> SUFFICES ASSUME NEW r \in Rooms, Registered(r), ~Registered(r)'
             PROVE  quiet[r] = EXTIME
  OBVIOUS
<1>1. registry' # registry
  BY DEF Registered
<1>2. ASSUME NEW c \in Clients, KParse(c)
      PROVE  FALSE
  <2> DEFINE msg == Head(inq[c])
  <2>1. inq[c] \in Seq(Line) /\ inq[c] # <<>>
    BY <1>2 DEF KParse, Take, KInv, KTypeInv, KTypeOK, NetTypeOK
  <2>2. msg \in Line
    BY <2>1, HeadTailProperties
  <2>3. ~ChangeUsername(c, msg.arg) /\ ~SendMsg(c)
    BY <1>1 DEF ChangeUsername, SendMsg, roomVars
  <2>4. msg.cmd = "create" /\ KCreateChatRoom(c, msg.arg)
    BY <1>1, <1>2, <2>3 DEF KParse, KJoinChatRoom, LeaveCRoom, ListCRooms, Help,
                            StartLeave, roomVars
  <2>5. msg.arg \in Names
    BY <2>2, <2>4 DEF Line
  <2>6. /\ registry[msg.arg] = Nil
        /\ \E q \in Rooms : registry' = [registry EXCEPT ![msg.arg] = q]
    BY <1>1, <2>4 DEF KCreateChatRoom, roomVars
  <2>7. PICK n \in Names : registry[n] = r
    BY DEF Registered
  <2>8. registry'[n] = r
    BY <2>5, <2>6, <2>7, NilAssumption DEF KInv, KTypeInv, KTypeOK, KRoomTypeOK
  <2> QED BY <2>8 DEF Registered
<1>3. KFinishDelete
  <2>1. ASSUME NEW c \in Clients
        PROVE  /\ ~KAccept(c) /\ ~KAppend(c) /\ ~KSendWelcome(c) /\ ~WriterEnds(c)
               /\ ~Peer(c) /\ ~Flush(c) /\ ~FlushFails(c) /\ ~Quit(c) /\ ~KLeave(c)
    BY <1>1 DEF KAccept, KAppend, KSendWelcome, SendWelcome, WriterEnds, Peer, Hangup,
                LoseInput, TypeLine, Flush, FlushFails, Quit, KLeave, StartLeave, roomVars
  <2>2. ~LobbySend /\ ~Tick /\ ~Quiescent /\ ~UNCHANGED kenVars
    BY <1>1 DEF LobbySend, Tick, Quiescent, kenVars, vars, roomVars
  <2>3. /\ ~FinishLeave /\ ~FinishRename /\ ~FinishJoin
        /\ ~KFinishSwitch /\ ~KFinishDepart /\ ~KCloseOutgoing
    BY <1>1 DEF FinishLeave, FinishRename, FinishJoin, KFinishSwitch, KFinishDepart,
                KCloseOutgoing, roomVars
  <2>4. \A q \in Rooms : ~KDeleteChatRoom(q)
    BY <1>1 DEF KDeleteChatRoom
  <2> QED BY <1>2, <2>1, <2>2, <2>3, <2>4 DEF KNext, KLobby, Alike
<1>4. /\ task.op = "delete" /\ task.arg \in Rooms
      /\ registry' = [registry EXCEPT ![roomName[task.arg]] = Nil]
  BY <1>3, TaskTypes DEF KFinishDelete, Resume, KInv
<1>5. Deleting(task.arg) /\ Registered(task.arg) /\ quiet[task.arg] = EXTIME
  BY <1>4 DEF Deleting, KInv, KRoomInv, RoomAgrees
<1>6. PICK m \in Names : registry[m] = task.arg /\ roomName[task.arg] = m
  BY <1>4, <1>5, NilAssumption DEF KInv, KRoomInv, NamesAgree, Registered
<1>7. PICK n \in Names : registry[n] = r
  BY DEF Registered
<1>8. n = m
  BY <1>4, <1>6, <1>7 DEF Registered, KInv, KTypeInv, KTypeOK, KRoomTypeOK
<1> QED BY <1>5, <1>6, <1>7, <1>8

\* A room is deleted only after EXTIME without a word in it, though the news of
\* its deletion is a broadcast, which renews its expiry.
THEOREM KDeletion == KSpec => DeletionOnlyWhenInactive
<1>1. KInv /\ [KNext]_kenVars
        => [\A r \in Rooms : Registered(r) /\ ~Registered(r)' => quiet[r] = EXTIME]_vars
  BY DeletionStep
<1> QED BY <1>1, Invariance, PTL DEF KSpec, DeletionOnlyWhenInactive

------------------------------------------------------------------------------
(* The entries of a log with and without the news of a deletion.            *)

EntriesOf(s) == ElementsAt(s, {i \in DOMAIN s : s[i] \in Entry})

LEMMA EntriesAtFront ==
  ASSUME NEW s, NEW t \in Seq(Entry), Len(t) <= Len(s), Len(s) \in Nat,
         DOMAIN s = 1 .. Len(s), \A i \in 1 .. Len(t) : s[i] = t[i],
         \A i \in Len(t) + 1 .. Len(s) : s[i] \notin Entry
  PROVE  EntriesOf(s) = t
<1>1. /\ Len(t) \in Nat /\ DOMAIN t = 1 .. Len(t)
      /\ \A i \in 1 .. Len(t) : t[i] \in Entry
  BY LenProperties, ElementOfSeq
<1>2. {i \in DOMAIN s : s[i] \in Entry} = 0 + 1 .. 0 + Len(t)
  BY <1>1
<1>3. ElementsAt(s, 0 + 1 .. 0 + Len(t)) = [k \in 1 .. Len(t) |-> s[0 + k]]
  <2>1. \A a, n \in Nat : CountedOut(s, a, n)
    BY ConsecutiveElements, Zenon
  <2>2. 0 \in Nat
    OBVIOUS
  <2>3. CountedOut(s, 0, Len(t))
    BY <1>1, <2>1, <2>2, Zenon
  <2> QED BY ONLY <2>3 DEF CountedOut
<1>4. [k \in 1 .. Len(t) |-> s[0 + k]] = t
  <2>1. \A k \in 1 .. Len(t) : s[0 + k] = t[k]
    BY <1>1
  <2>2. t = [k \in 1 .. Len(t) |-> t[k]]
    BY <1>1
  <2> QED BY <2>1, <2>2
<1> QED BY <1>2, <1>3, <1>4 DEF EntriesOf

LEMMA EntriesPlain == \A s \in Seq(Entry) : EntriesOf(s) = s
<1> SUFFICES ASSUME NEW s \in Seq(Entry) PROVE EntriesOf(s) = s
  OBVIOUS
<1>1. Len(s) \in Nat /\ DOMAIN s = 1 .. Len(s)
  BY LenProperties
<1>2. Len(s) <= Len(s) /\ \A i \in Len(s) + 1 .. Len(s) : s[i] \notin Entry
  BY <1>1
<1> QED BY <1>1, <1>2, EntriesAtFront

LEMMA EntriesDeleted ==
  \A s \in Seq(Entry) : EntriesOf(Append(s, RoomDeletion)) = s
<1> SUFFICES ASSUME NEW s \in Seq(Entry) PROVE EntriesOf(Append(s, RoomDeletion)) = s
  OBVIOUS
<1> DEFINE t == Append(s, RoomDeletion)
<1>1. RoomDeletion \notin Entry
  BY DEF RoomDeletion, Entry
<1>2. s \in Seq(Entry \cup {RoomDeletion})
  BY SeqMonotonic
<1>3. /\ t \in Seq(Entry \cup {RoomDeletion})
      /\ Len(t) = Len(s) + 1
      /\ \A i \in 1 .. Len(s) : t[i] = s[i]
      /\ t[Len(s) + 1] = RoomDeletion
  BY <1>2, AppendProperties
<1>4. Len(s) \in Nat /\ DOMAIN t = 1 .. Len(t)
  BY <1>3, LenProperties
<1> HIDE DEF t
<1>5. EntriesOf(t) = s
  <2>1. \A i \in Len(s) + 1 .. Len(t) : t[i] \notin Entry
    BY <1>1, <1>3, <1>4
  <2> QED BY <1>3, <1>4, <2>1, EntriesAtFront
<1> QED BY <1>5 DEF t

LEMMA ShownIsEntries == \A r : Shown(r) = EntriesOf(roomMsgs[r])
BY DEF Shown, EntriesOf

------------------------------------------------------------------------------
(* Logs, and what is handed out of them.                                    *)

\* A room that is created or that was not told of its deletion yet.
Untold(r) == (Registered(r) /\ ~Deleting(r)) \/ roomName[r] = Nil

\* The news of its deletion is the last thing in a room's log.
LogsPlain ==
  \A r \in Rooms :
    IF Untold(r)
    THEN roomMsgs[r] \in Seq(Entry)
    ELSE \E s \in Seq(Entry) : roomMsgs[r] = Append(s, RoomDeletion)

LogOf(c) == IF cRoom[c] = Nil THEN <<>> ELSE Shown(cRoom[c])

\* What is to be sent to c from position a on are n entries, which are those of
\* the log that c does not have yet.
Owed(c, log, a, n) ==
  /\ a + n <= Len(out)
  /\ \A i \in 1 .. Len(out) : out[i].to = c /\ out[i].msg \in Entry <=> i \in a + 1 .. a + n
  /\ Len(log) = Len(got[c]) + n
  /\ \A j \in 1 .. Len(got[c]) : got[c][j] = log[j]
  /\ \A k \in 1 .. n : out[a + k].msg = log[Len(got[c]) + k]

Delivery == \A c \in Clients : \E a, n \in Nat : Owed(c, LogOf(c), a, n)

\* The invariant, and what a step that keeps it is to ChatRooms.
DInv == KInv /\ LogsPlain /\ Delivery

KFollows ==
  /\ LogsPlain'
  /\ Delivery'
  /\ KChat!Next \/ UNCHANGED KChat!vars

KStatus(r) == IF roomName[r] = Nil THEN "fresh"
              ELSE IF Registered(r) THEN "open" ELSE "closed"

LEMMA Owing ==
  ASSUME NEW c, NEW log, log = LogOf(c)', NEW b \in Nat, NEW k \in Nat,
         Owed(c, log, b, k)'
  PROVE  \E a, n \in Nat : Owed(c, LogOf(c), a, n)'
BY DEF Owed

LEMMA ShownType ==
  ASSUME LogsPlain, NEW r \in Rooms
  PROVE  /\ Shown(r) \in Seq(Entry)
         /\ Untold(r) => Shown(r) = roomMsgs[r]
<1>1. CASE Untold(r)
  BY <1>1, ShownIsEntries, EntriesPlain DEF LogsPlain
<1>2. CASE ~Untold(r)
  BY <1>2, ShownIsEntries, EntriesDeleted DEF LogsPlain
<1> QED BY <1>1, <1>2

LEMMA LogType ==
  ASSUME KInv, LogsPlain, NEW c \in Clients
  PROVE  LogOf(c) \in Seq(Entry) /\ Len(LogOf(c)) \in Nat
<1>1. cRoom[c] \in Rooms \cup {Nil}
  BY DEF KInv, KTypeInv, KTypeOK, ClientTypeOK
<1>2. LogOf(c) \in Seq(Entry)
  BY <1>1, ShownType, EmptySeq DEF LogOf
<1> QED BY <1>2, LenProperties

\* When a handler's sends are through, everybody has the whole log.
LEMMA Drained ==
  ASSUME DInv, out = <<>>
  PROVE  \A c \in Clients : got[c] = LogOf(c)
<1> SUFFICES ASSUME NEW c \in Clients PROVE got[c] = LogOf(c)
  OBVIOUS
<1>1. PICK log \in Seq(Entry) : log = LogOf(c)
  BY LogType DEF DInv
<1>2. PICK a \in Nat, n \in Nat : Owed(c, log, a, n)
  BY <1>1 DEF DInv, Delivery
<1>3. PICK g \in Seq(Entry) : g = got[c]
  BY DEF DInv, KInv, KTypeInv, KTypeOK, ClientTypeOK
<1>4. Len(out) = 0
  OBVIOUS
<1>5. Len(log) = Len(g) /\ \A j \in 1 .. Len(g) : g[j] = log[j]
  <2>1. n = 0
    BY <1>2, <1>4 DEF Owed
  <2>2. Len(g) \in Nat
    BY LenProperties
  <2> QED BY <1>2, <1>3, <2>1, <2>2 DEF Owed
<1>6. g = log
  BY <1>5, SeqEqual
<1> QED BY <1>1, <1>3, <1>6

\* Nothing of a log is under way, and nothing is owed.
LEMMA Settled ==
  ASSUME KInv', LogsPlain', \A c \in Clients : got'[c] = LogOf(c)',
         \A i \in 1 .. Len(out') : out'[i].msg \notin Entry
  PROVE  Delivery'
<1> SUFFICES ASSUME NEW c \in Clients PROVE \E a, n \in Nat : Owed(c, LogOf(c), a, n)'
  BY DEF Delivery
<1>1. Len(out') \in Nat
  BY LenProperties DEF KInv, KTypeInv, KTypeOK, KHandlerTypeOK
<1>2. PICK log : log = LogOf(c)'
  OBVIOUS
<1>3. got'[c] = log /\ Len(log) \in Nat
  BY <1>2, LenProperties DEF KInv, KTypeInv, KTypeOK, ClientTypeOK
<1>4. Owed(c, log, 0, 0)'
  BY <1>1, <1>3 DEF Owed
<1> QED BY <1>2, <1>4, Owing

\* A step in which no room is created or told of its deletion, or gone.
LEMMA LogsKept ==
  ASSUME LogsPlain, UNCHANGED roomMsgs, \A r \in Rooms : Untold(r)' <=> Untold(r)
  PROVE  LogsPlain'
BY DEF LogsPlain

LEMMA LogOfKept ==
  ASSUME NEW c \in Clients, UNCHANGED roomMsgs, cRoom'[c] = cRoom[c]
  PROVE  LogOf(c)' = LogOf(c)
BY DEF LogOf, Shown

LEMMA ChatStutter ==
  ASSUME UNCHANGED <<registry, roomName, roomMsgs, cRoom, got>>
  PROVE  UNCHANGED KChat!vars
BY DEF KChat!vars, Registered, Shown

\* A step that leaves rooms, seats and sends alone.
LEMMA SteadyFollows ==
  ASSUME DInv, UNCHANGED <<registry, roomName, roomMsgs, cRoom, got, out>>,
         \A r \in Rooms : Deleting(r)' <=> Deleting(r)
  PROVE  KFollows
<1>1. \A r \in Rooms : Untold(r)' <=> Untold(r)
  BY DEF Untold, Registered
<1>2. LogsPlain'
  BY <1>1, LogsKept DEF DInv
<1>3. \A c \in Clients : LogOf(c)' = LogOf(c)
  BY LogOfKept
<1>4. ASSUME NEW c \in Clients
      PROVE  \E a, n \in Nat : Owed(c, LogOf(c), a, n)'
  <2>1. PICK log : log = LogOf(c)
    OBVIOUS
  <2>2. PICK a \in Nat, n \in Nat : Owed(c, log, a, n)
    BY <2>1 DEF DInv, Delivery
  <2>3. log = LogOf(c)'
    BY <1>3, <2>1
  <2>4. Owed(c, log, a, n)'
    BY <2>2 DEF Owed
  <2> QED BY <2>3, <2>4, Owing
<1> QED BY <1>2, <1>4, ChatStutter DEF KFollows, Delivery

\* A step that is at most an answer to the one who asked.
LEMMA AnswerFollows ==
  ASSUME DInv, KInv', out = <<>>, UNCHANGED <<registry, roomName, roomMsgs, cRoom, got>>,
         \A r \in Rooms : Deleting(r)' <=> Deleting(r),
         \A i \in 1 .. Len(out') : out'[i].msg \notin Entry
  PROVE  KFollows
<1>1. \A r \in Rooms : Untold(r)' <=> Untold(r)
  BY DEF Untold, Registered
<1>2. LogsPlain'
  BY <1>1, LogsKept DEF DInv
<1>3. \A c \in Clients : LogOf(c)' = LogOf(c)
  BY LogOfKept
<1>4. \A c \in Clients : got'[c] = LogOf(c)'
  BY <1>3, Drained
<1>5. Delivery'
  BY <1>2, <1>4, Settled
<1> QED BY <1>2, <1>5, ChatStutter DEF KFollows

------------------------------------------------------------------------------
(* The steps that add to a log, replay it, or hand out of it.               *)

\* An entry is logged in the room of its author and is under way to all of its
\* members.
LEMMA PostFollows ==
  ASSUME DInv, KInv', out = <<>>, \A r \in Rooms : ~Deleting(r) /\ ~Deleting(r)',
         NEW c \in Clients, cRoom[c] # Nil, NEW e \in Entry, e.who = c,
         NEW members \in Seq(Clients), IsInjective(members),
         \A d \in Clients : d \in Range(members) <=> cRoom[d] = cRoom[c],
         Broadcast(cRoom[c], e, members),
         UNCHANGED <<registry, roomName, cRoom, got>>
  PROVE  KFollows
<1>1. PICK r \in Rooms : r = cRoom[c] /\ Registered(r)
  BY DEF DInv, KInv, KTypeInv, KTypeOK, ClientTypeOK, KRoomInv, MembershipAgrees
<1>2. PICK s \in Seq(Entry) : s = roomMsgs[r] /\ s = Shown(r)
  <2>1. Untold(r)
    BY <1>1 DEF Untold
  <2> QED BY <2>1, ShownType DEF DInv
<1>3. /\ Append(s, e) \in Seq(Entry)
      /\ Len(s) \in Nat /\ Len(Append(s, e)) = Len(s) + 1
      /\ \A j \in 1 .. Len(s) : Append(s, e)[j] = s[j]
      /\ Append(s, e)[Len(s) + 1] = e
  BY AppendProperties, LenProperties
<1>4. \A q \in Rooms : roomMsgs'[q] = IF q = r THEN Append(s, e) ELSE roomMsgs[q]
  BY <1>1, <1>2 DEF Broadcast, DInv, KInv, KTypeInv, KTypeOK, KRoomTypeOK
<1>5. LogsPlain'
  <2>1. \A q \in Rooms : Untold(q)' <=> Untold(q)
    BY DEF Untold, Registered
  <2>2. Untold(r)
    BY <1>1 DEF Untold
  <2>3. \A q \in Rooms \ {r} : roomMsgs'[q] = roomMsgs[q]
    BY <1>4
  <2>4. roomMsgs'[r] \in Seq(Entry)
    BY <1>3, <1>4
  <2>5. ASSUME NEW q \in Rooms, q # r
        PROVE  IF Untold(q) THEN roomMsgs'[q] \in Seq(Entry)
               ELSE \E z \in Seq(Entry) : roomMsgs'[q] = Append(z, RoomDeletion)
    BY <2>3, <2>5, Zenon DEF DInv, LogsPlain
  <2> QED BY <2>1, <2>2, <2>4, <2>5, Zenon DEF LogsPlain
<1>6. \A q \in Rooms : Shown(q)' = IF q = r THEN Append(s, e) ELSE Shown(q)
  <2>1. \A q \in Rooms : Shown(q)' = EntriesOf(roomMsgs'[q])
    BY DEF Shown, EntriesOf
  <2> QED BY <1>3, <1>4, <2>1, ShownIsEntries, EntriesPlain
<1>7. /\ Len(members) \in Nat
      /\ DOMAIN members = 1 .. Len(members)
      /\ \A i \in 1 .. Len(members) : members[i] \in Clients
  BY LenProperties, ElementOfSeq
<1>8. /\ Len(out') = Len(members)
      /\ \A i \in 1 .. Len(members) : out'[i].to = members[i] /\ out'[i].msg = e
  <2>1. out' = [i \in 1 .. Len(members) |-> [to |-> members[i], msg |-> e]]
    BY <1>7 DEF Broadcast, ToEach
  <2>2. \A i \in 1 .. Len(members) : [to |-> members[i], msg |-> e] \in Send
    BY <1>7 DEF Send
  <2> QED BY <1>7, <2>1, <2>2
<1>9. ASSUME NEW d \in Clients
      PROVE  \E a, n \in Nat : Owed(d, LogOf(d), a, n)'
  <2>1. cRoom[d] \in Rooms \cup {Nil} /\ r # Nil
    BY NilAssumption DEF DInv, KInv, KTypeInv, KTypeOK, ClientTypeOK
  <2>2. LogOf(d)' = IF cRoom[d] = r THEN Append(s, e) ELSE LogOf(d)
    BY <1>6, <2>1 DEF LogOf
  <2>3. got'[d] = LogOf(d)
    BY Drained
  <2>4. CASE cRoom[d] = r
    <3>1. PICK i \in 1 .. Len(members) : members[i] = d
      BY <1>1, <1>7, <2>4 DEF Range
    <3>2. \A j \in 1 .. Len(members) : members[j] = d => j = i
      BY <1>7, <3>1 DEF IsInjective
    <3>3. got'[d] = s
      BY <1>2, <2>1, <2>3, <2>4 DEF LogOf
    <3>4. \A j \in 1 .. Len(out') :
            out'[j].to = d /\ out'[j].msg \in Entry <=> j \in (i - 1) + 1 .. (i - 1) + 1
      BY <1>7, <1>8, <3>1, <3>2
    <3>5. Owed(d, Append(s, e), i - 1, 1)'
      BY <1>3, <1>7, <1>8, <3>3, <3>4 DEF Owed
    <3>6. i - 1 \in Nat /\ 1 \in Nat
      BY <1>7
    <3> QED BY <2>2, <2>4, <3>5, <3>6, Owing
  <2>5. CASE cRoom[d] # r
    <3>1. PICK log \in Seq(Entry) : log = LogOf(d)
      BY LogType DEF DInv
    <3>2. Len(log) \in Nat /\ log = LogOf(d)' /\ log = got'[d]
      BY <2>2, <2>3, <2>5, <3>1, LenProperties
    <3>3. \A i \in 1 .. Len(members) : members[i] # d
      BY <1>1, <1>7, <2>5 DEF Range
    <3>4. Owed(d, log, 0, 0)'
      BY <1>7, <1>8, <3>2, <3>3 DEF Owed
    <3> QED BY <3>2, <3>4, Owing
  <2> QED BY <2>4, <2>5
<1>10. KChat!Post(c, e)
  <2>1. \A q \in Rooms : KStatus(q)' = KStatus(q)
    BY DEF KStatus, Registered
  <2>2. [q \in Rooms |-> Shown(q)]'
          = [[q \in Rooms |-> Shown(q)] EXCEPT ![cRoom[c]] = Append(@, e)]
    BY <1>1, <1>2, <1>6
  <2> QED BY <2>1, <2>2 DEF KChat!Post, KStatus
<1>11. KChat!Next
  BY <1>10 DEF KChat!Next
<1> QED BY <1>5, <1>9, <1>11 DEF KFollows, Delivery

\* A client comes into a room, and the room's log is under way to it.
LEMMA JoinFollows ==
  ASSUME DInv, KInv', out = <<>>, \A r \in Rooms : ~Deleting(r) /\ ~Deleting(r)',
         NEW c \in Clients, NEW r \in Rooms, Registered(r), KJoin(c, r),
         UNCHANGED <<registry, roomName, roomMsgs>>
  PROVE  KFollows
<1>1. PICK s \in Seq(Entry) : s = roomMsgs[r] /\ s = Shown(r)
  <2>1. Untold(r)
    BY DEF Untold
  <2> QED BY <2>1, ShownType DEF DInv
<1>2. /\ Len(s) \in Nat /\ DOMAIN s = 1 .. Len(s)
      /\ \A i \in 1 .. Len(s) : s[i] \in Entry
      /\ r # Nil
  BY LenProperties, ElementOfSeq, NilAssumption
<1>3. LogsPlain'
  <2>1. \A q \in Rooms : Untold(q)' <=> Untold(q)
    BY DEF Untold, Registered
  <2> QED BY <2>1, LogsKept DEF DInv
<1>4. /\ Len(out') = Len(s)
      /\ \A i \in 1 .. Len(s) : out'[i].to = c /\ out'[i].msg = s[i]
  <2>1. out' = [i \in 1 .. Len(s) |-> [to |-> c, msg |-> s[i]]]
    BY <1>1, <1>2 DEF KJoin
  <2>2. \A i \in 1 .. Len(s) : [to |-> c, msg |-> s[i]] \in Send
    BY <1>2 DEF Send
  <2> QED BY <1>2, <2>1, <2>2
<1>5. \A d \in Clients : /\ cRoom'[d] = IF d = c THEN r ELSE cRoom[d]
                         /\ got'[d] = IF d = c THEN <<>> ELSE got[d]
  BY DEF KJoin, DInv, KInv, KTypeInv, KTypeOK, ClientTypeOK
<1>6. ASSUME NEW d \in Clients
      PROVE  \E a, n \in Nat : Owed(d, LogOf(d), a, n)'
  <2>1. CASE d = c
    <3>1. LogOf(d)' = s /\ got'[d] = <<>>
      BY <1>1, <1>2, <1>5, <2>1 DEF LogOf, Shown
    <3>2. Len(<<>>) = 0
      OBVIOUS
    <3>3. Owed(d, s, 0, Len(s))'
      BY <1>2, <1>4, <2>1, <3>1, <3>2 DEF Owed
    <3> QED BY <1>2, <3>1, <3>3, Owing
  <2>2. CASE d # c
    <3>1. PICK log \in Seq(Entry) : log = LogOf(d)
      BY LogType DEF DInv
    <3>2. Len(log) \in Nat /\ log = LogOf(d)' /\ log = got'[d]
      BY <1>5, <2>2, <3>1, LenProperties, LogOfKept, Drained
    <3>3. Owed(d, log, 0, 0)'
      BY <1>2, <1>4, <2>2, <3>2 DEF Owed
    <3> QED BY <3>2, <3>3, Owing
  <2> QED BY <2>1, <2>2
<1>7. KChat!Enter(c, r)
  <2>1. KStatus(r) = "open"
    BY NilAssumption DEF KStatus, Registered, DInv, KInv, KRoomInv, NamesAgree
  <2>2. \A q \in Rooms : KStatus(q)' = KStatus(q) /\ Shown(q)' = Shown(q)
    BY DEF KStatus, Registered, Shown
  <2> QED BY <2>1, <2>2 DEF KChat!Enter, KStatus, KJoin
<1>8. KChat!Next
  BY <1>7 DEF KChat!Next
<1> QED BY <1>3, <1>6, <1>8 DEF KFollows, Delivery

\* A message is sent: it is the next entry for its receiver, or no entry.
LEMMA SendFollows ==
  ASSUME DInv, KInv', LobbySend
  PROVE  KFollows
<1>1. PICK c \in Clients, m \in Entry \cup Notice : c = Head(out).to /\ m = Head(out).msg
  <2>1. Head(out) \in Send
    BY HeadTailProperties DEF LobbySend, DInv, KInv, KTypeInv, KTypeOK, KHandlerTypeOK
  <2> QED BY <2>1 DEF Send
<1>2. /\ UNCHANGED <<registry, roomName, roomMsgs, cRoom, task>>
      /\ got' = [got EXCEPT ![c] = IF m \in Entry THEN Append(@, m) ELSE @]
      /\ got \in [Clients -> Seq(Entry)]
  BY <1>1 DEF LobbySend, roomVars, DInv, KInv, KTypeInv, KTypeOK, ClientTypeOK
<1>3. /\ Len(out) \in Nat /\ Len(out) > 0
      /\ out[1].to = c /\ out[1].msg = m
      /\ Len(out') = Len(out) - 1
      /\ \A i \in 1 .. Len(out) - 1 : out'[i] = out[i + 1]
  <2>1. out \in Seq(Send) /\ out # <<>> /\ out' = Tail(out)
    BY DEF LobbySend, DInv, KInv, KTypeInv, KTypeOK, KHandlerTypeOK
  <2> QED BY <1>1, <2>1, HeadTailProperties, LenProperties, EmptySeq
<1>4. LogsPlain'
  <2>1. \A q \in Rooms : Untold(q)' <=> Untold(q)
    BY <1>2 DEF Untold, Registered, Deleting
  <2> QED BY <1>2, <2>1, LogsKept DEF DInv
<1>5. \A d \in Clients : LogOf(d)' = LogOf(d)
  BY <1>2, LogOfKept
<1>6. ASSUME NEW d \in Clients, ~(d = c /\ m \in Entry)
      PROVE  \E a, n \in Nat : Owed(d, LogOf(d), a, n)'
  <2>1. PICK log : log = LogOf(d)
    OBVIOUS
  <2>2. PICK a \in Nat, n \in Nat : Owed(d, log, a, n)
    BY <2>1 DEF DInv, Delivery
  <2>3. got'[d] = got[d]
    BY <1>2, <1>6
  <2>4. 1 \notin a + 1 .. a + n
    BY <1>3, <1>6, <2>2 DEF Owed
  <2>5. PICK b \in Nat : /\ b + n <= Len(out) - 1
                         /\ n # 0 => a = b + 1
    <3>1. CASE n = 0
      BY <1>3, <3>1
    <3>2. CASE n # 0
      <4>1. a - 1 \in Nat /\ (a - 1) + n <= Len(out) - 1 /\ a = (a - 1) + 1
        BY <1>3, <2>2, <2>4, <3>2 DEF Owed
      <4> QED BY <4>1
    <3> QED BY <3>1, <3>2
  <2>6. ASSUME NEW i \in 1 .. Len(out')
        PROVE  out'[i].to = d /\ out'[i].msg \in Entry <=> i \in b + 1 .. b + n
    <3>1. i + 1 \in 1 .. Len(out) /\ out'[i] = out[i + 1]
      BY <1>3
    <3>2. out[i + 1].to = d /\ out[i + 1].msg \in Entry <=> i + 1 \in a + 1 .. a + n
      BY <2>2, <3>1 DEF Owed
    <3>3. i + 1 \in a + 1 .. a + n <=> i \in b + 1 .. b + n
      BY <2>5, <3>1
    <3> QED BY <3>1, <3>2, <3>3
  <2>7. ASSUME NEW k \in 1 .. n
        PROVE  out'[b + k].msg = log[Len(got'[d]) + k]
    <3>1. b + k \in 1 .. Len(out) - 1 /\ (b + k) + 1 = a + k
      BY <1>3, <2>5
    <3>2. out'[b + k] = out[a + k]
      BY <1>3, <3>1
    <3> QED BY <2>2, <2>3, <3>2 DEF Owed
  <2>8. Owed(d, log, b, n)'
    BY <1>3, <2>2, <2>3, <2>5, <2>6, <2>7 DEF Owed
  <2>9. log = LogOf(d)'
    BY <1>5, <2>1
  <2> QED BY <2>8, <2>9, Owing
<1>7. CASE m \notin Entry
  <2>1. got' = got
    BY <1>2, <1>7
  <2> QED BY <1>2, <1>4, <1>6, <1>7, <2>1, ChatStutter DEF KFollows, Delivery
<1>8. CASE m \in Entry
  <2>1. PICK log \in Seq(Entry) : log = LogOf(c)
    BY LogType DEF DInv
  <2>2. PICK a \in Nat, n \in Nat : Owed(c, log, a, n)
    BY <2>1 DEF DInv, Delivery
  <2>3. a = 0 /\ n >= 1
    <3>1. 1 \in a + 1 .. a + n
      BY <1>3, <1>8, <2>2 DEF Owed
    <3> QED BY <3>1
  <2>4. PICK g \in Seq(Entry) : g = got[c]
    BY <1>2
  <2>5. /\ Len(g) \in Nat /\ Len(log) = Len(g) + n
        /\ \A j \in 1 .. Len(g) : g[j] = log[j]
        /\ m = log[Len(g) + 1]
    BY <1>3, <2>2, <2>3, <2>4, LenProperties DEF Owed
  <2>6. /\ Append(g, m) \in Seq(Entry)
        /\ Len(Append(g, m)) = Len(g) + 1
        /\ \A j \in 1 .. Len(g) : Append(g, m)[j] = g[j]
        /\ Append(g, m)[Len(g) + 1] = m
    BY <1>8, AppendProperties
  <2>7. got'[c] = Append(g, m)
    BY <1>2, <1>8, <2>4
  <2>8. ASSUME NEW i \in 1 .. Len(out')
        PROVE  out'[i].to = c /\ out'[i].msg \in Entry <=> i \in 0 + 1 .. 0 + (n - 1)
    <3>1. i + 1 \in 1 .. Len(out) /\ out'[i] = out[i + 1]
      BY <1>3
    <3>2. out[i + 1].to = c /\ out[i + 1].msg \in Entry <=> i + 1 \in a + 1 .. a + n
      BY <2>2, <3>1 DEF Owed
    <3> QED BY <2>3, <3>1, <3>2
  <2>9. ASSUME NEW k \in 1 .. n - 1
        PROVE  out'[0 + k].msg = log[(Len(g) + 1) + k]
    <3>1. k + 1 \in 1 .. n /\ k \in 1 .. Len(out) - 1
      BY <1>3, <2>2, <2>3 DEF Owed
    <3>2. out'[k] = out[k + 1] /\ out[0 + (k + 1)].msg = log[Len(g) + (k + 1)]
      BY <1>3, <2>2, <2>3, <2>4, <3>1 DEF Owed
    <3> QED BY <2>5, <3>2
  <2>10. ASSUME NEW j \in 1 .. Len(g) + 1
         PROVE  Append(g, m)[j] = log[j]
    BY <2>5, <2>6
  <2>11. Owed(c, log, 0, n - 1)'
    <3>1. /\ 0 + (n - 1) <= Len(out')
          /\ Len(got'[c]) = Len(g) + 1
          /\ Len(log) = (Len(g) + 1) + (n - 1)
      <4>1. n <= Len(out)
        BY <2>2, <2>3 DEF Owed
      <4>2. Len(got'[c]) = Len(g) + 1
        BY <2>6, <2>7
      <4> QED BY <1>3, <2>3, <2>5, <4>1, <4>2
    <3>2. \A j \in 1 .. Len(g) + 1 : got'[c][j] = log[j]
      BY <2>7, <2>10
    <3> QED BY <2>8, <2>9, <3>1, <3>2 DEF Owed
  <2>12. \E b, k \in Nat : Owed(c, LogOf(c), b, k)'
    <3>1. log = LogOf(c)' /\ n - 1 \in Nat
      BY <1>5, <2>1, <2>3
    <3> QED BY <2>11, <3>1, Owing
  <2>13. Delivery'
    BY <1>6, <2>12 DEF Delivery
  <2>14. KChat!Deliver(c)
    <3>1. cRoom[c] # Nil
      <4>1. Len(<<>>) = 0
        OBVIOUS
      <4> QED BY <2>1, <2>3, <2>5, <4>1 DEF LogOf
    <3>2. cRoom[c] \in Rooms
      BY <3>1 DEF DInv, KInv, KTypeInv, KTypeOK, ClientTypeOK
    <3>3. log = [q \in Rooms |-> Shown(q)][cRoom[c]]
      BY <2>1, <3>1, <3>2 DEF LogOf
    <3>4. \A q \in Rooms : KStatus(q)' = KStatus(q) /\ Shown(q)' = Shown(q)
      BY <1>2 DEF KStatus, Registered, Shown
    <3>5. got' = [got EXCEPT ![c] = Append(@, log[Len(@) + 1])]
      BY <1>2, <1>8, <2>4, <2>5
    <3>6. Len(got[c]) < Len(log)
      BY <2>3, <2>4, <2>5
    <3> QED BY <1>2, <3>1, <3>3, <3>4, <3>5, <3>6 DEF KChat!Deliver, KStatus
  <2>15. KChat!Next
    BY <2>14 DEF KChat!Next
  <2> QED BY <1>4, <2>13, <2>15 DEF KFollows
<1> QED BY <1>7, <1>8

------------------------------------------------------------------------------
(* The steps that create, leave and delete a room.                          *)

LEMMA CreateFollows ==
  ASSUME DInv, KInv', task = NoTask, out = <<>>, task' = task,
         NEW n \in Names, NEW r \in Rooms, registry[n] = Nil, roomName[r] = Nil,
         roomName' = [roomName EXCEPT ![r] = n], registry' = [registry EXCEPT ![n] = r],
         UNCHANGED <<roomMsgs, cRoom, got>>,
         \A i \in 1 .. Len(out') : out'[i].msg \notin Entry
  PROVE  KFollows
<1>1. /\ \A m \in Names : registry'[m] = IF m = n THEN r ELSE registry[m]
      /\ \A q \in Rooms : roomName'[q] = IF q = r THEN n ELSE roomName[q]
      /\ n # Nil
      /\ \A q \in Rooms : ~Deleting(q) /\ ~Deleting(q)'
  BY NilAssumption DEF DInv, KInv, KTypeInv, KTypeOK, KRoomTypeOK, Deleting, NoTask
<1>2. \A q \in Rooms \ {r} : Registered(q)' <=> Registered(q)
  BY <1>1, NilAssumption DEF Registered
<1>3. Registered(r)'
  BY <1>1 DEF Registered
<1>4. \A q \in Rooms : Untold(q)' <=> Untold(q)
  BY <1>1, <1>2, <1>3 DEF Untold
<1>5. LogsPlain'
  BY <1>4, LogsKept DEF DInv
<1>6. \A c \in Clients : got'[c] = LogOf(c)'
  BY LogOfKept, Drained
<1>7. Delivery'
  BY <1>5, <1>6, Settled
<1>8. KChat!Open(r)
  <2>1. KStatus(r) = "fresh" /\ KStatus(r)' = "open"
    BY <1>1, <1>3 DEF KStatus
  <2>2. \A q \in Rooms \ {r} : KStatus(q)' = KStatus(q)
    BY <1>1, <1>2 DEF KStatus
  <2>3. [q \in Rooms |-> KStatus(q)]' = [[q \in Rooms |-> KStatus(q)] EXCEPT ![r] = "open"]
    BY <2>1, <2>2
  <2>4. \A q \in Rooms : Shown(q)' = Shown(q)
    BY DEF Shown
  <2> QED BY <2>1, <2>3, <2>4 DEF KChat!Open, KStatus
<1>9. KChat!Next
  BY <1>8 DEF KChat!Next
<1> QED BY <1>5, <1>7, <1>9 DEF KFollows

\* A client is back in the lobby.
LEMMA LeaveFollows ==
  ASSUME DInv, KInv', out = <<>>, out' = out, NEW c \in Clients, cRoom[c] # Nil,
         cRoom' = [cRoom EXCEPT ![c] = Nil], got' = [got EXCEPT ![c] = <<>>],
         UNCHANGED <<registry, roomName, roomMsgs>>,
         \A r \in Rooms : Deleting(r)' <=> Deleting(r)
  PROVE  KFollows
<1>1. \A q \in Rooms : Untold(q)' <=> Untold(q)
  BY DEF Untold, Registered
<1>2. LogsPlain'
  BY <1>1, LogsKept DEF DInv
<1>3. \A d \in Clients : /\ cRoom'[d] = IF d = c THEN Nil ELSE cRoom[d]
                         /\ got'[d] = IF d = c THEN <<>> ELSE got[d]
  BY DEF DInv, KInv, KTypeInv, KTypeOK, ClientTypeOK
<1>4. ASSUME NEW d \in Clients
      PROVE  got'[d] = LogOf(d)'
  <2>1. CASE d = c
    BY <1>3, <2>1 DEF LogOf
  <2>2. CASE d # c
    BY <1>3, <2>2, LogOfKept, Drained
  <2> QED BY <2>1, <2>2
<1>5. Delivery'
  <2>1. Len(out') = 0
    OBVIOUS
  <2> QED BY <1>2, <1>4, <2>1, Settled
<1>6. KChat!Leave(c)
  <2>1. \A q \in Rooms : KStatus(q)' = KStatus(q) /\ Shown(q)' = Shown(q)
    BY DEF KStatus, Registered, Shown
  <2> QED BY <2>1 DEF KChat!Leave, KStatus
<1>7. KChat!Next
  BY <1>6 DEF KChat!Next
<1> QED BY <1>2, <1>5, <1>7 DEF KFollows

\* A room is told of its deletion: nothing that is shown of its log changes.
LEMMA DeleteFollows ==
  ASSUME DInv, KInv', NEW r \in Rooms, KDeleteChatRoom(r)
  PROVE  KFollows
<1>1. /\ task = NoTask /\ out = <<>>
      /\ \A q \in Rooms : ~Deleting(q)
      /\ UNCHANGED <<registry, roomName, cRoom, got>>
  BY DEF KDeleteChatRoom, Idle, Deleting, NoTask, clientVars
<1>2. CASE UNCHANGED <<roomMsgs, out, task>>
  BY <1>1, <1>2, SteadyFollows DEF Deleting
<1>3. CASE /\ roomMsgs' = [roomMsgs EXCEPT ![r] = Append(@, RoomDeletion)]
           /\ out' = ToEach(roomClients[r], RoomDeletion)
           /\ task' = [op |-> "delete", who |-> Nil, arg |-> r]
  <2>1. Registered(r) /\ Untold(r)
    <3>1. timers[r] # <<>>
      BY DEF KDeleteChatRoom
    <3> QED BY <1>1, <3>1 DEF Untold, DInv, KInv, KRoomInv, RoomAgrees
  <2>2. PICK s \in Seq(Entry) : s = roomMsgs[r]
    BY <2>1 DEF DInv, LogsPlain
  <2>3. /\ \A q \in Rooms \ {r} : roomMsgs'[q] = roomMsgs[q]
        /\ roomMsgs'[r] = Append(s, RoomDeletion)
    BY <1>3, <2>2 DEF DInv, KInv, KTypeInv, KTypeOK, KRoomTypeOK
  <2>4. /\ \A q \in Rooms \ {r} : Untold(q)' <=> Untold(q)
        /\ ~Untold(r)'
    <3>1. roomName[r] # Nil
      BY <2>1, NilAssumption DEF Registered, DInv, KInv, KRoomInv, NamesAgree
    <3> QED BY <1>1, <1>3, <3>1 DEF Untold, Registered, Deleting
  <2>5. LogsPlain'
    <3>1. ASSUME NEW q \in Rooms, q # r
          PROVE  IF Untold(q) THEN roomMsgs'[q] \in Seq(Entry)
                 ELSE \E z \in Seq(Entry) : roomMsgs'[q] = Append(z, RoomDeletion)
      BY <2>3, <3>1, Zenon DEF DInv, LogsPlain
    <3> QED BY <2>3, <2>4, <3>1, Zenon DEF LogsPlain
  <2>6. \A q \in Rooms : Shown(q)' = Shown(q)
    <3>1. \A q \in Rooms : Shown(q)' = EntriesOf(roomMsgs'[q])
      BY DEF Shown, EntriesOf
    <3> QED BY <2>2, <2>3, <3>1, ShownIsEntries, EntriesPlain, EntriesDeleted
  <2>7. \A c \in Clients : got'[c] = LogOf(c)'
    <3>1. \A c \in Clients : cRoom[c] \in Rooms \cup {Nil}
      BY DEF DInv, KInv, KTypeInv, KTypeOK, ClientTypeOK
    <3>2. \A c \in Clients : LogOf(c)' = LogOf(c)
      BY <1>1, <2>6, <3>1 DEF LogOf
    <3> QED BY <1>1, <3>2, Drained
  <2>8. \A i \in 1 .. Len(out') : out'[i].msg \notin Entry
    <3>1. roomClients[r] \in Seq(Clients)
      BY DEF DInv, KInv, KTypeInv, KTypeOK, KRoomTypeOK
    <3>2. DOMAIN roomClients[r] = 1 .. Len(roomClients[r]) /\ Len(roomClients[r]) \in Nat
      BY <3>1, LenProperties
    <3>3. \A i \in DOMAIN out' : out'[i].msg = RoomDeletion
      BY <1>3 DEF ToEach
    <3>4. DOMAIN out' = 1 .. Len(out')
      BY LenProperties DEF KInv, KTypeInv, KTypeOK, KHandlerTypeOK
    <3>5. RoomDeletion \notin Entry
      BY DEF RoomDeletion, Entry
    <3> QED BY <3>3, <3>4, <3>5
  <2>9. Delivery'
    BY <2>5, <2>7, <2>8, Settled
  <2>10. UNCHANGED KChat!vars
    BY <1>1, <2>6 DEF KChat!vars, Registered
  <2> QED BY <2>5, <2>9, <2>10 DEF KFollows
<1> QED BY <1>2, <1>3 DEF KDeleteChatRoom

\* The room is gone, and all who were in it are back in the lobby.
LEMMA FinishDeleteFollows ==
  ASSUME DInv, KInv', KFinishDelete
  PROVE  KFollows
<1>1. PICK r \in Rooms : r = task.arg
  BY TaskTypes DEF KFinishDelete, Resume, DInv, KInv
<1>2. /\ task.op = "delete" /\ task' = NoTask /\ out = <<>> /\ out' = out
      /\ registry' = [registry EXCEPT ![roomName[r]] = Nil]
      /\ cRoom' = [c \in Clients |-> IF c \in Range(roomClients[r]) THEN Nil ELSE cRoom[c]]
      /\ got' = [c \in Clients |-> IF c \in Range(roomClients[r]) THEN <<>> ELSE got[c]]
      /\ UNCHANGED <<roomName, roomMsgs>>
  BY <1>1 DEF KFinishDelete, Resume
<1>3. /\ \A q \in Rooms : (Deleting(q) <=> q = r) /\ ~Deleting(q)'
      /\ \A d \in Clients : ~Joining(d)
  BY <1>1, <1>2 DEF Joining, Deleting, NoTask
<1>4. Registered(r)
  BY <1>3 DEF DInv, KInv, KRoomInv, RoomAgrees
<1>5. PICK n \in Names : registry[n] = r /\ roomName[r] = n
  BY <1>4, NilAssumption DEF Registered, DInv, KInv, KRoomInv, NamesAgree
<1>6. \A m \in Names : registry'[m] = IF m = n THEN Nil ELSE registry[m]
  BY <1>2, <1>5 DEF DInv, KInv, KTypeInv, KTypeOK, KRoomTypeOK
<1>7. \A m \in Names : registry[m] = r => m = n
  BY <1>5, NilAssumption DEF DInv, KInv, KRoomInv, NamesAgree
<1>8. \A q \in Rooms : Registered(q)' <=> Registered(q) /\ q # r
  BY <1>5, <1>6, <1>7, NilAssumption DEF Registered
<1>9. roomName[r] # Nil /\ r # Nil
  BY <1>5, NilAssumption
<1>10. LogsPlain'
  <2>1. \A q \in Rooms : Untold(q)' <=> Untold(q)
    BY <1>2, <1>3, <1>8, <1>9 DEF Untold
  <2> QED BY <1>2, <2>1, LogsKept DEF DInv
<1>11. \A d \in Clients : d \in Range(roomClients[r]) <=> cRoom[d] = r
  BY <1>3, <1>4 DEF DInv, KInv, KRoomInv, MembershipAgrees
<1>12. \A d \in Clients : /\ cRoom'[d] = IF cRoom[d] = r THEN Nil ELSE cRoom[d]
                          /\ got'[d] = IF cRoom[d] = r THEN <<>> ELSE got[d]
  BY <1>2, <1>11
<1>13. ASSUME NEW d \in Clients
       PROVE  got'[d] = LogOf(d)'
  <2>1. CASE cRoom[d] = r
    BY <1>12, <2>1 DEF LogOf
  <2>2. CASE cRoom[d] # r
    BY <1>2, <1>12, <2>2, LogOfKept, Drained
  <2> QED BY <2>1, <2>2
<1>14. Delivery'
  <2>1. Len(out') = 0
    BY <1>2
  <2> QED BY <1>10, <1>13, <2>1, Settled
<1>15. KChat!Close(r)
  <2>1. KStatus(r) = "open"
    BY <1>4, <1>9 DEF KStatus
  <2>2. \A q \in Rooms : KStatus(q)' = IF q = r THEN "closed" ELSE KStatus(q)
    BY <1>2, <1>8, <1>9 DEF KStatus
  <2>3. [q \in Rooms |-> KStatus(q)]' = [[q \in Rooms |-> KStatus(q)] EXCEPT ![r] = "closed"]
    BY <2>2
  <2>4. /\ cRoom' = [c \in Clients |-> IF cRoom[c] = r THEN Nil ELSE cRoom[c]]
        /\ got' = [c \in Clients |-> IF cRoom[c] = r THEN <<>> ELSE got[c]]
    BY <1>2, <1>11
  <2>5. \A q \in Rooms : Shown(q)' = Shown(q)
    BY <1>2 DEF Shown
  <2> QED BY <2>1, <2>3, <2>4, <2>5 DEF KChat!Close, KStatus
<1>16. KChat!Next
  BY <1>15 DEF KChat!Next
<1> QED BY <1>10, <1>14, <1>16 DEF KFollows

------------------------------------------------------------------------------
(* The actions.                                                             *)

\* A message to the room a client is in.
LEMMA SpeakingFollows ==
  ASSUME DInv, KInv', out = <<>>, task.op \notin {"join", "delete"}, task'.op # "delete",
         NEW c \in Clients, cRoom[c] # Nil, NEW e \in Entry, e.who = c,
         Broadcast(cRoom[c], e, roomClients[cRoom[c]]),
         UNCHANGED <<registry, roomName, cRoom, got>>
  PROVE  KFollows
<1>1. cRoom[c] \in Rooms /\ Registered(cRoom[c])
  BY DEF DInv, KInv, KTypeInv, KTypeOK, ClientTypeOK, KRoomInv, MembershipAgrees
<1>2. /\ roomClients[cRoom[c]] \in Seq(Clients) /\ IsInjective(roomClients[cRoom[c]])
      /\ \A d \in Clients : d \in Range(roomClients[cRoom[c]]) <=> cRoom[d] = cRoom[c]
  BY <1>1 DEF DInv, KInv, KTypeInv, KTypeOK, KRoomTypeOK, KRoomInv, MembershipAgrees, Joining
<1>3. \A r \in Rooms : ~Deleting(r) /\ ~Deleting(r)'
  BY DEF Deleting
<1> QED BY <1>2, <1>3, PostFollows

LEMMA StartLeaveFollows ==
  ASSUME DInv, KInv', out = <<>>, task = NoTask, NEW c \in Clients, cRoom[c] # Nil,
         NEW op \in {"leave", "switch", "depart"}, NEW arg, StartLeave(c, op, arg)
  PROVE  KFollows
<1>1. EntryOf("leave", c) \in Entry /\ EntryOf("leave", c).who = c
  BY EntryOfType DEF DInv, KInv, KTypeInv, EntryOf
<1>2. /\ Broadcast(cRoom[c], EntryOf("leave", c), roomClients[cRoom[c]])
      /\ UNCHANGED <<registry, roomName, cRoom, got>>
      /\ task'.op = op
  BY DEF StartLeave, clientVars
<1> QED BY <1>1, <1>2, SpeakingFollows DEF NoTask

\* The lobby's answers are no entries.
LEMMA NoticeIsNoEntry == \A m \in Notice : m \notin Entry
BY DEF Notice, Entry

LEMMA ReplyIsNoEntry ==
  ASSUME NEW c, NEW k, [kind |-> k] \in Notice, Reply(c, k)
  PROVE  \A i \in 1 .. Len(out') : out'[i].msg \notin Entry
<1>1. Len(out') = 1 /\ out'[1].msg = [kind |-> k]
  BY DEF Reply
<1> QED BY <1>1, NoticeIsNoEntry

LEMMA ReplyFollows ==
  ASSUME DInv, KInv', out = <<>>, UNCHANGED <<registry, roomName, roomMsgs, cRoom, got>>,
         task.op # "delete", task'.op # "delete",
         NEW c, NEW k, [kind |-> k] \in Notice, Reply(c, k)
  PROVE  KFollows
<1>1. \A r \in Rooms : Deleting(r)' <=> Deleting(r)
  BY DEF Deleting
<1> QED BY <1>1, ReplyIsNoEntry, AnswerFollows

LEMMA RepeatFollows ==
  ASSUME DInv, KInv', out = <<>>, UNCHANGED <<roomVars, clientVars, task>>,
         NEW c \in Clients, NEW n \in Nat, NEW m \in Notice, out' = Repeat(n, c, m)
  PROVE  KFollows
<1>1. Len(out') = n /\ \A i \in 1 .. n : out'[i].msg = m
  BY RepeatType DEF Repeat
<1>2. \A i \in 1 .. Len(out') : out'[i].msg \notin Entry
  BY <1>1, NoticeIsNoEntry
<1>3. \A r \in Rooms : Deleting(r)' <=> Deleting(r)
  BY DEF Deleting
<1> QED BY <1>2, <1>3, AnswerFollows DEF roomVars, clientVars

LEMMA JoinChatRoomFollows ==
  ASSUME DInv, KInv', task = NoTask, out = <<>>, NEW c \in Clients, NEW n \in Names,
         KJoinChatRoom(c, n)
  PROVE  KFollows
<1>1. CASE registry[n] = Nil
  <2>1. Reply(c, "ERR_ENTER") /\ UNCHANGED <<roomVars, clientVars, task>>
    BY <1>1 DEF KJoinChatRoom
  <2> QED BY <2>1, ReplyFollows DEF Notice, NoTask, roomVars, clientVars
<1>2. CASE registry[n] # Nil /\ cRoom[c] # Nil
  <2>1. StartLeave(c, "switch", n)
    BY <1>2 DEF KJoinChatRoom
  <2> QED BY <1>2, <2>1, StartLeaveFollows
<1>3. CASE registry[n] # Nil /\ cRoom[c] = Nil
  <2>1. KJoin(c, registry[n]) /\ UNCHANGED roomVars
    BY <1>3 DEF KJoinChatRoom
  <2>2. registry[n] \in Rooms /\ Registered(registry[n])
    BY <1>3 DEF DInv, KInv, KTypeInv, KTypeOK, KRoomTypeOK, Registered
  <2>3. \A r \in Rooms : ~Deleting(r) /\ ~Deleting(r)'
    BY <2>1 DEF Deleting, NoTask, KJoin
  <2> QED BY <2>1, <2>2, <2>3, JoinFollows DEF roomVars
<1> QED BY <1>1, <1>2, <1>3

LEMMA ParseFollows ==
  ASSUME DInv, KInv', NEW c \in Clients, KParse(c)
  PROVE  KFollows
<1> DEFINE msg == Head(inq[c])
<1>1. task = NoTask /\ out = <<>> /\ msg \in Line
  <2>1. inq[c] \in Seq(Line) /\ inq[c] # <<>> /\ task = NoTask /\ out = <<>>
    BY DEF DInv, KInv, KTypeInv, KTypeOK, NetTypeOK, KParse, Take, Idle
  <2> QED BY <2>1, HeadTailProperties
<1>2. CASE msg.cmd = "create" /\ KCreateChatRoom(c, msg.arg)
  <2>1. msg.arg \in Names /\ UNCHANGED <<roomMsgs, clientVars, task>>
    BY <1>1, <1>2 DEF Line, KCreateChatRoom, roomVars
  <2>2. CASE registry[msg.arg] # Nil
    <3>1. Reply(c, "ERR_CREATE") /\ UNCHANGED roomVars
      BY <1>2, <2>2 DEF KCreateChatRoom
    <3> QED BY <1>1, <2>1, <3>1, ReplyFollows DEF Notice, NoTask, roomVars, clientVars
  <2>3. CASE registry[msg.arg] = Nil
    <3>1. PICK r \in Rooms : /\ roomName[r] = Nil
                             /\ roomName' = [roomName EXCEPT ![r] = msg.arg]
                             /\ registry' = [registry EXCEPT ![msg.arg] = r]
      BY <1>2, <2>3 DEF KCreateChatRoom
    <3>2. Reply(c, "NOTE_ROOM_CREATE")
      BY <1>2, <2>3 DEF KCreateChatRoom
    <3>3. \A i \in 1 .. Len(out') : out'[i].msg \notin Entry
      BY <3>2, ReplyIsNoEntry DEF Notice
    <3> QED BY <1>1, <2>1, <2>3, <3>1, <3>3, CreateFollows DEF clientVars
  <2> QED BY <2>2, <2>3
<1>3. CASE msg.cmd = "enter" /\ KJoinChatRoom(c, msg.arg)
  <2>1. msg.arg \in Names
    BY <1>1, <1>3 DEF Line
  <2> QED BY <1>1, <1>3, <2>1, JoinChatRoomFollows
<1>4. CASE LeaveCRoom(c)
  <2>1. CASE cRoom[c] = Nil
    <3>1. Reply(c, "ERR_LEAVE") /\ UNCHANGED <<roomVars, clientVars, task>>
      BY <1>4, <2>1 DEF LeaveCRoom
    <3> QED BY <1>1, <3>1, ReplyFollows DEF Notice, NoTask, roomVars, clientVars
  <2>2. CASE cRoom[c] # Nil
    BY <1>1, <1>4, <2>2, StartLeaveFollows DEF LeaveCRoom
  <2> QED BY <2>1, <2>2
<1>5. CASE ListCRooms(c)
  <2>1. PICK n \in Nat : n = 3 + Cardinality({m \in Names : registry[m] # Nil})
    <3>1. Cardinality({m \in Names : registry[m] # Nil}) \in Nat
      BY NamesAssumption, FS_Subset, FS_CardinalityType
    <3>2. 3 + Cardinality({m \in Names : registry[m] # Nil}) \in Nat
      BY <3>1
    <3> QED BY <3>2
  <2> QED BY <1>1, <1>5, <2>1, RepeatFollows DEF ListCRooms, Notice
<1>6. CASE Help(c)
  BY <1>1, <1>6, LimitsAssumption, RepeatFollows DEF Help, Notice
<1>7. CASE msg.cmd = "name" /\ ChangeUsername(c, msg.arg)
  <2>1. task'.op = "rename" /\ UNCHANGED clientVars
    BY <1>7 DEF ChangeUsername
  <2>2. CASE cRoom[c] = Nil
    <3>1. Reply(c, "NOTE_CHANGENAME") /\ UNCHANGED roomVars
      BY <1>7, <2>2 DEF ChangeUsername
    <3> QED BY <1>1, <2>1, <3>1, ReplyFollows DEF Notice, NoTask, roomVars, clientVars
  <2>3. CASE cRoom[c] # Nil
    <3> DEFINE e == [EntryOf("name", c) EXCEPT !.now = msg.arg]
    <3>1. e \in Entry /\ e.who = c
      <4>1. msg.arg \in Users
        BY <1>1, <1>7 DEF Line
      <4> QED BY <4>1 DEF DInv, KInv, KTypeInv, KTypeOK, ClientTypeOK, EntryOf, Entry
    <3>2. /\ Broadcast(cRoom[c], e, roomClients[cRoom[c]])
          /\ UNCHANGED <<registry, roomName, cRoom, got>>
      BY <1>7, <2>3 DEF ChangeUsername, clientVars
    <3> HIDE DEF e
    <3> QED BY <1>1, <2>1, <2>3, <3>1, <3>2, SpeakingFollows DEF NoTask
  <2> QED BY <2>2, <2>3
<1>8. CASE SendMsg(c)
  <2>1. CASE cRoom[c] = Nil
    <3>1. Reply(c, "ERR_SEND") /\ UNCHANGED <<roomVars, clientVars, task>>
      BY <1>8, <2>1 DEF SendMsg
    <3> QED BY <1>1, <3>1, ReplyFollows DEF Notice, NoTask, roomVars, clientVars
  <2>2. CASE cRoom[c] # Nil
    <3>1. EntryOf("say", c) \in Entry /\ EntryOf("say", c).who = c
      BY EntryOfType DEF DInv, KInv, KTypeInv, EntryOf
    <3>2. /\ Broadcast(cRoom[c], EntryOf("say", c), roomClients[cRoom[c]])
          /\ UNCHANGED <<registry, roomName, cRoom, got, task>>
      BY <1>8, <2>2 DEF SendMsg, clientVars
    <3> QED BY <1>1, <2>2, <3>1, <3>2, SpeakingFollows DEF NoTask
  <2> QED BY <2>1, <2>2
<1> QED BY <1>2, <1>3, <1>4, <1>5, <1>6, <1>7, <1>8 DEF KParse

LEMMA FinishFollows ==
  ASSUME DInv, KInv', FinishLeave \/ KFinishDepart \/ FinishRename \/ KCloseOutgoing
                        \/ KFinishSwitch \/ FinishJoin
  PROVE  KFollows
<1>1. out = <<>> /\ task.op # "delete" /\ task'.op # "delete"
  BY DEF FinishLeave, KFinishDepart, FinishRename, KCloseOutgoing, KFinishSwitch, KJoin,
         FinishJoin, Resume, NoTask, DInv, KInv, KTypeInv, KTypeOK, KHandlerTypeOK, KTask, Task
<1>2. \A r \in Rooms : ~Deleting(r) /\ ~Deleting(r)'
  BY <1>1 DEF Deleting
<1>3. PICK c \in Clients : c = task.who
  BY TaskTypes DEF FinishLeave, KFinishDepart, FinishRename, KCloseOutgoing, KFinishSwitch,
                   FinishJoin, Resume, DInv, KInv
<1>4. CASE FinishLeave \/ KFinishDepart
  <2>1. /\ cRoom[c] # Nil
        /\ cRoom' = [cRoom EXCEPT ![c] = Nil] /\ got' = [got EXCEPT ![c] = <<>>]
        /\ UNCHANGED <<registry, roomName, roomMsgs, out>>
    BY <1>3, <1>4 DEF FinishLeave, KFinishDepart, Resume, DInv, KInv, KTypeInv, KTaskOK
  <2> QED BY <1>1, <1>2, <2>1, LeaveFollows
<1>5. CASE FinishRename \/ KCloseOutgoing
  <2>1. UNCHANGED <<registry, roomName, roomMsgs, cRoom, got, out>>
    BY <1>5 DEF FinishRename, KCloseOutgoing, roomVars, clientVars
  <2> QED BY <1>2, <2>1, SteadyFollows
<1>6. CASE KFinishSwitch
  <2>1. task.arg \in Names /\ registry[task.arg] # Nil
    BY <1>6, TaskTypes DEF KFinishSwitch, Resume, DInv, KInv, KTypeInv, KTaskOK
  <2>2. registry[task.arg] \in Rooms /\ Registered(registry[task.arg])
    BY <2>1 DEF DInv, KInv, KTypeInv, KTypeOK, KRoomTypeOK, Registered
  <2>3. KJoin(c, registry[task.arg]) /\ UNCHANGED <<registry, roomName, roomMsgs>>
    BY <1>3, <1>6 DEF KFinishSwitch
  <2> QED BY <1>1, <1>2, <2>2, <2>3, JoinFollows
<1>7. CASE FinishJoin
  <2>1. PICK r \in Rooms : r = cRoom[c] /\ Registered(r) /\ task.op = "join" /\ r # Nil
    BY <1>3, <1>7, NilAssumption
       DEF FinishJoin, Resume, DInv, KInv, KTypeInv, KTypeOK, ClientTypeOK, KTaskOK,
           KRoomInv, MembershipAgrees
  <2>2. /\ roomClients[r] \in Seq(Clients) /\ IsInjective(roomClients[r])
        /\ \A d \in Clients : d \in Range(roomClients[r]) <=> cRoom[d] = r /\ d # c
    BY <1>3, <2>1 DEF DInv, KInv, KTypeInv, KTypeOK, KRoomTypeOK, KRoomInv,
                      MembershipAgrees, Joining
  <2>3. /\ Append(roomClients[r], c) \in Seq(Clients)
        /\ IsInjective(Append(roomClients[r], c))
        /\ Range(Append(roomClients[r], c)) = Range(roomClients[r]) \cup {c}
    BY <2>2, AppendFreshProperties
  <2>4. \A d \in Clients : d \in Range(Append(roomClients[r], c)) <=> cRoom[d] = cRoom[c]
    BY <2>1, <2>2, <2>3
  <2>5. EntryOf("enter", c) \in Entry /\ EntryOf("enter", c).who = c
    BY EntryOfType DEF DInv, KInv, KTypeInv, EntryOf
  <2>6. /\ Broadcast(cRoom[c], EntryOf("enter", c), Append(roomClients[r], c))
        /\ UNCHANGED <<registry, roomName, cRoom, got>>
    BY <1>3, <1>7, <2>1 DEF FinishJoin, clientVars
  <2> QED BY <1>1, <1>2, <2>1, <2>3, <2>4, <2>5, <2>6, PostFollows
<1> QED BY <1>4, <1>5, <1>6, <1>7

LEMMA KFollowsNext == DInv /\ KInv' /\ [KNext]_kenVars => KFollows
<1> SUFFICES ASSUME DInv, KInv', [KNext]_kenVars PROVE KFollows
  OBVIOUS
<1>1. CASE UNCHANGED <<registry, roomName, roomMsgs, cRoom, got, out, task>>
  BY <1>1, SteadyFollows DEF Deleting
<1>2. CASE UNCHANGED kenVars
  BY <1>1, <1>2 DEF kenVars, vars, roomVars, clientVars
<1>3. CASE KLobby
  <2>1. ASSUME NEW c \in Clients, Quit(c)
        PROVE  KFollows
    BY <1>1, <2>1 DEF Quit, roomVars, clientVars
  <2>2. ASSUME NEW c \in Clients, KLeave(c)
        PROVE  KFollows
    <3>1. task = NoTask /\ out = <<>>
      BY <2>2 DEF KLeave, Idle
    <3>2. CASE cRoom[c] # Nil
      BY <2>2, <3>1, <3>2, StartLeaveFollows DEF KLeave
    <3>3. CASE cRoom[c] = Nil
      <4>1. UNCHANGED <<roomVars, clientVars, out>> /\ task'.op = "close"
        BY <2>2, <3>3 DEF KLeave
      <4> QED BY <3>1, <4>1, SteadyFollows DEF Deleting, NoTask, roomVars, clientVars
    <3> QED BY <3>2, <3>3
  <2> QED BY <1>3, <2>1, <2>2, ParseFollows, DeleteFollows, SendFollows, FinishFollows,
             FinishDeleteFollows DEF KLobby
<1>4. ASSUME NEW c \in Clients,
             \/ KAccept(c) \/ KAppend(c) \/ KSendWelcome(c) \/ WriterEnds(c)
             \/ Peer(c) \/ Flush(c) \/ FlushFails(c)
      PROVE  KFollows
  BY <1>1, <1>4 DEF KAccept, KAppend, KSendWelcome, SendWelcome, WriterEnds, Flush,
                    FlushFails, Peer, Hangup, LoseInput, TypeLine, roomVars, clientVars
<1>5. CASE Alike /\ UNCHANGED listVars
  <2>1. Quiescent => UNCHANGED kenVars
    BY <1>5 DEF Quiescent, kenVars
  <2>2. CASE Tick
    BY <1>1, <2>2 DEF Tick, clientVars
  <2> QED BY <1>2, <1>4, <1>5, <2>1, <2>2 DEF Alike
<1> QED BY <1>2, <1>3, <1>4, <1>5 DEF KNext

------------------------------------------------------------------------------
(* The theorem.                                                             *)

LEMMA KDeliveryInit == KInit => LogsPlain /\ Delivery /\ KChat!Init
<1> SUFFICES ASSUME KInit PROVE LogsPlain /\ Delivery /\ KChat!Init
  OBVIOUS
<1>1. /\ roomName = [r \in Rooms |-> Nil]
      /\ roomMsgs = [r \in Rooms |-> <<>>]
      /\ cRoom = [c \in Clients |-> Nil]
      /\ got = [c \in Clients |-> <<>>]
      /\ out = <<>>
  BY Zenon DEF KInit, Init
<1>2. LogsPlain
  BY <1>1, EmptySeq DEF LogsPlain, Untold
<1>3. \A r \in Rooms : Shown(r) = <<>>
  BY <1>1, EmptySeq, ShownIsEntries, EntriesPlain
<1>4. Len(out) = 0 /\ Len(<<>>) = 0
  BY <1>1
<1>5. \A c \in Clients : Owed(c, <<>>, 0, 0) /\ LogOf(c) = <<>>
  BY <1>1, <1>4 DEF Owed, LogOf
<1>6. Delivery
  BY <1>5 DEF Delivery
<1>7. KChat!Init
  BY <1>1, <1>3 DEF KChat!Init
<1> QED BY <1>2, <1>6, <1>7

\* ken's server implements ChatRooms: each client in a room is handed the room's
\* log from its start, in order and without a gap; the news of a deletion is
\* logged and sent, yet it is no entry, and a deleted room is closed for good.
THEOREM KRefinement == KSpec => KImplementsChatRooms
<1>1. KInit => KChat!Init
  BY KDeliveryInit
<1>2. KSpec => []DInv
  <2>1. KInit => LogsPlain /\ Delivery
    BY KDeliveryInit
  <2>2. KInv /\ KInv' /\ LogsPlain /\ Delivery /\ [KNext]_kenVars => LogsPlain' /\ Delivery'
    BY KFollowsNext DEF DInv, KFollows
  <2>3. KInv /\ LogsPlain /\ Delivery => DInv
    BY DEF DInv
  <2> QED BY <2>1, <2>2, <2>3, Invariance, PTL DEF KSpec
<1>3. DInv /\ DInv' /\ [KNext]_kenVars => [KChat!Next]_(KChat!vars)
  <2>1. DInv' => KInv'
    BY DEF DInv
  <2> QED BY <2>1, KFollowsNext DEF KFollows
<1>4. KSpec => KChat!Init /\ [][KChat!Next]_(KChat!vars)
  BY <1>1, <1>2, <1>3, PTL DEF KSpec
<1> QED BY <1>4 DEF KImplementsChatRooms, KChat!Spec

\* So ken's clients are given what ChatRooms promises: each is handed the
\* beginning of the log of the room it sits in, and that room is in use.
THEOREM KPromises == KSpec => [](KChat!SeatedInOpenRooms /\ KChat!SeenIsPrefix)
BY KRefinement, KChat!PromisesKept, PTL DEF KImplementsChatRooms

\* A room of ken's that was deleted gets no further entry.
THEOREM KClosedForGood == KSpec => KChat!ClosedIsFinal
BY KRefinement, KChat!ClosedForGood, PTL DEF KImplementsChatRooms
==============================================================================
