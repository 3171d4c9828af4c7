----------------------------- MODULE LobbyProofs ------------------------------
(***************************************************************************)
(* For every value of the constants of LobbyServer: the state is well      *)
(* formed, and what a handler relies on after its sends holds; the         *)
(* registry, the rooms and the timers agree, the two records of membership *)
(* agree, and a room is deleted only when it is inactive.                  *)
(***************************************************************************)
EXTENDS LobbyServer, ListLemmas, FiniteSetTheorems, TLAPS

------------------------------------------------------------------------------
(* Well-formedness: what the parts of a handler leave behind.               *)

\* The messages the handlers make are messages, and lists of sends are lists.
LEMMA EntryOfType ==
  ASSUME TypeOK, NEW c \in Clients,
         NEW k \in {"enter", "leave", "say", "name"}
  PROVE  EntryOf(k, c) \in Entry
BY DEF TypeOK, ClientTypeOK, EntryOf, Entry

LEMMA RepeatType ==
  ASSUME NEW n \in Nat, NEW c \in Clients, NEW m \in Entry \cup Notice
  PROVE  /\ Repeat(n, c, m) \in Seq(Send)
         /\ Len(Repeat(n, c, m)) = n
BY DEF Repeat, Send

LEMMA ReplyType ==
  ASSUME NEW c \in Clients, NEW k, [kind |-> k] \in Notice, Reply(c, k)
  PROVE  out' \in Seq(Send)
BY DEF Reply, Send

LEMMA BroadcastType ==
  ASSUME TypeOK, NEW r \in Rooms, NEW e \in Entry, NEW members \in Seq(Clients),
         Broadcast(r, e, members)
  PROVE  /\ roomExpire' \in [Rooms -> 0 .. EXTIME]
         /\ quiet' \in [Rooms -> 0 .. EXTIME]
         /\ roomMsgs' \in [Rooms -> Seq(Entry)]
         /\ out' \in Seq(Send)
<1>1. /\ roomExpire' \in [Rooms -> 0 .. EXTIME]
      /\ quiet' \in [Rooms -> 0 .. EXTIME]
  BY LimitsAssumption DEF TypeOK, RoomTypeOK, Broadcast
<1>2. roomMsgs' \in [Rooms -> Seq(Entry)]
  <2>1. roomMsgs \in [Rooms -> Seq(Entry)]
    BY DEF TypeOK, RoomTypeOK
  <2>2. Append(roomMsgs[r], e) \in Seq(Entry)
    BY <2>1, AppendProperties
  <2> QED BY <2>1, <2>2 DEF Broadcast
<1>3. out' \in Seq(Send)
  <2>1. /\ Len(members) \in Nat
        /\ DOMAIN members = 1 .. Len(members)
        /\ \A i \in 1 .. Len(members) : members[i] \in Clients
    BY LenProperties, ElementOfSeq
  <2>2. out' = [i \in 1 .. Len(members) |-> [to |-> members[i], msg |-> e]]
    BY <2>1 DEF Broadcast, ToEach
  <2>3. \A i \in 1 .. Len(members) : [to |-> members[i], msg |-> e] \in Send
    BY <2>1 DEF Send
  <2> QED BY <2>1, <2>2, <2>3
<1> QED BY <1>1, <1>2, <1>3

LEMMA HistoryType ==
  ASSUME TypeOK, NEW c \in Clients, NEW r \in Rooms
  PROVE  History(c, r) \in Seq(Send)
<1> DEFINE n == Len(roomMsgs[r])
           middle == [i \in DOMAIN roomMsgs[r] |-> [to |-> c, msg |-> roomMsgs[r][i]]]
<1>1. /\ n \in Nat
      /\ DOMAIN roomMsgs[r] = 1 .. n
      /\ \A i \in 1 .. n : roomMsgs[r][i] \in Entry
  <2>1. roomMsgs[r] \in Seq(Entry)
    BY DEF TypeOK, RoomTypeOK
  <2> QED BY <2>1, LenProperties, ElementOfSeq
<1>2. middle \in Seq(Send)
  <2>1. \A i \in 1 .. n : [to |-> c, msg |-> roomMsgs[r][i]] \in Send
    BY <1>1 DEF Send
  <2>2. middle = [i \in 1 .. n |-> [to |-> c, msg |-> roomMsgs[r][i]]]
    BY <1>1
  <2> HIDE DEF n, middle
  <2> QED BY <1>1, <2>1, <2>2
<1>3. /\ Repeat(1, c, [kind |-> "BEGIN LOG"]) \in Seq(Send)
      /\ Repeat(1, c, [kind |-> "END LOG"]) \in Seq(Send)
  BY RepeatType DEF Notice
<1>4. /\ Repeat(1, c, [kind |-> "BEGIN LOG"]) \o middle \in Seq(Send)
      /\ (Repeat(1, c, [kind |-> "BEGIN LOG"]) \o middle)
           \o Repeat(1, c, [kind |-> "END LOG"]) \in Seq(Send)
  <2> HIDE DEF middle
  <2> QED BY <1>2, <1>3, ConcatProperties
<1>5. CASE roomMsgs[r] = <<>>
  BY <1>5, EmptySeq DEF History
<1>6. CASE roomMsgs[r] # <<>>
  <2>1. History(c, r) = (Repeat(1, c, [kind |-> "BEGIN LOG"]) \o middle)
                          \o Repeat(1, c, [kind |-> "END LOG"])
    BY <1>6 DEF History
  <2> HIDE DEF middle
  <2> QED BY <1>4, <2>1
<1> QED BY <1>5, <1>6

\* What a handler owes at the end of each of its actions.
HandlerOK == RoomTypeOK' /\ ClientTypeOK' /\ HandlerTypeOK' /\ TaskOK'

LEMMA StartLeaveType ==
  ASSUME TypeOK, NEW c \in Clients, cRoom[c] # Nil, NEW op, NEW arg,
         \/ op = "leave" /\ arg = Nil
         \/ op = "switch" /\ arg \in Names /\ registry[arg] # Nil,
         StartLeave(c, op, arg)
  PROVE  HandlerOK
<1>1. /\ cRoom[c] \in Rooms
      /\ roomClients[cRoom[c]] \in Seq(Clients)
  BY DEF TypeOK, ClientTypeOK, RoomTypeOK
<1>2. EntryOf("leave", c) \in Entry
  BY EntryOfType
<1>3. /\ roomExpire' \in [Rooms -> 0 .. EXTIME]
      /\ quiet' \in [Rooms -> 0 .. EXTIME]
      /\ roomMsgs' \in [Rooms -> Seq(Entry)]
      /\ out' \in Seq(Send)
  <2>1. Broadcast(cRoom[c], EntryOf("leave", c), roomClients[cRoom[c]])
    BY DEF StartLeave
  <2> QED BY <1>1, <1>2, <2>1, BroadcastType
<1>4. RoomTypeOK' /\ ClientTypeOK'
  BY <1>3 DEF StartLeave, TypeOK, RoomTypeOK, ClientTypeOK, clientVars
<1>5. task' \in Task
  BY DEF StartLeave, Task
<1>6. TaskOK'
  BY DEF StartLeave, TaskOK, clientVars
<1> QED BY <1>3, <1>4, <1>5, <1>6 DEF HandlerOK, HandlerTypeOK

LEMMA JoinType ==
  ASSUME TypeOK, NEW c \in Clients, NEW r \in Rooms, Join(c, r)
  PROVE  /\ cRoom' \in [Clients -> Rooms \cup {Nil}]
         /\ got' \in [Clients -> Seq(Entry)]
         /\ HandlerTypeOK'
         /\ TaskOK'
<1>1. cRoom' \in [Clients -> Rooms \cup {Nil}]
  BY DEF TypeOK, ClientTypeOK, Join
<1>2. got' \in [Clients -> Seq(Entry)]
  BY EmptySeq DEF TypeOK, ClientTypeOK, Join
<1>3. out' \in Seq(Send)
  BY HistoryType DEF Join
<1>4. task' \in Task
  BY DEF Join, Task
<1>5. TaskOK'
  BY NilAssumption DEF Join, TaskOK, TypeOK, ClientTypeOK
<1> QED BY <1>1, <1>2, <1>3, <1>4, <1>5 DEF HandlerTypeOK

\* The same for each command.  (Resting: the handler begins here, or is done.)
Resting == task' = NoTask

LEMMA ReplyOnlyOK ==
  ASSUME TypeOK, out' \in Seq(Send), Resting, UNCHANGED <<roomVars, clientVars>>
  PROVE  HandlerOK
<1>1. RoomTypeOK' /\ ClientTypeOK'
  BY DEF TypeOK, RoomTypeOK, ClientTypeOK, roomVars, clientVars
<1>2. task' \in Task /\ TaskOK'
  BY DEF Resting, Task, TaskOK, NoTask
<1> QED BY <1>1, <1>2 DEF HandlerOK, HandlerTypeOK

LEMMA LeaveCRoomOK ==
  ASSUME TypeOK, task = NoTask, NEW c \in Clients, LeaveCRoom(c)
  PROVE  HandlerOK
<1>1. CASE cRoom[c] = Nil
  <2>1. /\ Reply(c, "ERR_LEAVE")
        /\ Resting
        /\ UNCHANGED <<roomVars, clientVars>>
    BY <1>1 DEF LeaveCRoom, Resting, StartLeave
  <2>2. out' \in Seq(Send)
    BY <2>1, ReplyType DEF Notice
  <2> QED BY <2>1, <2>2, ReplyOnlyOK
<1>2. CASE cRoom[c] # Nil
  <2>1. StartLeave(c, "leave", Nil)
    BY <1>2 DEF LeaveCRoom
  <2> QED BY <1>2, <2>1, StartLeaveType
<1> QED BY <1>1, <1>2

LEMMA EnterCRoomOK ==
  ASSUME TypeOK, NEW c \in Clients, NEW n \in Names, EnterCRoom(c, n)
  PROVE  HandlerOK
<1>1. CASE registry[n] = Nil
  <2>1. /\ Reply(c, "ERR_ENTER")
        /\ Resting
        /\ UNCHANGED <<roomVars, clientVars>>
    BY <1>1 DEF EnterCRoom, Resting
  <2>2. out' \in Seq(Send)
    BY <2>1, ReplyType DEF Notice
  <2> QED BY <2>1, <2>2, ReplyOnlyOK
<1>2. CASE registry[n] # Nil /\ cRoom[c] # Nil
  <2>1. StartLeave(c, "switch", n)
    BY <1>2 DEF EnterCRoom
  <2> QED BY <1>2, <2>1, StartLeaveType
<1>3. CASE registry[n] # Nil /\ cRoom[c] = Nil
  <2>1. /\ Join(c, registry[n])
        /\ UNCHANGED <<roomVars, username>>
    BY <1>3 DEF EnterCRoom
  <2>2. registry[n] \in Rooms
    BY <1>3 DEF TypeOK, RoomTypeOK
  <2>3. /\ cRoom' \in [Clients -> Rooms \cup {Nil}]
        /\ got' \in [Clients -> Seq(Entry)]
        /\ HandlerTypeOK'
        /\ TaskOK'
    BY <2>1, <2>2, JoinType
  <2>4. RoomTypeOK' /\ username' \in [Clients -> Users]
    BY <2>1 DEF TypeOK, RoomTypeOK, ClientTypeOK, roomVars
  <2> QED BY <2>3, <2>4 DEF HandlerOK, ClientTypeOK
<1> QED BY <1>1, <1>2, <1>3

LEMMA CreateCRoomOK ==
  ASSUME TypeOK, task = NoTask, NEW c \in Clients, NEW n \in Names,
         CreateCRoom(c, n)
  PROVE  HandlerOK
<1>1. CASE registry[n] # Nil
  <2>1. /\ Reply(c, "ERR_CREATE")
        /\ Resting
        /\ UNCHANGED <<roomVars, clientVars>>
    BY <1>1 DEF CreateCRoom, Resting
  <2>2. out' \in Seq(Send)
    BY <2>1, ReplyType DEF Notice
  <2> QED BY <2>1, <2>2, ReplyOnlyOK
<1>2. CASE registry[n] = Nil
  <2>1. PICK r \in Rooms :
          /\ roomName' = [roomName EXCEPT ![r] = n]
          /\ registry' = [registry EXCEPT ![n] = r]
          /\ roomExpire' = [roomExpire EXCEPT ![r] = EXTIME]
          /\ quiet' = [quiet EXCEPT ![r] = 0]
          /\ timers' = [timers EXCEPT ![r] = <<EXTIME>>]
    BY <1>2 DEF CreateCRoom
  <2>2. /\ Reply(c, "NOTE_ROOM_CREATE")
        /\ task' = [op |-> "create", who |-> c, arg |-> n]
        /\ UNCHANGED <<roomClients, roomMsgs, clientVars>>
    BY <1>2 DEF CreateCRoom
  <2>3. RoomTypeOK'
    <3>1. <<EXTIME>> \in Seq(0 .. EXTIME)
      BY LimitsAssumption
    <3>2. timers' \in [Rooms -> Seq(0 .. EXTIME)]
      BY <2>1, <3>1 DEF TypeOK, RoomTypeOK
    <3> QED
      BY <2>1, <2>2, <3>2, LimitsAssumption DEF TypeOK, RoomTypeOK
  <2>4. ClientTypeOK'
    BY <2>2 DEF TypeOK, ClientTypeOK, clientVars
  <2>5. out' \in Seq(Send)
    BY <2>2, ReplyType DEF Notice
  <2>6. task' \in Task
    BY <2>2 DEF Task
  <2>7. TaskOK'
    BY <2>1, <2>2, NilAssumption DEF TaskOK, TypeOK, RoomTypeOK
  <2> QED BY <2>3, <2>4, <2>5, <2>6, <2>7 DEF HandlerOK, HandlerTypeOK
<1> QED BY <1>1, <1>2

LEMMA SendMsgOK ==
  ASSUME TypeOK, task = NoTask, NEW c \in Clients, SendMsg(c)
  PROVE  HandlerOK
<1>1. CASE cRoom[c] = Nil
  <2>1. /\ Reply(c, "ERR_SEND")
        /\ Resting
        /\ UNCHANGED <<roomVars, clientVars>>
    BY <1>1 DEF SendMsg, Resting
  <2>2. out' \in Seq(Send)
    BY <2>1, ReplyType DEF Notice
  <2> QED BY <2>1, <2>2, ReplyOnlyOK
<1>2. CASE cRoom[c] # Nil
  <2>1. /\ Broadcast(cRoom[c], EntryOf("say", c), roomClients[cRoom[c]])
        /\ UNCHANGED <<registry, roomName, roomClients, timers, clientVars, task>>
    BY <1>2 DEF SendMsg
  <2>2. /\ cRoom[c] \in Rooms
        /\ roomClients[cRoom[c]] \in Seq(Clients)
    BY <1>2 DEF TypeOK, ClientTypeOK, RoomTypeOK
  <2>3. EntryOf("say", c) \in Entry
    BY EntryOfType
  <2>4. /\ roomExpire' \in [Rooms -> 0 .. EXTIME]
        /\ quiet' \in [Rooms -> 0 .. EXTIME]
        /\ roomMsgs' \in [Rooms -> Seq(Entry)]
        /\ out' \in Seq(Send)
    BY <2>1, <2>2, <2>3, BroadcastType
  <2>5. RoomTypeOK' /\ ClientTypeOK'
    BY <2>1, <2>4 DEF TypeOK, RoomTypeOK, ClientTypeOK, clientVars
  <2>6. task' \in Task /\ TaskOK'
    BY <2>1 DEF Task, TaskOK, NoTask
  <2> QED BY <2>4, <2>5, <2>6 DEF HandlerOK, HandlerTypeOK
<1> QED BY <1>1, <1>2

LEMMA ChangeUsernameOK ==
  ASSUME TypeOK, NEW c \in Clients, NEW u \in Users, ChangeUsername(c, u)
  PROVE  HandlerOK
<1>1. /\ task' = [op |-> "rename", who |-> c, arg |-> u]
      /\ UNCHANGED clientVars
  BY DEF ChangeUsername
<1>2. task' \in Task /\ TaskOK' /\ ClientTypeOK'
  BY <1>1 DEF Task, TaskOK, TypeOK, ClientTypeOK, clientVars
<1>3. CASE cRoom[c] = Nil
  <2>1. Reply(c, "NOTE_CHANGENAME") /\ UNCHANGED roomVars
    BY <1>3 DEF ChangeUsername
  <2>2. out' \in Seq(Send)
    BY <2>1, ReplyType DEF Notice
  <2>3. RoomTypeOK'
    BY <2>1 DEF TypeOK, RoomTypeOK, roomVars
  <2> QED BY <1>2, <2>2, <2>3 DEF HandlerOK, HandlerTypeOK
<1>4. CASE cRoom[c] # Nil
  <2> DEFINE e == [EntryOf("name", c) EXCEPT !.now = u]
  <2>1. /\ Broadcast(cRoom[c], e, roomClients[cRoom[c]])
        /\ UNCHANGED <<registry, roomName, roomClients, timers>>
    BY <1>4 DEF ChangeUsername
  <2>2. /\ cRoom[c] \in Rooms
        /\ roomClients[cRoom[c]] \in Seq(Clients)
    BY <1>4 DEF TypeOK, ClientTypeOK, RoomTypeOK
  <2>3. e \in Entry
    BY DEF TypeOK, ClientTypeOK, EntryOf, Entry
  <2> HIDE DEF e
  <2>4. /\ roomExpire' \in [Rooms -> 0 .. EXTIME]
        /\ quiet' \in [Rooms -> 0 .. EXTIME]
        /\ roomMsgs' \in [Rooms -> Seq(Entry)]
        /\ out' \in Seq(Send)
    BY <2>1, <2>2, <2>3, BroadcastType
  <2>5. RoomTypeOK'
    BY <2>1, <2>4 DEF TypeOK, RoomTypeOK
  <2> QED BY <1>2, <2>4, <2>5 DEF HandlerOK, HandlerTypeOK
<1> QED BY <1>3, <1>4

------------------------------------------------------------------------------
(* Well-formedness: the actions.                                            *)

TypeInv == TypeOK /\ TaskOK

LEMMA TypeInit == Init => TypeInv
<1> SUFFICES ASSUME Init PROVE TypeInv
  OBVIOUS
<1>1. NetTypeOK
  BY EmptySeq, LimitsAssumption DEF Init, NetTypeOK
<1>2. RoomTypeOK
  BY EmptySeq, LimitsAssumption DEF Init, RoomTypeOK
<1>3. ClientTypeOK
  BY EmptySeq, CNameAssumption DEF Init, ClientTypeOK
<1>4. HandlerTypeOK
  BY EmptySeq DEF Init, HandlerTypeOK, Task
<1>5. TaskOK
  BY DEF Init, TaskOK, NoTask
<1> QED BY <1>1, <1>2, <1>3, <1>4, <1>5 DEF TypeInv, TypeOK

\* What the peers, main and the goroutines of a client do leaves the lobby's
\* state alone; what the lobby does leaves theirs well formed.
LEMMA OutsideStep ==
  ASSUME TypeInv, NetTypeOK', UNCHANGED <<roomVars, clientVars, task, out>>
  PROVE  TypeInv'
BY DEF TypeInv, TypeOK, TaskOK, RoomTypeOK, ClientTypeOK, HandlerTypeOK,
       roomVars, clientVars

LEMMA OutsideTypes ==
  ASSUME TypeInv, NEW c \in Clients,
         Accept(c) \/ SendWelcome(c) \/ Flush(c) \/ FlushFails(c) \/ Peer(c)
  PROVE  TypeInv'
<1>0. NetTypeOK
  BY DEF TypeInv, TypeOK
<1>1. CASE Accept(c)
  <2>1. NetTypeOK'
    BY <1>0, <1>1 DEF NetTypeOK, Accept
  <2> QED BY <1>1, <2>1, OutsideStep DEF Accept
<1>2. CASE SendWelcome(c)
  <2>1. NetTypeOK'
    BY <1>0, <1>2 DEF NetTypeOK, SendWelcome
  <2> QED BY <1>2, <2>1, OutsideStep DEF SendWelcome
<1>3. CASE Flush(c)
  <2>1. NetTypeOK'
    BY <1>0, <1>3 DEF NetTypeOK, Flush
  <2> QED BY <1>3, <2>1, OutsideStep DEF Flush
<1>4. CASE FlushFails(c)
  <2>1. NetTypeOK'
    BY <1>0, <1>4 DEF NetTypeOK, FlushFails
  <2> QED BY <1>4, <2>1, OutsideStep DEF FlushFails
<1>5. CASE Hangup(c)
  <2>1. NetTypeOK'
    BY <1>0, <1>5 DEF NetTypeOK, Hangup
  <2> QED BY <1>5, <2>1, OutsideStep DEF Hangup
<1>6. CASE LoseInput(c)
  <2>1. Front(inq[c]) \in Seq(Line)
    <3>1. inq[c] \in Seq(Line)
      BY <1>0 DEF NetTypeOK
    <3>2. \A i \in 1 .. Len(inq[c]) - 1 : inq[c][i] \in Line
      BY <3>1, ElementOfSeq, LenProperties
    <3>3. Len(inq[c]) - 1 \in Int
      BY <3>1, LenProperties
    <3> QED BY <3>2, <3>3, SubSeqProperties DEF Front
  <2>2. NetTypeOK'
    BY <1>0, <1>6, <2>1 DEF NetTypeOK, LoseInput
  <2> QED BY <1>6, <2>2, OutsideStep DEF LoseInput
<1>7. ASSUME NEW l \in Lines, TypeLine(c, l)
      PROVE  TypeInv'
  <2>1. Append(inq[c], l) \in Seq(Line)
    BY <1>0, LinesAssumption, AppendProperties DEF NetTypeOK
  <2>2. inq' \in [Clients -> Seq(Line)]
    BY <1>0, <1>7, <2>1 DEF NetTypeOK, TypeLine
  <2>3. lines' \in 0 .. MaxLines
    BY <1>0, <1>7, LimitsAssumption DEF NetTypeOK, TypeLine
  <2>4. NetTypeOK'
    BY <1>0, <1>7, <2>2, <2>3 DEF NetTypeOK, TypeLine
  <2> QED BY <1>7, <2>4, OutsideStep DEF TypeLine
<1> QED
  BY <1>1, <1>2, <1>3, <1>4, <1>5, <1>6, <1>7 DEF Peer

\* The select: a line, the end of an input, a timer.
LEMMA ParseMsgTypes ==
  ASSUME TypeInv, NEW c \in Clients, ParseMsg(c)
  PROVE  TypeInv'
<1> DEFINE msg == Head(inq[c])
<1>1. /\ TypeOK
      /\ task = NoTask
      /\ inq[c] \in Seq(Line)
      /\ inq[c] # <<>>
      /\ inq' = [inq EXCEPT ![c] = Tail(@)]
      /\ UNCHANGED <<conn, writer, fwd, accepting, curClients, lines>>
  BY DEF TypeInv, TypeOK, NetTypeOK, ParseMsg, Take, Idle
<1>2. msg \in Line /\ Tail(inq[c]) \in Seq(Line)
  BY <1>1, HeadTailProperties
<1>3. NetTypeOK'
  BY <1>1, <1>2 DEF TypeOK, NetTypeOK
<1>4. CASE msg.cmd = "create" /\ CreateCRoom(c, msg.arg)
  <2>1. msg.arg \in Names
    BY <1>2, <1>4 DEF Line
  <2>2. HandlerOK
    BY <1>1, <1>4, <2>1, CreateCRoomOK
  <2> QED BY <1>3, <2>2 DEF HandlerOK, TypeInv, TypeOK
<1>5. CASE msg.cmd = "enter" /\ EnterCRoom(c, msg.arg)
  <2>1. msg.arg \in Names
    BY <1>2, <1>5 DEF Line
  <2>2. HandlerOK
    BY <1>1, <1>5, <2>1, EnterCRoomOK
  <2> QED BY <1>3, <2>2 DEF HandlerOK, TypeInv, TypeOK
<1>6. CASE LeaveCRoom(c)
  BY <1>1, <1>3, <1>6, LeaveCRoomOK DEF HandlerOK, TypeInv, TypeOK
<1>7. CASE ListCRooms(c)
  <2>1. \E k \in Nat : out' = Repeat(k, c, [kind |-> "list"])
    <3>1. Cardinality({n \in Names : registry[n] # Nil}) \in Nat
      BY NamesAssumption, FS_Subset, FS_CardinalityType
    <3>2. 3 + Cardinality({n \in Names : registry[n] # Nil}) \in Nat
      BY <3>1
    <3> QED BY <1>7, <3>2 DEF ListCRooms
  <2>2. out' \in Seq(Send)
    BY <2>1, RepeatType DEF Notice
  <2>3. HandlerOK
    BY <1>1, <1>7, <2>2, ReplyOnlyOK DEF ListCRooms, Resting
  <2> QED BY <1>3, <2>3 DEF HandlerOK, TypeInv, TypeOK
<1>8. CASE Help(c)
  <2>1. out' \in Seq(Send)
    BY <1>8, RepeatType, LimitsAssumption DEF Help, Notice
  <2>2. HandlerOK
    BY <1>1, <1>8, <2>1, ReplyOnlyOK DEF Help, Resting
  <2> QED BY <1>3, <2>2 DEF HandlerOK, TypeInv, TypeOK
<1>9. CASE msg.cmd = "name" /\ ChangeUsername(c, msg.arg)
  <2>1. msg.arg \in Users
    BY <1>2, <1>9 DEF Line
  <2>2. HandlerOK
    BY <1>1, <1>9, <2>1, ChangeUsernameOK
  <2> QED BY <1>3, <2>2 DEF HandlerOK, TypeInv, TypeOK
<1>10. CASE SendMsg(c)
  BY <1>1, <1>3, <1>10, SendMsgOK DEF HandlerOK, TypeInv, TypeOK
<1> QED
  BY <1>4, <1>5, <1>6, <1>7, <1>8, <1>9, <1>10 DEF ParseMsg

LEMMA QuitTypes ==
  ASSUME TypeInv, NEW c \in Clients, Quit(c)
  PROVE  TypeInv'
<1>1. inq[c] \in Seq(Line) /\ inq[c] # <<>>
  BY DEF TypeInv, TypeOK, NetTypeOK, Quit, Take
<1>2. Tail(inq[c]) \in Seq(Line)
  BY <1>1, HeadTailProperties
<1>3. NetTypeOK'
  BY <1>2 DEF TypeInv, TypeOK, NetTypeOK, Quit, Take
<1> QED BY <1>3, OutsideStep DEF Quit

LEMMA LeaveOnEOFTypes ==
  ASSUME TypeInv, NEW c \in Clients, LeaveOnEOF(c)
  PROVE  TypeInv'
<1>1. HandlerOK
  BY LeaveCRoomOK DEF TypeInv, LeaveOnEOF, Idle
<1>2. NetTypeOK'
  BY DEF TypeInv, TypeOK, NetTypeOK, LeaveOnEOF
<1> QED BY <1>1, <1>2 DEF HandlerOK, TypeInv, TypeOK

LEMMA DeleteCRoomTypes ==
  ASSUME TypeInv, NEW r \in Rooms, DeleteCRoom(r)
  PROVE  TypeInv'
<1>1. /\ TypeOK
      /\ task = NoTask
      /\ UNCHANGED <<netVars, roomName, roomClients, roomMsgs, roomExpire, quiet,
                     username, task, out>>
  BY DEF TypeInv, DeleteCRoom, Idle
<1>2. PICK i \in DOMAIN timers[r] :
       \/ /\ timers' = [timers EXCEPT ![r] = Append(RemoveAt(@, i), roomExpire[r])]
          /\ UNCHANGED <<registry, cRoom, got>>
       \/ /\ timers' = [timers EXCEPT ![r] = RemoveAt(@, i)]
          /\ registry' = [registry EXCEPT ![roomName[r]] = Nil]
          /\ cRoom' = [c \in Clients |->
                         IF c \in Range(roomClients[r]) THEN Nil ELSE cRoom[c]]
          /\ got' = [c \in Clients |->
                       IF c \in Range(roomClients[r]) THEN <<>> ELSE got[c]]
  BY DEF DeleteCRoom
<1>3. timers[r] \in Seq(0 .. EXTIME) /\ i \in 1 .. Len(timers[r])
  BY <1>1, LenProperties DEF TypeOK, RoomTypeOK
<1>4. RemoveAt(timers[r], i) \in Seq(0 .. EXTIME)
  BY <1>3, RemoveAtProperties
<1>5. Append(RemoveAt(timers[r], i), roomExpire[r]) \in Seq(0 .. EXTIME)
  BY <1>1, <1>4, AppendProperties DEF TypeOK, RoomTypeOK
<1>6. timers' \in [Rooms -> Seq(0 .. EXTIME)]
  BY <1>1, <1>2, <1>4, <1>5 DEF TypeOK, RoomTypeOK
<1>7. registry' \in [Names -> Rooms \cup {Nil}]
  BY <1>1, <1>2 DEF TypeOK, RoomTypeOK
<1>8. RoomTypeOK'
  BY <1>1, <1>6, <1>7 DEF TypeOK, RoomTypeOK
<1>9. ClientTypeOK'
  <2>1. ClientTypeOK /\ UNCHANGED username
    BY <1>1 DEF TypeOK
  <2>2. CASE UNCHANGED <<registry, cRoom, got>>
    BY <2>1, <2>2 DEF ClientTypeOK
  <2>3. CASE /\ cRoom' = [c \in Clients |->
                            IF c \in Range(roomClients[r]) THEN Nil ELSE cRoom[c]]
             /\ got' = [c \in Clients |->
                          IF c \in Range(roomClients[r]) THEN <<>> ELSE got[c]]
    <3>1. <<>> \in Seq(Entry)
      BY EmptySeq
    <3> QED BY <2>1, <2>3, <3>1 DEF ClientTypeOK
  <2> QED BY <1>2, <2>2, <2>3
<1>10. NetTypeOK' /\ HandlerTypeOK' /\ TaskOK'
  BY <1>1 DEF TypeOK, NetTypeOK, HandlerTypeOK, TaskOK, NoTask, netVars
<1> QED BY <1>8, <1>9, <1>10 DEF TypeInv, TypeOK

LEMMA LobbySendTypes ==
  ASSUME TypeInv, LobbySend
  PROVE  TypeInv'
<1> DEFINE c == Head(out).to
           m == Head(out).msg
<1>1. out \in Seq(Send) /\ out # <<>>
  BY DEF TypeInv, TypeOK, HandlerTypeOK, LobbySend
<1>2. c \in Clients /\ Tail(out) \in Seq(Send)
  <2>1. Head(out) \in Send /\ Tail(out) \in Seq(Send)
    BY <1>1, HeadTailProperties
  <2> QED BY <2>1 DEF Send
<1>3. NetTypeOK'
  BY DEF TypeInv, TypeOK, NetTypeOK, LobbySend
<1>4. got' \in [Clients -> Seq(Entry)]
  <2>1. CASE m \in Entry
    <3>1. Append(got[c], m) \in Seq(Entry)
      BY <1>2, <2>1, AppendProperties DEF TypeInv, TypeOK, ClientTypeOK
    <3>2. got' = [got EXCEPT ![c] = Append(@, m)]
      BY <2>1 DEF LobbySend
    <3> HIDE DEF c, m
    <3> QED BY <3>1, <3>2 DEF TypeInv, TypeOK, ClientTypeOK
  <2>2. CASE m \notin Entry
    BY <2>2 DEF LobbySend, TypeInv, TypeOK, ClientTypeOK
  <2> QED BY <2>1, <2>2
<1>5. RoomTypeOK' /\ ClientTypeOK'
  BY <1>4 DEF TypeInv, TypeOK, RoomTypeOK, ClientTypeOK, LobbySend, roomVars
<1>6. HandlerTypeOK' /\ TaskOK'
  BY <1>2 DEF TypeInv, TypeOK, HandlerTypeOK, TaskOK, LobbySend, roomVars
<1> QED BY <1>3, <1>5, <1>6 DEF TypeInv, TypeOK

\* What the task says is of the right kind.
LEMMA TaskTypes ==
  ASSUME TypeInv, task.op # "select"
  PROVE  /\ task.who \in Clients
         /\ task.op \in {"create", "switch"} => task.arg \in Names
         /\ task.op = "rename" => task.arg \in Users
BY DEF TypeInv, TypeOK, HandlerTypeOK, Task, NoTask

LEMMA RemoveMemberType ==
  ASSUME TypeInv, NEW c \in Clients, cRoom[c] # Nil, RemoveMember(c)
  PROVE  roomClients' \in [Rooms -> Seq(Clients)]
<1>1. cRoom[c] \in Rooms /\ roomClients[cRoom[c]] \in Seq(Clients)
  BY DEF TypeInv, TypeOK, RoomTypeOK, ClientTypeOK
<1>2. RemoveFirst(roomClients[cRoom[c]], c) \in Seq(Clients)
  BY <1>1, RemoveFirstProperties
<1> QED BY <1>1, <1>2 DEF RemoveMember, TypeInv, TypeOK, RoomTypeOK

LEMMA ContinueTypes ==
  ASSUME TypeInv, Continue
  PROVE  TypeInv'
<1> DEFINE c == task.who
<1>0. /\ task.op # "select"
      /\ c \in Clients
      /\ UNCHANGED netVars
  BY TaskTypes DEF Continue, FinishCreate, FinishLeave, FinishSwitch,
                   FinishRename, FinishJoin, Resume
<1>1. NetTypeOK'
  BY <1>0 DEF TypeInv, TypeOK, NetTypeOK, netVars
<1>2. CASE FinishCreate
  <2>1. HandlerOK
    BY <1>2, TaskTypes, EnterCRoomOK DEF FinishCreate, Resume, TypeInv
  <2> QED BY <1>1, <2>1 DEF HandlerOK, TypeInv, TypeOK
<1>3. CASE FinishLeave
  <2>1. roomClients' \in [Rooms -> Seq(Clients)]
    BY <1>0, <1>3, RemoveMemberType DEF FinishLeave, Resume, TypeInv, TaskOK
  <2>2. RoomTypeOK'
    BY <1>3, <2>1 DEF FinishLeave, TypeInv, TypeOK, RoomTypeOK
  <2>3. ClientTypeOK'
    BY <1>0, <1>3, EmptySeq DEF FinishLeave, TypeInv, TypeOK, ClientTypeOK
  <2>4. HandlerTypeOK' /\ TaskOK'
    BY <1>3 DEF FinishLeave, TypeInv, TypeOK, HandlerTypeOK, Task, TaskOK, NoTask
  <2> QED BY <1>1, <2>2, <2>3, <2>4 DEF TypeInv, TypeOK
<1>4. CASE FinishSwitch
  <2>1. roomClients' \in [Rooms -> Seq(Clients)]
    BY <1>0, <1>4, RemoveMemberType DEF FinishSwitch, Resume, TypeInv, TaskOK
  <2>2. RoomTypeOK'
    BY <1>4, <2>1 DEF FinishSwitch, TypeInv, TypeOK, RoomTypeOK
  <2>3. registry[task.arg] \in Rooms
    BY <1>4, TaskTypes DEF FinishSwitch, Resume, TypeInv, TaskOK, TypeOK, RoomTypeOK
  <2>4. /\ cRoom' \in [Clients -> Rooms \cup {Nil}]
        /\ got' \in [Clients -> Seq(Entry)]
        /\ HandlerTypeOK'
        /\ TaskOK'
    BY <1>0, <1>4, <2>3, JoinType DEF FinishSwitch, TypeInv
  <2> QED BY <1>1, <1>4, <2>2, <2>4 DEF FinishSwitch, TypeInv, TypeOK, ClientTypeOK
<1>5. CASE FinishRename
  <2>1. ClientTypeOK'
    BY <1>0, <1>5, TaskTypes DEF FinishRename, Resume, TypeInv, TypeOK, ClientTypeOK
  <2>2. RoomTypeOK' /\ HandlerTypeOK' /\ TaskOK'
    BY <1>5 DEF FinishRename, TypeInv, TypeOK, RoomTypeOK, HandlerTypeOK, Task,
                TaskOK, NoTask, roomVars
  <2> QED BY <1>1, <2>1, <2>2 DEF TypeInv, TypeOK
<1>6. CASE FinishJoin
  <2> DEFINE r == cRoom[c]
  <2>1. r \in Rooms /\ Append(roomClients[r], c) \in Seq(Clients)
    <3>1. r \in Rooms
      BY <1>0, <1>6 DEF FinishJoin, Resume, TypeInv, TaskOK, TypeOK, ClientTypeOK
    <3> QED BY <1>0, <3>1, AppendProperties DEF TypeInv, TypeOK, RoomTypeOK
  <2>2. EntryOf("enter", c) \in Entry
    BY <1>0, EntryOfType DEF TypeInv
  <2>3. /\ roomClients' = [roomClients EXCEPT ![r] = Append(@, c)]
        /\ Broadcast(r, EntryOf("enter", c), Append(roomClients[r], c))
        /\ task' = NoTask
        /\ UNCHANGED <<registry, roomName, timers, clientVars>>
    BY <1>6 DEF FinishJoin
  <2> HIDE DEF c, r
  <2>4. /\ roomExpire' \in [Rooms -> 0 .. EXTIME]
        /\ quiet' \in [Rooms -> 0 .. EXTIME]
        /\ roomMsgs' \in [Rooms -> Seq(Entry)]
        /\ out' \in Seq(Send)
    BY <2>1, <2>2, <2>3, BroadcastType DEF TypeInv
  <2>5. RoomTypeOK'
    BY <2>1, <2>3, <2>4 DEF TypeInv, TypeOK, RoomTypeOK
  <2>6. ClientTypeOK' /\ task' \in Task /\ TaskOK'
    BY <2>3 DEF TypeInv, TypeOK, ClientTypeOK, clientVars, Task, TaskOK, NoTask
  <2> QED BY <1>1, <2>4, <2>5, <2>6 DEF TypeInv, TypeOK, HandlerTypeOK
<1> QED
  BY <1>2, <1>3, <1>4, <1>5, <1>6 DEF Continue

LEMMA TickTypes ==
  ASSUME TypeInv, Tick
  PROVE  TypeInv'
<1>1. \A k \in 0 .. EXTIME : Sooner(k) \in 0 .. EXTIME
  BY LimitsAssumption DEF Sooner
<1>2. roomExpire' \in [Rooms -> 0 .. EXTIME]
  BY <1>1 DEF TypeInv, TypeOK, RoomTypeOK, Tick
<1>3. quiet' \in [Rooms -> 0 .. EXTIME]
  BY LimitsAssumption DEF TypeInv, TypeOK, RoomTypeOK, Tick
<1>4. timers' \in [Rooms -> Seq(0 .. EXTIME)]
  <2>1. ASSUME NEW r \in Rooms
        PROVE  [i \in DOMAIN timers[r] |-> Sooner(timers[r][i])] \in Seq(0 .. EXTIME)
    <3>1. timers[r] \in Seq(0 .. EXTIME)
      BY DEF TypeInv, TypeOK, RoomTypeOK
    <3>2. /\ Len(timers[r]) \in Nat
          /\ DOMAIN timers[r] = 1 .. Len(timers[r])
          /\ \A i \in 1 .. Len(timers[r]) : timers[r][i] \in 0 .. EXTIME
      BY <3>1, LenProperties, ElementOfSeq
    <3>3. \A i \in 1 .. Len(timers[r]) : Sooner(timers[r][i]) \in 0 .. EXTIME
      BY <1>1, <3>2
    <3> QED BY <3>2, <3>3
  <2> QED BY <2>1 DEF Tick
<1>5. RoomTypeOK'
  BY <1>2, <1>3, <1>4 DEF TypeInv, TypeOK, RoomTypeOK, Tick
<1> QED
  BY <1>5 DEF TypeInv, TypeOK, NetTypeOK, ClientTypeOK, HandlerTypeOK, TaskOK,
              Tick, netVars, clientVars

LEMMA TypeNext == TypeInv /\ [Next]_vars => TypeInv'
<1> SUFFICES ASSUME TypeInv, [Next]_vars PROVE TypeInv'
  OBVIOUS
<1>1. CASE UNCHANGED vars
  BY <1>1 DEF TypeInv, TypeOK, TaskOK, NetTypeOK, RoomTypeOK, ClientTypeOK,
              HandlerTypeOK, vars, netVars, roomVars, clientVars
<1>2. CASE Lobby
  BY <1>2, ParseMsgTypes, QuitTypes, LeaveOnEOFTypes, DeleteCRoomTypes,
     LobbySendTypes, ContinueTypes DEF Lobby
<1>3. ASSUME NEW c \in Clients,
             Accept(c) \/ SendWelcome(c) \/ Flush(c) \/ FlushFails(c) \/ Peer(c)
      PROVE  TypeInv'
  BY <1>3, OutsideTypes
<1>4. CASE Tick
  BY <1>4, TickTypes
<1>5. CASE Quiescent
  BY <1>1, <1>5 DEF Quiescent
<1> QED
  BY <1>1, <1>2, <1>3, <1>4, <1>5 DEF Next

\* In every reachable state the variables have their types.
THEOREM TypeCorrect == Spec => []TypeOK
<1>1. TypeInv => TypeOK
  BY DEF TypeInv
<1> QED BY <1>1, TypeInit, TypeNext, PTL DEF Spec

\* A handler that was blocked in its sends finds what it relies on: the client
\* is still in the room it leaves or joins, and the room it moves to is still
\* registered.
THEOREM TasksCorrect == Spec => []TaskOK
<1>1. TypeInv => TaskOK
  BY DEF TypeInv
<1> QED BY <1>1, TypeInit, TypeNext, PTL DEF Spec

------------------------------------------------------------------------------
(* Rooms and members.                                                     *)

\* The inductive invariant: neither RoomsAccounted nor MembershipAgrees is
\* inductive alone.  That a room has no second timer is what keeps a deletion
\* from hitting its successor, and that deleted rooms have no members is what
\* makes a created room an empty one.
RoomInv == RoomsAccounted /\ MembershipAgrees

LEMMA RoomInit == Init => RoomInv
<1> SUFFICES ASSUME Init PROVE RoomInv
  OBVIOUS
<1>1. RoomsAccounted
  <2>1. \A r \in Rooms : ~Registered(r)
    BY NilAssumption DEF Init, Registered
  <2> QED BY <2>1, LimitsAssumption DEF Init, RoomsAccounted
<1>2. MembershipAgrees
  <2>1. \A r \in Rooms : ~Registered(r)
    BY NilAssumption DEF Init, Registered
  <2> QED BY <2>1 DEF Init, MembershipAgrees, IsInjective
<1> QED BY <1>1, <1>2 DEF RoomInv

\* What there is to show of the next state.
LEMMA MembershipNext ==
  ASSUME \A r \in Rooms : IsInjective(roomClients'[r]),
         \A d \in Clients : cRoom'[d] # Nil => \E m \in Names : registry'[m] = cRoom'[d],
         \A r \in Rooms : (\E m \in Names : registry'[m] = r) =>
           \A d \in Clients :
             d \in Range(roomClients'[r]) <=> cRoom'[d] = r /\ ~Joining(d)'
  PROVE  MembershipAgrees'
BY DEF MembershipAgrees, Registered

------------------------------------------------------------------------------
(* Steps that leave rooms, seats and timers as they are.                    *)

Steady ==
  /\ UNCHANGED <<registry, roomName, roomClients, timers, cRoom>>
  /\ \A c \in Clients : Joining(c)' <=> Joining(c)
  /\ \A r \in Rooms :
       \/ roomExpire'[r] = roomExpire[r] /\ quiet'[r] = quiet[r]
       \/ roomExpire'[r] = EXTIME /\ quiet'[r] = 0

LEMMA SteadyStep ==
  ASSUME TypeInv, RoomInv, Steady
  PROVE  RoomInv'
<1>1. \A r \in Rooms : Registered(r)' <=> Registered(r)
  BY DEF Registered, Steady
<1>2. RoomsAccounted'
  <2>1. \A n \in Names : registry'[n] # Nil => roomName'[registry'[n]] = n
    BY DEF Steady, RoomInv, RoomsAccounted
  <2>2. ASSUME NEW r \in Rooms
        PROVE  /\ Registered(r)' => Len(timers'[r]) = 1 /\ timers'[r][1] <= roomExpire'[r]
               /\ ~Registered(r)' => timers'[r] = <<>>
               /\ quiet'[r] + roomExpire'[r] = EXTIME
               /\ roomName'[r] = Nil => roomClients'[r] = <<>>
    <3>1. /\ timers[r] \in Seq(0 .. EXTIME)
          /\ roomExpire[r] \in 0 .. EXTIME
      BY DEF TypeInv, TypeOK, RoomTypeOK
    <3>2. Len(timers[r]) = 1 => timers[r][1] \in 0 .. EXTIME
      <4>1. SUFFICES ASSUME Len(timers[r]) = 1 PROVE timers[r][1] \in 0 .. EXTIME
        OBVIOUS
      <4>2. 1 \in 1 .. Len(timers[r])
        BY <4>1
      <4> QED BY <3>1, <4>2, ElementOfSeq
    <3>3. /\ Registered(r) => Len(timers[r]) = 1 /\ timers[r][1] <= roomExpire[r]
          /\ ~Registered(r) => timers[r] = <<>>
          /\ quiet[r] + roomExpire[r] = EXTIME
          /\ roomName[r] = Nil => roomClients[r] = <<>>
      BY DEF RoomInv, RoomsAccounted
    <3>4. /\ timers'[r] = timers[r]
          /\ roomName'[r] = roomName[r]
          /\ roomClients'[r] = roomClients[r]
          /\ \/ roomExpire'[r] = roomExpire[r] /\ quiet'[r] = quiet[r]
             \/ roomExpire'[r] = EXTIME /\ quiet'[r] = 0
      BY DEF Steady
    <3> QED BY <1>1, <3>1, <3>2, <3>3, <3>4, LimitsAssumption
  <2> QED BY <2>1, <2>2 DEF RoomsAccounted
<1>3. MembershipAgrees'
  BY <1>1 DEF Steady, RoomInv, MembershipAgrees, TypeInv, TypeOK, ClientTypeOK
<1> QED BY <1>2, <1>3 DEF RoomInv

\* A broadcast is steady, and so is a reply.
LEMMA BroadcastSteady ==
  ASSUME TypeInv, NEW r \in Rooms, NEW e, NEW members, Broadcast(r, e, members)
  PROVE  \A q \in Rooms :
           \/ roomExpire'[q] = roomExpire[q] /\ quiet'[q] = quiet[q]
           \/ roomExpire'[q] = EXTIME /\ quiet'[q] = 0
BY DEF Broadcast, TypeInv, TypeOK, RoomTypeOK

LEMMA StartLeaveSteady ==
  ASSUME TypeInv, NEW c \in Clients, cRoom[c] # Nil, NEW op \in {"leave", "switch"},
         NEW arg, task.op # "join", StartLeave(c, op, arg)
  PROVE  Steady
<1>1. cRoom[c] \in Rooms
  BY DEF TypeInv, TypeOK, ClientTypeOK
<1>2. \A q \in Rooms :
        \/ roomExpire'[q] = roomExpire[q] /\ quiet'[q] = quiet[q]
        \/ roomExpire'[q] = EXTIME /\ quiet'[q] = 0
  BY <1>1, BroadcastSteady DEF StartLeave
<1>3. \A d \in Clients : Joining(d)' <=> Joining(d)
  BY DEF Joining, StartLeave
<1> QED BY <1>2, <1>3 DEF Steady, StartLeave, clientVars

LEMMA RestSteady ==
  ASSUME UNCHANGED <<roomVars, cRoom>>, task.op # "join", task'.op # "join"
  PROVE  Steady
BY DEF Steady, Joining, roomVars

LEMMA LeaveCRoomSteady ==
  ASSUME TypeInv, task = NoTask, NEW c \in Clients, LeaveCRoom(c)
  PROVE  Steady
<1>1. task.op # "join"
  BY DEF NoTask
<1>2. CASE cRoom[c] = Nil
  BY <1>1, <1>2, RestSteady DEF LeaveCRoom, clientVars, StartLeave
<1>3. CASE cRoom[c] # Nil
  BY <1>1, <1>3, StartLeaveSteady DEF LeaveCRoom
<1> QED BY <1>2, <1>3

------------------------------------------------------------------------------
(* Steps that seat and unseat a client.                                     *)

\* A client in the lobby begins to join a room.
LEMMA JoinStep ==
  ASSUME TypeInv, RoomInv, task.op # "join", NEW c \in Clients, NEW n \in Names,
         registry[n] # Nil, cRoom[c] = Nil, Join(c, registry[n]),
         UNCHANGED roomVars
  PROVE  RoomInv'
<1>1. registry[n] \in Rooms
  BY DEF TypeInv, TypeOK, RoomTypeOK
<1>2. \A r \in Rooms : Registered(r)' <=> Registered(r)
  BY DEF Registered, roomVars
<1>3. RoomsAccounted'
  BY <1>2 DEF RoomInv, RoomsAccounted, roomVars
<1>4. cRoom' = [cRoom EXCEPT ![c] = registry[n]]
  BY DEF Join
<1>5. \A d \in Clients : Joining(d)' <=> d = c
  BY DEF Join, Joining
<1>6. \A d \in Clients : ~Joining(d)
  BY DEF Joining
<1>7. ASSUME NEW d \in Clients, cRoom'[d] # Nil
      PROVE  \E m \in Names : registry'[m] = cRoom'[d]
  <2>1. CASE d = c
    BY <1>4, <2>1 DEF TypeInv, TypeOK, ClientTypeOK, roomVars
  <2>2. CASE d # c
    <3>1. cRoom'[d] = cRoom[d]
      BY <1>4, <2>2 DEF TypeInv, TypeOK, ClientTypeOK
    <3> QED BY <1>7, <3>1 DEF RoomInv, MembershipAgrees, Registered, roomVars
  <2> QED BY <2>1, <2>2
<1>8. ASSUME NEW r \in Rooms, \E m \in Names : registry'[m] = r, NEW d \in Clients
      PROVE  d \in Range(roomClients'[r]) <=> cRoom'[d] = r /\ ~Joining(d)'
  <2>1. d \in Range(roomClients[r]) <=> cRoom[d] = r
    BY <1>6, <1>8 DEF RoomInv, MembershipAgrees, Registered, roomVars
  <2>2. roomClients' = roomClients /\ r # Nil
    BY NilAssumption DEF roomVars
  <2>3. cRoom'[d] = IF d = c THEN registry[n] ELSE cRoom[d]
    BY <1>4 DEF TypeInv, TypeOK, ClientTypeOK
  <2> QED BY <1>5, <2>1, <2>2, <2>3
<1>9. \A r \in Rooms : IsInjective(roomClients'[r])
  BY DEF RoomInv, MembershipAgrees, roomVars
<1> QED BY <1>3, <1>7, <1>8, <1>9, MembershipNext DEF RoomInv

LEMMA EnterCRoomRooms ==
  ASSUME TypeInv, RoomInv, task.op # "join", NEW c \in Clients, NEW n \in Names,
         EnterCRoom(c, n)
  PROVE  RoomInv'
<1>1. CASE registry[n] = Nil
  <2>1. Steady
    BY <1>1, RestSteady DEF EnterCRoom, clientVars, NoTask
  <2> QED BY <2>1, SteadyStep
<1>2. CASE registry[n] # Nil /\ cRoom[c] # Nil
  <2>1. StartLeave(c, "switch", n)
    BY <1>2 DEF EnterCRoom
  <2> QED BY <1>2, <2>1, StartLeaveSteady, SteadyStep
<1>3. CASE registry[n] # Nil /\ cRoom[c] = Nil
  <2>1. Join(c, registry[n]) /\ UNCHANGED roomVars
    BY <1>3 DEF EnterCRoom
  <2> QED BY <1>3, <2>1, JoinStep
<1> QED BY <1>1, <1>2, <1>3

\* A room that comes into being is registered once and is empty.
LEMMA CreateCRoomRooms ==
  ASSUME TypeInv, RoomInv, task = NoTask, NEW c \in Clients, NEW n \in Names,
         CreateCRoom(c, n)
  PROVE  RoomInv'
<1>1. CASE registry[n] # Nil
  <2>1. Steady
    BY <1>1, RestSteady DEF CreateCRoom, clientVars, NoTask
  <2> QED BY <2>1, SteadyStep
<1>2. CASE registry[n] = Nil
  <2>1. PICK r \in Rooms :
          /\ roomName[r] = Nil
          /\ roomName' = [roomName EXCEPT ![r] = n]
          /\ registry' = [registry EXCEPT ![n] = r]
          /\ roomExpire' = [roomExpire EXCEPT ![r] = EXTIME]
          /\ quiet' = [quiet EXCEPT ![r] = 0]
          /\ timers' = [timers EXCEPT ![r] = <<EXTIME>>]
    BY <1>2 DEF CreateCRoom
  <2>2. /\ task' = [op |-> "create", who |-> c, arg |-> n]
        /\ UNCHANGED <<roomClients, roomMsgs, cRoom>>
    BY <1>2 DEF CreateCRoom, clientVars
  <2>3. /\ registry \in [Names -> Rooms \cup {Nil}]
        /\ roomName \in [Rooms -> Names \cup {Nil}]
        /\ roomExpire \in [Rooms -> 0 .. EXTIME]
        /\ quiet \in [Rooms -> 0 .. EXTIME]
        /\ timers \in [Rooms -> Seq(0 .. EXTIME)]
        /\ cRoom \in [Clients -> Rooms \cup {Nil}]
    BY DEF TypeInv, TypeOK, RoomTypeOK, ClientTypeOK
  <2>4. r # Nil /\ n # Nil
    BY NilAssumption
  <2>5. \A m \in Names : registry[m] # r
    BY <2>1, <2>3, <2>4, NilAssumption DEF RoomInv, RoomsAccounted
  <2>6. \A m \in Names : registry'[m] = IF m = n THEN r ELSE registry[m]
    BY <2>1, <2>3
  <2>7. RoomsAccounted'
    <3>1. ASSUME NEW m \in Names, registry'[m] # Nil
          PROVE  roomName'[registry'[m]] = m
      <4>1. CASE m = n
        BY <2>1, <2>3, <2>6, <4>1
      <4>2. CASE m # n
        <5>1. registry'[m] = registry[m] /\ registry[m] # r
          BY <2>5, <2>6, <4>2
        <5>2. registry[m] \in Rooms /\ roomName[registry[m]] = m
          BY <2>3, <3>1, <5>1 DEF RoomInv, RoomsAccounted
        <5> QED BY <2>1, <2>3, <5>1, <5>2
      <4> QED BY <4>1, <4>2
    <3>2. ASSUME NEW q \in Rooms
          PROVE  /\ Registered(q)' => Len(timers'[q]) = 1 /\ timers'[q][1] <= roomExpire'[q]
                 /\ ~Registered(q)' => timers'[q] = <<>>
                 /\ quiet'[q] + roomExpire'[q] = EXTIME
                 /\ roomName'[q] = Nil => roomClients'[q] = <<>>
      <4>1. CASE q = r
        <5>1. Registered(q)'
          BY <2>6, <4>1 DEF Registered
        <5>2. /\ timers'[q] = <<EXTIME>>
              /\ roomExpire'[q] = EXTIME
              /\ quiet'[q] = 0
              /\ roomName'[q] = n
          BY <2>1, <2>3, <4>1
        <5> QED BY <2>4, <5>1, <5>2, LimitsAssumption
      <4>2. CASE q # r
        <5>1. /\ timers'[q] = timers[q]
              /\ roomExpire'[q] = roomExpire[q]
              /\ quiet'[q] = quiet[q]
              /\ roomName'[q] = roomName[q]
              /\ roomClients'[q] = roomClients[q]
          BY <2>1, <2>2, <2>3, <4>2
        <5>2. Registered(q)' <=> Registered(q)
          BY <1>2, <2>6, <4>2, NilAssumption DEF Registered
        <5> QED BY <5>1, <5>2 DEF RoomInv, RoomsAccounted
      <4> QED BY <4>1, <4>2
    <3> QED BY <3>1, <3>2 DEF RoomsAccounted
  <2>8. \A q \in Rooms : IsInjective(roomClients'[q])
    BY <2>2 DEF RoomInv, MembershipAgrees
  <2>9. ASSUME NEW d \in Clients, cRoom'[d] # Nil
        PROVE  \E m \in Names : registry'[m] = cRoom'[d]
    <3>1. PICK m \in Names : registry[m] = cRoom[d]
      BY <2>2, <2>9 DEF RoomInv, MembershipAgrees, Registered
    <3>2. m # n
      BY <1>2, <2>2, <2>9, <3>1
    <3> QED BY <2>2, <2>6, <3>1, <3>2
  <2>10. ASSUME NEW q \in Rooms, \E m \in Names : registry'[m] = q, NEW d \in Clients
         PROVE  d \in Range(roomClients'[q]) <=> cRoom'[d] = q /\ ~Joining(d)'
    <3>1. ~Joining(d)' /\ ~Joining(d)
      BY <2>2 DEF Joining, NoTask
    <3>2. CASE q = r
      <4>1. Range(roomClients'[q]) = {}
        BY <2>1, <2>2, <3>2 DEF RoomInv, RoomsAccounted, Range
      <4>2. cRoom[d] # r
        BY <2>4, <2>5 DEF RoomInv, MembershipAgrees, Registered
      <4> QED BY <2>2, <3>2, <4>1, <4>2
    <3>3. CASE q # r
      <4>1. Registered(q)
        BY <2>6, <2>10, <3>3 DEF Registered
      <4> QED BY <2>2, <3>1, <4>1 DEF RoomInv, MembershipAgrees
    <3> QED BY <3>2, <3>3
  <2> QED BY <2>7, <2>8, <2>9, <2>10, MembershipNext DEF RoomInv
<1> QED BY <1>1, <1>2

LEMMA ParseMsgRooms ==
  ASSUME TypeInv, RoomInv, NEW c \in Clients, ParseMsg(c)
  PROVE  RoomInv'
<1> DEFINE msg == Head(inq[c])
<1>1. /\ task = NoTask
      /\ task.op # "join"
      /\ msg \in Line
  <2>1. inq[c] \in Seq(Line) /\ inq[c] # <<>> /\ task = NoTask
    BY DEF TypeInv, TypeOK, NetTypeOK, ParseMsg, Take, Idle
  <2> QED BY <2>1, HeadTailProperties DEF NoTask
<1>2. CASE msg.cmd = "create" /\ CreateCRoom(c, msg.arg)
  <2>1. msg.arg \in Names
    BY <1>1, <1>2 DEF Line
  <2> QED BY <1>1, <1>2, <2>1, CreateCRoomRooms
<1>3. CASE msg.cmd = "enter" /\ EnterCRoom(c, msg.arg)
  <2>1. msg.arg \in Names
    BY <1>1, <1>3 DEF Line
  <2> QED BY <1>1, <1>3, <2>1, EnterCRoomRooms
<1>4. CASE LeaveCRoom(c)
  BY <1>1, <1>4, LeaveCRoomSteady, SteadyStep
<1>5. CASE ListCRooms(c)
  BY <1>1, <1>5, RestSteady, SteadyStep DEF ListCRooms, clientVars
<1>6. CASE Help(c)
  BY <1>1, <1>6, RestSteady, SteadyStep DEF Help, clientVars
<1>7. CASE ChangeUsername(c, msg.arg)
  <2>1. task'.op # "join" /\ UNCHANGED cRoom
    BY <1>7 DEF ChangeUsername, clientVars
  <2>2. \A d \in Clients : Joining(d)' <=> Joining(d)
    BY <1>1, <2>1 DEF Joining
  <2>3. CASE cRoom[c] = Nil
    BY <1>1, <1>7, <2>1, <2>3, RestSteady, SteadyStep DEF ChangeUsername
  <2>4. CASE cRoom[c] # Nil
    <3>1. cRoom[c] \in Rooms
      BY <2>4 DEF TypeInv, TypeOK, ClientTypeOK
    <3>2. \E e : Broadcast(cRoom[c], e, roomClients[cRoom[c]])
      BY <1>7, <2>4 DEF ChangeUsername
    <3>3. UNCHANGED <<registry, roomName, roomClients, timers>>
      BY <1>7, <2>4 DEF ChangeUsername
    <3>4. \A q \in Rooms :
            \/ roomExpire'[q] = roomExpire[q] /\ quiet'[q] = quiet[q]
            \/ roomExpire'[q] = EXTIME /\ quiet'[q] = 0
      BY <3>1, <3>2, BroadcastSteady
    <3> QED BY <2>1, <2>2, <3>3, <3>4, SteadyStep DEF Steady
  <2> QED BY <2>3, <2>4
<1>8. CASE SendMsg(c)
  <2>1. task' = task /\ UNCHANGED cRoom
    BY <1>1, <1>8 DEF SendMsg, clientVars
  <2>2. CASE cRoom[c] = Nil
    BY <1>1, <1>8, <2>1, <2>2, RestSteady, SteadyStep DEF SendMsg
  <2>3. CASE cRoom[c] # Nil
    <3>1. cRoom[c] \in Rooms
      BY <2>3 DEF TypeInv, TypeOK, ClientTypeOK
    <3>2. /\ Broadcast(cRoom[c], EntryOf("say", c), roomClients[cRoom[c]])
          /\ UNCHANGED <<registry, roomName, roomClients, timers>>
      BY <1>8, <2>3 DEF SendMsg
    <3>3. \A q \in Rooms :
            \/ roomExpire'[q] = roomExpire[q] /\ quiet'[q] = quiet[q]
            \/ roomExpire'[q] = EXTIME /\ quiet'[q] = 0
      BY <3>1, <3>2, BroadcastSteady
    <3> QED BY <2>1, <3>2, <3>3, SteadyStep DEF Steady, Joining
  <2> QED BY <2>2, <2>3
<1> QED
  BY <1>2, <1>3, <1>4, <1>5, <1>6, <1>7, <1>8 DEF ParseMsg

\* The timer of a room ends.  There is no other, so the room that is deleted
\* is the one registered under its name, and all its members are put out.
LEMMA DeleteCRoomRooms ==
  ASSUME TypeInv, RoomInv, NEW r \in Rooms, DeleteCRoom(r)
  PROVE  RoomInv'
<1>1. /\ task = NoTask
      /\ UNCHANGED <<roomName, roomClients, roomExpire, quiet, task>>
      /\ roomExpire[r] \in 0 .. EXTIME
      /\ timers \in [Rooms -> Seq(0 .. EXTIME)]
      /\ registry \in [Names -> Rooms \cup {Nil}]
  BY DEF DeleteCRoom, Idle, TypeInv, TypeOK, RoomTypeOK
<1>2. PICK i \in DOMAIN timers[r] :
        \/ /\ timers' = [timers EXCEPT ![r] = Append(RemoveAt(@, i), roomExpire[r])]
           /\ UNCHANGED <<registry, cRoom>>
        \/ /\ timers' = [timers EXCEPT ![r] = RemoveAt(@, i)]
           /\ registry' = [registry EXCEPT ![roomName[r]] = Nil]
           /\ cRoom' = [c \in Clients |->
                          IF c \in Range(roomClients[r]) THEN Nil ELSE cRoom[c]]
  BY DEF DeleteCRoom
<1>3. Registered(r)
  BY <1>2 DEF RoomInv, RoomsAccounted
<1>4. RemoveAt(timers[r], i) = <<>>
  <2>1. timers[r] \in Seq(0 .. EXTIME) /\ Len(timers[r]) = 1 /\ i \in 1 .. Len(timers[r])
    BY <1>1, <1>3, LenProperties DEF RoomInv, RoomsAccounted
  <2>2. RemoveAt(timers[r], i) \in Seq(0 .. EXTIME) /\ Len(RemoveAt(timers[r], i)) = 0
    BY <2>1, RemoveAtProperties
  <2> QED BY <2>2, EmptySeq
<1>5. \A d \in Clients : ~Joining(d) /\ ~Joining(d)'
  BY <1>1 DEF Joining, NoTask
<1>6. CASE /\ timers' = [timers EXCEPT ![r] = Append(RemoveAt(@, i), roomExpire[r])]
           /\ UNCHANGED <<registry, cRoom>>
  <2>1. \A q \in Rooms : Registered(q)' <=> Registered(q)
    BY <1>6 DEF Registered
  <2>2. \A q \in Rooms : timers'[q] = IF q = r THEN <<roomExpire[r]>> ELSE timers[q]
    <3>1. Append(RemoveAt(timers[r], i), roomExpire[r]) = <<roomExpire[r]>>
      BY <1>4
    <3> QED BY <1>1, <1>6, <3>1
  <2>3. \A q \in Rooms :
          Registered(q)' => Len(timers'[q]) = 1 /\ timers'[q][1] <= roomExpire'[q]
    BY <1>1, <2>1, <2>2, LimitsAssumption DEF RoomInv, RoomsAccounted
  <2>4. RoomsAccounted'
    BY <1>1, <1>3, <1>6, <2>1, <2>2, <2>3 DEF RoomInv, RoomsAccounted
  <2>5. MembershipAgrees'
    BY <1>1, <1>5, <1>6, MembershipNext DEF RoomInv, MembershipAgrees, Registered
  <2> QED BY <2>4, <2>5 DEF RoomInv
<1>7. CASE /\ timers' = [timers EXCEPT ![r] = RemoveAt(@, i)]
           /\ registry' = [registry EXCEPT ![roomName[r]] = Nil]
           /\ cRoom' = [c \in Clients |->
                          IF c \in Range(roomClients[r]) THEN Nil ELSE cRoom[c]]
  <2>1. PICK n \in Names : registry[n] = r /\ roomName[r] = n
    BY <1>3, NilAssumption DEF Registered, RoomInv, RoomsAccounted
  <2>2. \A m \in Names : registry'[m] = IF m = n THEN Nil ELSE registry[m]
    BY <1>1, <1>7, <2>1
  <2>3. \A m \in Names : registry[m] = r => m = n
    BY <2>1, NilAssumption DEF RoomInv, RoomsAccounted
  <2>4. \A q \in Rooms : Registered(q)' <=> Registered(q) /\ q # r
    BY <2>1, <2>2, <2>3, NilAssumption DEF Registered
  <2>5. \A q \in Rooms : timers'[q] = IF q = r THEN <<>> ELSE timers[q]
    BY <1>1, <1>4, <1>7
  <2>6. RoomsAccounted'
    BY <1>1, <2>2, <2>4, <2>5 DEF RoomInv, RoomsAccounted
  <2>7. \A q \in Rooms : IsInjective(roomClients'[q])
    BY <1>1 DEF RoomInv, MembershipAgrees
  <2>8. \A d \in Clients : d \in Range(roomClients[r]) <=> cRoom[d] = r
    BY <1>3, <1>5 DEF RoomInv, MembershipAgrees
  <2>9. ASSUME NEW d \in Clients, cRoom'[d] # Nil
        PROVE  \E m \in Names : registry'[m] = cRoom'[d]
    <3>1. cRoom'[d] = cRoom[d] /\ cRoom[d] # r
      BY <1>7, <2>8, <2>9
    <3>2. PICK m \in Names : registry[m] = cRoom[d]
      BY <2>9, <3>1 DEF RoomInv, MembershipAgrees, Registered
    <3> QED BY <2>1, <2>2, <3>1, <3>2
  <2>10. ASSUME NEW q \in Rooms, \E m \in Names : registry'[m] = q, NEW d \in Clients
         PROVE  d \in Range(roomClients'[q]) <=> cRoom'[d] = q /\ ~Joining(d)'
    <3>1. Registered(q) /\ q # r
      BY <2>4, <2>10 DEF Registered
    <3>2. d \in Range(roomClients[q]) <=> cRoom[d] = q
      BY <1>5, <3>1 DEF RoomInv, MembershipAgrees
    <3>3. cRoom'[d] = IF cRoom[d] = r THEN Nil ELSE cRoom[d]
      BY <1>7, <2>8
    <3> QED BY <1>1, <1>5, <3>1, <3>2, <3>3, NilAssumption
  <2> QED BY <2>6, <2>7, <2>9, <2>10, MembershipNext DEF RoomInv
<1> QED BY <1>2, <1>6, <1>7

------------------------------------------------------------------------------
(* The rest of a handler.                                                   *)

\* A member taken off the list of its room.
LEMMA RemoveMemberEffect ==
  ASSUME TypeInv, RoomInv, task.op # "join", NEW c \in Clients, cRoom[c] # Nil,
         RemoveMember(c)
  PROVE  /\ \A r \in Rooms : IsInjective(roomClients'[r])
         /\ \A r \in Rooms : Registered(r) =>
              \A d \in Clients :
                d \in Range(roomClients'[r]) <=> cRoom[d] = r /\ d # c
         /\ \A r \in Rooms : roomName[r] = Nil => roomClients'[r] = <<>>
<1> DEFINE q == cRoom[c]
<1>1. /\ q \in Rooms
      /\ Registered(q)
      /\ roomClients[q] \in Seq(Clients)
      /\ roomClients \in [Rooms -> Seq(Clients)]
      /\ IsInjective(roomClients[q])
  BY DEF TypeInv, TypeOK, RoomTypeOK, ClientTypeOK, RoomInv, MembershipAgrees
<1>2. /\ IsInjective(RemoveFirst(roomClients[q], c))
      /\ Range(RemoveFirst(roomClients[q], c)) = Range(roomClients[q]) \ {c}
  BY <1>1, RemoveFirstProperties
<1>3. \A r \in Rooms : roomClients'[r] = IF r = q THEN RemoveFirst(roomClients[q], c)
                                         ELSE roomClients[r]
  BY <1>1 DEF RemoveMember
<1>4. \A r \in Rooms : IsInjective(roomClients'[r])
  BY <1>2, <1>3 DEF RoomInv, MembershipAgrees
<1>5. ASSUME NEW r \in Rooms, Registered(r), NEW d \in Clients
      PROVE  d \in Range(roomClients'[r]) <=> cRoom[d] = r /\ d # c
  <2>1. d \in Range(roomClients[r]) <=> cRoom[d] = r
    BY <1>5 DEF RoomInv, MembershipAgrees, Joining
  <2>2. CASE r = q
    BY <1>2, <1>3, <2>1, <2>2
  <2>3. CASE r # q
    BY <1>3, <2>1, <2>3
  <2> QED BY <2>2, <2>3
<1>6. ASSUME NEW r \in Rooms, roomName[r] = Nil
      PROVE  roomClients'[r] = <<>>
  <2>1. r # q
    BY <1>1, <1>6, NilAssumption DEF Registered, RoomInv, RoomsAccounted
  <2> QED BY <1>3, <1>6, <2>1 DEF RoomInv, RoomsAccounted
<1> QED BY <1>4, <1>5, <1>6

LEMMA FinishLeaveRooms ==
  ASSUME TypeInv, RoomInv, FinishLeave
  PROVE  RoomInv'
<1> DEFINE c == task.who
<1>1. /\ c \in Clients
      /\ cRoom[c] # Nil
      /\ task.op # "join"
      /\ task'.op # "join"
  BY TaskTypes DEF FinishLeave, Resume, TypeInv, TaskOK, NoTask
<1>2. /\ \A r \in Rooms : IsInjective(roomClients'[r])
      /\ \A r \in Rooms : Registered(r) =>
           \A d \in Clients :
             d \in Range(roomClients'[r]) <=> cRoom[d] = r /\ d # c
      /\ \A r \in Rooms : roomName[r] = Nil => roomClients'[r] = <<>>
  BY <1>1, RemoveMemberEffect DEF FinishLeave
<1>3. /\ UNCHANGED <<registry, roomName, roomExpire, timers, quiet>>
      /\ \A d \in Clients : cRoom'[d] = IF d = c THEN Nil ELSE cRoom[d]
  BY DEF FinishLeave, TypeInv, TypeOK, ClientTypeOK
<1>4. RoomsAccounted'
  BY <1>2, <1>3 DEF RoomInv, RoomsAccounted, Registered
<1>5. ASSUME NEW d \in Clients, cRoom'[d] # Nil
      PROVE  \E m \in Names : registry'[m] = cRoom'[d]
  BY <1>3, <1>5 DEF RoomInv, MembershipAgrees, Registered
<1>6. ASSUME NEW r \in Rooms, \E m \in Names : registry'[m] = r, NEW d \in Clients
      PROVE  d \in Range(roomClients'[r]) <=> cRoom'[d] = r /\ ~Joining(d)'
  <2>1. d \in Range(roomClients'[r]) <=> cRoom[d] = r /\ d # c
    BY <1>2, <1>3, <1>6 DEF Registered
  <2>2. r # Nil /\ ~Joining(d)'
    BY <1>1, NilAssumption DEF Joining
  <2> QED BY <1>3, <2>1, <2>2
<1> QED BY <1>2, <1>4, <1>5, <1>6, MembershipNext DEF RoomInv

LEMMA FinishSwitchRooms ==
  ASSUME TypeInv, RoomInv, FinishSwitch
  PROVE  RoomInv'
<1> DEFINE c == task.who
           n == task.arg
<1>1. /\ c \in Clients
      /\ n \in Names
      /\ cRoom[c] # Nil
      /\ registry[n] # Nil
      /\ task.op # "join"
  BY TaskTypes DEF FinishSwitch, Resume, TypeInv, TaskOK
<1>2. /\ \A r \in Rooms : IsInjective(roomClients'[r])
      /\ \A r \in Rooms : Registered(r) =>
           \A d \in Clients :
             d \in Range(roomClients'[r]) <=> cRoom[d] = r /\ d # c
      /\ \A r \in Rooms : roomName[r] = Nil => roomClients'[r] = <<>>
  BY <1>1, RemoveMemberEffect DEF FinishSwitch
<1>3. /\ UNCHANGED <<registry, roomName, roomExpire, timers, quiet>>
      /\ \A d \in Clients : cRoom'[d] = IF d = c THEN registry[n] ELSE cRoom[d]
      /\ \A d \in Clients : Joining(d)' <=> d = c
  BY DEF FinishSwitch, Join, Joining, TypeInv, TypeOK, ClientTypeOK
<1>4. RoomsAccounted'
  BY <1>2, <1>3 DEF RoomInv, RoomsAccounted, Registered
<1>5. ASSUME NEW d \in Clients, cRoom'[d] # Nil
      PROVE  \E m \in Names : registry'[m] = cRoom'[d]
  BY <1>1, <1>3, <1>5 DEF RoomInv, MembershipAgrees, Registered
<1>6. ASSUME NEW r \in Rooms, \E m \in Names : registry'[m] = r, NEW d \in Clients
      PROVE  d \in Range(roomClients'[r]) <=> cRoom'[d] = r /\ ~Joining(d)'
  <2>1. d \in Range(roomClients'[r]) <=> cRoom[d] = r /\ d # c
    BY <1>2, <1>3, <1>6 DEF Registered
  <2> QED BY <1>3, <2>1
<1> QED BY <1>2, <1>4, <1>5, <1>6, MembershipNext DEF RoomInv

LEMMA FinishJoinRooms ==
  ASSUME TypeInv, RoomInv, FinishJoin
  PROVE  RoomInv'
<1> DEFINE c == task.who
           q == cRoom[c]
<1>1. /\ c \in Clients
      /\ q # Nil
      /\ Joining(c)
      /\ \A d \in Clients : Joining(d) <=> d = c
      /\ \A d \in Clients : ~Joining(d)'
  BY TaskTypes DEF FinishJoin, Resume, TypeInv, TaskOK, NoTask, Joining
<1>2. q \in Rooms /\ Registered(q)
  BY <1>1 DEF TypeInv, TypeOK, ClientTypeOK, RoomInv, MembershipAgrees
<1>3. /\ roomClients' = [roomClients EXCEPT ![q] = Append(@, c)]
      /\ Broadcast(q, EntryOf("enter", c), Append(roomClients[q], c))
      /\ UNCHANGED <<registry, roomName, timers, cRoom>>
  BY DEF FinishJoin, clientVars
<1>4. /\ roomClients \in [Rooms -> Seq(Clients)]
      /\ roomClients[q] \in Seq(Clients)
      /\ roomClients[q] \in Seq(Clients)
      /\ IsInjective(roomClients[q])
      /\ c \notin Range(roomClients[q])
  BY <1>1, <1>2 DEF TypeInv, TypeOK, RoomTypeOK, RoomInv, MembershipAgrees
<1>5. /\ IsInjective(Append(roomClients[q], c))
      /\ Range(Append(roomClients[q], c)) = Range(roomClients[q]) \cup {c}
  BY <1>1, <1>4, AppendFreshProperties
<1>6. \A r \in Rooms : roomClients'[r] = IF r = q THEN Append(roomClients[q], c)
                                         ELSE roomClients[r]
  BY <1>2, <1>3, <1>4
<1>7. \A r \in Rooms : IsInjective(roomClients'[r])
  BY <1>5, <1>6 DEF RoomInv, MembershipAgrees
<1>8. ASSUME NEW r \in Rooms, \E m \in Names : registry'[m] = r, NEW d \in Clients
      PROVE  d \in Range(roomClients'[r]) <=> cRoom'[d] = r /\ ~Joining(d)'
  <2>1. d \in Range(roomClients[r]) <=> cRoom[d] = r /\ d # c
    BY <1>1, <1>3, <1>8 DEF RoomInv, MembershipAgrees, Registered
  <2>2. CASE r = q
    BY <1>1, <1>3, <1>5, <1>6, <2>1, <2>2
  <2>3. CASE r # q
    BY <1>1, <1>3, <1>6, <2>1, <2>3
  <2> QED BY <2>2, <2>3
<1>9. \A d \in Clients : cRoom'[d] # Nil => \E m \in Names : registry'[m] = cRoom'[d]
  BY <1>3 DEF RoomInv, MembershipAgrees, Registered
<1>10. MembershipAgrees'
  BY <1>7, <1>8, <1>9, MembershipNext
<1>11. RoomsAccounted'
  <2>1. \A r \in Rooms : Registered(r)' <=> Registered(r)
    BY <1>3 DEF Registered
  <2>2. ASSUME NEW r \in Rooms
        PROVE  /\ Registered(r)' => Len(timers'[r]) = 1 /\ timers'[r][1] <= roomExpire'[r]
               /\ ~Registered(r)' => timers'[r] = <<>>
               /\ quiet'[r] + roomExpire'[r] = EXTIME
               /\ roomName'[r] = Nil => roomClients'[r] = <<>>
    <3>1. CASE r = q
      <4>1. roomExpire'[r] = EXTIME /\ quiet'[r] = 0
        BY <1>2, <1>3, <3>1 DEF Broadcast, TypeInv, TypeOK, RoomTypeOK
      <4>2. Len(timers[r]) = 1 /\ timers[r][1] <= roomExpire[r]
        BY <1>2, <3>1 DEF RoomInv, RoomsAccounted
      <4>3. timers[r][1] <= EXTIME
        <5>1. timers[r] \in Seq(0 .. EXTIME) /\ 1 \in 1 .. Len(timers[r])
          BY <4>2 DEF TypeInv, TypeOK, RoomTypeOK
        <5>2. timers[r][1] \in 0 .. EXTIME
          BY <5>1, ElementOfSeq
        <5> QED BY <5>2, LimitsAssumption
      <4>4. roomName[r] # Nil
        BY <1>2, <3>1, NilAssumption DEF Registered, RoomInv, RoomsAccounted
      <4> QED BY <1>2, <1>3, <2>1, <3>1, <4>1, <4>2, <4>3, <4>4, LimitsAssumption
    <3>2. CASE r # q
      <4>1. roomExpire'[r] = roomExpire[r] /\ quiet'[r] = quiet[r]
        BY <1>3, <3>2 DEF Broadcast, TypeInv, TypeOK, RoomTypeOK
      <4> QED BY <1>3, <1>6, <2>1, <3>2, <4>1 DEF RoomInv, RoomsAccounted
    <3> QED BY <3>1, <3>2
  <2>3. \A n \in Names : registry'[n] # Nil => roomName'[registry'[n]] = n
    BY <1>3 DEF RoomInv, RoomsAccounted
  <2> QED BY <2>2, <2>3 DEF RoomsAccounted
<1> QED BY <1>10, <1>11 DEF RoomInv

LEMMA ContinueRooms ==
  ASSUME TypeInv, RoomInv, Continue
  PROVE  RoomInv'
<1>1. CASE FinishCreate
  BY <1>1, TaskTypes, EnterCRoomRooms DEF FinishCreate, Resume
<1>2. CASE FinishRename
  BY <1>2, RestSteady, SteadyStep DEF FinishRename, Resume, NoTask
<1> QED
  BY <1>1, <1>2, FinishLeaveRooms, FinishSwitchRooms, FinishJoinRooms DEF Continue

------------------------------------------------------------------------------
(* The other steps.                                                         *)

\* A step that the rooms, the seats and the running handler do not notice.
LEMMA UnnoticedStep ==
  ASSUME TypeInv, RoomInv, UNCHANGED <<roomVars, cRoom, task>>
  PROVE  RoomInv'
<1>1. Steady
  BY DEF Steady, Joining, roomVars
<1> QED BY <1>1, SteadyStep

LEMMA OutsideRooms ==
  ASSUME TypeInv, RoomInv, NEW c \in Clients,
         Accept(c) \/ SendWelcome(c) \/ Flush(c) \/ FlushFails(c) \/ Peer(c)
  PROVE  RoomInv'
<1>1. UNCHANGED <<roomVars, cRoom, task>>
  BY DEF Accept, SendWelcome, Flush, FlushFails, Peer, Hangup, LoseInput, TypeLine,
         clientVars
<1> QED BY <1>1, UnnoticedStep

LEMMA LeaveOnEOFRooms ==
  ASSUME TypeInv, RoomInv, NEW c \in Clients, LeaveOnEOF(c)
  PROVE  RoomInv'
BY LeaveCRoomSteady, SteadyStep DEF LeaveOnEOF, Idle

\* Timers and expiry come closer together: no timer is overtaken.
LEMMA TickRooms ==
  ASSUME TypeInv, RoomInv, Tick
  PROVE  RoomInv'
<1>1. UNCHANGED <<registry, roomName, roomClients, cRoom, task>>
  BY DEF Tick, clientVars
<1>2. MembershipAgrees'
  BY <1>1, MembershipNext DEF RoomInv, MembershipAgrees, Registered, Joining
<1>3. \A r \in Rooms : Registered(r)' <=> Registered(r)
  BY <1>1 DEF Registered
<1>4. ASSUME NEW r \in Rooms
      PROVE  /\ Registered(r)' => Len(timers'[r]) = 1 /\ timers'[r][1] <= roomExpire'[r]
             /\ ~Registered(r)' => timers'[r] = <<>>
             /\ quiet'[r] + roomExpire'[r] = EXTIME
             /\ roomName'[r] = Nil => roomClients'[r] = <<>>
  <2>1. /\ timers[r] \in Seq(0 .. EXTIME)
        /\ roomExpire[r] \in 0 .. EXTIME
        /\ quiet[r] \in 0 .. EXTIME
    BY DEF TypeInv, TypeOK, RoomTypeOK
  <2>2. /\ roomExpire'[r] = Sooner(roomExpire[r])
        /\ timers'[r] = [i \in DOMAIN timers[r] |-> Sooner(timers[r][i])]
        /\ quiet'[r] = IF quiet[r] < EXTIME THEN quiet[r] + 1 ELSE EXTIME
    BY DEF Tick
  <2>3. /\ Registered(r) => Len(timers[r]) = 1 /\ timers[r][1] <= roomExpire[r]
        /\ ~Registered(r) => timers[r] = <<>>
        /\ quiet[r] + roomExpire[r] = EXTIME
        /\ roomName[r] = Nil => roomClients[r] = <<>>
    BY DEF RoomInv, RoomsAccounted
  <2>4. quiet'[r] + roomExpire'[r] = EXTIME
    BY <2>1, <2>2, <2>3, LimitsAssumption DEF Sooner
  <2>5. ASSUME Registered(r)
        PROVE  Len(timers'[r]) = 1 /\ timers'[r][1] <= roomExpire'[r]
    <3>1. Len(timers[r]) = 1 /\ DOMAIN timers[r] = 1 .. 1 /\ timers[r][1] <= roomExpire[r]
      BY <2>1, <2>3, <2>5, LenProperties
    <3>2. timers[r][1] \in 0 .. EXTIME
      <4>1. 1 \in 1 .. Len(timers[r])
        BY <3>1
      <4> QED BY <2>1, <4>1, ElementOfSeq
    <3>3. timers'[r] = [i \in 1 .. 1 |-> Sooner(timers[r][i])]
      BY <2>2, <3>1
    <3>4. Sooner(timers[r][1]) <= Sooner(roomExpire[r])
      BY <2>1, <3>1, <3>2, LimitsAssumption DEF Sooner
    <3>5. Sooner(timers[r][1]) \in Nat
      BY <3>2, LimitsAssumption DEF Sooner
    <3>6. timers'[r][1] = Sooner(timers[r][1]) /\ Len(timers'[r]) = 1
      <4> DEFINE f == [i \in 1 .. 1 |-> Sooner(timers[r][i])]
      <4>1. DOMAIN f = 1 .. 1 /\ f[1] = Sooner(timers[r][1])
        OBVIOUS
      <4>2. f \in [1 .. 1 -> {f[1]}]
        OBVIOUS
      <4>3. f \in Seq({f[1]})
        BY <4>2
      <4>4. Len(f) = 1
        BY <4>1, <4>3, LenProperties
      <4> QED BY <3>3, <4>1, <4>4
    <3> QED BY <2>2, <3>4, <3>6
  <2>6. ASSUME timers[r] = <<>>
        PROVE  timers'[r] = <<>>
    <3>1. DOMAIN timers[r] = {}
      BY <2>6
    <3> QED BY <2>2, <3>1
  <2> QED BY <1>1, <1>3, <2>3, <2>4, <2>5, <2>6
<1>5. \A n \in Names : registry'[n] # Nil => roomName'[registry'[n]] = n
  BY <1>1 DEF RoomInv, RoomsAccounted
<1> QED BY <1>2, <1>4, <1>5 DEF RoomInv, RoomsAccounted

LEMMA RoomNext == TypeInv /\ RoomInv /\ [Next]_vars => RoomInv'
<1> SUFFICES ASSUME TypeInv, RoomInv, [Next]_vars PROVE RoomInv'
  OBVIOUS
<1>1. CASE UNCHANGED vars
  BY <1>1, UnnoticedStep DEF vars, clientVars
<1>2. CASE Lobby
  <2>1. ASSUME NEW c \in Clients, Quit(c)
        PROVE  RoomInv'
    BY <2>1, UnnoticedStep DEF Quit, clientVars
  <2>2. CASE LobbySend
    BY <2>2, UnnoticedStep DEF LobbySend
  <2> QED
    BY <1>2, <2>1, <2>2, ParseMsgRooms, LeaveOnEOFRooms, DeleteCRoomRooms,
       ContinueRooms DEF Lobby
<1>3. ASSUME NEW c \in Clients,
             Accept(c) \/ SendWelcome(c) \/ Flush(c) \/ FlushFails(c) \/ Peer(c)
      PROVE  RoomInv'
  BY <1>3, OutsideRooms
<1>4. CASE Tick
  BY <1>4, TickRooms
<1>5. CASE Quiescent
  BY <1>1, <1>5 DEF Quiescent
<1> QED
  BY <1>1, <1>2, <1>3, <1>4, <1>5 DEF Next

------------------------------------------------------------------------------
(* The theorems.                                                            *)

LEMMA Invariance == Spec => [](TypeInv /\ RoomInv)
<1>1. Init => TypeInv /\ RoomInv
  BY TypeInit, RoomInit
<1>2. (TypeInv /\ RoomInv) /\ [Next]_vars => (TypeInv /\ RoomInv)'
  BY TypeNext, RoomNext
<1> QED BY <1>1, <1>2, PTL DEF Spec

\* The registry, the rooms and the timers agree: a registered room has exactly
\* one timer, which never sleeps past the room's expiry, and any other has none.
THEOREM RoomsCorrect == Spec => []RoomsAccounted
<1>1. RoomInv => RoomsAccounted
  BY DEF RoomInv
<1> QED BY <1>1, Invariance, PTL

\* Client.cRoom and CRoom.curClients agree in every reachable state, whatever
\* clients do while the lobby is blocked in the middle of a handler.
THEOREM MembershipCorrect == Spec => []MembershipAgrees
<1>1. RoomInv => MembershipAgrees
  BY DEF RoomInv
<1> QED BY <1>1, Invariance, PTL

\* Only a room whose own expiry has come is ever unregistered.
LEMMA DeletionStep ==
  ASSUME TypeInv, RoomInv, [Next]_vars
  PROVE  \A r \in Rooms : Registered(r) /\ ~Registered(r)' => quiet[r] = EXTIME
<1> SUFFICES ASSUME NEW r \in Rooms, Registered(r), ~Registered(r)'
             PROVE  quiet[r] = EXTIME
  OBVIOUS
<1>1. registry' # registry
  BY DEF Registered
<1>2. ASSUME NEW c \in Clients, NEW n \in Names, CreateCRoom(c, n)
      PROVE  FALSE
  <2>1. PICK n0 \in Names : registry[n0] = r
    BY DEF Registered
  <2>2. registry[n] = Nil /\ \E q \in Rooms : registry' = [registry EXCEPT ![n] = q]
    BY <1>1, <1>2 DEF CreateCRoom, roomVars
  <2>3. registry'[n0] = r
    BY <2>1, <2>2, NilAssumption DEF TypeInv, TypeOK, RoomTypeOK
  <2> QED BY <2>3 DEF Registered
<1>3. ASSUME NEW c \in Clients, ParseMsg(c)
      PROVE  FALSE
  <2> DEFINE msg == Head(inq[c])
  <2>1. inq[c] \in Seq(Line) /\ inq[c] # <<>>
    BY <1>3 DEF ParseMsg, Take, TypeInv, TypeOK, NetTypeOK
  <2>2. msg \in Line
    BY <2>1, HeadTailProperties
  <2>3. msg.cmd = "create" /\ CreateCRoom(c, msg.arg)
    <3>1. ~ChangeUsername(c, msg.arg) /\ ~SendMsg(c)
      BY <1>1 DEF ChangeUsername, SendMsg, roomVars
    <3> QED
      BY <1>1, <1>3, <3>1 DEF ParseMsg, EnterCRoom, LeaveCRoom, ListCRooms, Help,
                              StartLeave, roomVars
  <2>4. msg.arg \in Names
    BY <2>2, <2>3 DEF Line
  <2> QED BY <1>2, <2>3, <2>4
<1>4. PICK q \in Rooms : DeleteCRoom(q)
  <2>1. ASSUME NEW c \in Clients
        PROVE  /\ ~Accept(c) /\ ~SendWelcome(c) /\ ~Flush(c) /\ ~FlushFails(c)
               /\ ~Peer(c) /\ ~Quit(c) /\ ~LeaveOnEOF(c)
    BY <1>1 DEF Accept, SendWelcome, Flush, FlushFails, Peer, Hangup, LoseInput,
                TypeLine, Quit, LeaveOnEOF, LeaveCRoom, StartLeave, roomVars
  <2>2. ~LobbySend /\ ~Tick /\ ~Quiescent /\ ~UNCHANGED vars
    BY <1>1 DEF LobbySend, Tick, Quiescent, vars, roomVars
  <2>3. ~Continue
    BY <1>1 DEF Continue, FinishCreate, FinishLeave, FinishSwitch, FinishRename,
                FinishJoin, EnterCRoom, StartLeave, roomVars
  <2> QED BY <1>3, <2>1, <2>2, <2>3 DEF Next, Lobby
<1>5. /\ roomExpire[q] = 0
      /\ registry' = [registry EXCEPT ![roomName[q]] = Nil]
      /\ timers[q] # <<>>
  BY <1>1, <1>4 DEF DeleteCRoom
<1>6. PICK m \in Names : registry[m] = q /\ roomName[q] = m
  BY <1>5, NilAssumption DEF RoomInv, RoomsAccounted, Registered
<1>7. PICK n \in Names : registry[n] = r
  BY DEF Registered
<1>8. n = m
  BY <1>5, <1>6, <1>7 DEF Registered, TypeInv, TypeOK, RoomTypeOK
<1>9. quiet[q] + roomExpire[q] = EXTIME /\ quiet[q] \in 0 .. EXTIME
  BY DEF RoomInv, RoomsAccounted, TypeInv, TypeOK, RoomTypeOK
<1> QED BY <1>5, <1>6, <1>7, <1>8, <1>9, LimitsAssumption

\* A room is deleted only after EXTIME without a word in it, in whatever order
\* the timers end, the broadcasts renew the expiry and names are reused.
THEOREM DeletionCorrect == Spec => DeletionOnlyWhenInactive
<1>1. TypeInv /\ RoomInv /\ [Next]_vars
        => [\A r \in Rooms : Registered(r) /\ ~Registered(r)' => quiet[r] = EXTIME]_vars
  BY DeletionStep
<1> QED BY <1>1, Invariance, PTL DEF Spec, DeletionOnlyWhenInactive
===============================================================================
