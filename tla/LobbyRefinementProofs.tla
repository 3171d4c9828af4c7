------------------------ MODULE LobbyRefinementProofs -------------------------
(***************************************************************************)
(* For every value of the constants of LobbyServer: a client that has left *)
(* stays out, the server implements ChatRooms and each client gets all of  *)
(* its room's log; a log can be read (arrivals, departures and names are   *)
(* consistent), and it tells who is in the room.  The heart of the         *)
(* refinement is what the sends of a handler under way are about to do.    *)
(***************************************************************************)
EXTENDS LobbyProofs

------------------------------------------------------------------------------
(* Departures.                                                              *)

\* Only a connected client is seated, but for one whose departure is under way,
\* and only for a connected client does a handler go on.
ConnectedOnly ==
  /\ task.op \in {"create", "switch", "rename", "join"} => fwd[task.who] = "running"
  /\ \A c \in Clients :
       cRoom[c] # Nil => \/ fwd[c] = "running"
                         \/ task.op = "leave" /\ task.who = c
  /\ accepting # Nil => fwd[accepting] = "none" /\ conn[accepting] # "new"
  /\ \A c \in Clients : conn[c] = "new" => fwd[c] = "none"

LEMMA ConnectedInit == Init => ConnectedOnly
BY NilAssumption DEF Init, ConnectedOnly, NoTask

\* A handler for a connected client that leaves the connections alone.
LEMMA HandlerConnected ==
  ASSUME TypeInv, ConnectedOnly, UNCHANGED <<conn, fwd, accepting>>,
         task.op # "leave", NEW c \in Clients, fwd[c] = "running",
         \A d \in Clients : d # c => cRoom'[d] \in {cRoom[d], Nil},
         task' = NoTask \/ task'.who = c
  PROVE  ConnectedOnly'
BY DEF ConnectedOnly, NoTask

LEMMA EnterConnected ==
  ASSUME TypeInv, NEW c \in Clients, NEW n, EnterCRoom(c, n)
  PROVE  /\ \A d \in Clients : d # c => cRoom'[d] \in {cRoom[d], Nil}
         /\ task' = NoTask \/ task'.who = c
BY DEF EnterCRoom, StartLeave, Join, clientVars, TypeInv, TypeOK, ClientTypeOK

LEMMA ParseMsgConnected ==
  ASSUME TypeInv, ConnectedOnly, NEW c \in Clients, ParseMsg(c)
  PROVE  ConnectedOnly'
<1> DEFINE msg == Head(inq[c])
<1>1. /\ task = NoTask
      /\ task.op # "leave"
      /\ fwd[c] = "running"
      /\ UNCHANGED <<conn, fwd, accepting>>
  BY DEF ParseMsg, Take, Idle, NoTask
<1>2. /\ \A d \in Clients : d # c => cRoom'[d] \in {cRoom[d], Nil}
      /\ task' = NoTask \/ task'.who = c
  <2>1. CASE CreateCRoom(c, msg.arg)
    BY <1>1, <2>1 DEF CreateCRoom, clientVars
  <2>2. CASE EnterCRoom(c, msg.arg)
    BY <2>2, EnterConnected
  <2>3. CASE LeaveCRoom(c)
    BY <1>1, <2>3 DEF LeaveCRoom, StartLeave, clientVars
  <2>4. CASE ListCRooms(c) \/ Help(c)
    BY <1>1, <2>4 DEF ListCRooms, Help, clientVars
  <2>5. CASE ChangeUsername(c, msg.arg) \/ SendMsg(c)
    BY <1>1, <2>5 DEF ChangeUsername, SendMsg, clientVars
  <2> QED BY <2>1, <2>2, <2>3, <2>4, <2>5 DEF ParseMsg
<1> QED BY <1>1, <1>2, HandlerConnected

LEMMA LeaveOnEOFConnected ==
  ASSUME TypeInv, ConnectedOnly, NEW c \in Clients, LeaveOnEOF(c)
  PROVE  ConnectedOnly'
<1>1. /\ task = NoTask
      /\ fwd[c] = "running"
      /\ conn[c] # "new"
      /\ fwd' = [fwd EXCEPT ![c] = "done"]
      /\ UNCHANGED <<conn, accepting>>
      /\ LeaveCRoom(c)
  BY DEF LeaveOnEOF, Idle
<1>2. fwd \in [Clients -> {"none", "running", "done"}] /\ accepting # c
  <2>1. accepting = c => fwd[c] = "none"
    BY NilAssumption DEF ConnectedOnly
  <2> QED BY <1>1, <2>1 DEF TypeInv, TypeOK, NetTypeOK
<1>3. UNCHANGED cRoom
  BY <1>1 DEF LeaveCRoom, StartLeave, clientVars
<1>4. CASE cRoom[c] = Nil
  BY <1>1, <1>2, <1>3, <1>4 DEF LeaveCRoom, ConnectedOnly, NoTask, TypeInv, TypeOK, NetTypeOK
<1>5. CASE cRoom[c] # Nil
  <2>1. task' = [op |-> "leave", who |-> c, arg |-> Nil]
    BY <1>1, <1>5 DEF LeaveCRoom, StartLeave
  <2> QED BY <1>1, <1>2, <1>3, <2>1 DEF ConnectedOnly, NoTask, TypeInv, TypeOK, NetTypeOK
<1> QED BY <1>4, <1>5

LEMMA ContinueConnected ==
  ASSUME TypeInv, ConnectedOnly, Continue
  PROVE  ConnectedOnly'
<1> DEFINE c == task.who
<1>1. c \in Clients /\ UNCHANGED <<conn, fwd, accepting>>
  BY TaskTypes DEF Continue, FinishCreate, FinishLeave, FinishSwitch, FinishRename,
                   FinishJoin, Resume, netVars
<1>2. CASE FinishLeave
  <2>1. task.op = "leave" /\ task' = NoTask
    BY <1>2 DEF FinishLeave, Resume
  <2>2. \A d \in Clients : cRoom'[d] = IF d = c THEN Nil ELSE cRoom[d]
    BY <1>2 DEF FinishLeave, TypeInv, TypeOK, ClientTypeOK
  <2> QED BY <1>1, <2>1, <2>2 DEF ConnectedOnly, NoTask
<1>3. CASE ~FinishLeave
  <2>1. fwd[c] = "running" /\ task.op # "leave"
    BY <1>3 DEF Continue, FinishCreate, FinishSwitch, FinishRename, FinishJoin, Resume,
                ConnectedOnly
  <2>2. CASE FinishCreate
    BY <1>1, <2>1, <2>2, EnterConnected, HandlerConnected DEF FinishCreate
  <2>3. CASE FinishSwitch
    BY <1>1, <2>1, <2>3, HandlerConnected
       DEF FinishSwitch, Join, TypeInv, TypeOK, ClientTypeOK
  <2>4. CASE FinishRename \/ FinishJoin
    BY <1>1, <2>1, <2>4, HandlerConnected DEF FinishRename, FinishJoin, clientVars
  <2> QED BY <1>3, <2>2, <2>3, <2>4 DEF Continue
<1> QED BY <1>2, <1>3

LEMMA OutsideConnected ==
  ASSUME TypeInv, ConnectedOnly, NEW c \in Clients,
         Accept(c) \/ SendWelcome(c) \/ Flush(c) \/ FlushFails(c) \/ Peer(c)
  PROVE  ConnectedOnly'
<1>1. UNCHANGED <<task, cRoom>>
  BY DEF Accept, SendWelcome, Flush, FlushFails, Peer, Hangup, LoseInput, TypeLine,
         clientVars
<1>2. CASE Accept(c)
  BY <1>1, <1>2 DEF Accept, ConnectedOnly, TypeInv, TypeOK, NetTypeOK
<1>3. CASE SendWelcome(c)
  <2>1. /\ accepting = c /\ accepting' = Nil
        /\ \A d \in Clients : fwd'[d] = IF d = c THEN "running" ELSE fwd[d]
        /\ conn' = conn
    BY <1>3 DEF SendWelcome, TypeInv, TypeOK, NetTypeOK
  <2>2. c # Nil
    BY NilAssumption
  <2>3. task.op \in {"create", "switch", "rename", "join"} => task.who \in Clients
    BY TaskTypes
  <2> QED BY <1>1, <2>1, <2>2, <2>3 DEF ConnectedOnly
<1>4. CASE Flush(c) \/ FlushFails(c) \/ Peer(c)
  <2>1. /\ UNCHANGED <<fwd, accepting>>
        /\ \A d \in Clients : conn'[d] = "new" => conn[d] = "new"
    BY <1>4 DEF Flush, FlushFails, Peer, Hangup, LoseInput, TypeLine,
                TypeInv, TypeOK, NetTypeOK
  <2>2. accepting # Nil => accepting \in Clients
    BY DEF TypeInv, TypeOK, NetTypeOK
  <2> QED BY <1>1, <2>1, <2>2 DEF ConnectedOnly
<1> QED BY <1>2, <1>3, <1>4

LEMMA ConnectedNext == TypeInv /\ ConnectedOnly /\ [Next]_vars => ConnectedOnly'
<1> SUFFICES ASSUME TypeInv, ConnectedOnly, [Next]_vars PROVE ConnectedOnly'
  OBVIOUS
<1>1. CASE UNCHANGED vars
  BY <1>1 DEF ConnectedOnly, vars, netVars, clientVars
<1>2. CASE Lobby
  <2>1. ASSUME NEW c \in Clients, Quit(c)
        PROVE  ConnectedOnly'
    <3>1. \A d \in Clients : conn'[d] = "new" => conn[d] = "new"
      BY <2>1 DEF Quit, TypeInv, TypeOK, NetTypeOK
    <3>2. accepting # Nil => accepting \in Clients
      BY DEF TypeInv, TypeOK, NetTypeOK
    <3> QED BY <2>1, <3>1, <3>2 DEF Quit, ConnectedOnly, clientVars
  <2>2. ASSUME NEW r \in Rooms, DeleteCRoom(r)
        PROVE  ConnectedOnly'
    <3>1. /\ UNCHANGED <<conn, fwd, accepting, task>>
          /\ \A d \in Clients : cRoom'[d] \in {cRoom[d], Nil}
      BY <2>2 DEF DeleteCRoom, netVars
    <3> QED BY <3>1 DEF ConnectedOnly
  <2>3. CASE LobbySend
    BY <2>3 DEF LobbySend, ConnectedOnly
  <2> QED BY <1>2, <2>1, <2>2, <2>3, ParseMsgConnected, LeaveOnEOFConnected,
             ContinueConnected DEF Lobby
<1>3. ASSUME NEW c \in Clients,
             Accept(c) \/ SendWelcome(c) \/ Flush(c) \/ FlushFails(c) \/ Peer(c)
      PROVE  ConnectedOnly'
  BY <1>3, OutsideConnected
<1>4. CASE Tick
  BY <1>4 DEF Tick, ConnectedOnly, netVars, clientVars
<1> QED BY <1>1, <1>2, <1>3, <1>4 DEF Next, Quiescent

\* Once a client's departure was handled it is in no room and on no room's list,
\* although its last entry may have waited for a slow reader.
THEOREM DepartedCorrect == Spec => []DepartedStayOut
<1>1. Init => ConnectedOnly
  BY ConnectedInit
<1>2. ConnectedOnly /\ TypeInv /\ [Next]_vars => ConnectedOnly'
  BY ConnectedNext
<1>3. TypeInv /\ RoomInv /\ ConnectedOnly => DepartedStayOut
  <2> SUFFICES ASSUME TypeInv, RoomInv, ConnectedOnly,
                      NEW c \in Clients, fwd[c] = "done", Idle
               PROVE  /\ cRoom[c] = Nil
                      /\ \A r \in Rooms : Registered(r) => c \notin Range(roomClients[r])
    BY DEF DepartedStayOut
  <2>1. cRoom[c] = Nil
    BY DEF ConnectedOnly, Idle, NoTask
  <2> QED BY <2>1, NilAssumption DEF RoomInv, MembershipAgrees
<1> QED BY <1>1, <1>2, <1>3, Invariance, PTL DEF Spec
------------------------------------------------------------------------------
(* What the lobby is about to hand out.                                     *)

UpToDate(c) == cRoom[c] # Nil => got[c] = roomMsgs[cRoom[c]]

\* Nothing of a log is under way.
NothingPending ==
  /\ \A c \in Clients : UpToDate(c)
  /\ \A i \in 1 .. Len(out) : out[i].msg \notin Entry

\* The last entry of r's log is under way to those members who lack it.
Announcing(r, e, s) ==
  /\ roomMsgs[r] = Append(s, e)
  /\ \A i \in 1 .. Len(out) :
       out[i].msg = e /\ cRoom[out[i].to] = r /\ got[out[i].to] = s
  /\ \A i, j \in 1 .. Len(out) : out[i].to = out[j].to => i = j
  /\ \A c \in Clients : UpToDate(c) \/ \E i \in 1 .. Len(out) : out[i].to = c

\* The log of its room is under way to c, which has the first k entries.
Replaying(c, log, k) ==
  /\ \A d \in Clients \ {c} : UpToDate(d)
  /\ cRoom[c] # Nil /\ roomMsgs[cRoom[c]] = log
  /\ k <= Len(log) /\ Len(got[c]) = k /\ \A j \in 1 .. k : got[c][j] = log[j]
  /\ \A i \in 1 .. Len(out) : out[i].to = c
  /\ \/ /\ k = 0 /\ Len(out) = Len(log) + 2
        /\ out[1].msg \notin Entry
        /\ \A j \in 1 .. Len(log) : out[j + 1].msg = log[j]
     \/ /\ Len(out) = Len(log) - k + 1
        /\ \A j \in 1 .. Len(log) - k : out[j].msg = log[k + j]
  /\ out[Len(out)].msg \notin Entry

Delivery ==
  \/ NothingPending
  \/ \E r \in Rooms, e \in Entry, s \in Seq(Entry) : Announcing(r, e, s)
  \/ \E c \in Clients, log \in Seq(Entry), k \in Nat : Replaying(c, log, k)

LEMMA NoticeIsNoEntry == \A m \in Notice : m \notin Entry
BY DEF Notice, Entry

\* When a handler's sends are through, everybody has the whole log.
LEMMA Drained ==
  ASSUME Delivery, out = <<>>
  PROVE  \A c \in Clients : UpToDate(c)
<1>1. Len(out) = 0
  OBVIOUS
<1>2. CASE NothingPending
  BY <1>2 DEF NothingPending
<1>3. ASSUME NEW r \in Rooms, NEW e \in Entry, NEW s \in Seq(Entry), Announcing(r, e, s)
      PROVE  \A c \in Clients : UpToDate(c)
  BY <1>1, <1>3 DEF Announcing
<1>4. ASSUME NEW c \in Clients, NEW log \in Seq(Entry), NEW k \in Nat, Replaying(c, log, k)
      PROVE  FALSE
  <2>1. Len(log) \in Nat
    BY LenProperties
  <2> QED BY <1>1, <1>4, <2>1 DEF Replaying
<1> QED BY <1>2, <1>3, <1>4 DEF Delivery

\* Sends that are all notices.
LEMMA OnlyNotices ==
  ASSUME \A c \in Clients : UpToDate(c)',
         \A i \in 1 .. Len(out') : out'[i].msg \in Notice
  PROVE  Delivery'
BY NoticeIsNoEntry DEF Delivery, NothingPending

LEMMA NothingSent ==
  ASSUME \A c \in Clients : UpToDate(c)', out' = <<>>
  PROVE  Delivery'
<1>1. Len(out') = 0
  OBVIOUS
<1> QED BY <1>1, OnlyNotices

\* A reply, and a message repeated, are notices.
LEMMA ReplyPending ==
  ASSUME TypeInv, \A c \in Clients : UpToDate(c), UNCHANGED <<roomMsgs, cRoom, got>>,
         NEW c, NEW k, [kind |-> k] \in Notice, Reply(c, k)
  PROVE  Delivery'
<1>1. /\ Len(out') = 1
      /\ out'[1].msg = [kind |-> k]
  BY DEF Reply
<1> QED BY <1>1, OnlyNotices DEF UpToDate

LEMMA RepeatPending ==
  ASSUME TypeInv, \A c \in Clients : UpToDate(c), UNCHANGED <<roomMsgs, cRoom, got>>,
         NEW c \in Clients, NEW n \in Nat, NEW m \in Notice, out' = Repeat(n, c, m)
  PROVE  Delivery'
<1>1. /\ Len(out') = n
      /\ \A i \in 1 .. n : out'[i].msg = m
  BY RepeatType DEF Repeat
<1> QED BY <1>1, OnlyNotices DEF UpToDate

\* A broadcast to all members of a room.
LEMMA BroadcastPending ==
  ASSUME TypeInv, \A c \in Clients : UpToDate(c), UNCHANGED <<cRoom, got>>,
         NEW r \in Rooms, NEW e \in Entry, NEW members \in Seq(Clients),
         IsInjective(members), \A c \in Clients : c \in Range(members) <=> cRoom[c] = r,
         Broadcast(r, e, members)
  PROVE  Delivery'
<1>0. PICK s \in Seq(Entry) : s = roomMsgs[r]
  BY DEF TypeInv, TypeOK, RoomTypeOK
<1>1. /\ roomMsgs \in [Rooms -> Seq(Entry)]
      /\ s \in Seq(Entry)
      /\ \A q \in Rooms : roomMsgs'[q] = IF q = r THEN Append(s, e) ELSE roomMsgs[q]
      /\ r # Nil
  BY <1>0, NilAssumption DEF Broadcast, TypeInv, TypeOK, RoomTypeOK
<1>2. /\ Len(members) \in Nat
      /\ DOMAIN members = 1 .. Len(members)
      /\ \A i \in 1 .. Len(members) : members[i] \in Clients
  BY LenProperties, ElementOfSeq
<1>3. /\ Len(out') = Len(members)
      /\ \A i \in 1 .. Len(members) : out'[i].to = members[i] /\ out'[i].msg = e
  <2>1. out' = [i \in 1 .. Len(members) |-> [to |-> members[i], msg |-> e]]
    BY <1>2 DEF Broadcast, ToEach
  <2>2. \A i \in 1 .. Len(members) : [to |-> members[i], msg |-> e] \in Send
    BY <1>2 DEF Send
  <2> QED BY <1>2, <2>1, <2>2
<1>4. ASSUME NEW i \in 1 .. Len(out')
      PROVE  out'[i].msg = e /\ cRoom'[out'[i].to] = r /\ got'[out'[i].to] = s
  <2>1. i \in 1 .. Len(members)
    BY <1>3, <1>4
  <2>2. out'[i].msg = e /\ out'[i].to = members[i] /\ members[i] \in Clients
    BY <1>2, <1>3, <2>1
  <2>3. members[i] \in Range(members)
    BY <1>2, <2>1 DEF Range
  <2>4. cRoom[members[i]] = r
    BY <2>2, <2>3
  <2>5. got[members[i]] = s
    BY <1>0, <1>1, <2>2, <2>4 DEF UpToDate
  <2> QED BY <2>2, <2>4, <2>5
<1>5. ASSUME NEW i \in 1 .. Len(out'), NEW j \in 1 .. Len(out'), out'[i].to = out'[j].to
      PROVE  i = j
  <2>1. /\ i \in DOMAIN members /\ j \in DOMAIN members
        /\ members[i] = members[j]
    BY <1>2, <1>3, <1>5
  <2> QED BY <2>1 DEF IsInjective
<1>6. ASSUME NEW c \in Clients, \A i \in 1 .. Len(out') : out'[i].to # c
      PROVE  UpToDate(c)'
  <2>1. c \notin Range(members)
    <3>1. \A i \in 1 .. Len(members) : members[i] # c
      BY <1>3, <1>6
    <3> QED BY <1>2, <3>1 DEF Range
  <2>2. cRoom[c] # r
    BY <2>1
  <2>3. cRoom[c] \in Rooms \cup {Nil}
    BY DEF TypeInv, TypeOK, ClientTypeOK
  <2>4. cRoom[c] # Nil => roomMsgs'[cRoom[c]] = roomMsgs[cRoom[c]]
    BY <1>1, <2>2, <2>3
  <2> QED BY <2>4 DEF UpToDate
<1>7. Announcing(r, e, s)'
  <2>1. roomMsgs'[r] = Append(s, e)
    BY <1>1
  <2>2. \A c \in Clients : UpToDate(c)' \/ \E i \in 1 .. Len(out') : out'[i].to = c
    BY <1>6
  <2> QED BY <1>4, <1>5, <2>1, <2>2 DEF Announcing
<1> QED BY <1>1, <1>7 DEF Delivery

\* The start of a join: the log between two markers, if there is a log.
LEMMA JoinPending ==
  ASSUME TypeInv, NEW c \in Clients, \A d \in Clients : UpToDate(d), UNCHANGED roomMsgs,
         NEW r \in Rooms, Join(c, r)
  PROVE  Delivery'
<1>0. PICK log \in Seq(Entry) : log = roomMsgs[r]
  BY DEF TypeInv, TypeOK, RoomTypeOK
<1>1. /\ roomMsgs'[r] = log
      /\ Len(log) \in Nat
      /\ DOMAIN log = 1 .. Len(log)
      /\ \A i \in 1 .. Len(log) : log[i] \in Entry
      /\ r # Nil
  BY <1>0, NilAssumption, LenProperties, ElementOfSeq
<1>2. /\ \A d \in Clients : cRoom'[d] = IF d = c THEN r ELSE cRoom[d]
      /\ \A d \in Clients : got'[d] = IF d = c THEN <<>> ELSE got[d]
      /\ out' = History(c, r)
  BY DEF Join, TypeInv, TypeOK, ClientTypeOK
<1>3. \A d \in Clients \ {c} : UpToDate(d)'
  BY <1>2 DEF UpToDate
<1>4. CASE log = <<>>
  <2>1. UpToDate(c)'
    BY <1>0, <1>2, <1>4 DEF UpToDate
  <2> QED BY <1>0, <1>2, <1>3, <1>4, <2>1, NothingSent DEF History
<1>5. CASE log # <<>>
  <2> DEFINE begin == Repeat(1, c, [kind |-> "BEGIN LOG"])
             middle == [i \in DOMAIN log |-> [to |-> c, msg |-> log[i]]]
             end == Repeat(1, c, [kind |-> "END LOG"])
  <2>1. /\ begin \in Seq(Send) /\ Len(begin) = 1
        /\ end \in Seq(Send) /\ Len(end) = 1
        /\ begin[1].to = c /\ begin[1].msg \in Notice
        /\ end[1].to = c /\ end[1].msg \in Notice
    <3>1. [kind |-> "BEGIN LOG"] \in Notice /\ [kind |-> "END LOG"] \in Notice
      BY DEF Notice
    <3>2. begin \in Seq(Send) /\ Len(begin) = 1 /\ end \in Seq(Send) /\ Len(end) = 1
      BY <3>1, RepeatType
    <3>3. /\ begin[1] = [to |-> c, msg |-> [kind |-> "BEGIN LOG"]]
          /\ end[1] = [to |-> c, msg |-> [kind |-> "END LOG"]]
      BY DEF Repeat
    <3> HIDE DEF begin, end
    <3>4. \A m : [to |-> c, msg |-> m].to = c /\ [to |-> c, msg |-> m].msg = m
      OBVIOUS
    <3>5. /\ begin[1].to = c /\ begin[1].msg = [kind |-> "BEGIN LOG"]
          /\ end[1].to = c /\ end[1].msg = [kind |-> "END LOG"]
      BY <3>3, <3>4, Zenon
    <3> QED BY <3>1, <3>2, <3>5
  <2>2. /\ middle \in Seq(Send) /\ Len(middle) = Len(log)
        /\ \A i \in 1 .. Len(log) : middle[i].to = c /\ middle[i].msg = log[i]
    <3>1. \A i \in 1 .. Len(log) : [to |-> c, msg |-> log[i]] \in Send
      BY <1>1 DEF Send
    <3>2. middle = [i \in 1 .. Len(log) |-> [to |-> c, msg |-> log[i]]]
      BY <1>1
    <3> HIDE DEF middle
    <3> QED BY <1>1, <3>1, <3>2
  <2>3. out' = begin \o middle \o end
    BY <1>0, <1>2, <1>5 DEF History
  <2> HIDE DEF begin, middle, end
  <2> DEFINE front == begin \o middle
  <2>4. /\ front \in Seq(Send)
        /\ Len(front) = Len(log) + 1
        /\ \A i \in 1 .. Len(log) + 1 :
             front[i] = IF i <= 1 THEN begin[i] ELSE middle[i - 1]
    <3>0. begin \in Seq(Send) /\ middle \in Seq(Send)
      BY <2>1, <2>2
    <3>1. /\ front \in Seq(Send)
          /\ Len(front) = Len(begin) + Len(middle)
          /\ \A i \in 1 .. Len(begin) + Len(middle) :
               front[i] = IF i <= Len(begin) THEN begin[i] ELSE middle[i - Len(begin)]
      BY <3>0, ConcatProperties
    <3>2. Len(begin) + Len(middle) = Len(log) + 1
      BY <1>1, <2>1, <2>2
    <3> HIDE DEF front
    <3> QED BY <2>1, <3>1, <3>2
  <2>5. /\ Len(out') = Len(log) + 2
        /\ \A i \in 1 .. Len(log) + 2 :
             out'[i] = IF i <= Len(log) + 1 THEN front[i] ELSE end[i - (Len(log) + 1)]
    <3>1. out' = front \o end
      BY <2>3
    <3> HIDE DEF front
    <3>2. /\ Len(front \o end) = Len(front) + Len(end)
          /\ \A i \in 1 .. Len(front) + Len(end) :
               (front \o end)[i] = IF i <= Len(front) THEN front[i] ELSE end[i - Len(front)]
      BY <2>1, <2>4, ConcatProperties
    <3>3. Len(front) + Len(end) = Len(log) + 2
      BY <1>1, <2>1, <2>4
    <3> QED BY <2>4, <3>1, <3>2, <3>3
  <2> HIDE DEF front
  <2>6. /\ out'[1] = begin[1]
        /\ out'[Len(log) + 2] = end[1]
        /\ \A j \in 1 .. Len(log) : out'[j + 1] = middle[j]
    <3>1. out'[1] = begin[1]
      BY <1>1, <2>4, <2>5
    <3>2. out'[Len(log) + 2] = end[1]
      <4>1. Len(log) + 2 - (Len(log) + 1) = 1
        BY <1>1
      <4> QED BY <1>1, <2>5, <4>1
    <3>3. ASSUME NEW j \in 1 .. Len(log)
          PROVE  out'[j + 1] = middle[j]
      <4>1. j + 1 \in 1 .. Len(log) + 1 /\ j + 1 > 1 /\ j + 1 - 1 = j
        BY <1>1
      <4>2. front[j + 1] = middle[j]
        BY <1>1, <2>4, <4>1
      <4>3. out'[j + 1] = front[j + 1]
        BY <1>1, <2>5, <4>1
      <4> QED BY <4>2, <4>3
    <3> QED BY <3>1, <3>2, <3>3
  <2>9. ASSUME NEW i \in 1 .. Len(out')
        PROVE  out'[i].to = c
    <3>1. CASE i = 1
      BY <2>1, <2>6, <3>1
    <3>2. CASE i = Len(log) + 2
      BY <2>1, <2>6, <3>2
    <3>3. CASE i # 1 /\ i # Len(log) + 2
      <4>1. i - 1 \in 1 .. Len(log) /\ (i - 1) + 1 = i
        BY <1>1, <2>5, <3>3
      <4>2. out'[(i - 1) + 1] = middle[i - 1]
        BY <2>6, <4>1
      <4>3. middle[i - 1].to = c
        BY <2>2, <4>1
      <4> QED BY <4>1, <4>2, <4>3
    <3> QED BY <3>1, <3>2, <3>3
  <2>7. out'[1].msg \notin Entry /\ out'[Len(out')].msg \notin Entry
    BY <2>1, <2>5, <2>6, NoticeIsNoEntry
  <2>8. Replaying(c, log, 0)'
    <3>1. /\ cRoom'[c] = r /\ r # Nil /\ roomMsgs'[r] = log
          /\ 0 <= Len(log) /\ got'[c] = <<>> /\ Len(got'[c]) = 0
      BY <1>1, <1>2
    <3>2. \A j \in 1 .. 0 : got'[c][j] = log[j]
      OBVIOUS
    <3>3. \A j \in 1 .. Len(log) : out'[j + 1].msg = log[j]
      BY ONLY <2>2, <2>6
    <3> QED BY ONLY <1>3, <2>5, <2>7, <2>9, <3>1, <3>2, <3>3 DEF Replaying
  <2> QED BY <1>1, <2>8 DEF Delivery
<1> QED BY <1>4, <1>5

\* The entry m is the next of its room's log that c lacks.
NextEntry(c, m) ==
  /\ cRoom[c] # Nil
  /\ Len(got[c]) < Len(roomMsgs[cRoom[c]])
  /\ m = roomMsgs[cRoom[c]][Len(got[c]) + 1]

\* A send takes the first message, and hands on an entry only in its turn.
LEMMA SendPending ==
  ASSUME TypeInv, Delivery, LobbySend
  PROVE  /\ Delivery'
         /\ Head(out).msg \in Entry => NextEntry(Head(out).to, Head(out).msg)
<1> DEFINE n == Len(out)
<1>1. PICK c \in Clients, m \in Entry \cup Notice : c = out[1].to /\ m = out[1].msg
  <2>1. out \in Seq(Send) /\ out # <<>>
    BY DEF TypeInv, TypeOK, HandlerTypeOK, LobbySend
  <2>2. out[1] \in Send
    BY <2>1, EmptySeq, ElementOfSeq
  <2> QED BY <2>2 DEF Send
<1>2. /\ Head(out).to = c /\ Head(out).msg = m
      /\ n \in Nat \ {0} /\ Len(out') = n - 1
      /\ \A i \in 1 .. n - 1 : out'[i] = out[i + 1]
  <2>1. out \in Seq(Send) /\ out # <<>> /\ out' = Tail(out)
    BY DEF TypeInv, TypeOK, HandlerTypeOK, LobbySend
  <2>2. Head(out) = out[1]
    BY <2>1
  <2> QED BY <1>1, <2>1, <2>2, EmptySeq, HeadTailProperties
<1>3. /\ \A d \in Clients : got[d] \in Seq(Entry)
      /\ \A d \in Clients : got'[d] = IF d = c /\ m \in Entry THEN Append(got[c], m) ELSE got[d]
      /\ UNCHANGED <<roomMsgs, cRoom, task>>
  BY <1>2 DEF LobbySend, TypeInv, TypeOK, ClientTypeOK, roomVars
<1>4. CASE NothingPending
  <2>1. m \notin Entry
    BY <1>1, <1>2, <1>4 DEF NothingPending
  <2>2. \A d \in Clients : UpToDate(d)'
    BY <1>3, <1>4, <2>1 DEF NothingPending, UpToDate
  <2>3. \A i \in 1 .. n - 1 : out'[i].msg \notin Entry
    BY <1>2, <1>4 DEF NothingPending
  <2>4. NothingPending'
    BY <1>2, <2>2, <2>3 DEF NothingPending
  <2> QED BY <1>2, <2>1, <2>4 DEF Delivery
<1>5. ASSUME NEW r \in Rooms, NEW e \in Entry, NEW s \in Seq(Entry), Announcing(r, e, s)
      PROVE  Delivery' /\ NextEntry(c, m)
  <2>1. m = e /\ cRoom[c] = r /\ got[c] = s /\ r # Nil
    <3>1. 1 \in 1 .. n
      BY <1>2
    <3> QED BY <1>1, <1>5, <3>1, NilAssumption DEF Announcing
  <2>2. /\ Append(s, e) \in Seq(Entry)
        /\ Len(s) \in Nat /\ Len(Append(s, e)) = Len(s) + 1
        /\ Append(s, e)[Len(s) + 1] = e
    BY AppendProperties, LenProperties
  <2>3. roomMsgs[r] = Append(s, e)
    BY <1>5 DEF Announcing
  <2>4. NextEntry(c, m)
    BY <2>1, <2>2, <2>3 DEF NextEntry
  <2>5. UpToDate(c)'
    BY <1>3, <2>1, <2>3 DEF UpToDate
  <2>6. ASSUME NEW i \in 1 .. n - 1
        PROVE  out'[i].msg = e /\ cRoom'[out'[i].to] = r /\ got'[out'[i].to] = s
    <3>1. i + 1 \in 1 .. n /\ 1 \in 1 .. n /\ i + 1 # 1 /\ out'[i] = out[i + 1]
      BY <1>2
    <3>2. out[i + 1].msg = e /\ cRoom[out[i + 1].to] = r /\ got[out[i + 1].to] = s
      BY <1>5, <3>1 DEF Announcing
    <3>3. out[i + 1].to # c
      BY <1>1, <1>5, <3>1 DEF Announcing
    <3>4. out[i + 1].to \in Clients
      <4>1. out[i + 1] \in Send
        BY <3>1, ElementOfSeq DEF TypeInv, TypeOK, HandlerTypeOK
      <4> QED BY <4>1 DEF Send
    <3> QED BY <1>3, <3>1, <3>2, <3>3, <3>4
  <2>7. ASSUME NEW i \in 1 .. n - 1, NEW j \in 1 .. n - 1, out'[i].to = out'[j].to
        PROVE  i = j
    <3>1. /\ i + 1 \in 1 .. n /\ j + 1 \in 1 .. n
          /\ out'[i] = out[i + 1] /\ out'[j] = out[j + 1]
      BY <1>2
    <3>2. i + 1 = j + 1
      BY <1>5, <2>7, <3>1 DEF Announcing
    <3> QED BY <3>2
  <2>8. ASSUME NEW d \in Clients, \A i \in 1 .. n - 1 : out'[i].to # d
        PROVE  UpToDate(d)'
    <3>1. CASE d = c
      BY <2>5, <3>1
    <3>2. CASE d # c
      <4>1. ASSUME NEW i \in 1 .. n PROVE out[i].to # d
        <5>1. CASE i = 1
          BY <1>1, <3>2, <5>1
        <5>2. CASE i # 1
          <6>1. i - 1 \in 1 .. n - 1 /\ (i - 1) + 1 = i
            BY <1>2, <5>2
          <6>2. out'[i - 1] = out[(i - 1) + 1]
            BY <1>2, <6>1
          <6> QED BY <2>8, <6>1, <6>2
        <5> QED BY <5>1, <5>2
      <4>2. UpToDate(d)
        BY <1>5, <4>1 DEF Announcing
      <4> QED BY <1>3, <3>2, <4>2 DEF UpToDate
    <3> QED BY <3>1, <3>2
  <2>9. Announcing(r, e, s)'
    <3>1. roomMsgs'[r] = Append(s, e)
      BY <1>3, <2>3
    <3>2. \A d \in Clients : UpToDate(d)' \/ \E i \in 1 .. n - 1 : out'[i].to = d
      BY <2>8
    <3> HIDE DEF n
    <3> QED BY <1>2, <2>6, <2>7, <3>1, <3>2 DEF Announcing
  <2> QED BY <2>4, <2>9 DEF Delivery
<1>6. ASSUME NEW d \in Clients, NEW log \in Seq(Entry), NEW k \in Nat,
             Replaying(d, log, k)
      PROVE  Delivery' /\ (m \in Entry => NextEntry(c, m))
  <2>1. d = c
    <3>1. 1 \in 1 .. n
      BY <1>2
    <3> QED BY <1>1, <1>6, <3>1 DEF Replaying
  <2>2. /\ Len(log) \in Nat
        /\ \A i \in 1 .. Len(log) : log[i] \in Entry
    BY LenProperties, ElementOfSeq
  <2>3. /\ \A b \in Clients \ {c} : UpToDate(b)'
        /\ cRoom'[c] # Nil /\ roomMsgs'[cRoom'[c]] = log
    BY <1>3, <1>6, <2>1 DEF Replaying, UpToDate
  <2>4. \A i \in 1 .. n - 1 : out'[i].to = c
    <3>1. \A i \in 1 .. n - 1 : out'[i] = out[i + 1] /\ i + 1 \in 1 .. n
      BY <1>2
    <3> QED BY <1>6, <2>1, <3>1 DEF Replaying
  <2>5. n > 1 => out'[n - 1].msg \notin Entry
    <3>1. n > 1 => out'[n - 1] = out[n]
      <4>1. n > 1 => n - 1 \in 1 .. n - 1 /\ (n - 1) + 1 = n
        BY <1>2
      <4> QED BY <1>2, <4>1
    <3> QED BY <1>6, <3>1 DEF Replaying
  <2>6. /\ cRoom[c] # Nil /\ roomMsgs[cRoom[c]] = log
        /\ k <= Len(log) /\ Len(got[c]) = k /\ \A j \in 1 .. k : got[c][j] = log[j]
    BY <1>6, <2>1 DEF Replaying
  <2>7. CASE /\ k = 0 /\ n = Len(log) + 2
             /\ out[1].msg \notin Entry
             /\ \A j \in 1 .. Len(log) : out[j + 1].msg = log[j]
    <3>1. m \notin Entry /\ got'[c] = got[c]
      BY <1>1, <1>3, <2>7
    <3>2. \A j \in 1 .. Len(log) - k : out'[j].msg = log[k + j]
      <4>1. \A j \in 1 .. Len(log) : out'[j] = out[j + 1] /\ k + j = j
        BY <1>2, <2>2, <2>7
      <4> QED BY <2>2, <2>7, <4>1
    <3>3. Len(out') = Len(log) - k + 1 /\ n > 1 /\ n - 1 = Len(out')
      BY <1>2, <2>2, <2>7
    <3>4. Replaying(c, log, k)'
      BY <2>3, <2>4, <2>5, <2>6, <3>1, <3>2, <3>3 DEF Replaying
    <3> QED BY <3>1, <3>4 DEF Delivery
  <2>8. CASE /\ n = Len(log) - k + 1
             /\ \A j \in 1 .. Len(log) - k : out[j].msg = log[k + j]
    <3>1. CASE k < Len(log)
      <4>1. 1 \in 1 .. Len(log) - k /\ k + 1 \in 1 .. Len(log)
        BY <2>2, <3>1
      <4>2. m = log[k + 1] /\ m \in Entry
        BY <1>1, <2>2, <2>8, <4>1
      <4>3. NextEntry(c, m)
        BY <2>6, <3>1, <4>2 DEF NextEntry
      <4>4. /\ got'[c] = Append(got[c], m)
            /\ Len(got'[c]) = k + 1
            /\ \A j \in 1 .. k + 1 : got'[c][j] = log[j]
        <5>1. got'[c] = Append(got[c], m) /\ got[c] \in Seq(Entry)
          BY <1>3, <4>2
        <5>2. /\ Len(Append(got[c], m)) = k + 1
              /\ \A j \in 1 .. k : Append(got[c], m)[j] = got[c][j]
              /\ Append(got[c], m)[k + 1] = m
          BY <2>6, <4>2, <5>1, AppendProperties
        <5>3. \A j \in 1 .. k + 1 : j \in 1 .. k \/ j = k + 1
          OBVIOUS
        <5> QED BY <2>6, <4>2, <5>1, <5>2, <5>3
      <4>5. \A j \in 1 .. Len(log) - (k + 1) : out'[j].msg = log[(k + 1) + j]
        <5> SUFFICES ASSUME NEW j \in 1 .. Len(log) - (k + 1)
                     PROVE  out'[j].msg = log[(k + 1) + j]
          OBVIOUS
        <5>1. /\ j \in 1 .. n - 1 /\ j + 1 \in 1 .. Len(log) - k
              /\ k + (j + 1) = (k + 1) + j
          BY <2>2, <2>8
        <5>2. out'[j] = out[j + 1] /\ out[j + 1].msg = log[k + (j + 1)]
          BY <1>2, <2>8, <5>1
        <5> QED BY <5>1, <5>2
      <4>6. /\ k + 1 \in Nat /\ k + 1 <= Len(log)
            /\ Len(out') = Len(log) - (k + 1) + 1 /\ n > 1 /\ n - 1 = Len(out')
        BY <1>2, <2>2, <2>8, <3>1
      <4>7. Replaying(c, log, k + 1)'
        BY <2>3, <2>4, <2>5, <4>4, <4>5, <4>6 DEF Replaying
      <4> QED BY <4>3, <4>6, <4>7 DEF Delivery
    <3>2. CASE k = Len(log)
      <4>1. n = 1 /\ Len(out') = 0
        BY <1>2, <2>2, <2>8, <3>2
      <4>2. m \notin Entry
        BY <1>1, <1>6, <4>1 DEF Replaying
      <4>3. got[c] = log
        <5>1. got[c] \in Seq(Entry) /\ Len(got[c]) = Len(log)
          BY <1>3, <2>6, <3>2
        <5>2. \A j \in 1 .. Len(got[c]) : got[c][j] = log[j]
          BY <2>6
        <5> QED BY <5>1, <5>2, SeqEqual
      <4>4. UpToDate(c)'
        BY <1>3, <2>3, <4>2, <4>3 DEF UpToDate
      <4>5. NothingPending'
        BY <2>3, <4>1, <4>4 DEF NothingPending
      <4> QED BY <4>2, <4>5 DEF Delivery
    <3> QED BY <2>2, <2>6, <3>1, <3>2
  <2> QED BY <1>6, <2>1, <2>7, <2>8 DEF Replaying
<1> QED BY <1>2, <1>4, <1>5, <1>6 DEF Delivery

------------------------------------------------------------------------------
(* Every handler starts when nothing is pending.                            *)

LEMMA StartLeavePending ==
  ASSUME TypeInv, RoomInv, \A d \in Clients : UpToDate(d), task.op # "join",
         NEW c \in Clients, cRoom[c] # Nil, NEW op, NEW arg, StartLeave(c, op, arg)
  PROVE  Delivery'
<1>1. /\ cRoom[c] \in Rooms
      /\ roomClients[cRoom[c]] \in Seq(Clients)
      /\ EntryOf("leave", c) \in Entry
  BY EntryOfType DEF TypeInv, TypeOK, RoomTypeOK, ClientTypeOK
<1>2. /\ IsInjective(roomClients[cRoom[c]])
      /\ \A d \in Clients : d \in Range(roomClients[cRoom[c]]) <=> cRoom[d] = cRoom[c]
  BY <1>1 DEF RoomInv, MembershipAgrees, Joining
<1> QED BY <1>1, <1>2, BroadcastPending DEF StartLeave, clientVars

LEMMA EnterCRoomPending ==
  ASSUME TypeInv, RoomInv, \A d \in Clients : UpToDate(d), task.op # "join",
         NEW c \in Clients, NEW n \in Names, EnterCRoom(c, n)
  PROVE  Delivery'
<1>1. CASE registry[n] = Nil
  <2>1. [kind |-> "ERR_ENTER"] \in Notice
    BY DEF Notice
  <2>2. Reply(c, "ERR_ENTER") /\ UNCHANGED <<roomMsgs, cRoom, got>>
    BY <1>1 DEF EnterCRoom, roomVars, clientVars
  <2> QED BY <2>1, <2>2, ReplyPending
<1>2. CASE registry[n] # Nil /\ cRoom[c] # Nil
  <2>1. StartLeave(c, "switch", n)
    BY <1>2 DEF EnterCRoom
  <2> QED BY <1>2, <2>1, StartLeavePending
<1>3. CASE registry[n] # Nil /\ cRoom[c] = Nil
  <2>1. registry[n] \in Rooms /\ Join(c, registry[n]) /\ UNCHANGED roomMsgs
    BY <1>3 DEF EnterCRoom, roomVars, TypeInv, TypeOK, RoomTypeOK
  <2> QED BY <2>1, JoinPending
<1> QED BY <1>1, <1>2, <1>3

LEMMA LeaveCRoomPending ==
  ASSUME TypeInv, RoomInv, \A d \in Clients : UpToDate(d), task = NoTask,
         NEW c \in Clients, LeaveCRoom(c)
  PROVE  Delivery'
<1>1. CASE cRoom[c] = Nil
  <2>1. [kind |-> "ERR_LEAVE"] \in Notice
    BY DEF Notice
  <2>2. Reply(c, "ERR_LEAVE") /\ UNCHANGED <<roomMsgs, cRoom, got>>
    BY <1>1 DEF LeaveCRoom, roomVars, clientVars
  <2> QED BY <2>1, <2>2, ReplyPending
<1>2. CASE cRoom[c] # Nil
  <2>1. StartLeave(c, "leave", Nil) /\ task.op # "join"
    BY <1>2 DEF LeaveCRoom, NoTask
  <2> QED BY <1>2, <2>1, StartLeavePending
<1> QED BY <1>1, <1>2

\* A seated client says something or announces a name.
LEMMA SpeakPending ==
  ASSUME TypeInv, RoomInv, \A d \in Clients : UpToDate(d), task = NoTask,
         NEW c \in Clients, cRoom[c] # Nil, NEW e \in Entry, UNCHANGED clientVars,
         Broadcast(cRoom[c], e, roomClients[cRoom[c]])
  PROVE  Delivery'
<1>1. cRoom[c] \in Rooms /\ roomClients[cRoom[c]] \in Seq(Clients)
  BY DEF TypeInv, TypeOK, RoomTypeOK, ClientTypeOK
<1>2. /\ IsInjective(roomClients[cRoom[c]])
      /\ \A d \in Clients : d \in Range(roomClients[cRoom[c]]) <=> cRoom[d] = cRoom[c]
  BY <1>1 DEF RoomInv, MembershipAgrees, Joining, NoTask
<1> QED BY <1>1, <1>2, BroadcastPending DEF clientVars

LEMMA ParseMsgPending ==
  ASSUME TypeInv, RoomInv, Delivery, NEW c \in Clients, ParseMsg(c)
  PROVE  Delivery'
<1> DEFINE msg == Head(inq[c])
<1>1. /\ task = NoTask /\ task.op # "join"
      /\ \A d \in Clients : UpToDate(d)
      /\ msg \in Line
  <2>1. inq[c] \in Seq(Line) /\ inq[c] # <<>> /\ task = NoTask /\ out = <<>>
    BY DEF TypeInv, TypeOK, NetTypeOK, ParseMsg, Take, Idle
  <2> QED BY <2>1, HeadTailProperties, Drained DEF NoTask
<1>2. CASE msg.cmd = "create" /\ CreateCRoom(c, msg.arg)
  <2>1. /\ Reply(c, "ERR_CREATE") \/ Reply(c, "NOTE_ROOM_CREATE")
        /\ UNCHANGED <<roomMsgs, cRoom, got>>
    BY <1>2 DEF CreateCRoom, roomVars, clientVars
  <2>2. [kind |-> "ERR_CREATE"] \in Notice /\ [kind |-> "NOTE_ROOM_CREATE"] \in Notice
    BY DEF Notice
  <2> QED BY <1>1, <2>1, <2>2, ReplyPending
<1>3. CASE msg.cmd = "enter" /\ EnterCRoom(c, msg.arg)
  <2>1. msg.arg \in Names
    BY <1>1, <1>3 DEF Line
  <2> QED BY <1>1, <1>3, <2>1, EnterCRoomPending
<1>4. CASE LeaveCRoom(c)
  BY <1>1, <1>4, LeaveCRoomPending
<1>5. CASE ListCRooms(c)
  <2>1. 3 + Cardinality({n \in Names : registry[n] # Nil}) \in Nat
    <3>1. IsFiniteSet({n \in Names : registry[n] # Nil})
      BY NamesAssumption, FS_Subset
    <3> QED BY <3>1, FS_CardinalityType
  <2>2. [kind |-> "list"] \in Notice
    BY DEF Notice
  <2>3. /\ out' = Repeat(3 + Cardinality({n \in Names : registry[n] # Nil}),
                         c, [kind |-> "list"])
        /\ UNCHANGED <<roomMsgs, cRoom, got>>
    BY <1>5 DEF ListCRooms, roomVars, clientVars
  <2> QED BY <1>1, <2>1, <2>2, <2>3, RepeatPending
<1>6. CASE Help(c)
  <2>1. [kind |-> "help"] \in Notice
    BY DEF Notice
  <2>2. /\ out' = Repeat(HelpLines, c, [kind |-> "help"])
        /\ UNCHANGED <<roomMsgs, cRoom, got>>
    BY <1>6 DEF Help, roomVars, clientVars
  <2> QED BY <1>1, <2>1, <2>2, LimitsAssumption, RepeatPending
<1>7. CASE msg.cmd = "name" /\ ChangeUsername(c, msg.arg)
  <2>1. CASE cRoom[c] = Nil
    <3>1. [kind |-> "NOTE_CHANGENAME"] \in Notice
      BY DEF Notice
    <3>2. Reply(c, "NOTE_CHANGENAME") /\ UNCHANGED <<roomMsgs, cRoom, got>>
      BY <1>7, <2>1 DEF ChangeUsername, roomVars, clientVars
    <3> QED BY <1>1, <3>1, <3>2, ReplyPending
  <2>2. CASE cRoom[c] # Nil
    <3> DEFINE e == [EntryOf("name", c) EXCEPT !.now = msg.arg]
    <3>1. e \in Entry
      <4>1. msg.arg \in Users
        BY <1>1, <1>7 DEF Line
      <4> QED BY <4>1 DEF TypeInv, TypeOK, ClientTypeOK, EntryOf, Entry
    <3>2. Broadcast(cRoom[c], e, roomClients[cRoom[c]]) /\ UNCHANGED clientVars
      BY <1>7, <2>2 DEF ChangeUsername
    <3> HIDE DEF e
    <3> QED BY <1>1, <2>2, <3>1, <3>2, SpeakPending
  <2> QED BY <2>1, <2>2
<1>8. CASE SendMsg(c)
  <2>1. CASE cRoom[c] = Nil
    <3>1. [kind |-> "ERR_SEND"] \in Notice
      BY DEF Notice
    <3>2. Reply(c, "ERR_SEND") /\ UNCHANGED <<roomMsgs, cRoom, got>>
      BY <1>8, <2>1 DEF SendMsg, roomVars, clientVars
    <3> QED BY <1>1, <3>1, <3>2, ReplyPending
  <2>2. CASE cRoom[c] # Nil
    <3>1. EntryOf("say", c) \in Entry
      BY EntryOfType DEF TypeInv
    <3>2. /\ Broadcast(cRoom[c], EntryOf("say", c), roomClients[cRoom[c]])
          /\ UNCHANGED clientVars
      BY <1>8, <2>2 DEF SendMsg
    <3> QED BY <1>1, <2>2, <3>1, <3>2, SpeakPending
  <2> QED BY <2>1, <2>2
<1> QED
  BY <1>2, <1>3, <1>4, <1>5, <1>6, <1>7, <1>8 DEF ParseMsg

LEMMA DeletePending ==
  ASSUME TypeInv, Delivery, NEW r \in Rooms, DeleteCRoom(r)
  PROVE  Delivery'
<1>1. /\ out = <<>> /\ UNCHANGED <<out, roomMsgs>>
      /\ \A d \in Clients : UpToDate(d)
  BY Drained DEF DeleteCRoom, Idle
<1>2. \A d \in Clients : \/ cRoom'[d] = Nil
                         \/ cRoom'[d] = cRoom[d] /\ got'[d] = got[d]
  BY DEF DeleteCRoom
<1>3. \A d \in Clients : UpToDate(d)'
  BY <1>1, <1>2 DEF UpToDate
<1> QED BY <1>1, <1>3, NothingSent

LEMMA ContinuePending ==
  ASSUME TypeInv, RoomInv, Delivery, Continue
  PROVE  Delivery'
<1> DEFINE c == task.who
<1>1. /\ c \in Clients
      /\ out = <<>>
      /\ \A d \in Clients : UpToDate(d)
  BY TaskTypes, Drained DEF Continue, FinishCreate, FinishLeave, FinishSwitch, FinishRename,
                            FinishJoin, Resume
<1>2. CASE FinishCreate
  BY <1>1, <1>2, TaskTypes, EnterCRoomPending DEF FinishCreate, Resume
<1>3. CASE FinishLeave
  <2>1. /\ out' = <<>> /\ UNCHANGED roomMsgs
        /\ \A d \in Clients : cRoom'[d] = IF d = c THEN Nil ELSE cRoom[d]
        /\ \A d \in Clients \ {c} : got'[d] = got[d]
    BY <1>1, <1>3 DEF FinishLeave, TypeInv, TypeOK, ClientTypeOK
  <2>2. \A d \in Clients : UpToDate(d)'
    BY <1>1, <2>1 DEF UpToDate
  <2> QED BY <2>1, <2>2, NothingSent
<1>4. CASE FinishSwitch
  <2>1. task.arg \in Names /\ registry[task.arg] # Nil
    BY <1>4, TaskTypes DEF FinishSwitch, Resume, TypeInv, TaskOK
  <2>2. registry[task.arg] \in Rooms
    BY <2>1 DEF TypeInv, TypeOK, RoomTypeOK
  <2>3. Join(c, registry[task.arg]) /\ UNCHANGED roomMsgs
    BY <1>4 DEF FinishSwitch
  <2> QED BY <1>1, <2>2, <2>3, JoinPending
<1>5. CASE FinishRename
  <2>1. out' = <<>> /\ UNCHANGED <<roomMsgs, cRoom, got>>
    BY <1>1, <1>5 DEF FinishRename, roomVars
  <2> QED BY <1>1, <2>1, NothingSent DEF UpToDate
<1>6. CASE FinishJoin
  <2> DEFINE r == cRoom[c]
  <2>1. r \in Rooms /\ Registered(r) /\ task.op = "join"
    BY <1>1, <1>6 DEF FinishJoin, Resume, TypeInv, TypeOK, ClientTypeOK, TaskOK,
                      RoomInv, MembershipAgrees
  <2>2. /\ roomClients[r] \in Seq(Clients) /\ IsInjective(roomClients[r])
        /\ \A d \in Clients : d \in Range(roomClients[r]) <=> cRoom[d] = r /\ d # c
    BY <2>1 DEF TypeInv, TypeOK, RoomTypeOK, RoomInv, MembershipAgrees, Joining
  <2>3. /\ Append(roomClients[r], c) \in Seq(Clients)
        /\ IsInjective(Append(roomClients[r], c))
        /\ Range(Append(roomClients[r], c)) = Range(roomClients[r]) \cup {c}
    BY <1>1, <2>2, AppendFreshProperties
  <2>4. \A d \in Clients : d \in Range(Append(roomClients[r], c)) <=> cRoom[d] = r
    BY <2>2, <2>3
  <2>5. EntryOf("enter", c) \in Entry
    BY <1>1, EntryOfType DEF TypeInv
  <2>6. /\ Broadcast(r, EntryOf("enter", c), Append(roomClients[r], c))
        /\ UNCHANGED <<cRoom, got>>
    BY <1>6 DEF FinishJoin, clientVars
  <2> HIDE DEF r
  <2> QED BY <1>1, <2>1, <2>3, <2>4, <2>5, <2>6, BroadcastPending
<1> QED BY <1>2, <1>3, <1>4, <1>5, <1>6 DEF Continue

\* A step that leaves what was sent and what is to be sent.
LEMMA SteadyPending ==
  ASSUME Delivery, UNCHANGED <<out, roomMsgs, cRoom, got>>
  PROVE  Delivery'
<1>1. \A c \in Clients : UpToDate(c)' <=> UpToDate(c)
  BY DEF UpToDate
<1>2. CASE NothingPending
  BY <1>1, <1>2 DEF NothingPending, Delivery
<1>3. ASSUME NEW r \in Rooms, NEW e \in Entry, NEW s \in Seq(Entry), Announcing(r, e, s)
      PROVE  Announcing(r, e, s)'
  BY <1>1, <1>3 DEF Announcing
<1>4. ASSUME NEW c \in Clients, NEW log \in Seq(Entry), NEW k \in Nat, Replaying(c, log, k)
      PROVE  Replaying(c, log, k)'
  BY <1>1, <1>4 DEF Replaying
<1> QED BY <1>2, <1>3, <1>4 DEF Delivery

LEMMA DeliveryNext == TypeInv /\ RoomInv /\ Delivery /\ [Next]_vars => Delivery'
<1> SUFFICES ASSUME TypeInv, RoomInv, Delivery, [Next]_vars PROVE Delivery'
  OBVIOUS
<1>1. CASE UNCHANGED vars
  BY <1>1, SteadyPending DEF vars, roomVars, clientVars
<1>2. CASE Lobby
  <2>1. ASSUME NEW c \in Clients, Quit(c)
        PROVE  Delivery'
    BY <2>1, SteadyPending DEF Quit, roomVars, clientVars
  <2>2. ASSUME NEW c \in Clients, LeaveOnEOF(c)
        PROVE  Delivery'
    BY <2>2, LeaveCRoomPending, Drained DEF LeaveOnEOF, Idle
  <2> QED BY <1>2, <2>1, <2>2, ParseMsgPending, DeletePending, SendPending,
             ContinuePending DEF Lobby
<1>3. ASSUME NEW c \in Clients,
             Accept(c) \/ SendWelcome(c) \/ Flush(c) \/ FlushFails(c) \/ Peer(c)
      PROVE  Delivery'
  <2>1. UNCHANGED <<out, roomMsgs, cRoom, got>>
    BY <1>3 DEF Accept, SendWelcome, Flush, FlushFails, Peer, Hangup, LoseInput, TypeLine,
                roomVars, clientVars
  <2> QED BY <2>1, SteadyPending
<1>4. CASE Tick
  BY <1>4, SteadyPending DEF Tick, clientVars
<1> QED BY <1>1, <1>2, <1>3, <1>4 DEF Next, Quiescent

------------------------------------------------------------------------------
(* What is sent and what is still to be sent make up the log.               *)

\* The entries for c are consecutive in what the handler sends.
LEMMA InFlightRun ==
  ASSUME TypeInv, NEW c \in Clients, NEW a \in Nat, NEW n \in Nat, a + n <= Len(out),
         \A i \in 1 .. Len(out) :
           out[i].to = c /\ out[i].msg \in Entry <=> i \in a + 1 .. a + n
  PROVE  InFlight(c) = [k \in 1 .. n |-> out[a + k].msg]
<1> DEFINE sent == [i \in DOMAIN out |-> out[i].msg]
           mine == {i \in DOMAIN out : out[i].to = c /\ out[i].msg \in Entry}
<1>1. Len(out) \in Nat /\ DOMAIN out = 1 .. Len(out)
  BY LenProperties DEF TypeInv, TypeOK, HandlerTypeOK
<1>2. mine = a + 1 .. a + n
  <2>1. \A i : i \in mine <=> i \in 1 .. Len(out) /\ out[i].to = c /\ out[i].msg \in Entry
    BY ONLY <1>1
  <2>2. \A i \in a + 1 .. a + n : i \in 1 .. Len(out)
    BY <1>1
  <2>3. PICK m, run : m = mine /\ run = a + 1 .. a + n
    OBVIOUS
  <2> HIDE DEF mine
  <2>4. \A i : i \in m <=> i \in run
    BY <2>1, <2>2, <2>3
  <2>5. m = run
    BY ONLY <2>4
  <2> QED BY <2>3, <2>5
<1>3. ElementsAt(sent, a + 1 .. a + n) = [k \in 1 .. n |-> sent[a + k]]
  <2>1. PICK entries : entries = sent
    OBVIOUS
  <2>2. ElementsAt(entries, a + 1 .. a + n) = [k \in 1 .. n |-> entries[a + k]]
    <3>1. CountedOut(entries, a, n)
      BY ConsecutiveElements, Zenon
    <3> QED BY ONLY <3>1 DEF CountedOut
  <2> HIDE DEF sent
  <2> QED BY ONLY <2>1, <2>2
<1>4. [k \in 1 .. n |-> sent[a + k]] = [k \in 1 .. n |-> out[a + k].msg]
  BY <1>1
<1> HIDE DEF sent, mine
<1> QED BY <1>2, <1>3, <1>4 DEF InFlight, sent, mine

LEMMA NothingInFlight ==
  ASSUME TypeInv, NEW c \in Clients, UpToDate(c),
         \A i \in 1 .. Len(out) : out[i].to = c => out[i].msg \notin Entry
  PROVE  cRoom[c] # Nil => got[c] \o InFlight(c) = roomMsgs[cRoom[c]]
<1>1. Len(out) \in Nat /\ got[c] \in Seq(Entry)
  BY LenProperties DEF TypeInv, TypeOK, HandlerTypeOK, ClientTypeOK
<1>2. PICK a \in Nat : a = 0
  OBVIOUS
<1>3. /\ a + a <= Len(out)
      /\ \A i \in 1 .. Len(out) :
           out[i].to = c /\ out[i].msg \in Entry <=> i \in a + 1 .. a + a
  BY <1>1, <1>2
<1>4. InFlight(c) = [k \in 1 .. a |-> out[a + k].msg]
  BY <1>3, InFlightRun
<1>5. InFlight(c) = <<>>
  BY <1>2, <1>4
<1> QED BY <1>1, <1>5, ConcatEmptySeq DEF UpToDate

LEMMA DeliveredLog == TypeInv /\ Delivery => LogDelivered
<1> SUFFICES ASSUME TypeInv, Delivery, NEW c \in Clients, cRoom[c] # Nil
             PROVE  got[c] \o InFlight(c) = roomMsgs[cRoom[c]]
  BY DEF LogDelivered
<1>0. /\ Len(out) \in Nat
      /\ got[c] \in Seq(Entry)
      /\ \A i \in 1 .. Len(out) : out[i].to \in Clients
  <2>1. out \in Seq(Send) /\ got[c] \in Seq(Entry)
    BY DEF TypeInv, TypeOK, HandlerTypeOK, ClientTypeOK
  <2>2. \A i \in 1 .. Len(out) : out[i] \in Send
    BY <2>1, ElementOfSeq
  <2> QED BY <2>1, <2>2, LenProperties DEF Send
<1>1. CASE NothingPending
  BY <1>1, NothingInFlight DEF NothingPending
<1>2. ASSUME NEW r \in Rooms, NEW e \in Entry, NEW s \in Seq(Entry), Announcing(r, e, s)
      PROVE  got[c] \o InFlight(c) = roomMsgs[cRoom[c]]
  <2>1. CASE \A i \in 1 .. Len(out) : out[i].to # c
    BY <1>2, <2>1, NothingInFlight DEF Announcing
  <2>2. ASSUME NEW i \in 1 .. Len(out), out[i].to = c
        PROVE  got[c] \o InFlight(c) = roomMsgs[cRoom[c]]
    <3>1. /\ cRoom[c] = r /\ got[c] = s /\ roomMsgs[r] = Append(s, e)
          /\ out[i].msg = e
      BY <1>2, <2>2 DEF Announcing
    <3>2. \A j \in 1 .. Len(out) :
            out[j].to = c /\ out[j].msg \in Entry <=> j \in (i - 1) + 1 .. (i - 1) + 1
      BY <1>0, <1>2, <2>2 DEF Announcing
    <3>3. InFlight(c) = [k \in 1 .. 1 |-> out[(i - 1) + k].msg]
      <4>1. i - 1 \in Nat /\ (i - 1) + 1 <= Len(out)
        BY <1>0
      <4> QED BY <3>2, <4>1, InFlightRun
    <3>4. InFlight(c) = <<e>>
      BY <1>0, <3>1, <3>3
    <3> QED BY <3>1, <3>4, AppendIsConcat
  <2> QED BY <2>1, <2>2
<1>3. ASSUME NEW d \in Clients, NEW log \in Seq(Entry), NEW n \in Nat, Replaying(d, log, n)
      PROVE  got[c] \o InFlight(c) = roomMsgs[cRoom[c]]
  <2>1. CASE c # d
    BY <1>3, <2>1, NothingInFlight DEF Replaying
  <2>2. CASE c = d
    <3>1. /\ roomMsgs[cRoom[c]] = log
          /\ n <= Len(log) /\ Len(got[c]) = n /\ \A j \in 1 .. n : got[c][j] = log[j]
          /\ Len(log) \in Nat /\ \A j \in 1 .. Len(log) : log[j] \in Entry
      BY <1>3, <2>2, LenProperties, ElementOfSeq DEF Replaying
    <3> DEFINE rest == [j \in 1 .. Len(log) - n |-> log[n + j]]
    <3>2. InFlight(c) = rest
      <4>1. PICK a \in {0, 1} : /\ Len(out) = a + (Len(log) - n) + 1
                                /\ a = 1 => n = 0 /\ out[1].msg \notin Entry
                                /\ \A j \in 1 .. Len(log) - n : out[a + j].msg = log[n + j]
        BY <1>3, <3>1 DEF Replaying
      <4>2. /\ \A i \in 1 .. Len(out) : out[i].to = c
            /\ out[Len(out)].msg \notin Entry
        BY <1>3, <2>2 DEF Replaying
      <4>3. ASSUME NEW i \in 1 .. Len(out)
            PROVE  out[i].to = c /\ out[i].msg \in Entry <=> i \in a + 1 .. a + (Len(log) - n)
        <5>1. CASE i \in a + 1 .. a + (Len(log) - n)
          <6>1. i - a \in 1 .. Len(log) - n /\ a + (i - a) = i
            BY <3>1, <5>1
          <6>2. out[i].msg = log[n + (i - a)]
            BY <4>1, <6>1
          <6>3. n + (i - a) \in 1 .. Len(log)
            BY <3>1, <6>1
          <6> QED BY <3>1, <4>2, <5>1, <6>2, <6>3
        <5>2. CASE i \notin a + 1 .. a + (Len(log) - n)
          <6>1. CASE a = 0
            <7>1. i = Len(out)
              BY <1>0, <3>1, <4>1, <5>2, <6>1
            <7> QED BY <4>2, <5>2, <7>1
          <6>2. CASE a = 1
            <7>1. i = Len(out) \/ i = 1
              BY <1>0, <3>1, <4>1, <5>2, <6>2
            <7> QED BY <4>1, <4>2, <5>2, <6>2, <7>1
          <6> QED BY <6>1, <6>2
        <5> QED BY <5>1, <5>2
      <4>4. InFlight(c) = [k \in 1 .. Len(log) - n |-> out[a + k].msg]
        <5>1. Len(log) - n \in Nat /\ a + (Len(log) - n) <= Len(out) /\ a \in Nat
          BY <3>1, <4>1
        <5> QED BY <4>3, <5>1, InFlightRun
      <4> QED BY <4>1, <4>4
    <3>3. /\ rest \in Seq(Entry) /\ Len(rest) = Len(log) - n
          /\ \A j \in 1 .. Len(log) - n : rest[j] = log[n + j]
      <4>1. Len(log) - n \in Nat /\ \A j \in 1 .. Len(log) - n : log[n + j] \in Entry
        BY <3>1
      <4> QED BY <4>1
    <3> HIDE DEF rest
    <3>4. got[c] \o rest = log
      <4> DEFINE t == got[c] \o rest
      <4>1. /\ t \in Seq(Entry)
            /\ Len(t) = Len(got[c]) + Len(rest)
            /\ \A j \in 1 .. Len(got[c]) + Len(rest) :
                 t[j] = IF j <= Len(got[c]) THEN got[c][j] ELSE rest[j - Len(got[c])]
        BY <1>0, <3>3, ConcatProperties
      <4>2. Len(t) = Len(log)
        BY <3>1, <3>3, <4>1
      <4> HIDE DEF t
      <4>3. ASSUME NEW j \in 1 .. Len(log)
            PROVE  t[j] = log[j]
        <5>1. CASE j <= n
          BY <3>1, <3>3, <4>1, <5>1
        <5>2. CASE j > n
          <6>1. j - n \in 1 .. Len(log) - n /\ n + (j - n) = j
            BY <3>1, <5>2
          <6> QED BY <3>1, <3>3, <4>1, <5>2, <6>1
        <5> QED BY <3>1, <5>1, <5>2
      <4>4. t = log
        BY <4>1, <4>2, <4>3, SeqEqual
      <4> QED BY <4>4 DEF t
    <3> QED BY <3>1, <3>2, <3>4
  <2> QED BY <2>1, <2>2
<1> QED BY <1>1, <1>2, <1>3 DEF Delivery

------------------------------------------------------------------------------
(* The steps of ChatRooms that the handlers take.                           *)

Status(r) == IF roomName[r] = Nil THEN "fresh"
             ELSE IF Registered(r) THEN "open" ELSE "closed"

LEMMA RegisteredIsOpen ==
  ASSUME TypeInv, RoomInv, NEW r \in Rooms, Registered(r)
  PROVE  Status(r) = "open"
BY NilAssumption DEF Registered, Status, RoomInv, RoomsAccounted

LEMMA ChatStutter ==
  ASSUME UNCHANGED <<registry, roomName, roomMsgs, cRoom, got>>
  PROVE  UNCHANGED Chat!vars
BY DEF Chat!vars, Registered

LEMMA ChatOpen ==
  ASSUME TypeInv, RoomInv, NEW r \in Rooms, NEW n \in Names,
         registry[n] = Nil, roomName[r] = Nil,
         roomName' = [roomName EXCEPT ![r] = n], registry' = [registry EXCEPT ![n] = r],
         UNCHANGED <<roomMsgs, cRoom, got>>
  PROVE  Chat!Next
<1>1. /\ \A m \in Names : registry'[m] = IF m = n THEN r ELSE registry[m]
      /\ \A q \in Rooms : roomName'[q] = IF q = r THEN n ELSE roomName[q]
  BY DEF TypeInv, TypeOK, RoomTypeOK
<1>2. \A q \in Rooms \ {r} : Registered(q)' <=> Registered(q)
  BY <1>1, NilAssumption DEF Registered
<1>3. \A q \in Rooms \ {r} : Status(q)' = Status(q)
  BY <1>1, <1>2 DEF Status
<1>4. Status(r) = "fresh" /\ Status(r)' = "open"
  BY <1>1, NilAssumption DEF Status, Registered
<1>5. [q \in Rooms |-> Status(q)]' = [[q \in Rooms |-> Status(q)] EXCEPT ![r] = "open"]
  BY <1>3, <1>4
<1>6. Chat!Open(r)
  BY <1>4, <1>5 DEF Chat!Open, Status
<1> QED BY <1>6 DEF Chat!Next

LEMMA ChatEnter ==
  ASSUME TypeInv, RoomInv, NEW c \in Clients, NEW n \in Names, registry[n] # Nil,
         Join(c, registry[n]), UNCHANGED <<registry, roomName, roomMsgs>>
  PROVE  Chat!Next
<1> DEFINE r == registry[n]
<1>1. r \in Rooms /\ Registered(r)
  BY DEF TypeInv, TypeOK, RoomTypeOK, Registered
<1>2. Status(r) = "open"
  BY <1>1, RegisteredIsOpen
<1>3. \A q \in Rooms : Status(q)' = Status(q)
  BY DEF Status, Registered
<1>4. Chat!Enter(c, r)
  BY <1>1, <1>2, <1>3 DEF Chat!Enter, Status, Join
<1> QED BY <1>1, <1>4 DEF Chat!Next

LEMMA ChatPost ==
  ASSUME TypeInv, NEW c \in Clients, cRoom[c] # Nil, NEW e \in Entry, e.who = c,
         NEW members, Broadcast(cRoom[c], e, members),
         UNCHANGED <<registry, roomName, cRoom, got>>
  PROVE  Chat!Next
<1>1. \A q \in Rooms : Status(q)' = Status(q)
  BY DEF Status, Registered
<1>2. Chat!Post(c, e)
  BY <1>1 DEF Chat!Post, Status, Broadcast
<1> QED BY <1>2 DEF Chat!Next

LEMMA ChatLeave ==
  ASSUME TypeInv, FinishLeave
  PROVE  Chat!Next
<1> DEFINE c == task.who
<1>1. c \in Clients /\ cRoom[c] # Nil
  BY TaskTypes DEF FinishLeave, Resume, TypeInv, TaskOK
<1>2. \A q \in Rooms : Status(q)' = Status(q)
  BY DEF Status, Registered, FinishLeave
<1>3. Chat!Leave(c)
  BY <1>1, <1>2 DEF Chat!Leave, Status, FinishLeave
<1> QED BY <1>1, <1>3 DEF Chat!Next

LEMMA ChatSend ==
  ASSUME TypeInv, Delivery, LobbySend
  PROVE  Chat!Next \/ UNCHANGED Chat!vars
<1> DEFINE c == Head(out).to
           m == Head(out).msg
<1>1. c \in Clients
  <2>1. Head(out) \in Send
    BY HeadTailProperties DEF LobbySend, TypeInv, TypeOK, HandlerTypeOK
  <2> QED BY <2>1 DEF Send
<1>2. /\ UNCHANGED <<registry, roomName, roomMsgs, cRoom>>
      /\ got' = [got EXCEPT ![c] = IF m \in Entry THEN Append(@, m) ELSE @]
  BY DEF LobbySend, roomVars
<1>3. CASE m \in Entry
  <2>1. NextEntry(c, m)
    BY <1>3, SendPending
  <2>2. \A q \in Rooms : Status(q)' = Status(q)
    BY <1>2 DEF Status, Registered
  <2>3. got' = [got EXCEPT ![c] = Append(@, m)]
    BY <1>2, <1>3
  <2>4. got \in [Clients -> Seq(Entry)]
    BY DEF TypeInv, TypeOK, ClientTypeOK
  <2>5. got' = [got EXCEPT ![c] = Append(@, roomMsgs[cRoom[c]][Len(@) + 1])]
    BY <1>1, <2>1, <2>3, <2>4 DEF NextEntry
  <2> HIDE DEF c, m
  <2>6. Chat!Deliver(c)
    BY <1>2, <2>1, <2>2, <2>5 DEF Chat!Deliver, Status, NextEntry
  <2> QED BY <1>1, <2>6 DEF Chat!Next
<1>4. CASE m \notin Entry
  <2>1. got' = got
    BY <1>1, <1>2, <1>4 DEF TypeInv, TypeOK, ClientTypeOK
  <2> QED BY <1>2, <2>1, ChatStutter
<1> QED BY <1>3, <1>4

LEMMA ChatClose ==
  ASSUME TypeInv, RoomInv, NEW r \in Rooms, DeleteCRoom(r)
  PROVE  Chat!Next \/ UNCHANGED Chat!vars
<1>1. /\ task = NoTask
      /\ UNCHANGED <<roomName, roomMsgs>>
  BY DEF DeleteCRoom, Idle
<1>2. timers[r] # <<>>
  BY DEF DeleteCRoom
<1>3. Registered(r)
  BY <1>2 DEF RoomInv, RoomsAccounted
<1>4. CASE UNCHANGED <<registry, cRoom, got>>
  BY <1>1, <1>4, ChatStutter
<1>5. CASE /\ registry' = [registry EXCEPT ![roomName[r]] = Nil]
           /\ cRoom' = [c \in Clients |->
                          IF c \in Range(roomClients[r]) THEN Nil ELSE cRoom[c]]
           /\ got' = [c \in Clients |->
                        IF c \in Range(roomClients[r]) THEN <<>> ELSE got[c]]
  <2>1. PICK n \in Names : registry[n] = r /\ roomName[r] = n
    BY <1>3, NilAssumption DEF Registered, RoomInv, RoomsAccounted
  <2>2. \A m \in Names : registry'[m] = IF m = n THEN Nil ELSE registry[m]
    BY <1>5, <2>1 DEF TypeInv, TypeOK, RoomTypeOK
  <2>3. \A m \in Names : registry[m] = r => m = n
    BY <2>1, NilAssumption DEF RoomInv, RoomsAccounted
  <2>4. \A q \in Rooms : Registered(q)' <=> Registered(q) /\ q # r
    BY <2>1, <2>2, <2>3, NilAssumption DEF Registered
  <2>5. \A q \in Rooms : Status(q)' = IF q = r THEN "closed" ELSE Status(q)
    BY <1>1, <1>3, <2>1, <2>4, NilAssumption DEF Status
  <2>6. Status(r) = "open"
    BY <1>3, RegisteredIsOpen
  <2>7. \A c \in Clients : c \in Range(roomClients[r]) <=> cRoom[c] = r
    BY <1>1, <1>3 DEF RoomInv, MembershipAgrees, Joining, NoTask
  <2>8. /\ cRoom' = [c \in Clients |-> IF cRoom[c] = r THEN Nil ELSE cRoom[c]]
        /\ got' = [c \in Clients |-> IF cRoom[c] = r THEN <<>> ELSE got[c]]
    BY <1>5, <2>7
  <2>9. [q \in Rooms |-> Status(q)]' = [[q \in Rooms |-> Status(q)] EXCEPT ![r] = "closed"]
    BY <2>5
  <2>10. Chat!Close(r)
    BY <1>1, <2>6, <2>8, <2>9 DEF Chat!Close, Status
  <2> QED BY <2>10 DEF Chat!Next
<1> QED BY <1>4, <1>5 DEF DeleteCRoom

LEMMA ChatEnterCRoom ==
  ASSUME TypeInv, RoomInv, NEW c \in Clients, NEW n \in Names, EnterCRoom(c, n)
  PROVE  Chat!Next \/ UNCHANGED Chat!vars
<1>1. CASE registry[n] = Nil
  BY <1>1, ChatStutter DEF EnterCRoom, roomVars, clientVars
<1>2. CASE registry[n] # Nil /\ cRoom[c] # Nil
  <2>1. StartLeave(c, "switch", n)
    BY <1>2 DEF EnterCRoom
  <2>2. EntryOf("leave", c) \in Entry /\ EntryOf("leave", c).who = c
    BY EntryOfType DEF TypeInv, EntryOf
  <2> QED BY <1>2, <2>1, <2>2, ChatPost DEF StartLeave, clientVars
<1>3. CASE registry[n] # Nil /\ cRoom[c] = Nil
  BY <1>3, ChatEnter DEF EnterCRoom, roomVars
<1> QED BY <1>1, <1>2, <1>3

LEMMA ChatLeaveCRoom ==
  ASSUME TypeInv, RoomInv, NEW c \in Clients, LeaveCRoom(c)
  PROVE  Chat!Next \/ UNCHANGED Chat!vars
<1>1. CASE cRoom[c] = Nil
  BY <1>1, ChatStutter DEF LeaveCRoom, roomVars, clientVars
<1>2. CASE cRoom[c] # Nil
  <2>1. StartLeave(c, "leave", Nil)
    BY <1>2 DEF LeaveCRoom
  <2>2. EntryOf("leave", c) \in Entry /\ EntryOf("leave", c).who = c
    BY EntryOfType DEF TypeInv, EntryOf
  <2> QED BY <1>2, <2>1, <2>2, ChatPost DEF StartLeave, clientVars
<1> QED BY <1>1, <1>2

LEMMA ChatParseMsg ==
  ASSUME TypeInv, RoomInv, NEW c \in Clients, ParseMsg(c)
  PROVE  Chat!Next \/ UNCHANGED Chat!vars
<1> DEFINE msg == Head(inq[c])
<1>1. msg \in Line
  <2>1. inq[c] \in Seq(Line) /\ inq[c] # <<>>
    BY DEF TypeInv, TypeOK, NetTypeOK, ParseMsg, Take
  <2> QED BY <2>1, HeadTailProperties
<1>2. CASE msg.cmd = "create" /\ CreateCRoom(c, msg.arg)
  <2>1. msg.arg \in Names
    BY <1>1, <1>2 DEF Line
  <2>2. CASE registry[msg.arg] # Nil
    BY <1>2, <2>2, ChatStutter DEF CreateCRoom, roomVars, clientVars
  <2>3. CASE registry[msg.arg] = Nil
    <3>1. PICK r \in Rooms :
            /\ roomName[r] = Nil
            /\ roomName' = [roomName EXCEPT ![r] = msg.arg]
            /\ registry' = [registry EXCEPT ![msg.arg] = r]
      BY <1>2, <2>3 DEF CreateCRoom
    <3>2. UNCHANGED <<roomMsgs, cRoom, got>>
      BY <1>2, <2>3 DEF CreateCRoom, clientVars
    <3> QED BY <2>1, <2>3, <3>1, <3>2, ChatOpen
  <2> QED BY <2>2, <2>3
<1>3. CASE msg.cmd = "enter" /\ EnterCRoom(c, msg.arg)
  <2>1. msg.arg \in Names
    BY <1>1, <1>3 DEF Line
  <2> QED BY <1>3, <2>1, ChatEnterCRoom
<1>4. CASE LeaveCRoom(c)
  BY <1>4, ChatLeaveCRoom
<1>5. CASE ListCRooms(c) \/ Help(c)
  BY <1>5, ChatStutter DEF ListCRooms, Help, roomVars, clientVars
<1>6. CASE msg.cmd = "name" /\ ChangeUsername(c, msg.arg)
  <2>1. CASE cRoom[c] = Nil
    BY <1>6, <2>1, ChatStutter DEF ChangeUsername, roomVars, clientVars
  <2>2. CASE cRoom[c] # Nil
    <3> DEFINE e == [EntryOf("name", c) EXCEPT !.now = msg.arg]
    <3>1. e \in Entry /\ e.who = c
      <4>1. msg.arg \in Users
        BY <1>1, <1>6 DEF Line
      <4> QED BY <4>1 DEF TypeInv, TypeOK, ClientTypeOK, EntryOf, Entry
    <3>2. /\ Broadcast(cRoom[c], e, roomClients[cRoom[c]])
          /\ UNCHANGED <<registry, roomName, cRoom, got>>
      BY <1>6, <2>2 DEF ChangeUsername, clientVars
    <3> HIDE DEF e
    <3> QED BY <2>2, <3>1, <3>2, ChatPost
  <2> QED BY <2>1, <2>2
<1>7. CASE SendMsg(c)
  <2>1. CASE cRoom[c] = Nil
    BY <1>7, <2>1, ChatStutter DEF SendMsg, roomVars, clientVars
  <2>2. CASE cRoom[c] # Nil
    <3>1. EntryOf("say", c) \in Entry /\ EntryOf("say", c).who = c
      BY EntryOfType DEF TypeInv, EntryOf
    <3>2. /\ Broadcast(cRoom[c], EntryOf("say", c), roomClients[cRoom[c]])
          /\ UNCHANGED <<registry, roomName, cRoom, got>>
      BY <1>7, <2>2 DEF SendMsg, clientVars
    <3> QED BY <2>2, <3>1, <3>2, ChatPost
  <2> QED BY <2>1, <2>2
<1> QED BY <1>2, <1>3, <1>4, <1>5, <1>6, <1>7 DEF ParseMsg

LEMMA ChatContinue ==
  ASSUME TypeInv, RoomInv, Continue
  PROVE  Chat!Next \/ UNCHANGED Chat!vars
<1> DEFINE c == task.who
<1>1. CASE FinishCreate
  BY <1>1, TaskTypes, ChatEnterCRoom DEF FinishCreate, Resume
<1>2. CASE FinishLeave
  BY <1>2, ChatLeave
<1>3. CASE FinishSwitch
  <2>1. c \in Clients /\ task.arg \in Names /\ registry[task.arg] # Nil
    BY <1>3, TaskTypes DEF FinishSwitch, Resume, TypeInv, TaskOK
  <2> QED BY <1>3, <2>1, ChatEnter DEF FinishSwitch
<1>4. CASE FinishRename
  BY <1>4, ChatStutter DEF FinishRename, roomVars
<1>5. CASE FinishJoin
  <2>1. c \in Clients /\ cRoom[c] # Nil
    BY <1>5, TaskTypes DEF FinishJoin, Resume, TypeInv, TaskOK
  <2>2. EntryOf("enter", c) \in Entry /\ EntryOf("enter", c).who = c
    BY <2>1, EntryOfType DEF TypeInv, EntryOf
  <2>3. /\ Broadcast(cRoom[c], EntryOf("enter", c), Append(roomClients[cRoom[c]], c))
        /\ UNCHANGED <<registry, roomName, cRoom, got>>
    BY <1>5 DEF FinishJoin, clientVars
  <2> HIDE DEF c
  <2> QED BY <2>1, <2>2, <2>3, ChatPost
<1> QED BY <1>1, <1>2, <1>3, <1>4, <1>5 DEF Continue

LEMMA ChatNext ==
  ASSUME TypeInv, RoomInv, Delivery, [Next]_vars
  PROVE  [Chat!Next]_(Chat!vars)
<1>1. CASE UNCHANGED vars
  BY <1>1, ChatStutter DEF vars, roomVars, clientVars
<1>2. CASE Lobby
  <2>1. ASSUME NEW c \in Clients, Quit(c)
        PROVE  UNCHANGED Chat!vars
    BY <2>1, ChatStutter DEF Quit, roomVars, clientVars
  <2>2. ASSUME NEW c \in Clients, LeaveOnEOF(c)
        PROVE  Chat!Next \/ UNCHANGED Chat!vars
    BY <2>2, ChatLeaveCRoom DEF LeaveOnEOF
  <2> QED BY <1>2, <2>1, <2>2, ChatParseMsg, ChatClose, ChatSend, ChatContinue DEF Lobby
<1>3. ASSUME NEW c \in Clients,
             Accept(c) \/ SendWelcome(c) \/ Flush(c) \/ FlushFails(c) \/ Peer(c)
      PROVE  UNCHANGED Chat!vars
  <2>1. UNCHANGED <<registry, roomName, roomMsgs, cRoom, got>>
    BY <1>3 DEF Accept, SendWelcome, Flush, FlushFails, Peer, Hangup, LoseInput, TypeLine,
                roomVars, clientVars
  <2> QED BY <2>1, ChatStutter
<1>4. CASE Tick
  BY <1>4, ChatStutter DEF Tick, clientVars
<1> QED BY <1>1, <1>2, <1>3, <1>4 DEF Next, Quiescent

LEMMA ChatInit == Init => Chat!Init
BY DEF Init, Chat!Init

LEMMA DeliveryInvariance == Spec => [](TypeInv /\ RoomInv /\ Delivery)
<1>1. Init => Delivery
  <2> SUFFICES ASSUME Init PROVE Delivery
    OBVIOUS
  <2>1. Len(out) = 0 /\ \A c \in Clients : UpToDate(c)
    BY DEF Init, UpToDate
  <2> QED BY <2>1 DEF Delivery, NothingPending
<1>2. TypeInv /\ RoomInv /\ Delivery /\ [Next]_vars => Delivery'
  BY DeliveryNext
<1> QED BY <1>1, <1>2, Invariance, PTL DEF Spec

\* What a client in a room was handed, followed by what is under way to it, is
\* the whole log of its room: the replay of the log and the broadcasts meet
\* without a gap or an overlap, wherever a handler is cut.
THEOREM DeliveryCorrect == Spec => []LogDelivered
BY DeliveredLog, DeliveryInvariance, PTL

\* The server implements ChatRooms: whatever is cut, blocked or deleted between
\* its sends, each client in a room is handed the room's log from the start, in
\* order and without a gap, only seated clients write it, and a deleted room is
\* closed for good.
THEOREM Refinement == Spec => ImplementsChatRooms
<1>1. TypeInv /\ RoomInv /\ Delivery /\ [Next]_vars => [Chat!Next]_(Chat!vars)
  BY ChatNext
<1>2. Spec => Chat!Init /\ [][Chat!Next]_(Chat!vars)
  BY <1>1, ChatInit, DeliveryInvariance, PTL DEF Spec
<1> QED BY <1>2 DEF ImplementsChatRooms, Chat!Spec

\* So the clients are given what ChatRooms promises: each is handed the beginning
\* of the log of the room it sits in, and that room is in use.
THEOREM Promises == Spec => [](Chat!SeatedInOpenRooms /\ Chat!SeenIsPrefix)
BY Refinement, Chat!PromisesKept, PTL DEF ImplementsChatRooms

\* A deleted room gets no further entry, though its object lives on.
THEOREM ClosedForGood == Spec => Chat!ClosedIsFinal
BY Refinement, Chat!ClosedForGood, PTL DEF ImplementsChatRooms

------------------------------------------------------------------------------
(* Logs as sequences.                                                       *)

\* Entry i of log s is the last by c.
LastBy(s, c, i) ==
  /\ i \in DOMAIN s
  /\ s[i].who = c
  /\ \A k \in i + 1 .. Len(s) : s[k].who # c

\* By the log s, c is in the room.
Told(s, c) == \E i \in DOMAIN s : LastBy(s, c, i) /\ s[i].kind # "leave"

\* What LogsReadable says of one log.
Readable(s) ==
  \A j \in DOMAIN s :
    /\ (\A i \in DOMAIN s : ~Precedes(s, i, j)) => s[j].kind = "enter"
    /\ \A i \in DOMAIN s : Precedes(s, i, j) =>
         /\ s[j].kind = "enter" <=> s[i].kind = "leave"
         /\ s[j].kind # "enter" => s[j].as = s[i].now

LEMMA AppendFacts ==
  ASSUME NEW s \in Seq(Entry), NEW e \in Entry
  PROVE  /\ Len(s) \in Nat /\ DOMAIN s = 1 .. Len(s)
         /\ Append(s, e) \in Seq(Entry)
         /\ Len(Append(s, e)) = Len(s) + 1
         /\ DOMAIN Append(s, e) = 1 .. Len(s) + 1
         /\ \A i \in 1 .. Len(s) : Append(s, e)[i] = s[i]
         /\ Append(s, e)[Len(s) + 1] = e
<1>1. /\ Append(s, e) \in Seq(Entry) /\ Len(s) \in Nat
      /\ Len(Append(s, e)) = Len(s) + 1
  BY AppendProperties, LenProperties
<1> QED BY <1>1, AppendProperties, LenProperties

\* Whose entry is appended has it as the last; the last of the others stays.
LEMMA AppendLast ==
  ASSUME NEW s \in Seq(Entry), NEW e \in Entry, NEW c, NEW i
  PROVE  LastBy(Append(s, e), c, i) <=> IF e.who = c THEN i = Len(s) + 1 ELSE LastBy(s, c, i)
<1> DEFINE t == Append(s, e)
           n == Len(s)
<1>1. /\ n \in Nat /\ DOMAIN s = 1 .. n /\ Len(t) = n + 1 /\ DOMAIN t = 1 .. n + 1
      /\ \A k \in 1 .. n : t[k] = s[k]
      /\ t[n + 1] = e
  BY AppendFacts
<1> HIDE DEF t, n
<1>2. CASE e.who = c
  <2>1. i = n + 1 => LastBy(t, c, i)
    BY <1>1, <1>2 DEF LastBy
  <2>2. ASSUME LastBy(t, c, i) PROVE i = n + 1
    <3>1. i \in 1 .. n + 1
      BY <1>1, <2>2 DEF LastBy
    <3>2. i # n + 1 => n + 1 \in i + 1 .. Len(t)
      BY <1>1, <3>1
    <3> QED BY <1>1, <1>2, <2>2, <3>2 DEF LastBy
  <2> QED BY <1>2, <2>1, <2>2 DEF t, n
<1>3. CASE e.who # c
  <2>1. ASSUME LastBy(t, c, i) PROVE LastBy(s, c, i)
    <3>1. i \in 1 .. n + 1 /\ i # n + 1
      BY <1>1, <1>3, <2>1 DEF LastBy
    <3>2. i \in 1 .. n /\ t[i] = s[i]
      BY <1>1, <3>1
    <3>3. \A k \in i + 1 .. n : k \in 1 .. n /\ k \in i + 1 .. Len(t) /\ t[k] = s[k]
      BY <1>1, <3>2
    <3> QED BY <1>1, <2>1, <3>2, <3>3 DEF LastBy, n
  <2>2. ASSUME LastBy(s, c, i) PROVE LastBy(t, c, i)
    <3>1. i \in 1 .. n /\ i \in 1 .. n + 1 /\ t[i] = s[i]
      BY <1>1, <2>2 DEF LastBy
    <3>2. ASSUME NEW k \in i + 1 .. n + 1 PROVE t[k].who # c
      <4>1. CASE k = n + 1
        BY <1>1, <1>3, <4>1
      <4>2. CASE k # n + 1
        <5>1. k \in i + 1 .. n /\ k \in 1 .. n
          BY <1>1, <3>1, <4>2
        <5> QED BY <1>1, <2>2, <5>1 DEF LastBy, n
      <4> QED BY <4>1, <4>2
    <3> QED BY <1>1, <2>2, <3>1, <3>2 DEF LastBy
  <2> QED BY <1>3, <2>1, <2>2 DEF t, n
<1> QED BY <1>2, <1>3

LEMMA AppendTold ==
  ASSUME NEW s \in Seq(Entry), NEW e \in Entry, NEW c
  PROVE  Told(Append(s, e), c) <=> IF e.who = c THEN e.kind # "leave" ELSE Told(s, c)
<1> DEFINE t == Append(s, e)
           n == Len(s)
<1>1. /\ n \in Nat /\ DOMAIN s = 1 .. n /\ DOMAIN t = 1 .. n + 1
      /\ \A k \in 1 .. n : t[k] = s[k]
      /\ t[n + 1] = e
  BY AppendFacts
<1>2. \A i : LastBy(t, c, i) <=> IF e.who = c THEN i = n + 1 ELSE LastBy(s, c, i)
  BY AppendLast
<1>3. \A i : LastBy(s, c, i) => i \in 1 .. n
  BY <1>1 DEF LastBy
<1> HIDE DEF t, n
<1>4. CASE e.who = c
  BY <1>1, <1>2, <1>4 DEF Told, t
<1>5. CASE e.who # c
  <2>1. \A i \in 1 .. n : i \in 1 .. n + 1
    BY <1>1
  <2> QED BY <1>1, <1>2, <1>3, <1>5, <2>1 DEF Told, t
<1> QED BY <1>4, <1>5

\* An entry that is an arrival unless its author is there already, and shows
\* the name under which the author was last announced, keeps a log readable.
LEMMA AppendReadable ==
  ASSUME NEW s \in Seq(Entry), NEW e \in Entry, Readable(s),
         e.kind # "enter" <=> Told(s, e.who),
         e.kind # "enter" => \A i : LastBy(s, e.who, i) => s[i].now = e.as
  PROVE  Readable(Append(s, e))
<1> DEFINE t == Append(s, e)
           n == Len(s)
<1>1. /\ n \in Nat /\ DOMAIN s = 1 .. n /\ DOMAIN t = 1 .. n + 1
      /\ \A k \in 1 .. n : t[k] = s[k]
      /\ t[n + 1] = e
  BY AppendFacts
<1> HIDE DEF t, n
<1>2. ASSUME NEW i \in 1 .. n
      PROVE  Precedes(t, i, n + 1) <=> LastBy(s, e.who, i)
  <2>1. \A k \in i + 1 .. (n + 1) - 1 : k \in i + 1 .. n /\ k \in 1 .. n
    BY <1>1
  <2>2. \A k \in i + 1 .. n : k \in i + 1 .. (n + 1) - 1 /\ k \in 1 .. n
    BY <1>1
  <2>3. i < n + 1 /\ t[i] = s[i]
    BY <1>1
  <2> QED BY <1>1, <2>1, <2>2, <2>3 DEF Precedes, LastBy, n
<1>3. ASSUME NEW j \in 1 .. n, NEW i \in 1 .. n + 1
      PROVE  /\ Precedes(t, i, j) => i \in 1 .. n /\ Precedes(s, i, j)
             /\ i \in 1 .. n /\ Precedes(s, i, j) => Precedes(t, i, j)
  <2>1. i < j => i \in 1 .. n
    BY <1>1
  <2>2. i \in 1 .. n => \A k \in i + 1 .. j - 1 : k \in 1 .. n /\ t[k] = s[k]
    BY <1>1
  <2>3. i \in 1 .. n => t[i] = s[i] /\ t[j] = s[j]
    BY <1>1
  <2> QED BY <2>1, <2>2, <2>3 DEF Precedes
<1>4. ASSUME NEW j \in 1 .. n + 1
      PROVE  /\ (\A i \in 1 .. n + 1 : ~Precedes(t, i, j)) => t[j].kind = "enter"
             /\ \A i \in 1 .. n + 1 : Precedes(t, i, j) =>
                  /\ t[j].kind = "enter" <=> t[i].kind = "leave"
                  /\ t[j].kind # "enter" => t[j].as = t[i].now
  <2>1. CASE j = n + 1
    <3>1. t[j] = e
      BY <1>1, <2>1
    <3>2. ASSUME e.kind # "enter"
          PROVE  \E i \in 1 .. n + 1 : Precedes(t, i, j)
      <4>1. PICK i \in 1 .. n : LastBy(s, e.who, i)
        BY <1>1, <3>2 DEF Told
      <4>2. i \in 1 .. n + 1
        BY <1>1
      <4> QED BY <1>2, <2>1, <4>1, <4>2
    <3>3. ASSUME NEW i \in 1 .. n + 1, Precedes(t, i, j)
          PROVE  /\ e.kind = "enter" <=> t[i].kind = "leave"
                 /\ e.kind # "enter" => e.as = t[i].now
      <4>1. i \in 1 .. n
        BY <1>1, <2>1, <3>3 DEF Precedes
      <4>2. LastBy(s, e.who, i) /\ t[i] = s[i]
        BY <1>1, <1>2, <2>1, <3>3, <4>1
      <4>3. e.kind = "enter" => s[i].kind = "leave"
        BY <1>1, <4>1, <4>2 DEF Told
      <4>4. ASSUME e.kind # "enter" PROVE s[i].kind # "leave"
        <5>1. PICK h \in 1 .. n : LastBy(s, e.who, h) /\ s[h].kind # "leave"
          BY <1>1, <4>4 DEF Told
        <5>2. h = i
          <6>1. h < i => i \in h + 1 .. n
            BY <1>1, <4>1, <5>1
          <6>2. i < h => h \in i + 1 .. n
            BY <1>1, <4>1, <5>1
          <6>3. ~(h < i)
            BY <4>2, <5>1, <6>1 DEF LastBy, n
          <6>4. ~(i < h)
            BY <4>2, <5>1, <6>2 DEF LastBy, n
          <6> QED BY <4>1, <6>3, <6>4
        <5> QED BY <5>1, <5>2
      <4> QED BY <4>2, <4>3, <4>4
    <3> QED BY <3>1, <3>2, <3>3
  <2>2. CASE j # n + 1
    <3>1. j \in 1 .. n /\ t[j] = s[j]
      BY <1>1, <2>2
    <3>2. /\ (\A i \in 1 .. n : ~Precedes(s, i, j)) => s[j].kind = "enter"
          /\ \A i \in 1 .. n : Precedes(s, i, j) =>
               /\ s[j].kind = "enter" <=> s[i].kind = "leave"
               /\ s[j].kind # "enter" => s[j].as = s[i].now
      BY <1>1, <3>1 DEF Readable
    <3>3. \A i \in 1 .. n : i \in 1 .. n + 1 /\ t[i] = s[i]
      BY <1>1
    <3>4. (\A i \in 1 .. n + 1 : ~Precedes(t, i, j)) => t[j].kind = "enter"
      BY <1>3, <3>1, <3>2, <3>3
    <3>5. ASSUME NEW i \in 1 .. n + 1, Precedes(t, i, j)
          PROVE  /\ t[j].kind = "enter" <=> t[i].kind = "leave"
                 /\ t[j].kind # "enter" => t[j].as = t[i].now
      <4>1. i \in 1 .. n /\ Precedes(s, i, j)
        BY <1>3, <3>1, <3>5
      <4> QED BY <3>1, <3>2, <3>3, <4>1
    <3> QED BY <3>4, <3>5
  <2> QED BY <2>1, <2>2
<1> QED BY <1>1, <1>4 DEF Readable, t

------------------------------------------------------------------------------
(* The invariant.                                                           *)

\* By r's log c is in r: it sits there, its arrival was told, and it is not at
\* leaving, which is told before the client is unseated.
Present(c, r) ==
  /\ cRoom[c] = r
  /\ ~Joining(c)
  /\ ~(task.op \in {"leave", "switch"} /\ task.who = c)

\* The name under which c was last announced.
Announced(c) == IF task.op = "rename" /\ task.who = c THEN task.arg ELSE username[c]

LogsAgree(r) ==
  \A c \in Clients :
    /\ Told(roomMsgs[r], c) <=> Present(c, r)
    /\ Present(c, r) =>
         \A i : LastBy(roomMsgs[r], c, i) => roomMsgs[r][i].now = Announced(c)

LogInv ==
  \A r \in Rooms :
    /\ Readable(roomMsgs[r])
    /\ roomName[r] = Nil => roomMsgs[r] = <<>>
    /\ Registered(r) => LogsAgree(r)

LEMMA EmptyLog == Readable(<<>>) /\ \A c : ~Told(<<>>, c)
<1>1. \A i : i \notin DOMAIN <<>>
  OBVIOUS
<1> QED BY <1>1 DEF Readable, Told

LEMMA LogInit == Init => LogInv
<1> SUFFICES ASSUME Init PROVE LogInv
  OBVIOUS
<1>1. \A r \in Rooms : ~Registered(r) /\ roomMsgs[r] = <<>>
  BY NilAssumption DEF Init, Registered
<1> QED BY <1>1, EmptyLog DEF LogInv

\* A step that writes no log.
LEMMA LogsKept ==
  ASSUME LogInv, UNCHANGED roomMsgs,
         \A r \in Rooms : roomName'[r] = Nil => roomName[r] = Nil,
         \A r \in Rooms : Registered(r)' => Registered(r),
         \A r \in Rooms, c \in Clients : Registered(r) =>
           /\ Present(c, r)' <=> Present(c, r)
           /\ Present(c, r) => Announced(c)' = Announced(c)
  PROVE  LogInv'
<1> SUFFICES ASSUME NEW r \in Rooms
             PROVE  /\ Readable(roomMsgs'[r])
                    /\ roomName'[r] = Nil => roomMsgs'[r] = <<>>
                    /\ Registered(r)' => LogsAgree(r)'
  BY DEF LogInv
<1>1. Readable(roomMsgs'[r]) /\ (roomName'[r] = Nil => roomMsgs'[r] = <<>>)
  BY DEF LogInv
<1>2. ASSUME Registered(r)', NEW c \in Clients
      PROVE  /\ Told(roomMsgs'[r], c) <=> Present(c, r)'
             /\ Present(c, r)' =>
                  \A i : LastBy(roomMsgs'[r], c, i) => roomMsgs'[r][i].now = Announced(c)'
  <2>1. LogsAgree(r)
    BY <1>2 DEF LogInv
  <2>2. /\ Present(c, r)' <=> Present(c, r)
        /\ Present(c, r) => Announced(c)' = Announced(c)
    BY <1>2
  <2> QED BY <2>1, <2>2 DEF LogsAgree
<1>3. Registered(r)' => LogsAgree(r)'
  BY <1>2 DEF LogsAgree
<1> QED BY <1>1, <1>3

\* A step that writes an entry of c's into the log of its room.
LEMMA LogsWritten ==
  ASSUME TypeInv, RoomInv, LogInv, UNCHANGED <<registry, roomName>>,
         NEW c \in Clients, NEW r \in Rooms, cRoom[c] = r,
         NEW e \in Entry, e.who = c,
         roomMsgs' = [roomMsgs EXCEPT ![r] = Append(@, e)],
         e.kind # "enter" <=> Present(c, r),
         e.kind # "enter" => e.as = Announced(c),
         \A q \in Rooms : Present(c, q)' <=> q = r /\ e.kind # "leave",
         e.kind # "leave" => Announced(c)' = e.now,
         \A d \in Clients \ {c}, q \in Rooms :
           /\ Present(d, q)' <=> Present(d, q)
           /\ Present(d, q) => Announced(d)' = Announced(d)
  PROVE  LogInv'
<1> DEFINE s == roomMsgs[r]
<1>1. /\ roomMsgs \in [Rooms -> Seq(Entry)] /\ s \in Seq(Entry) /\ r # Nil
      /\ \A q \in Rooms : roomMsgs'[q] = IF q = r THEN Append(s, e) ELSE roomMsgs[q]
      /\ \A q \in Rooms : Registered(q)' <=> Registered(q)
      /\ Registered(r)
  BY NilAssumption DEF TypeInv, TypeOK, RoomTypeOK, Registered, RoomInv, MembershipAgrees
<1>2. LogsAgree(r) /\ Readable(s)
  BY <1>1 DEF LogInv
<1>3. Readable(Append(s, e))
  BY <1>1, <1>2, AppendReadable DEF LogsAgree
<1>4. roomName[r] # Nil
  BY <1>1, NilAssumption DEF RoomInv, RoomsAccounted, Registered
<1>5. ASSUME NEW d \in Clients
      PROVE  /\ Told(Append(s, e), d) <=> Present(d, r)'
             /\ Present(d, r)' =>
                  \A i : LastBy(Append(s, e), d, i) => Append(s, e)[i].now = Announced(d)'
  <2>1. CASE d = c
    <3>1. Told(Append(s, e), c) <=> e.kind # "leave"
      BY <1>1, AppendTold
    <3>2. \A i : LastBy(Append(s, e), c, i) => i = Len(s) + 1
      BY <1>1, AppendLast
    <3>3. Append(s, e)[Len(s) + 1] = e
      BY <1>1, AppendFacts
    <3> QED BY <2>1, <3>1, <3>2, <3>3
  <2>2. CASE d # c
    <3>1. Told(Append(s, e), d) <=> Told(s, d)
      BY <1>1, <2>2, AppendTold
    <3>2. /\ Told(s, d) <=> Present(d, r)
          /\ Present(d, r) => \A i : LastBy(s, d, i) => s[i].now = Announced(d)
      BY <1>2 DEF LogsAgree
    <3>3. \A i : LastBy(Append(s, e), d, i) => LastBy(s, d, i)
      BY <1>1, <2>2, AppendLast
    <3>4. \A i : LastBy(s, d, i) => Append(s, e)[i] = s[i]
      BY <1>1, AppendFacts DEF LastBy
    <3>5. /\ Present(d, r)' <=> Present(d, r)
          /\ Present(d, r) => Announced(d)' = Announced(d)
      BY <2>2
    <3> HIDE DEF s
    <3> QED BY <3>1, <3>2, <3>3, <3>4, <3>5
  <2> QED BY <2>1, <2>2
<1> SUFFICES ASSUME NEW q \in Rooms
             PROVE  /\ Readable(roomMsgs'[q])
                    /\ roomName'[q] = Nil => roomMsgs'[q] = <<>>
                    /\ Registered(q)' => LogsAgree(q)'
  BY DEF LogInv
<1>6. CASE q = r
  <2>1. roomMsgs'[q] = Append(s, e)
    BY <1>1, <1>6
  <2>2. roomMsgs'[r] = Append(s, e)
    BY <1>6, <2>1
  <2>3. LogsAgree(r)'
    <3>1. ASSUME NEW d \in Clients
          PROVE  /\ Told(roomMsgs'[r], d) <=> Present(d, r)'
                 /\ Present(d, r)' => \A i : LastBy(roomMsgs'[r], d, i) =>
                      roomMsgs'[r][i].now = Announced(d)'
      BY <1>5, <2>2
    <3> QED BY <3>1 DEF LogsAgree
  <2> QED BY <1>3, <1>4, <1>6, <2>1, <2>3
<1>7. CASE q # r
  <2>1. roomMsgs'[q] = roomMsgs[q]
    BY <1>1, <1>7
  <2>2. \A d \in Clients :
          /\ Present(d, q)' <=> Present(d, q)
          /\ Present(d, q) => Announced(d)' = Announced(d)
    BY <1>7 DEF Present
  <2>3. Registered(q)' => LogsAgree(q)
    BY <1>1 DEF LogInv
  <2>4. Registered(q)' => LogsAgree(q)'
    <3> SUFFICES ASSUME Registered(q)', NEW d \in Clients
                 PROVE  /\ Told(roomMsgs'[q], d) <=> Present(d, q)'
                        /\ Present(d, q)' => \A i : LastBy(roomMsgs'[q], d, i) =>
                             roomMsgs'[q][i].now = Announced(d)'
      BY DEF LogsAgree
    <3>1. /\ Told(roomMsgs[q], d) <=> Present(d, q)
          /\ Present(d, q) => \A i : LastBy(roomMsgs[q], d, i) =>
               roomMsgs[q][i].now = Announced(d)
      BY <2>3 DEF LogsAgree
    <3>2. /\ Present(d, q)' <=> Present(d, q)
          /\ Present(d, q) => Announced(d)' = Announced(d)
      BY <2>2
    <3> QED BY ONLY <2>1, <3>1, <3>2
  <2> QED BY <2>1, <2>4 DEF LogInv
<1> QED BY <1>6, <1>7

------------------------------------------------------------------------------
(* The handlers.                                                            *)

\* Replies: nothing changes but what is sent and, at most, that the creator of
\* a room has failed to enter it.
LEMMA ReplyLogs ==
  ASSUME LogInv, UNCHANGED <<registry, roomName, roomMsgs, cRoom, username>>,
         task.op \in {"select", "create"}, task'.op \in {"select", "create"}
  PROVE  LogInv'
<1>1. \A r \in Rooms : Registered(r)' <=> Registered(r)
  BY DEF Registered
<1>2. \A r \in Rooms, c \in Clients :
        (Present(c, r)' <=> Present(c, r)) /\ Announced(c)' = Announced(c)
  BY DEF Present, Joining, Announced
<1> QED BY <1>1, <1>2, LogsKept

LEMMA StartLeaveLogs ==
  ASSUME TypeInv, RoomInv, LogInv, task.op \in {"select", "create"},
         NEW c \in Clients, cRoom[c] # Nil, NEW op \in {"leave", "switch"}, NEW arg,
         StartLeave(c, op, arg)
  PROVE  LogInv'
<1> DEFINE e == EntryOf("leave", c)
<1>1. /\ cRoom[c] \in Rooms
      /\ e \in Entry /\ e.who = c /\ e.kind = "leave" /\ e.as = username[c]
  BY EntryOfType DEF TypeInv, TypeOK, ClientTypeOK, EntryOf
<1>2. /\ roomMsgs' = [roomMsgs EXCEPT ![cRoom[c]] = Append(@, e)]
      /\ UNCHANGED <<registry, roomName, cRoom, username>>
      /\ task'.op = op /\ task'.who = c
  BY DEF StartLeave, Broadcast, clientVars
<1>3. Present(c, cRoom[c]) /\ Announced(c) = username[c]
  BY DEF Present, Joining, Announced
<1>4. \A q \in Rooms : ~Present(c, q)'
  BY <1>2 DEF Present
<1>5. \A d \in Clients \ {c}, q \in Rooms :
        (Present(d, q)' <=> Present(d, q)) /\ Announced(d)' = Announced(d)
  BY <1>2 DEF Present, Joining, Announced
<1> HIDE DEF e
<1> QED BY <1>1, <1>2, <1>3, <1>4, <1>5, LogsWritten

\* A client in the lobby, or one that has left the log of its room, joins.
LEMMA JoinLogs ==
  ASSUME TypeInv, LogInv, UNCHANGED <<registry, roomName, roomMsgs, username>>,
         NEW c \in Clients, NEW r \in Rooms, Join(c, r), task.op \notin {"join", "rename"},
         \A q \in Rooms : ~Present(c, q),
         task.op \in {"leave", "switch"} => task.who = c
  PROVE  LogInv'
<1>1. /\ task'.op = "join" /\ task'.who = c
      /\ \A d \in Clients \ {c} : cRoom'[d] = cRoom[d]
  BY DEF Join, TypeInv, TypeOK, ClientTypeOK
<1>2. \A q \in Rooms : ~Present(c, q)'
  BY <1>1 DEF Present, Joining
<1>3. \A d \in Clients \ {c}, q \in Rooms :
        (Present(d, q)' <=> Present(d, q)) /\ Announced(d)' = Announced(d)
  BY <1>1 DEF Present, Joining, Announced
<1>4. \A q \in Rooms : Registered(q)' <=> Registered(q)
  BY DEF Registered
<1> QED BY <1>2, <1>3, <1>4, LogsKept

LEMMA EnterCRoomLogs ==
  ASSUME TypeInv, RoomInv, LogInv, task.op \in {"select", "create"},
         NEW c \in Clients, NEW n \in Names, EnterCRoom(c, n)
  PROVE  LogInv'
<1>1. CASE registry[n] = Nil
  BY <1>1, ReplyLogs DEF EnterCRoom, roomVars, clientVars, NoTask
<1>2. CASE registry[n] # Nil /\ cRoom[c] # Nil
  BY <1>2, StartLeaveLogs DEF EnterCRoom
<1>3. CASE registry[n] # Nil /\ cRoom[c] = Nil
  <2>1. registry[n] \in Rooms
    BY <1>3 DEF TypeInv, TypeOK, RoomTypeOK
  <2>2. Join(c, registry[n]) /\ UNCHANGED <<registry, roomName, roomMsgs, username>>
    BY <1>3 DEF EnterCRoom, roomVars
  <2>3. \A q \in Rooms : ~Present(c, q)
    BY <1>3, NilAssumption DEF Present
  <2> QED BY <2>1, <2>2, <2>3, JoinLogs
<1> QED BY <1>1, <1>2, <1>3

LEMMA LeaveCRoomLogs ==
  ASSUME TypeInv, RoomInv, LogInv, task = NoTask, NEW c \in Clients, LeaveCRoom(c)
  PROVE  LogInv'
<1>1. CASE cRoom[c] = Nil
  BY <1>1, ReplyLogs DEF LeaveCRoom, roomVars, clientVars, NoTask
<1>2. CASE cRoom[c] # Nil
  BY <1>2, StartLeaveLogs DEF LeaveCRoom, NoTask
<1> QED BY <1>1, <1>2

LEMMA CreateCRoomLogs ==
  ASSUME TypeInv, RoomInv, LogInv, task = NoTask, NEW c \in Clients, NEW n \in Names,
         CreateCRoom(c, n)
  PROVE  LogInv'
<1>1. CASE registry[n] # Nil
  BY <1>1, ReplyLogs DEF CreateCRoom, roomVars, clientVars, NoTask
<1>2. CASE registry[n] = Nil
  <2>1. PICK r \in Rooms :
          /\ roomName[r] = Nil
          /\ roomName' = [roomName EXCEPT ![r] = n]
          /\ registry' = [registry EXCEPT ![n] = r]
    BY <1>2 DEF CreateCRoom
  <2>2. /\ task'.op = "create" /\ UNCHANGED <<roomMsgs, cRoom, username>>
    BY <1>2 DEF CreateCRoom, clientVars
  <2>3. /\ \A m \in Names : registry'[m] = IF m = n THEN r ELSE registry[m]
        /\ \A q \in Rooms : roomName'[q] = IF q = r THEN n ELSE roomName[q]
    BY <2>1 DEF TypeInv, TypeOK, RoomTypeOK
  <2>4. \A q \in Rooms, d \in Clients :
          (Present(d, q)' <=> Present(d, q)) /\ Announced(d)' = Announced(d)
    BY <2>2 DEF Present, Joining, Announced, NoTask
  <2>5. \A d \in Clients : cRoom[d] # r
    <3>1. ~Registered(r)
      BY <2>1, NilAssumption DEF RoomInv, RoomsAccounted, Registered
    <3> QED BY <3>1, NilAssumption DEF RoomInv, MembershipAgrees
  <2> SUFFICES ASSUME NEW q \in Rooms
               PROVE  /\ Readable(roomMsgs'[q])
                      /\ roomName'[q] = Nil => roomMsgs'[q] = <<>>
                      /\ Registered(q)' => LogsAgree(q)'
    BY DEF LogInv
  <2>6. Readable(roomMsgs'[q]) /\ (roomName'[q] = Nil => roomMsgs'[q] = <<>>)
    BY <2>2, <2>3, NilAssumption DEF LogInv
  <2>7. CASE q = r
    <3>1. roomMsgs'[q] = <<>>
      BY <2>1, <2>2, <2>7 DEF LogInv
    <3>2. \A d \in Clients : ~Present(d, q)'
      BY <2>4, <2>5, <2>7 DEF Present
    <3>3. LogsAgree(q)'
      BY <3>1, <3>2, EmptyLog DEF LogsAgree
    <3> QED BY <2>6, <3>3
  <2>8. CASE q # r
    <3>1. Registered(q)' => Registered(q)
      BY <1>2, <2>3, <2>8, NilAssumption DEF Registered
    <3>2. Registered(q)' => LogsAgree(q)
      BY <3>1 DEF LogInv
    <3>3. Registered(q)' => LogsAgree(q)'
      <4> SUFFICES ASSUME Registered(q)', NEW d \in Clients
                   PROVE  /\ Told(roomMsgs'[q], d) <=> Present(d, q)'
                          /\ Present(d, q)' => \A i : LastBy(roomMsgs'[q], d, i) =>
                               roomMsgs'[q][i].now = Announced(d)'
        BY DEF LogsAgree
      <4> QED BY <2>2, <2>4, <3>2 DEF LogsAgree
    <3> QED BY <2>6, <3>3
  <2> QED BY <2>7, <2>8
<1> QED BY <1>1, <1>2

\* News of c's is written in its room under its name.
LEMMA ChangeUsernameLogs ==
  ASSUME TypeInv, RoomInv, LogInv, task = NoTask, NEW c \in Clients, NEW u \in Users,
         ChangeUsername(c, u)
  PROVE  LogInv'
<1>1. /\ task' = [op |-> "rename", who |-> c, arg |-> u]
      /\ UNCHANGED <<registry, roomName, cRoom, username>>
  BY DEF ChangeUsername, clientVars, roomVars
<1>2. \A d \in Clients, q \in Rooms : Present(d, q)' <=> Present(d, q)
  BY <1>1 DEF Present, Joining, NoTask
<1>3. \A d \in Clients : Announced(d)' = IF d = c THEN u ELSE Announced(d)
  BY <1>1 DEF Announced, NoTask
<1>4. CASE cRoom[c] = Nil
  <2>1. UNCHANGED roomMsgs
    BY <1>4 DEF ChangeUsername, roomVars
  <2>2. \A q \in Rooms : ~Present(c, q) /\ (Registered(q)' <=> Registered(q))
    BY <1>1, <1>4, NilAssumption DEF Present, Registered
  <2> QED BY <1>1, <1>2, <1>3, <2>1, <2>2, LogsKept
<1>5. CASE cRoom[c] # Nil
  <2> DEFINE e == [EntryOf("name", c) EXCEPT !.now = u]
  <2>1. /\ e \in Entry /\ e.who = c /\ e.kind = "name" /\ e.as = username[c] /\ e.now = u
    BY DEF TypeInv, TypeOK, ClientTypeOK, EntryOf, Entry
  <2>2. cRoom[c] \in Rooms
    BY <1>5 DEF TypeInv, TypeOK, ClientTypeOK
  <2>3. roomMsgs' = [roomMsgs EXCEPT ![cRoom[c]] = Append(@, e)]
    BY <1>5 DEF ChangeUsername, Broadcast
  <2>4. Announced(c) = username[c] /\ \A q \in Rooms : Present(c, q) <=> q = cRoom[c]
    BY DEF Announced, Present, Joining, NoTask
  <2> HIDE DEF e
  <2> QED BY <1>1, <1>2, <1>3, <2>1, <2>2, <2>3, <2>4, LogsWritten
<1> QED BY <1>4, <1>5

LEMMA SendMsgLogs ==
  ASSUME TypeInv, RoomInv, LogInv, task = NoTask, NEW c \in Clients, SendMsg(c)
  PROVE  LogInv'
<1>1. CASE cRoom[c] = Nil
  BY <1>1, ReplyLogs DEF SendMsg, roomVars, clientVars, NoTask
<1>2. CASE cRoom[c] # Nil
  <2> DEFINE e == EntryOf("say", c)
  <2>1. /\ e \in Entry /\ e.who = c /\ e.kind = "say"
        /\ e.as = username[c] /\ e.now = username[c]
    BY EntryOfType DEF TypeInv, EntryOf
  <2>2. cRoom[c] \in Rooms
    BY <1>2 DEF TypeInv, TypeOK, ClientTypeOK
  <2>3. /\ roomMsgs' = [roomMsgs EXCEPT ![cRoom[c]] = Append(@, e)]
        /\ UNCHANGED <<registry, roomName, cRoom, username, task>>
    BY <1>2 DEF SendMsg, Broadcast, clientVars
  <2>4. Announced(c) = username[c] /\ \A q \in Rooms : Present(c, q) <=> q = cRoom[c]
    BY DEF Announced, Present, Joining, NoTask
  <2>5. \A d \in Clients, q \in Rooms :
          (Present(d, q)' <=> Present(d, q)) /\ Announced(d)' = Announced(d)
    BY <2>3 DEF Present, Joining, Announced
  <2> HIDE DEF e
  <2> QED BY <2>1, <2>2, <2>3, <2>4, <2>5, LogsWritten
<1> QED BY <1>1, <1>2

LEMMA ParseMsgLogs ==
  ASSUME TypeInv, RoomInv, LogInv, NEW c \in Clients, ParseMsg(c)
  PROVE  LogInv'
<1> DEFINE msg == Head(inq[c])
<1>1. /\ task = NoTask /\ task.op = "select"
      /\ msg \in Line
  <2>1. inq[c] \in Seq(Line) /\ inq[c] # <<>> /\ task = NoTask
    BY DEF TypeInv, TypeOK, NetTypeOK, ParseMsg, Take, Idle
  <2> QED BY <2>1, HeadTailProperties DEF NoTask
<1>2. CASE msg.cmd = "create" /\ CreateCRoom(c, msg.arg)
  <2>1. msg.arg \in Names
    BY <1>1, <1>2 DEF Line
  <2> QED BY <1>1, <1>2, <2>1, CreateCRoomLogs
<1>3. CASE msg.cmd = "enter" /\ EnterCRoom(c, msg.arg)
  <2>1. msg.arg \in Names
    BY <1>1, <1>3 DEF Line
  <2> QED BY <1>1, <1>3, <2>1, EnterCRoomLogs
<1>4. CASE LeaveCRoom(c)
  BY <1>1, <1>4, LeaveCRoomLogs
<1>5. CASE ListCRooms(c) \/ Help(c)
  BY <1>1, <1>5, ReplyLogs DEF ListCRooms, Help, roomVars, clientVars
<1>6. CASE msg.cmd = "name" /\ ChangeUsername(c, msg.arg)
  <2>1. msg.arg \in Users
    BY <1>1, <1>6 DEF Line
  <2> QED BY <1>1, <1>6, <2>1, ChangeUsernameLogs
<1>7. CASE SendMsg(c)
  BY <1>1, <1>7, SendMsgLogs
<1> QED BY <1>2, <1>3, <1>4, <1>5, <1>6, <1>7 DEF ParseMsg

LEMMA DeleteLogs ==
  ASSUME TypeInv, RoomInv, LogInv, NEW r \in Rooms, DeleteCRoom(r)
  PROVE  LogInv'
<1>1. /\ task = NoTask /\ timers[r] # <<>>
      /\ UNCHANGED <<roomName, roomMsgs, username, task>>
  BY DEF DeleteCRoom, Idle
<1>2. Registered(r)
  BY <1>1 DEF RoomInv, RoomsAccounted
<1>3. PICK n \in Names : registry[n] = r /\ roomName[r] = n
  BY <1>2, NilAssumption DEF Registered, RoomInv, RoomsAccounted
<1>4. CASE UNCHANGED <<registry, cRoom>>
  BY <1>1, <1>4, LogsKept DEF Registered, Present, Joining, Announced
<1>5. CASE /\ registry' = [registry EXCEPT ![roomName[r]] = Nil]
           /\ cRoom' = [c \in Clients |->
                          IF c \in Range(roomClients[r]) THEN Nil ELSE cRoom[c]]
  <2>1. \A m \in Names : registry'[m] = IF m = n THEN Nil ELSE registry[m]
    BY <1>3, <1>5 DEF TypeInv, TypeOK, RoomTypeOK
  <2>2. \A q \in Rooms : Registered(q)' => Registered(q) /\ q # r
    <3>1. \A m \in Names : registry[m] = r => m = n
      BY <1>3, NilAssumption DEF RoomInv, RoomsAccounted
    <3> QED BY <2>1, <3>1, NilAssumption DEF Registered
  <2>3. \A c \in Clients : c \in Range(roomClients[r]) <=> cRoom[c] = r
    BY <1>1, <1>2 DEF RoomInv, MembershipAgrees, Joining, NoTask
  <2>4. \A q \in Rooms \ {r}, c \in Clients :
          (Present(c, q)' <=> Present(c, q)) /\ Announced(c)' = Announced(c)
    BY <1>1, <1>5, <2>3, NilAssumption DEF Present, Joining, Announced
  <2> SUFFICES ASSUME NEW q \in Rooms
               PROVE  /\ Readable(roomMsgs'[q])
                      /\ roomName'[q] = Nil => roomMsgs'[q] = <<>>
                      /\ Registered(q)' => LogsAgree(q)'
    BY DEF LogInv
  <2>5. Readable(roomMsgs'[q]) /\ (roomName'[q] = Nil => roomMsgs'[q] = <<>>)
    BY <1>1 DEF LogInv
  <2>6. ASSUME Registered(q)', NEW d \in Clients
        PROVE  /\ Told(roomMsgs'[q], d) <=> Present(d, q)'
               /\ Present(d, q)' => \A i : LastBy(roomMsgs'[q], d, i) =>
                    roomMsgs'[q][i].now = Announced(d)'
    <3>1. q # r /\ LogsAgree(q)
      BY <2>2, <2>6 DEF LogInv
    <3>2. (Present(d, q)' <=> Present(d, q)) /\ Announced(d)' = Announced(d)
      BY <2>4, <3>1
    <3> QED BY <1>1, <3>1, <3>2 DEF LogsAgree
  <2> QED BY <2>5, <2>6 DEF LogsAgree
<1> QED BY <1>4, <1>5 DEF DeleteCRoom

LEMMA ContinueLogs ==
  ASSUME TypeInv, RoomInv, LogInv, Continue
  PROVE  LogInv'
<1> DEFINE c == task.who
<1>1. CASE FinishCreate
  BY <1>1, TaskTypes, EnterCRoomLogs DEF FinishCreate, Resume
<1>2. CASE FinishLeave
  <2>1. /\ c \in Clients /\ task.op = "leave" /\ task' = NoTask
        /\ UNCHANGED <<registry, roomName, roomMsgs, username>>
        /\ \A d \in Clients : cRoom'[d] = IF d = c THEN Nil ELSE cRoom[d]
    BY <1>2, TaskTypes DEF FinishLeave, Resume, TypeInv, TypeOK, ClientTypeOK
  <2>2. \A q \in Rooms, d \in Clients :
          (Present(d, q)' <=> Present(d, q)) /\ Announced(d)' = Announced(d)
    BY <2>1, NilAssumption DEF Present, Joining, Announced, NoTask
  <2> QED BY <2>1, <2>2, LogsKept DEF Registered
<1>3. CASE FinishSwitch
  <2>1. /\ c \in Clients /\ task.op = "switch"
        /\ task.arg \in Names /\ registry[task.arg] # Nil
    BY <1>3, TaskTypes DEF FinishSwitch, Resume, TypeInv, TaskOK
  <2>2. registry[task.arg] \in Rooms
    BY <2>1 DEF TypeInv, TypeOK, RoomTypeOK
  <2>3. /\ Join(c, registry[task.arg])
        /\ UNCHANGED <<registry, roomName, roomMsgs, username>>
    BY <1>3 DEF FinishSwitch
  <2>4. \A q \in Rooms : ~Present(c, q)
    BY <2>1 DEF Present
  <2> QED BY <2>1, <2>2, <2>3, <2>4, JoinLogs
<1>4. CASE FinishRename
  <2>1. /\ c \in Clients /\ task.op = "rename" /\ task' = NoTask
        /\ UNCHANGED <<registry, roomName, roomMsgs, cRoom>>
        /\ \A d \in Clients : username'[d] = IF d = c THEN task.arg ELSE username[d]
    BY <1>4, TaskTypes DEF FinishRename, Resume, roomVars, TypeInv, TypeOK, ClientTypeOK
  <2>2. \A q \in Rooms, d \in Clients :
          (Present(d, q)' <=> Present(d, q)) /\ Announced(d)' = Announced(d)
    BY <2>1 DEF Present, Joining, Announced, NoTask
  <2> QED BY <2>1, <2>2, LogsKept DEF Registered
<1>5. CASE FinishJoin
  <2>0. PICK b \in Clients : b = task.who
    BY <1>5, TaskTypes DEF FinishJoin, Resume
  <2> DEFINE e == EntryOf("enter", b)
  <2>1. b \in Clients /\ b = task.who /\ cRoom[b] # Nil /\ task.op = "join"
    BY <1>5, <2>0, TaskTypes DEF FinishJoin, Resume, TypeInv, TaskOK
  <2>2. cRoom[b] \in Rooms
    BY <2>1 DEF TypeInv, TypeOK, ClientTypeOK
  <2>3. e \in Entry /\ e.who = b /\ e.kind = "enter" /\ e.now = username[b]
    BY <2>1, EntryOfType DEF TypeInv, EntryOf
  <2>4. /\ roomMsgs' = [roomMsgs EXCEPT ![cRoom[b]] = Append(@, e)]
        /\ UNCHANGED <<registry, roomName, cRoom, username>>
        /\ task' = NoTask
    BY <1>5, <2>0 DEF FinishJoin, Broadcast, clientVars
  <2>5. ~Present(b, cRoom[b]) /\ \A q \in Rooms : Present(b, q)' <=> q = cRoom[b]
    BY <2>1, <2>4 DEF Present, Joining, NoTask
  <2>6. Announced(b)' = username[b]
    BY <2>4 DEF Announced, NoTask
  <2>7. \A d \in Clients \ {b}, q \in Rooms :
          (Present(d, q)' <=> Present(d, q)) /\ Announced(d)' = Announced(d)
    BY <2>1, <2>4 DEF Present, Joining, Announced, NoTask
  <2> HIDE DEF e
  <2> QED BY <2>1, <2>2, <2>3, <2>4, <2>5, <2>6, <2>7, LogsWritten
<1> QED BY <1>1, <1>2, <1>3, <1>4, <1>5 DEF Continue

\* A step that the logs and the running handler do not notice.
LEMMA UnnoticedLogs ==
  ASSUME LogInv, UNCHANGED <<registry, roomName, roomMsgs, cRoom, username, task>>
  PROVE  LogInv'
<1>1. \A r \in Rooms, c \in Clients :
        (Present(c, r)' <=> Present(c, r)) /\ Announced(c)' = Announced(c)
  BY DEF Present, Joining, Announced
<1> QED BY <1>1, LogsKept DEF Registered

LEMMA LogNext == TypeInv /\ RoomInv /\ LogInv /\ [Next]_vars => LogInv'
<1> SUFFICES ASSUME TypeInv, RoomInv, LogInv, [Next]_vars PROVE LogInv'
  OBVIOUS
<1>1. CASE UNCHANGED vars
  BY <1>1, UnnoticedLogs DEF vars, roomVars, clientVars
<1>2. CASE Lobby
  <2>1. ASSUME NEW c \in Clients, Quit(c)
        PROVE  LogInv'
    BY <2>1, UnnoticedLogs DEF Quit, roomVars, clientVars
  <2>2. CASE LobbySend
    BY <2>2, UnnoticedLogs DEF LobbySend, roomVars
  <2>3. ASSUME NEW c \in Clients, LeaveOnEOF(c)
        PROVE  LogInv'
    BY <2>3, LeaveCRoomLogs DEF LeaveOnEOF, Idle
  <2> QED BY <1>2, <2>1, <2>2, <2>3, ParseMsgLogs, DeleteLogs, ContinueLogs DEF Lobby
<1>3. ASSUME NEW c \in Clients,
             Accept(c) \/ SendWelcome(c) \/ Flush(c) \/ FlushFails(c) \/ Peer(c)
      PROVE  LogInv'
  <2>1. UNCHANGED <<registry, roomName, roomMsgs, cRoom, username, task>>
    BY <1>3 DEF Accept, SendWelcome, Flush, FlushFails, Peer, Hangup, LoseInput, TypeLine,
                roomVars, clientVars
  <2> QED BY <2>1, UnnoticedLogs
<1>4. CASE Tick
  BY <1>4, UnnoticedLogs DEF Tick, clientVars
<1> QED BY <1>1, <1>2, <1>3, <1>4 DEF Next, Quiescent

------------------------------------------------------------------------------
(* The theorems.                                                            *)

LEMMA LogInvariance == Spec => [](TypeInv /\ RoomInv /\ LogInv)
<1>1. TypeInv /\ RoomInv /\ LogInv /\ [Next]_vars => LogInv'
  BY LogNext
<1> QED BY <1>1, LogInit, Invariance, PTL DEF Spec

\* Whoever reads a room's log can tell who did what: arrivals and departures
\* alternate, and everybody goes by the name last announced, although a name is
\* announced before it is set.
THEOREM LogsCorrect == Spec => []LogsReadable
<1>1. LogInv => LogsReadable
  BY DEF LogInv, Readable, LogsReadable
<1> QED BY <1>1, LogInvariance, PTL

\* Between two handlers the log of a room in use tells who is in it.
THEOREM LogTruthful == Spec => []LogTellsMembership
<1>1. TypeInv /\ LogInv => LogTellsMembership
  <2> SUFFICES ASSUME LogInv, Idle, NEW r \in Rooms, Registered(r), NEW c \in Clients
               PROVE  cRoom[c] = r <=>
                        \E i \in DOMAIN roomMsgs[r] :
                          /\ roomMsgs[r][i].who = c
                          /\ roomMsgs[r][i].kind # "leave"
                          /\ \A k \in i + 1 .. Len(roomMsgs[r]) : roomMsgs[r][k].who # c
    BY DEF LogTellsMembership
  <2>1. Told(roomMsgs[r], c) <=> Present(c, r)
    BY DEF LogInv, LogsAgree
  <2>2. Present(c, r) <=> cRoom[c] = r
    BY DEF Present, Joining, Idle, NoTask
  <2> QED BY <2>1, <2>2 DEF Told, LastBy
<1> QED BY <1>1, LogInvariance, PTL
===============================================================================
