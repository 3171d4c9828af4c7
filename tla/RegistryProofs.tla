---------------------------- MODULE RegistryProofs ----------------------------
(***************************************************************************)
(* For every value of the constants of RegistryServer: the state is well   *)
(* formed and nobody is twice in the list of clients, and a broadcast      *)
(* reaches its whole audience, though it ranges over a list read earlier   *)
(* and updates of that list are lost.                                      *)
(***************************************************************************)
EXTENDS RegistryServer, ListLemmas

\* Who has been registered so far: their threads were started.
Started == {c \in Clients : pc[<<c, "reader">>] # "off"}

\* A list of clients as any goroutine may have read it.
Snapshot(s) == IsInjective(s) /\ Range(s) \subseteq Started

\* Main registers a client once, and whoever stores a list later, however old
\* it is, stores nobody twice.
SnapshotsOK ==
  /\ \A c \in Clients :
       /\ conn[c] = "new" => pc[<<c, "reader">>] = "off"
       /\ accepting = c => conn[c] # "new" /\ pc[<<c, "reader">>] = "off"
  /\ Snapshot(curClients)
  /\ Snapshot(mainView)
  /\ \A t \in Threads : Snapshot(view[t])

\* c is connected and its threads run.
Connected(c) == conn[c] = "open" /\ pc[<<c, "reader">>] # "off"

\* Whoever is connected is in the list, but for those a stale write took off:
\* a removal takes off nobody else than its own client, which is closed.
ListOK ==
  /\ \A t \in Threads : pc[t] = "store" => conn[t[1]] = "closed"
  /\ \A c \in Clients \ lost : Connected(c) => c \in Range(curClients)

\* Whom the loop of t still comes to and writes to.
Ahead(t) == {d \in Range(todo[t]) : Hears(t, d)}

\* Who must still hear t's broadcast is still ahead of it.  What a thread says
\* in a room is said by the handler, which then is not at a line that changes
\* the room.
BroadcastsOK ==
  \A t \in Threads :
    pc[t] = "tell" =>
      /\ telling[t].type = "message" => t[2] = "handler"
      /\ due[t] \subseteq Ahead(t)

Inv == TypeOK /\ SnapshotsOK /\ ListOK /\ BroadcastsOK

------------------------------------------------------------------------------
(* Lists.                                                                   *)

LEMMA EmptyList == \A S : <<>> \in Seq(S) /\ IsInjective(<<>>) /\ Range(<<>>) = {}
BY DEF IsInjective, Range

\* A loop over a list comes to its head, then to the rest.
LEMMA HeadAndTail ==
  ASSUME NEW S, NEW s \in Seq(S), s # <<>>
  PROVE  /\ Tail(s) \in Seq(S)
         /\ Range(s) \subseteq {Head(s)} \cup Range(Tail(s))
         /\ Range(Tail(s)) \subseteq Range(s)
<1>1. /\ Len(s) \in Nat /\ Len(s) # 0
      /\ DOMAIN s = 1 .. Len(s)
  BY LenProperties, EmptySeq
<1>2. /\ Tail(s) \in Seq(S)
      /\ Head(s) = s[1]
      /\ Len(Tail(s)) = Len(s) - 1
      /\ \A i \in 1 .. Len(s) - 1 : Tail(s)[i] = s[i + 1]
  BY HeadTailProperties
<1>3. DOMAIN Tail(s) = 1 .. Len(s) - 1
  BY <1>2, LenProperties
<1>4. ASSUME NEW i \in 1 .. Len(s)
      PROVE  s[i] \in {Head(s)} \cup Range(Tail(s))
  <2>1. CASE i = 1
    BY <2>1, <1>2
  <2>2. CASE i # 1
    <3>1. i - 1 \in 1 .. Len(s) - 1 /\ Tail(s)[i - 1] = s[i]
      BY <2>2, <1>1, <1>2
    <3> QED BY <3>1, <1>3 DEF Range
  <2> QED BY <2>1, <2>2
<1>5. ASSUME NEW i \in 1 .. Len(s) - 1
      PROVE  Tail(s)[i] \in Range(s)
  <2>1. i + 1 \in 1 .. Len(s)
    BY <1>1
  <2> QED BY <2>1, <1>1, <1>2 DEF Range
<1> QED BY <1>1, <1>2, <1>3, <1>4, <1>5 DEF Range

------------------------------------------------------------------------------
(* What an action leaves as it is.                                          *)

LEMMA ThreadType ==
  /\ \A t \in Threads : t[1] \in Clients /\ t[2] \in {"reader", "handler"}
  /\ \A c \in Clients : <<c, "reader">> \in Threads /\ <<c, "handler">> \in Threads
BY DEF Threads

\* No list is written or read, and no thread starts.
LEMMA SnapshotsKept ==
  ASSUME SnapshotsOK, UNCHANGED <<curClients, mainVars, view>>,
         \A c \in Clients : conn'[c] = "new" => conn[c] = "new",
         \A c \in Clients : pc'[<<c, "reader">>] = "off" <=> pc[<<c, "reader">>] = "off"
  PROVE  SnapshotsOK'
<1>1. Started' = Started
  BY DEF Started
<1> QED BY <1>1 DEF SnapshotsOK, Snapshot, mainVars

\* The list stays as it is, and nobody new is connected.
LEMMA ListKept ==
  ASSUME ListOK, UNCHANGED listVars,
         \A t \in Threads : pc'[t] = "store" => pc[t] = "store",
         \A t \in Threads : conn[t[1]] = "closed" => conn'[t[1]] = "closed",
         \A c \in Clients : Connected(c)' => Connected(c)
  PROVE  ListOK'
BY DEF ListOK, listVars

\* The broadcast of t goes on as before, or ends, and whoever it is still due
\* to is as it was for it.
GoesOn(t) ==
  pc'[t] = "tell" =>
    /\ pc[t] = "tell"
    /\ telling'[t] = telling[t]
    /\ todo'[t] = todo[t]
    /\ due'[t] \subseteq due[t]
    /\ \A d \in due'[t] : Hears(t, d) => Hears(t, d)'

LEMMA BroadcastsKept ==
  ASSUME BroadcastsOK, NEW u \in Threads,
         \A t \in Threads : t # u => GoesOn(t),
         pc'[u] = "tell" => /\ telling'[u].type = "message" => u[2] = "handler"
                            /\ due'[u] \subseteq Ahead(u)'
  PROVE  BroadcastsOK'
<1>1. ASSUME NEW t \in Threads, pc'[t] = "tell", t # u
      PROVE  /\ telling'[t].type = "message" => t[2] = "handler"
             /\ due'[t] \subseteq Ahead(t)'
  <2>1. /\ pc[t] = "tell"
        /\ telling'[t] = telling[t]
        /\ todo'[t] = todo[t]
        /\ due'[t] \subseteq due[t]
        /\ \A d \in due'[t] : Hears(t, d) => Hears(t, d)'
    BY <1>1 DEF GoesOn
  <2>2. /\ telling[t].type = "message" => t[2] = "handler"
        /\ due[t] \subseteq Ahead(t)
    BY <2>1 DEF BroadcastsOK
  <2> QED BY <2>1, <2>2 DEF Ahead
<1> QED BY <1>1 DEF BroadcastsOK

LEMMA AllGoOn ==
  ASSUME BroadcastsOK, \A t \in Threads : GoesOn(t)
  PROVE  BroadcastsOK'
<1>1. ASSUME NEW t \in Threads, pc'[t] = "tell"
      PROVE  /\ telling'[t].type = "message" => t[2] = "handler"
             /\ due'[t] \subseteq Ahead(t)'
  <2>1. /\ pc[t] = "tell"
        /\ telling'[t] = telling[t]
        /\ todo'[t] = todo[t]
        /\ due'[t] \subseteq due[t]
        /\ \A d \in due'[t] : Hears(t, d) => Hears(t, d)'
    BY <1>1 DEF GoesOn
  <2>2. /\ telling[t].type = "message" => t[2] = "handler"
        /\ due[t] \subseteq Ahead(t)
    BY <2>1 DEF BroadcastsOK
  <2> QED BY <2>1, <2>2 DEF Ahead
<1> QED BY <1>1 DEF BroadcastsOK

------------------------------------------------------------------------------
(* The peers and the main goroutine.                                        *)

LEMMA InvInit == Init => Inv
<1> SUFFICES ASSUME Init PROVE Inv
  OBVIOUS
<1>1. TypeOK
  <2>1. /\ conn \in [Clients -> {"new", "open", "hungup", "closed"}]
        /\ inq \in [Clients -> Seq(Line)]
        /\ lines \in 0 .. MaxLines
        /\ user \in [Clients -> Users \cup {Nil}]
        /\ room \in [Clients -> RoomNames]
        /\ rooms \in [1 .. Slots -> RoomNames \cup {Nil}]
        /\ accepting \in Clients \cup {Nil}
    BY EmptyList, BoundsAssumption DEF Init, RoomNames
  <2>2. /\ {curClients, mainView} \subseteq Seq(Clients)
        /\ IsInjective(curClients)
    BY EmptyList DEF Init
  <2>3. /\ pc \in [Threads -> {"off", "idle", "tell", "store", "ended"}]
        /\ {todo, view} \subseteq [Threads -> Seq(Clients)]
        /\ telling \in [Threads -> Telling]
        /\ due \in [Threads -> SUBSET Clients]
        /\ lost \subseteq Clients
    BY EmptyList DEF Init, Telling
  <2> QED BY <2>1, <2>2, <2>3 DEF TypeOK
<1>2. SnapshotsOK
  BY EmptyList, NilAssumption, ThreadType DEF Init, SnapshotsOK, Snapshot
<1>3. ListOK
  BY ThreadType DEF Init, ListOK, Connected
<1>4. BroadcastsOK
  BY DEF Init, BroadcastsOK
<1> QED BY <1>1, <1>2, <1>3, <1>4 DEF Inv

LEMMA PeerStep ==
  ASSUME Inv, NEW c \in Clients, Peer(c)
  PROVE  Inv'
<1>1. ASSUME NEW l \in Lines, TypeLine(c, l)
      PROVE  Inv'
  <2>1. Append(inq[c], l) \in Seq(Line)
    BY LinesAssumption, AppendProperties DEF Inv, TypeOK
  <2>2. lines' \in 0 .. MaxLines
    BY <1>1, BoundsAssumption DEF TypeLine, Inv, TypeOK
  <2>3. TypeOK'
    BY <1>1, <2>1, <2>2 DEF TypeLine, Inv, TypeOK, mainVars, listVars, threadVars
  <2>4. SnapshotsOK'
    BY <1>1, SnapshotsKept DEF TypeLine, Inv, mainVars, listVars, threadVars
  <2>5. ListOK'
    BY <1>1, ListKept DEF TypeLine, Inv, Connected, listVars, threadVars
  <2>6. BroadcastsOK'
    BY <1>1, AllGoOn DEF TypeLine, Inv, GoesOn, Hears, listVars, threadVars
  <2> QED BY <2>3, <2>4, <2>5, <2>6 DEF Inv
<1>2. CASE Hangup(c)
  <2>1. TypeOK'
    BY <1>2 DEF Hangup, Excuse, Inv, TypeOK, mainVars, listVars, threadVars
  <2>2. SnapshotsOK'
    BY <1>2, SnapshotsKept DEF Hangup, Inv, TypeOK, mainVars, listVars, threadVars
  <2>3. ListOK'
    BY <1>2, ListKept, ThreadType DEF Hangup, Inv, TypeOK, Connected, listVars, threadVars
  <2>4. BroadcastsOK'
    BY <1>2, AllGoOn DEF Hangup, Excuse, Inv, TypeOK, GoesOn, Hears, listVars, threadVars
  <2> QED BY <2>1, <2>2, <2>3, <2>4 DEF Inv
<1>3. CASE LoseInput(c)
  <2>1. Front(inq[c]) \in Seq(Line)
    <3>1. inq[c] \in Seq(Line)
      BY DEF Inv, TypeOK
    <3>2. \A i \in 1 .. Len(inq[c]) - 1 : inq[c][i] \in Line
      BY <3>1, ElementOfSeq, LenProperties
    <3>3. Len(inq[c]) - 1 \in Int
      BY <3>1, LenProperties
    <3> QED BY <3>2, <3>3, SubSeqProperties DEF Front
  <2>2. TypeOK'
    BY <1>3, <2>1 DEF LoseInput, Inv, TypeOK, mainVars, listVars, threadVars
  <2>3. SnapshotsOK'
    BY <1>3, SnapshotsKept DEF LoseInput, Inv, mainVars, listVars, threadVars
  <2>4. ListOK'
    BY <1>3, ListKept DEF LoseInput, Inv, Connected, listVars, threadVars
  <2>5. BroadcastsOK'
    BY <1>3, AllGoOn DEF LoseInput, Inv, GoesOn, Hears, listVars, threadVars
  <2> QED BY <2>2, <2>3, <2>4, <2>5 DEF Inv
<1> QED BY <1>1, <1>2, <1>3 DEF Peer

\* Main reads the list.
LEMMA AcceptStep ==
  ASSUME Inv, NEW c \in Clients, Accept(c)
  PROVE  Inv'
<1>1. TypeOK'
  BY DEF Accept, Inv, TypeOK, listVars, threadVars
<1>2. SnapshotsOK'
  <2>1. Started' = Started
    BY DEF Accept, Started, threadVars
  <2>2. Snapshot(curClients)' /\ Snapshot(mainView)'
    BY <2>1 DEF Accept, Inv, SnapshotsOK, Snapshot, listVars
  <2>3. \A t \in Threads : Snapshot(view[t])'
    BY <2>1 DEF Accept, Inv, SnapshotsOK, Snapshot, threadVars
  <2>4. \A d \in Clients :
          /\ conn'[d] = "new" => pc'[<<d, "reader">>] = "off"
          /\ accepting' = d => conn'[d] # "new" /\ pc'[<<d, "reader">>] = "off"
    BY DEF Accept, Inv, SnapshotsOK, TypeOK, threadVars
  <2> QED BY <2>2, <2>3, <2>4 DEF SnapshotsOK
<1>3. ListOK'
  BY ListKept, ThreadType
     DEF Accept, Inv, TypeOK, SnapshotsOK, Connected, listVars, threadVars
<1>4. BroadcastsOK'
  BY AllGoOn DEF Accept, Inv, GoesOn, Hears, listVars, threadVars
<1> QED BY <1>1, <1>2, <1>3, <1>4 DEF Inv

\* Main stores the list with a client that was in no list yet.
LEMMA RegisterStep ==
  ASSUME Inv, Register
  PROVE  Inv'
<1> DEFINE c == accepting
<1>1. /\ c \in Clients
      /\ pc[<<c, "reader">>] = "off"
      /\ conn[c] # "new"
      /\ c \notin Range(mainView)
  BY DEF Register, Inv, TypeOK, SnapshotsOK, Snapshot, Started
<1>2. /\ curClients' = Append(mainView, c)
      /\ lost' = lost \cup ChangedSince(mainView)
      /\ accepting' = Nil
      /\ mainView' = <<>>
      /\ pc' = [pc EXCEPT ![<<c, "reader">>] = "idle", ![<<c, "handler">>] = "idle"]
      /\ UNCHANGED <<peerVars, user, room, rooms, todo, telling, view, due>>
  BY DEF Register
<1> HIDE DEF c
<1>3. /\ curClients' \in Seq(Clients)
      /\ IsInjective(curClients')
      /\ Range(curClients') = Range(mainView) \cup {c}
  BY <1>1, <1>2, AppendFreshProperties
     DEF Inv, TypeOK, SnapshotsOK, Snapshot
<1>4. pc' \in [Threads -> {"off", "idle", "tell", "store", "ended"}]
  BY <1>1, <1>2, ThreadType DEF Inv, TypeOK
<1>5. TypeOK'
  <2>1. lost' \subseteq Clients
    BY <1>2, RangeOfSeq DEF Inv, TypeOK, ChangedSince
  <2>2. /\ accepting' = Nil
        /\ mainView' = <<>>
        /\ UNCHANGED <<conn, inq, lines, user, room, rooms, todo, telling, view, due>>
    BY <1>2 DEF peerVars
  <2> QED BY <1>3, <1>4, <2>1, <2>2, EmptyList DEF Inv, TypeOK
<1>6. SnapshotsOK'
  <2>1. \A d \in Clients :
          pc'[<<d, "reader">>] = IF d = c THEN "idle" ELSE pc[<<d, "reader">>]
    BY <1>1, <1>2, ThreadType DEF Inv, TypeOK
  <2>2. Started' = Started \cup {c}
    BY <1>1, <2>1 DEF Started
  <2>3. Snapshot(curClients)' /\ Snapshot(mainView)'
    BY <1>2, <1>3, <2>2, EmptyList DEF Inv, SnapshotsOK, Snapshot
  <2>4. \A t \in Threads : Snapshot(view[t])'
    BY <1>2, <2>2 DEF Inv, SnapshotsOK, Snapshot
  <2>5. \A d \in Clients : conn'[d] = "new" => pc'[<<d, "reader">>] = "off"
    BY <1>1, <1>2, <2>1 DEF Inv, SnapshotsOK, peerVars
  <2>6. \A d \in Clients : accepting' # d
    BY <1>2, NilAssumption
  <2> QED BY <2>3, <2>4, <2>5, <2>6 DEF SnapshotsOK
<1>7. ListOK'
  <2>1. ASSUME NEW t \in Threads, pc'[t] = "store"
        PROVE  conn'[t[1]] = "closed"
    BY <1>2, <2>1 DEF Inv, TypeOK, ListOK, peerVars
  <2>2. ASSUME NEW d \in Clients, d \notin lost', Connected(d)'
        PROVE  d \in Range(curClients')
    <3>1. CASE d = c
      BY <1>3, <3>1
    <3>2. CASE d # c
      <4>1. d \notin lost /\ (d \in Range(mainView) <=> d \in Range(curClients))
        BY <1>2, <2>2 DEF ChangedSince
      <4>2. Connected(d)
        BY <1>1, <1>2, <2>2, <3>2, ThreadType DEF Inv, TypeOK, Connected, peerVars
      <4> QED BY <1>3, <4>1, <4>2 DEF Inv, ListOK
    <3> QED BY <3>1, <3>2
  <2> QED BY <2>1, <2>2 DEF ListOK
<1>8. BroadcastsOK'
  <2>1. ASSUME NEW t \in Threads, pc'[t] = "tell"
        PROVE  pc[t] = "tell"
    BY <1>2, <2>1 DEF Inv, TypeOK
  <2> QED BY <1>2, <2>1 DEF Inv, BroadcastsOK, Ahead, Hears
<1> QED BY <1>5, <1>6, <1>7, <1>8 DEF Inv

------------------------------------------------------------------------------
(* Broadcasts.                                                              *)

\* A thread begins to broadcast to those who hear it among the connected whom
\* no lost update has taken off the list, which it ranges over.
Reachable(d) == d \in Clients \ lost /\ Connected(d)

LEMMA AnnounceStep ==
  ASSUME Inv, NEW t \in Threads, pc[t] = "idle", NEW m \in Telling, NEW u,
         m.type = "message" => t[2] = "handler",
         pc' = [pc EXCEPT ![t] = "tell"],
         telling' = [telling EXCEPT ![t] = m],
         todo' = [todo EXCEPT ![t] = IF u = Nil THEN <<>> ELSE curClients],
         inq' \in [Clients -> Seq(Line)],
         user' \in [Clients -> Users \cup {Nil}],
         room' \in [Clients -> RoomNames],
         due' \in [Threads -> SUBSET Clients],
         \A s \in Threads : s # t => GoesOn(s),
         u = Nil => due'[t] = {},
         u # Nil => \A d \in due'[t] : Reachable(d) /\ Hears(t, d)',
         UNCHANGED <<conn, lines, rooms, mainVars, listVars, view>>
  PROVE  Inv'
<1>1. TypeOK'
  <2>1. pc' \in [Threads -> {"off", "idle", "tell", "store", "ended"}]
    BY DEF Inv, TypeOK
  <2>2. telling' \in [Threads -> Telling]
    BY DEF Inv, TypeOK
  <2>3. {todo', view'} \subseteq [Threads -> Seq(Clients)]
    BY EmptyList DEF Inv, TypeOK
  <2> QED BY <2>1, <2>2, <2>3 DEF Inv, TypeOK, mainVars, listVars
<1>2. SnapshotsOK'
  <2>1. \A c \in Clients : pc'[<<c, "reader">>] = "off" <=> pc[<<c, "reader">>] = "off"
    BY ThreadType DEF Inv, TypeOK
  <2> QED BY <2>1, SnapshotsKept DEF Inv, listVars
<1>3. ListOK'
  <2>1. \A c \in Clients : Connected(c)' => Connected(c)
    BY ThreadType DEF Inv, TypeOK, Connected
  <2>2. \A s \in Threads : pc'[s] = "store" => pc[s] = "store"
    BY DEF Inv, TypeOK
  <2> QED BY <2>1, <2>2, ListKept DEF Inv
<1>4. BroadcastsOK'
  <2>1. telling'[t] = m /\ todo'[t] = IF u = Nil THEN <<>> ELSE curClients
    BY DEF Inv, TypeOK
  <2>2. due'[t] \subseteq Ahead(t)'
    BY <2>1 DEF Inv, ListOK, Reachable, Ahead
  <2> QED BY <2>1, <2>2, BroadcastsKept DEF Inv, listVars
<1> QED BY <1>1, <1>2, <1>3, <1>4 DEF Inv

\* A thread broadcasts without changing anything before.
LEMMA StartTellingStep ==
  ASSUME Inv, NEW c \in Clients, NEW w \in {"reader", "handler"},
         pc[<<c, w>>] = "idle", NEW type, NEW after,
         [type |-> type, after |-> after] \in Telling,
         type = "message" => w = "handler",
         StartTelling(<<c, w>>, user[c], type, after, Audience(type, room[c])),
         inq' \in [Clients -> Seq(Line)],
         UNCHANGED <<conn, lines, user, room, rooms, mainVars, listVars>>
  PROVE  Inv'
<1> DEFINE t == <<c, w>>
           m == [type |-> type, after |-> after]
<1>1. t \in Threads /\ t[1] = c /\ t[2] = w /\ pc[t] = "idle"
  BY DEF Threads
<1>2. m \in Telling /\ m.type = type
  OBVIOUS
<1>3. Audience(type, room[c]) \subseteq Clients
  BY DEF Audience
<1>4. due' \in [Threads -> SUBSET Clients]
  BY <1>3 DEF StartTelling, Inv, TypeOK
<1>5. ASSUME NEW s \in Threads, s # t
      PROVE  GoesOn(s)
  BY <1>1, <1>5 DEF StartTelling, Inv, TypeOK, GoesOn, Hears
<1>6. due'[t] = IF user[c] = Nil THEN {} ELSE Audience(type, room[c])
  BY <1>1 DEF StartTelling, Inv, TypeOK
<1>7. ASSUME NEW d \in Audience(type, room[c])
      PROVE  Reachable(d) /\ Hears(t, d)'
  BY <1>1 DEF StartTelling, Audience, Reachable, Connected, Hears, Inv, TypeOK
<1>8. /\ pc' = [pc EXCEPT ![t] = "tell"]
      /\ telling' = [telling EXCEPT ![t] = m]
      /\ todo' = [todo EXCEPT ![t] = IF user[c] = Nil THEN <<>> ELSE curClients]
      /\ view' = view
  BY DEF StartTelling
<1>9. /\ user' \in [Clients -> Users \cup {Nil}]
      /\ room' \in [Clients -> RoomNames]
  BY DEF Inv, TypeOK
<1>10. m.type = "message" => t[2] = "handler"
  BY <1>1, <1>2
<1>11. /\ user[c] = Nil => due'[t] = {}
       /\ user[c] # Nil => \A d \in due'[t] : Reachable(d) /\ Hears(t, d)'
  BY <1>6, <1>7
<1> HIDE DEF t, m
<1> QED
  BY <1>1, <1>2, <1>4, <1>5, <1>8, <1>9, <1>10, <1>11, AnnounceStep

\* The loop comes to a client: who it still has to reach is further on.
LEMMA TellNextStep ==
  ASSUME Inv, NEW t \in Threads, TellNext(t)
  PROVE  Inv'
<1>1. /\ todo[t] \in Seq(Clients)
      /\ todo[t] # <<>>
      /\ todo' = [todo EXCEPT ![t] = Tail(todo[t])]
      /\ due' = [due EXCEPT ![t] = IF Hears(t, Head(todo[t]))
                                    THEN due[t] \ {Head(todo[t])} ELSE due[t]]
      /\ UNCHANGED <<peerVars, user, room, rooms, mainVars, listVars,
                     pc, telling, view>>
  BY DEF TellNext, Inv, TypeOK
<1>2. /\ Tail(todo[t]) \in Seq(Clients)
      /\ Range(todo[t]) \subseteq {Head(todo[t])} \cup Range(Tail(todo[t]))
  BY <1>1, HeadAndTail
<1>3. TypeOK'
  <2>1. {todo', view'} \subseteq [Threads -> Seq(Clients)]
    BY <1>1, <1>2 DEF Inv, TypeOK
  <2>2. due' \in [Threads -> SUBSET Clients]
    BY <1>1 DEF Inv, TypeOK
  <2> QED BY <1>1, <2>1, <2>2 DEF Inv, TypeOK, peerVars, mainVars, listVars
<1>4. SnapshotsOK'
  BY <1>1, SnapshotsKept DEF Inv, peerVars, listVars
<1>5. ListOK'
  BY <1>1, ListKept DEF Inv, Connected, peerVars, listVars
<1>6. BroadcastsOK'
  <2>1. ASSUME NEW s \in Threads, s # t
        PROVE  GoesOn(s)
    BY <1>1, <2>1 DEF Inv, TypeOK, GoesOn, Hears
  <2>2. /\ todo'[t] = Tail(todo[t])
        /\ due'[t] = IF Hears(t, Head(todo[t])) THEN due[t] \ {Head(todo[t])} ELSE due[t]
    BY <1>1 DEF Inv, TypeOK
  <2>3. \A d : Hears(t, d)' <=> Hears(t, d)
    BY <1>1 DEF Hears
  <2>4. ASSUME pc[t] = "tell"
        PROVE  due'[t] \subseteq Ahead(t)'
    BY <1>2, <2>2, <2>3, <2>4 DEF Inv, BroadcastsOK, Ahead
  <2>5. (pc'[t] = "tell" /\ telling'[t].type = "message") => t[2] = "handler"
    BY <1>1 DEF Inv, BroadcastsOK
  <2> QED BY <1>1, <2>1, <2>4, <2>5, BroadcastsKept DEF Inv, listVars
<1> QED BY <1>3, <1>4, <1>5, <1>6 DEF Inv

------------------------------------------------------------------------------
(* Lines.                                                                   *)

LEMMA TakeFacts ==
  ASSUME Inv, NEW c \in Clients, NEW cmd, Take(c, cmd)
  PROVE  /\ pc[<<c, "handler">>] = "idle"
         /\ inq' \in [Clients -> Seq(Line)]
         /\ Head(inq[c]) \in Line
         /\ Head(inq[c]).cmd = cmd
<1>1. inq[c] \in Seq(Line) /\ inq[c] # <<>>
  BY DEF Take, Inv, TypeOK
<1>2. Tail(inq[c]) \in Seq(Line) /\ Head(inq[c]) \in Line
  BY <1>1, HeadTailProperties
<1> QED BY <1>2 DEF Take, Inv, TypeOK

\* The lines, and the end of the input, of which others are told first.
LEMMA ToldOfStep ==
  ASSUME Inv, NEW c \in Clients, Message(c) \/ Leave(c) \/ EndOfInput(c)
  PROVE  Inv'
<1>1. CASE Message(c)
  <2>1. [type |-> "message", after |-> "wait"] \in Telling
    BY DEF Telling
  <2> QED BY <1>1, <2>1, TakeFacts, StartTellingStep DEF Message
<1>2. CASE Leave(c)
  <2>1. [type |-> "leave", after |-> "lobby"] \in Telling
    BY DEF Telling
  <2> QED BY <1>2, <2>1, TakeFacts, StartTellingStep DEF Leave
<1>3. CASE EndOfInput(c)
  <2>1. [type |-> "disconnected", after |-> "close"] \in Telling
    BY DEF Telling
  <2>2. inq' \in [Clients -> Seq(Line)]
    BY <1>3 DEF EndOfInput, Inv, TypeOK, peerVars
  <2> QED BY <1>3, <2>1, <2>2, StartTellingStep DEF EndOfInput, peerVars
<1> QED BY <1>1, <1>2, <1>3

\* A name is announced once it is taken.
LEMMA UserStep ==
  ASSUME Inv, NEW c \in Clients, User(c)
  PROVE  Inv'
<1> DEFINE t == <<c, "handler">>
           u == Head(inq[c]).arg
           m == [type |-> "connect", after |-> "wait"]
<1>1. /\ t \in Threads /\ t[1] = c /\ t[2] = "handler" /\ pc[t] = "idle"
      /\ inq' \in [Clients -> Seq(Line)]
      /\ u \in Users \cup {Nil}
  <2>1. Take(c, "user")
    BY DEF User
  <2> QED BY <2>1, TakeFacts DEF Threads, Line
<1>2. m \in Telling /\ m.type = "connect"
  BY DEF Telling
<1>3. Audience("connect", room[c]) \subseteq Clients
  BY DEF Audience
<1>4. /\ user' = [user EXCEPT ![c] = u]
      /\ pc' = [pc EXCEPT ![t] = "tell"]
      /\ telling' = [telling EXCEPT ![t] = m]
      /\ todo' = [todo EXCEPT ![t] = IF u = Nil THEN <<>> ELSE curClients]
      /\ UNCHANGED <<conn, lines, room, rooms, mainVars, listVars, view>>
  BY DEF User
<1>5. /\ due' \in [Threads -> SUBSET Clients]
      /\ due'[t] = IF u = Nil THEN {} ELSE Audience("connect", room[c])
      /\ \A s \in Threads : s # t =>
           due'[s] = IF u = Nil THEN due[s] \ {c} ELSE due[s]
  <2>1. due' = [s \in Threads |->
                  IF s = t THEN IF u = Nil THEN {} ELSE Audience("connect", room[c])
                  ELSE IF u = Nil THEN due[s] \ {c} ELSE due[s]]
    BY DEF User
  <2> QED BY <1>1, <1>3, <2>1 DEF Inv, TypeOK
<1>6. \A d \in Clients : user'[d] = IF d = c THEN u ELSE user[d]
  BY <1>4 DEF Inv, TypeOK
<1> HIDE DEF u
<1>7. ASSUME NEW s \in Threads, s # t
      PROVE  GoesOn(s)
  <2>1. /\ due'[s] \subseteq due[s]
        /\ \A d \in due'[s] : d \in Clients /\ (d # c \/ u # Nil)
    BY <1>5, <1>7 DEF Inv, TypeOK
  <2>2. /\ pc'[s] = pc[s]
        /\ telling'[s] = telling[s]
        /\ todo'[s] = todo[s]
    BY <1>1, <1>4, <1>7 DEF Inv, TypeOK
  <2> QED BY <1>4, <1>6, <2>1, <2>2 DEF GoesOn, Hears
<1>8. ASSUME u # Nil, NEW d \in due'[t]
      PROVE  Reachable(d) /\ Hears(t, d)'
  <2>1. Reachable(d) /\ d \in Clients /\ user[d] # Nil
    BY <1>5, <1>8 DEF Audience, Reachable, Connected
  <2>2. telling'[t] = m
    BY <1>1, <1>4 DEF Inv, TypeOK
  <2> QED BY <1>2, <1>6, <1>8, <2>1, <2>2 DEF Hears
<1>9. /\ user' \in [Clients -> Users \cup {Nil}]
      /\ room' \in [Clients -> RoomNames]
  BY <1>1, <1>4 DEF Inv, TypeOK
<1>10. u = Nil => due'[t] = {}
  BY <1>5
<1> HIDE DEF t, m
<1> QED
  BY <1>1, <1>2, <1>4, <1>5, <1>7, <1>8, <1>9, <1>10, AnnounceStep

\* So is a room once it is entered.
LEMMA EnterStep ==
  ASSUME Inv, NEW c \in Clients, Enter(c)
  PROVE  Inv'
<1> DEFINE t == <<c, "handler">>
           r == Head(inq[c]).arg
           m == [type |-> "enter", after |-> "table"]
<1>1. /\ t \in Threads /\ t[1] = c /\ t[2] = "handler" /\ pc[t] = "idle"
      /\ inq' \in [Clients -> Seq(Line)]
      /\ r \in RoomNames
  <2>1. Take(c, "enter") /\ r # Nil
    BY DEF Enter
  <2> QED BY <2>1, TakeFacts DEF Threads, Line, RoomNames
<1>2. m \in Telling /\ m.type = "enter"
  BY DEF Telling
<1>3. Audience("enter", r) \subseteq Clients
  BY DEF Audience
<1>4. /\ room' = [room EXCEPT ![c] = r]
      /\ pc' = [pc EXCEPT ![t] = "tell"]
      /\ telling' = [telling EXCEPT ![t] = m]
      /\ todo' = [todo EXCEPT ![t] = IF user[c] = Nil THEN <<>> ELSE curClients]
      /\ UNCHANGED <<conn, lines, user, rooms, mainVars, listVars, view>>
  BY DEF Enter
<1>5. /\ due' \in [Threads -> SUBSET Clients]
      /\ due'[t] = IF user[c] = Nil THEN {} ELSE Audience("enter", r)
      /\ \A s \in Threads : s # t => due'[s] = Moved(c)[s]
  <2>1. due' = [Moved(c) EXCEPT ![t] = IF user[c] = Nil THEN {} ELSE Audience("enter", r)]
    BY DEF Enter
  <2> QED BY <1>1, <1>3, <2>1 DEF Inv, TypeOK, Moved
<1>6. \A d \in Clients : d # c => room'[d] = room[d]
  BY <1>4 DEF Inv, TypeOK
<1> HIDE DEF r
<1>7. ASSUME NEW s \in Threads, s # t
      PROVE  GoesOn(s)
  <2>1. /\ due'[s] \subseteq due[s]
        /\ \A d \in due'[s] : d \in Clients /\ (telling[s].type = "message" => d # c)
    BY <1>5, <1>7 DEF Inv, TypeOK, Moved
  <2>2. /\ pc'[s] = pc[s]
        /\ telling'[s] = telling[s]
        /\ todo'[s] = todo[s]
    BY <1>1, <1>4, <1>7 DEF Inv, TypeOK
  <2>3. ASSUME pc[s] = "tell", telling[s].type = "message"
        PROVE  s[1] \in Clients /\ s[1] # c
    BY <1>7, <2>3 DEF Inv, BroadcastsOK, Threads
  <2> QED BY <1>4, <1>6, <2>1, <2>2, <2>3 DEF GoesOn, Hears
<1>8. ASSUME user[c] # Nil, NEW d \in due'[t]
      PROVE  Reachable(d) /\ Hears(t, d)'
  <2>1. Reachable(d) /\ user[d] # Nil
    BY <1>5, <1>8 DEF Audience, Reachable, Connected
  <2>2. telling'[t] = m
    BY <1>1, <1>4 DEF Inv, TypeOK
  <2> QED BY <1>2, <1>4, <2>1, <2>2 DEF Hears
<1>9. /\ user' \in [Clients -> Users \cup {Nil}]
      /\ room' \in [Clients -> RoomNames]
  BY <1>1, <1>4 DEF Inv, TypeOK
<1>10. user[c] = Nil => due'[t] = {}
  BY <1>5
<1> HIDE DEF t, m
<1> QED
  BY <1>1, <1>2, <1>4, <1>5, <1>7, <1>8, <1>9, <1>10, AnnounceStep

\* The lines that change nothing, and the end of a broadcast of the handler.
LEMMA RestStep ==
  ASSUME Inv, NEW c \in Clients, Answer(c) \/ Wait(c)
  PROVE  Inv'
<1>1. CASE Answer(c)
  <2>1. inq' \in [Clients -> Seq(Line)]
    BY <1>1, TakeFacts DEF Answer
  <2>2. TypeOK'
    BY <1>1, <2>1 DEF Answer, Inv, TypeOK, mainVars, listVars, threadVars
  <2>3. SnapshotsOK'
    BY <1>1, SnapshotsKept DEF Answer, Inv, mainVars, listVars, threadVars
  <2>4. ListOK'
    BY <1>1, ListKept DEF Answer, Inv, Connected, listVars, threadVars
  <2>5. BroadcastsOK'
    BY <1>1, AllGoOn DEF Answer, Inv, GoesOn, Hears, listVars, threadVars
  <2> QED BY <2>2, <2>3, <2>4, <2>5 DEF Inv
<1>2. CASE Wait(c)
  <2>1. /\ pc[<<c, "handler">>] = "tell"
        /\ pc' = [pc EXCEPT ![<<c, "handler">>] = "idle"]
        /\ UNCHANGED <<peerVars, user, room, rooms, mainVars, listVars,
                       todo, telling, view, due>>
    BY <1>2 DEF Wait, Told
  <2>2. TypeOK'
    BY <2>1 DEF Inv, TypeOK, peerVars, mainVars, listVars
  <2>3. SnapshotsOK'
    <3>1. \A d \in Clients : pc'[<<d, "reader">>] = pc[<<d, "reader">>]
      BY <2>1, ThreadType DEF Inv, TypeOK
    <3> QED BY <2>1, <3>1, SnapshotsKept DEF Inv, peerVars, listVars
  <2>4. ListOK'
    BY <2>1, ListKept, ThreadType DEF Inv, TypeOK, Connected, peerVars
  <2>5. BroadcastsOK'
    <3>1. \A s \in Threads : GoesOn(s)
      BY <2>1 DEF Inv, TypeOK, GoesOn, Hears
    <3> QED BY <2>1, <3>1, AllGoOn DEF Inv, listVars
  <2> QED BY <2>2, <2>3, <2>4, <2>5 DEF Inv
<1> QED BY <1>1, <1>2

\* The table has a room, or nothing, in every entry that ListRoom leaves.
LEMMA TableStep ==
  ASSUME Inv, NEW c \in Clients, ListRoom(c)
  PROVE  rooms' \in [1 .. Slots -> RoomNames \cup {Nil}]
<1> DEFINE others == {i \in 1 .. Slots : rooms[i] # room[c]}
<1> room[c] \in RoomNames /\ rooms \in [1 .. Slots -> RoomNames \cup {Nil}]
  BY DEF Inv, TypeOK
<1> rooms' = IF others = {} THEN rooms ELSE [rooms EXCEPT ![Min(others)] = room[c]]
  BY DEF ListRoom
<1> HIDE DEF others
<1> QED OBVIOUS

\* What follows a broadcast about a room: the handler is at no broadcast then.
LEMMA RoomStep ==
  ASSUME Inv, NEW c \in Clients, ListRoom(c) \/ BackToLobby(c)
  PROVE  Inv'
<1> DEFINE t == <<c, "handler">>
<1>1. /\ t \in Threads
      /\ pc[t] = "tell"
      /\ pc' = [pc EXCEPT ![t] = "idle"]
      /\ UNCHANGED <<peerVars, user, mainVars, listVars, todo, telling, view>>
  BY DEF ListRoom, BackToLobby, Told, Threads
<1>2. \/ room' = room /\ due' = due
      \/ room' = [room EXCEPT ![c] = MAINLOBBY] /\ due' = Moved(c)
  BY DEF ListRoom, BackToLobby
<1>3. rooms' \in [1 .. Slots -> RoomNames \cup {Nil}]
  <2>1. CASE ListRoom(c)
    BY <2>1, TableStep DEF ListRoom, Inv, TypeOK
  <2>2. CASE BackToLobby(c)
    BY <2>2 DEF BackToLobby, Inv, TypeOK
  <2> QED BY <2>1, <2>2
<1>4. room' \in [Clients -> RoomNames] /\ due' \in [Threads -> SUBSET Clients]
  <2>1. /\ room \in [Clients -> RoomNames]
        /\ due \in [Threads -> SUBSET Clients]
        /\ MAINLOBBY \in RoomNames
    BY DEF Inv, TypeOK, RoomNames
  <2>2. CASE room' = room /\ due' = due
    BY <2>1, <2>2
  <2>3. CASE /\ room' = [room EXCEPT ![c] = MAINLOBBY]
             /\ due' = Moved(c)
    BY <2>1, <2>3 DEF Moved
  <2> QED BY <1>2, <2>2, <2>3
<1>5. TypeOK'
  BY <1>1, <1>3, <1>4 DEF Inv, TypeOK, peerVars, mainVars, listVars
<1>6. SnapshotsOK'
  <2>1. \A d \in Clients : pc'[<<d, "reader">>] = pc[<<d, "reader">>]
    BY <1>1, ThreadType DEF Inv, TypeOK
  <2> QED BY <1>1, <2>1, SnapshotsKept DEF Inv, peerVars, listVars
<1>7. ListOK'
  BY <1>1, ListKept, ThreadType DEF Inv, TypeOK, Connected, peerVars
<1>8. BroadcastsOK'
  <2>1. ASSUME NEW s \in Threads, pc'[s] = "tell"
        PROVE  /\ pc[s] = "tell"
               /\ s # t
               /\ telling[s].type = "message" => s[1] \in Clients /\ s[1] # c
    BY <1>1, <2>1 DEF Inv, TypeOK, BroadcastsOK, Threads
  <2>2. ASSUME NEW s \in Threads
        PROVE  /\ due'[s] \subseteq due[s] /\ due[s] \subseteq Clients
               /\ telling[s].type = "message" => \A d \in due'[s] : room'[d] = room[d]
    BY <1>2 DEF Inv, TypeOK, Moved
  <2>3. \A d \in Clients : d # c => room'[d] = room[d]
    BY <1>2 DEF Inv, TypeOK
  <2>4. ASSUME NEW s \in Threads
        PROVE  GoesOn(s)
    BY <1>1, <2>1, <2>2, <2>3 DEF GoesOn, Hears
  <2> QED BY <1>1, <2>4, AllGoOn DEF Inv, listVars
<1> QED BY <1>5, <1>6, <1>7, <1>8 DEF Inv

------------------------------------------------------------------------------
(* The end of a client.                                                     *)

\* A thread closes its client and reads the list.
LEMMA CloseStep ==
  ASSUME Inv, NEW c \in Clients, Disconnect(c) \/ CloseTold(c)
  PROVE  Inv'
<1>1. PICK t \in Threads :
        /\ t[1] = c
        /\ pc[t] # "off"
        /\ Close(t)
        /\ inq' \in [Clients -> Seq(Line)]
        /\ Excuse(c)
        /\ UNCHANGED <<lines, user, room, rooms, mainVars, listVars, todo, telling>>
  <2>1. CASE Disconnect(c)
    BY <2>1, TakeFacts DEF Disconnect, Threads
  <2>2. CASE CloseTold(c)
    <3>1. inq' \in [Clients -> Seq(Line)]
      BY <2>2 DEF CloseTold, Inv, TypeOK
    <3> QED BY <2>2, <3>1 DEF CloseTold, Told, Threads
  <2> QED BY <2>1, <2>2
<1>2. /\ conn' = [conn EXCEPT ![c] = "closed"]
      /\ view' = [view EXCEPT ![t] = curClients]
      /\ pc' = [pc EXCEPT ![t] = "store"]
      /\ due' = [s \in Threads |-> due[s] \ {c}]
  BY <1>1 DEF Close, Excuse
<1>3. TypeOK'
  <2>1. {todo', view'} \subseteq [Threads -> Seq(Clients)]
    BY <1>1, <1>2 DEF Inv, TypeOK
  <2> QED BY <1>1, <1>2, <2>1 DEF Inv, TypeOK, mainVars, listVars
<1>4. SnapshotsOK'
  <2>1. \A d \in Clients : pc'[<<d, "reader">>] = "off" <=> pc[<<d, "reader">>] = "off"
    BY <1>1, <1>2, ThreadType DEF Inv, TypeOK
  <2>2. Started' = Started
    BY <2>1 DEF Started
  <2>3. Snapshot(curClients)' /\ Snapshot(mainView)'
    BY <1>1, <2>2 DEF Inv, SnapshotsOK, Snapshot, mainVars, listVars
  <2>4. \A s \in Threads : Snapshot(view[s])'
    BY <1>1, <1>2, <2>2 DEF Inv, TypeOK, SnapshotsOK, Snapshot
  <2>5. \A d \in Clients :
          /\ conn'[d] = "new" => pc'[<<d, "reader">>] = "off"
          /\ accepting' = d => conn'[d] # "new" /\ pc'[<<d, "reader">>] = "off"
    BY <1>1, <1>2, <2>1 DEF Inv, TypeOK, SnapshotsOK, mainVars
  <2> QED BY <2>3, <2>4, <2>5 DEF SnapshotsOK
<1>5. ListOK'
  <2>1. \A d \in Clients : Connected(d)' => Connected(d) /\ d # c
    BY <1>1, <1>2, ThreadType DEF Inv, TypeOK, Connected
  <2>2. \A s \in Threads : pc'[s] = "store" => s = t \/ pc[s] = "store"
    BY <1>1, <1>2 DEF Inv, TypeOK
  <2>3. \A s \in Threads : (s = t \/ conn[s[1]] = "closed") => conn'[s[1]] = "closed"
    BY <1>1, <1>2, ThreadType DEF Inv, TypeOK
  <2> QED BY <1>1, <2>1, <2>2, <2>3 DEF Inv, ListOK, listVars
<1>6. BroadcastsOK'
  <2>1. \A s \in Threads : GoesOn(s)
    BY <1>1, <1>2 DEF Inv, TypeOK, GoesOn, Hears
  <2> QED BY <1>1, <2>1, AllGoOn DEF Inv, listVars
<1> QED BY <1>3, <1>4, <1>5, <1>6 DEF Inv

\* It stores what it read, without its client.
LEMMA RemoveEntryStep ==
  ASSUME Inv, NEW t \in Threads, RemoveEntry(t)
  PROVE  Inv'
<1> DEFINE c == t[1]
           after == IF t[2] = "reader" THEN "ended" ELSE "idle"
<1>1. /\ pc[t] = "store"
      /\ curClients' = RemoveFirst(view[t], c)
      /\ lost' = (lost \cup ChangedSince(view[t])) \ {c}
      /\ view' = [view EXCEPT ![t] = <<>>]
      /\ pc' = [pc EXCEPT ![t] = after]
      /\ UNCHANGED <<peerVars, user, room, rooms, mainVars, todo, telling, due>>
  BY DEF RemoveEntry
<1>2. after \in {"ended", "idle"}
  OBVIOUS
<1> HIDE DEF c, after
<1>3. view[t] \in Seq(Clients) /\ Snapshot(view[t])
  BY DEF Inv, TypeOK, SnapshotsOK
<1>4. /\ curClients' \in Seq(Clients)
      /\ IsInjective(curClients')
      /\ Range(curClients') \subseteq Started
      /\ Range(curClients') = Range(view[t]) \ {c}
  BY <1>1, <1>3, RemoveFirstProperties DEF Snapshot
<1>5. TypeOK'
  <2>1. lost' \subseteq Clients
    BY <1>1, RangeOfSeq DEF Inv, TypeOK, ChangedSince
  <2>2. /\ {todo', view'} \subseteq [Threads -> Seq(Clients)]
        /\ pc' \in [Threads -> {"off", "idle", "tell", "store", "ended"}]
    BY <1>1, <1>2, EmptyList DEF Inv, TypeOK
  <2>3. UNCHANGED <<conn, inq, lines, user, room, rooms, accepting, mainView,
                    telling, due>>
    BY <1>1 DEF peerVars, mainVars
  <2> QED BY <1>4, <2>1, <2>2, <2>3 DEF Inv, TypeOK
<1>6. SnapshotsOK'
  <2>1. \A d \in Clients : pc'[<<d, "reader">>] = "off" <=> pc[<<d, "reader">>] = "off"
    BY <1>1, <1>2, ThreadType DEF Inv, TypeOK
  <2>2. Started' = Started
    BY <2>1 DEF Started
  <2>3. Snapshot(curClients)' /\ Snapshot(mainView)'
    BY <1>1, <1>4, <2>2 DEF Inv, SnapshotsOK, Snapshot, mainVars
  <2>4. ASSUME NEW s \in Threads
        PROVE  Snapshot(view[s])'
    <3>1. view'[s] = IF s = t THEN <<>> ELSE view[s]
      BY <1>1 DEF Inv, TypeOK
    <3> QED BY <2>2, <3>1, EmptyList DEF Inv, SnapshotsOK, Snapshot
  <2>5. \A d \in Clients :
          /\ conn'[d] = "new" => pc'[<<d, "reader">>] = "off"
          /\ accepting' = d => conn'[d] # "new" /\ pc'[<<d, "reader">>] = "off"
    BY <1>1, <2>1 DEF Inv, SnapshotsOK, peerVars, mainVars
  <2> QED BY <2>3, <2>4, <2>5 DEF SnapshotsOK
<1>7. ListOK'
  <2>1. conn[c] = "closed"
    BY <1>1 DEF Inv, ListOK, c
  <2>2. ASSUME NEW s \in Threads, pc'[s] = "store"
        PROVE  conn'[s[1]] = "closed"
    BY <1>1, <1>2, <2>2 DEF Inv, TypeOK, ListOK, peerVars
  <2>3. ASSUME NEW d \in Clients, d \notin lost', Connected(d)'
        PROVE  d \in Range(curClients')
    <3>1. Connected(d) /\ d # c
      BY <1>1, <1>2, <2>1, <2>3, ThreadType DEF Inv, TypeOK, Connected, peerVars
    <3>2. d \notin lost /\ (d \in Range(view[t]) <=> d \in Range(curClients))
      BY <1>1, <2>3, <3>1 DEF ChangedSince
    <3> QED BY <1>4, <3>1, <3>2 DEF Inv, ListOK
  <2> QED BY <2>2, <2>3 DEF ListOK
<1>8. BroadcastsOK'
  <2>1. ASSUME NEW s \in Threads, pc'[s] = "tell"
        PROVE  pc[s] = "tell"
    BY <1>1, <1>2, <2>1 DEF Inv, TypeOK
  <2> QED BY <1>1, <2>1 DEF Inv, BroadcastsOK, Ahead, Hears
<1> QED BY <1>5, <1>6, <1>7, <1>8 DEF Inv

------------------------------------------------------------------------------
(* The theorems.                                                            *)

LEMMA InvNext == Inv /\ [Next]_vars => Inv'
<1> SUFFICES ASSUME Inv, [Next]_vars PROVE Inv'
  OBVIOUS
<1>1. CASE UNCHANGED vars
  BY <1>1 DEF Inv, TypeOK, SnapshotsOK, Snapshot, Started, ListOK, Connected,
              BroadcastsOK, Ahead, Hears, vars, peerVars, mainVars, listVars, threadVars
<1>2. ASSUME NEW c \in Clients, Accept(c) \/ Reader(c) \/ Handler(c) \/ Peer(c)
      PROVE  Inv'
  <2>1. CASE Accept(c)
    BY <2>1, AcceptStep
  <2>2. CASE Reader(c)
    BY <2>2, ToldOfStep, TellNextStep, CloseStep, RemoveEntryStep, ThreadType DEF Reader
  <2>3. CASE Handler(c)
    BY <2>3, ToldOfStep, UserStep, EnterStep, RestStep, RoomStep, TellNextStep,
       CloseStep, RemoveEntryStep, ThreadType DEF Handler
  <2>4. CASE Peer(c)
    BY <2>4, PeerStep
  <2> QED BY <1>2, <2>1, <2>2, <2>3, <2>4
<1>3. CASE Register
  BY <1>3, RegisterStep
<1>4. CASE Quiescent
  BY <1>1, <1>4 DEF Quiescent
<1> QED BY <1>1, <1>2, <1>3, <1>4 DEF Next

LEMMA InvCorrect == Spec => []Inv
BY InvInit, InvNext, PTL DEF Spec

\* The state is well formed, and no client is ever twice in the list, not even
\* when updates are lost: whatever list a goroutine stores, it read it before
\* its client was registered, or when it was in it once.
THEOREM RegistryTypes == Spec => []TypeOK
<1>1. Inv => TypeOK
  BY DEF Inv
<1> QED BY <1>1, InvCorrect, PTL

\* A broadcast reaches everybody who is to hear it from its start to its end,
\* though it ranges over a list that is no longer the current one, and though
\* writes of others undo each other meanwhile.
THEOREM BroadcastsCorrect == Spec => []BroadcastReachesAudience
<1>1. Inv => BroadcastReachesAudience
  BY EmptyList DEF Inv, BroadcastsOK, Ahead, BroadcastReachesAudience
<1> QED BY <1>1, InvCorrect, PTL

==============================================================================
