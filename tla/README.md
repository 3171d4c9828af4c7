# Verification of the cmpt436 chat programs

TLA+ modules, TLC configurations and TLAPS proofs about the chat servers of this
repository. Everything is translated from the Go sources; paths below are
relative to the repository.

## 1. Inventory

The repository holds about 2,700 lines of Go of its own, in several generations
of one exercise (a chat server with rooms); the rest, some 66,000 lines of Go, is
vendored (`go.net`, `goyaml`, `osext`) or data.

| part | source | state | operations |
|---|---|---|---|
| **Lobby server** | `Evan's Work/newServer.go` | `Lobby.curClients`, `Lobby.cRoom`; per room name, member list, log, expiry; per client room, name, two channels | accept, the nine kinds of line `ParseMsg` tells apart, end of input, room expiry |
| Earlier lobby server | `ken/server.go` | the same, with the client list also changed by the lobby | the same; departure also closes the outgoing channel |
| RPC server | `Evan's Work/Assign 2/server` | `curClients`, `cRooms` (each under a mutex); a goroutine and four channels per room; a mutex per client | `Connect`, `RecMsg`, `SendMsg`, `Quit`, `CreateCRoom`, `JoinCRoom`, `LeaveCRoom`, `ListCRooms`, `ChangeName`, expiry |
| RPC client | `Evan's Work/Assign 2/client` | a token | poll for messages, send what is typed |
| First server | `Evan's Work/server.go`, `serverref.go`, `util/util.go` | a shared slice of clients, an array of room names | register, close, broadcast, the message types |
| Message encoding | `Evan's Work/util/util.go` | none | `Encode`, `Decode` |
| Its console client | `Evan's Work/client.go` | none (a property record) | parse what is typed, frame it, parse and print what comes |
| Copying clients | `newClient.go`, `ken/client.go` | none | copy the keyboard to the socket and the socket to the screen |
| JSON endpoint | `endpoint/json/json.go` | none | does not compile against `util` |
| MongoDB test program | `Evan's Work/Assign4` | none | a sequential script |

How the core interacts (newServer.go):

    socket -> ReadMsg -> client.incMsg -> forwarder -> lob.incMsg ---+
                                             | (end of input)        |
                                             +--> lob.leaveRoom -----+--> lobby select
    timer goroutine of a room --> lob.delRoom -----------------------+       |
                                                                             v
    socket <- WriteMsg <----------- client.outMsg (unbuffered, blocking) <- handler

The lobby goroutine alone writes rooms, `client.cRoom` and `client.username`, so
handlers do not interleave with each other. What is hard is the rest: a
handler is suspended at each of its sends until the receiving client's writer
comes round; meanwhile clients type, hang up and time passes; writers
end for good at the first failed write; timers fire for expiries that have moved.

What makes each part correct:

- *Lobby server*: the two records of membership agree; everyone in a room is
  sent its whole log, once and in order; the log can be read by itself;
  rooms go exactly when unused for EXTIME; a departed client is in no room;
  every line is answered; nothing blocks for ever.
- *Earlier lobby server*: the same, and no lost update of `lobby.clients`, no
  send on a closed channel.
- *RPC server*: no circular wait between handlers that hold a client's mutex and
  room goroutines that want it; `client.CRoom` and `curClients` agree once calls
  are over; a name is registered for the room that lives under it.
- *First server*: the shared list has who is connected (it does not); a broadcast
  reaches all it is for, though the list changes under it; a departure is handled once and
  for all, although both threads of a client may close it; the table has the rooms in use (it
  does not).
- *Encoding and its client*: what people type comes out as it went in; at least a
  frame's parts stay apart.

PROJECT.json lists the hazards, each at its line, with the properties that
address it.

## 2. Plan

| step | module | about | state |
|---|---|---|---|
| 1 | `ChatRooms` | abstract specification of any server with rooms | done |
| 1 | `LobbyServer`, `MCLobby` | newServer.go, shown to implement `ChatRooms` | done |
| 1 | `ListLemmas`, `LobbyProofs` | its types, rooms, membership and deletions for all constants | done, see section 5 |
| 2 | `RpcRooms`, `MCRpc` | RPC server: handlers and room goroutines cut at locks and channels | done |
| 3 | `KenServer`, `MCKen` | ken/server.go: `LobbyServer` with a shared client list and closed channels, shown to implement `ChatRooms` | done |
| 4 | `RegistryServer`, `MCRegistry` | first server: lost updates, two threads that close one client, broadcasts over a list that changes | done |
| 4 | `RegistryProofs` | its types and broadcasts for all constants | done |
| 5 | `Wire`, `MCWire` | a line on its way through client.go, the server and client.go again | done |
| 6 | `RpcRoomsProofs` | types, locks, members, names of `RpcRooms` for all constants | done |
| 7 | `KenProofs` | types, rooms, channels and the client list of `KenServer` for all constants | done |
| 8 | `LobbyRefinementProofs` | `LobbyServer` implements `ChatRooms` for all constants; departures, deliveries, and what its logs say | done |
| 9 | `KenProofs`, second part | `KenServer` implements `ChatRooms` for all constants | done |
| 10 | `WireProofs` | frames, plain lines and the encoding tables of `Wire` for all symbols, names and lines | done |
| 11 | `ChatRooms`, last part | the promises of `ChatRooms` itself, and so of both servers that implement it | done |

`Lists` has the one operator on lists that the servers' definitions share (`ElementsAt`, the
elements at some places of a list, in order).

`ChatRooms` is the specification the servers share; each is to be compared with it
through a refinement mapping. Modules that are proved about use no
RECURSIVE operator.

## 3. Models

### ChatRooms
A room is a log that is open, then closed for good. A client sits in at most one
open room, only seated clients add entries, and a client is handed the log of its
room from the first entry on, in order, without gaps.

### LobbyServer
| in the model | in newServer.go |
|---|---|
| `conn`, `inq` | the socket, and the lines between it and the forwarder (kernel, `bufio`, `client.incMsg`): one FIFO queue |
| `writer` | where `WriteMsg` is: in the receive, in the write, or returned |
| `fwd` | the goroutine `JoinRoom` starts (201-206) |
| `accepting`, `curClients` | `main` in `JoinRoom`; `lob.curClients` |
| `registry` | `lob.cRoom` |
| `roomName`, `roomClients`, `roomMsgs`, `roomExpire` | the fields of a `CRoom` |
| `timers[r]` | the goroutines that sleep before `lob.delRoom <- r` |
| `cRoom`, `username` | the fields of a `Client` |
| `out`, `task` | where the lobby goroutine is in a handler: the sends it is at, and what comes after them |
| `got`, `quiet` | history variables: entries handed to a client since it joined its room; ticks since anything was logged in a room |

A handler's code between two sends is one action; the sends of a loop go into
`out` at once, which is exact because only the lobby changes what the loop reads.
`LobbySend` is the rendezvous of one send with the writer. So `CreateCRoom` is
`ParseMsg` (registry, timer, note), then `FinishCreate` (`EnterCRoom`), then
`FinishJoin`; `CRoom.Leave` is `StartLeave` then `FinishLeave`; moving from a room
is `EnterCRoom`, `FinishSwitch`, `FinishJoin`.

Data that is abstracted: a message is its kind, its author and the names it shows;
list and help are as many sends as the code makes (help: `HelpLines`, 10 in the
code); a line arrives parsed, since `ParseMsg` only looks at its prefix.

Time is kept as countdowns. `expire.After(now)` is `roomExpire > 0`. A timer at 0
may fire at any later moment, which also covers a goroutine that starts late or
reads a moved `expire`.

Not modelled: `Lobby.Leave`, `lob.joinRoom` and `SFULL`, which no code uses; a
torn read of `expire` by a timer goroutine; the error path of `listen.Accept`.

### RpcRooms
| in the model | in Assign 2 |
|---|---|
| `curClients`, `cRooms` | the two tables; each operation holds the table's mutex throughout and is one action |
| `cRoom` | `Client.CRoom` |
| `rlock`, `wlock` | `Client.rwMutex`: who reads, and who writes or has announced it |
| `call` | the call a user's client is in, and where its handler is |
| `poll` | whether `RecMsg` of the client is in its receive from `outMsg` |
| `welcome` | the goroutine in `Connect` that sends `SCONNECT` |
| `gone`, `up` | client programs that ended; `FALSE` once a handler has panicked |
| `roomName`, `roomClients`, `roomMsgs`, `roomExpire` | the fields of a `CRoom` |
| `timer` | the goroutine that sleeps before `cRoom.del <- true` |
| `loop`, `out` | where the room's goroutine is in its select or in a handler, for whom, and what it has left to send |

A goroutine is cut where it can block: at a channel operation and at a client's
mutex. `JoinCRoom` is therefore `JoinCRoom` (lookup), `JoinLocked` (read lock, then
wait at a room), `TakeLeave` by the old room if there is one, `TakeJoin` by the new
one. `AddClient` in the code is `RoomLock`, `AddClient`, `RoomSend`...,
`ClientAdded`; `removeClient` is `RemoveClient`, `RoomSend`..., `Unlist`, `RoomLock`,
`Unseat`; `Delete` is `TakeExpiry`, `RoomSend`..., `Close`, (`RoomLock`, `Evict`)...,
`DeleteCRoom`. A rendezvous is one action of both sides.

`sync.RWMutex`: a writer announces itself, from then on new readers wait, and it
has the lock once the earlier readers are out. After a writer releases, Go lets the
readers that waited go first; the model lets any of them go first, which allows
more orders than Go does and none less.

A message is only a send, a log is its length and a client's name is left out, since
no property depends on what is written; `ChangeName` keeps the lock it takes.
A client makes one call at a time, as `client/main.go` does, beside the poll. A
program that ends leaves a `RecMsg` that takes at most one more message.
Not modelled: equal random tokens, and the error answers for an unknown token, which
a client of this program does not get before it ends.

### KenServer
ken/server.go is the program newServer.go was made from, so `KenServer` EXTENDS
`LobbyServer`: state, network, writers, time, `list`, `help`, `name`, messages, `leave`
and the rests of handlers are the same there, under other names in the code
(`Parse` for `ParseMsg`, `chatRoom` for `cRoom`, `outgoing` for `outMsg`). Its own is:

| in the model | in ken/server.go |
|---|---|
| `mainView`, `KAccept`, `KAppend` | `Join` in main: the slice `lobby.clients` is read, then stored |
| `lobbyView`, `KLeave`, `KFinishDepart`, `KCloseOutgoing` | `Lobby.Leave` in the lobby goroutine: the room is left, the slice read, stored, the channel closed |
| `closed`, `WriterEnds` | `close(client.outgoing)` and the end of the `range` over it |
| `KCreateChatRoom`, `KJoinChatRoom`, `KJoin` | creating does not enter; the log is replayed bare |
| `KDeleteChatRoom`, `KFinishDelete` | `Delete` broadcasts the deletion, which renews the expiry, then unseats the members |
| `raced` | history: one goroutine's store undid the other's |

`task` has three more operations: `depart` (the leave note is being sent), `close` and
`delete`.

### RegistryServer
| in the model | in server.go and util.go |
|---|---|
| `conn`, `inq` | the socket; the lines between it and the handler (kernel, `bufio`, `mainChannel`) |
| `user`, `room` | `Client.User`, `Client.Room` |
| `curClients` | the slice of that name, written by main and by any thread |
| `accepting`, `mainView`; `view[t]` | `Register` in main, and `Close` in a thread, between the read of the slice and the store |
| `rooms` | the array of that name |
| threads `<<c, "reader">>`, `<<c, "handler">>` | the goroutines `waitForUserIn` and `HandleUserInput` of c |
| `pc`, `todo`, `telling` | where a thread is: at the next line, in the loop of `SendClientMessage` (over the rest of the slice it read), or about to store the list; what it does after the loop |
| `lost`, `due` | history: the clients whose entry in the list, or whose removal from it, a store of an older list undid; who must still hear a broadcast |

Each write of a broadcast is one step (`TellNext`), each line's handler is one step up to
its first write and one after its last, and `Close` is a step that closes and reads the
list and a step that stores it. Slices are values: two appends that write
one backing array, and a goroutine that sees half of a slice's header, are left out.

### Wire
A text is a sequence of `Symbols` (`"space"` and `"quote"` for the characters so called, words, and
digits that mean something after a percent sign only); `ReplaceToken` is `strings.Replace`, `Cmd`, `Body`,
`UserOf` and `BodyOf` are the groups of the regular expressions in client.go (18-21) and
server.go (149). `Type` and `Ready` are the sender's client, `Handle` the server,
`Show` the hearer's client. `Handle` has only what reaches the hearer; the server's own
state is `RegistryServer`'s. One line is on its way at a time, since TCP keeps a
connection's lines in order and the stages share nothing else.

### Mutants
Definitions whose comment starts with FAULT are plausible slips of the definition
after them. They belong to no behaviour; putting one in place of the definition
must make a named property fail (PROJECT.json, "mutants"), which is how we know
that the property says something about that code.

## 4. Runs

| run | instance | shows |
|---|---|---|
| `lobby_rooms` | 2 clients that may go at any moment, 2 names, 2 rooms, create, enter, messages and quit, 3 lines, EXTIME 1 | `RoomsAccounted`, `LogDelivered`, `LogTellsMembership`, `TaskOK`, `MembershipAgrees`, `DeletionOnlyWhenInactive`, `ImplementsChatRooms` |
| `lobby_progress` | 2 clients that stay, 2 user names, 3 lines, all commands but quit, fair | well-formed state, no deadlock, `LogsReadable`, `LinesHandled`, `RoomsExpire` |
| `lobby_departures` | 3 connections for 2 places, one may hang up and all may quit, fair | `DepartedStayOut`, `DepartureHandled`; refusals |
| `lobby_wedge` | 2 clients, one hangs up, fair | **violated** `StayersServed` |
| `ken_rooms` | 3 connections for 2 places, all may go, 1 name and room, 3 lines | `MembershipAgrees`, `SendsReachOpenChannels`, `ClientsCounted`, `KTimersAccounted`, `DeletionOnlyWhenInactive`, `KImplementsChatRooms` |
| `registry` | 2 clients, lobby and one more room, a table of one entry, 3 lines, fair | `BroadcastReachesAudience`, `LinesHandled`, `DeparturesForgotten`, no deadlock |
| `wire` | lines of up to 3 symbols out of 7, names of 6 kinds | `FrameIntact`, `PlainIsShown`, `TablesInvert` |
| `rpc_rooms` | 2 clients of which one may be killed, 2 names, 4 lines, all commands but list and quit | `SeatedIsListed`, `SeatsStableUnderLock`, `SpeakerIsHeard`, `RegistrationsStand` |
| `rpc_progress` | 2 clients that may quit, 1 name, 3 lines, all commands, fair | `CallsReturn`, `RoomsExpire`: what is stuck is deadlocked |
| `rpc_serve` | 1 client, 1 name, 2 rooms, 4 lines, all commands, fair | **violated** `RoomsServe` |
| `rpc_switch` | 1 client, 2 names, 4 lines | **violated** `ListedIsSeated` |
| `rpc_orphan` | 1 client, 4 lines | **violated** `DeletionOnlyWhenInactive` |

These are the runs that PROJECT.json lists. The configurations below belong to no run; each checks
one definition that says what a comment promises, TLC refutes each within seconds (`tlc -config
<cfg> <module>`), and the finding of that number is what its counterexample shows.

| configuration | module | instance | refuted | finding |
|---|---|---|---|---|
| `MCLobbyBroadcast.cfg` | `MCLobby` | 2 clients, a member hangs up, fair | `BroadcastReachesAll` | 1 |
| `MCRpcLeave.cfg` | `MCRpc` | 1 client, 4 lines, fair | `LeaveTakesEffect` | 2 |
| `MCRpcJoin.cfg` | `MCRpc` | 1 client, 1 room, 3 lines, fair | `JoinReturns` | 2 |
| `MCRpcQuit.cfg` | `MCRpc` | 1 client, 1 room, 3 lines | `ListedIsConnected` | 2 |
| `MCLobbyFull.cfg` | `MCLobby` | 2 connections for 1 place, no lines | `TurnedAwayOnlyWhenFull` | 5 |
| `MCKenLost.cfg` | `MCKen` | 4 connections for 2 places, no lines | `PlacesWithinLimit` | 6 |
| `MCRegistryLost.cfg` | `MCRegistry` | 2 clients, 1 line | `RegisteredListed` | 7 |
| `MCRegistryTable.cfg` | `MCRegistry` | 2 clients, lobby and one more room, a table of three entries | `CurrentRoomsListed` | 8 |
| `MCRpcLobby.cfg` | `MCRpc` | 1 client, 1 room, 3 lines | `LobbyLeaveRefused` | 9 |
| `MCRpcExpired.cfg` | `MCRpc` | 1 client, 1 room, 3 lines | `OnlyLiveRoomsEntered` | 10 |
| `MCWireEncode.cfg` | `MCWire` | as `wire` | `LinesSurvive` | 11 |
| `MCWireOwn.cfg` | `MCWire` | as `wire` | `OwnLinesHidden` | 12 |

Bounds. Two clients are enough for one to hear what another does in every order;
a third only waits as the second does. Three lines are enough for create, enter
and speak or one more move by either (creating enters at once in newServer.go); two
`Rooms` for moving between names, or for a name used again after its room expired.
With EXTIME 1 a message already renews a room whose timer is due, so that it fires
for an expiry that has moved; what holds for longer times is shown by the proofs,
which leave EXTIME open. `MaxLines` and the number of `Rooms` bound the input only:
`TypeLine` holds back a create that could find no room object left. The server itself
is never held back, and `Quiescent` is the end of a bounded input, not of the server.
Deadlock checking is off where peers go, since there the lobby does block for
good; `lobby_wedge` and `DepartureHandled` are about that. `DepartureHandled` excepts
a lobby that is blocked (`Wedged`); `StayersServed` excepts nothing and speaks of the clients
that stay, so that any send on which the lobby hangs refutes it.

`ken_rooms` needs three connections for two places, so that main appends while the
lobby removes, a place is given back, and one is refused; three lines then make a
room, fill it and let its members go while it expires. All connections are alike there
(symmetry), which is sound since the run has no liveness property. Its only way to
stop is the same blocked lobby. `ClientsCounted` excepts lists of which an update was lost
(`raced`); that updates are lost, and what for, is finding 6, for which nobody need type, but
a third connection must be let in where two are allowed, after one has gone.

`registry` has two clients with two threads each and main: any two of them meet at the
list, and the loops of both handlers and both readers interleave step by step. `MaxQueue` 1
lets a line wait while the one before it is handled. Updates of the list are lost there as in the code. `BroadcastReachesAudience` excepts nobody
but those who were off the list already when the broadcast began; who is lost while it is under
way must be reached, and so must those who change rooms, unless what is said is said to a room.
`DeparturesForgotten` excepts only a client whose own entry a stale store brings back, and asks of
all others that they stay off the list, not just that they were off it once. No property of this
run is about the table of rooms, so that it has one entry; `MCRegistryTable.cfg` has three, so
that one stays free. Nobody gives a name up in these runs; the theorem `BroadcastsCorrect` has that
too.

`wire`: three symbols are enough for every pair of separators around or beside a word,
and for an escape followed by more; the names have no, one or two words, either bracket,
and one that is decoded a second time (":" becomes "%" on the way, and meets "25").

`RpcRooms` is bounded by `MaxLines` and by the number of `Rooms` in the same way;
a create is held back when all room objects are used up. Four lines reach every
two-client meeting of create, enter, switch or leave with a message, and every
finding needs one client only. With one name and two rooms a name is refused (and
its room orphaned) or used again; EXTIME 1 already has timers that fire before the
expiry they were set for, as messages renew it. Deadlock checking is off for all runs of
`RpcRooms`: the server can stop (findings 2 and 9). `CallsReturn` and `RoomsExpire` say what is left: whenever a call does not
return or an unused room is not deleted, the waits-for graph has a cycle or a send
has no receiver (`Deadlocked`), or a handler has panicked. A goroutine that forgot an
unlock, or a timer that was not set again, would be neither. That these things happen is
`RoomsServe`, which excepts a panic only. One client is enough for it, as its handler and a room
meet at its own mutex.

Fairness (`FairSpec`): goroutines that can run are scheduled (`Lobby`,
`SendWelcome`), a write ends in success or failure (`Flush`/`FlushFails`), time
passes (`Tick`). Go's select picks at random among ready cases, which would justify
strong fairness of each case; with bounded input weak fairness of the lobby as a
whole is enough. People are not assumed to do anything. A peer that stays
connected and stops reading would break the assumption on writes.
In `RegistryServer`, main, each reader and each handler are weakly fair, and a write to a
connection ends, in an error or not. `KenServer` is checked for safety only: its progress is
`LobbyServer`'s, with the same blocked lobby. `Wire` is a pipeline.
In `RpcRooms`, each handler, each room's goroutine, each welcome and time are weakly
fair (the Go scheduler runs every goroutine that can run). Nothing is assumed
about which of two waiting goroutines gets a lock or a channel: with bounded input
none is overtaken for ever.

### Findings
The first four are those of the runs (in this order: `lobby_wedge`, `rpc_serve`, `rpc_switch`,
`rpc_orphan`), the others of the further configurations.

1. `newServer.go:250`, `407` A writer ends at its first failed write, but its client stays in its
   room, and on the list, until the end of its input is dealt with; the next send to it
   blocks the only lobby goroutine, for everybody and for ever. A broadcast does it, and the
   end of the input alone is enough: the lobby answers it with `ERR_LEAVE`, or with the leave
   note, to the client that has gone. The counterexample of `lobby_wedge` is the second kind,
   that of `BroadcastReachesAll` the first.
2. `Assign 2/server/receiver.go:113`, `61`, `128`, `67` A handler waits at a room's channel with
   its client's read lock. If that room has taken an earlier request of the client, and wants
   the write lock to seat it or to unseat it, neither ever goes on: two calls to enter
   one after the other (what `rpc_serve` shows), a leave followed by anything (`LeaveTakesEffect`;
   `LeaveCRoom` returns before the room has unseated the client, cRoom.go:105), entering the
   room one is in, or any room while the old one expires (`JoinReturns`). A client that quits
   stays on its room's list (`ListedIsConnected`), and the room's next broadcast never ends.
3. `Assign 2/server/cRoom.go:107` On a switch the old room may unseat
   the client after the new one seated it: it is listed and in no room.
4. `Assign 2/server/receiver.go:82` A refused create leaves a room and
   its timer behind; when that ends, the room in use under the name is taken off
   the table.
5. `newServer.go:195` The limit on clients counts every connection ever
   made, as `Lobby.Leave` has no caller: a server that everybody has left turns people away.
6. `ken/server.go:143` Main and the lobby store `lobby.clients` over each other:
   a client that was let in is not counted, and one too many is let in (or one that left is
   counted for ever). `ClientsCounted` says that nothing else goes wrong with it.
7. `util.go:84`, `94` The same with `curClients` of the first server: a
   client that registers while another is removed is never heard of again, or a closed one
   is written to for ever.
8. `server.go:111` A room overwrites the first entry of the table that holds
   another one, so the lobby and other rooms in use disappear from it though entries are free.
9. `Assign 2/server/receiver.go:128` To leave while in the lobby panics on a nil room in a
   goroutine without a recover, and the server ends (`up` in `RpcRooms`).
10. `Assign 2/server/receiver.go:100` A room may expire between its lookup and the join; the
    client then is in a room that nobody can find.
11. `util.go:183` `Encode` takes its replacements from
    `DECODE_UNENCODED_TOKEN`, so "%" becomes ":", ":" becomes "[" and so on up to "%": every one of
    the six characters ends as a percent sign, which the hearer's client may decode
    further with what follows. `TablesInvert` shows that the table meant for it would give
    every line back, `FrameIntact` that by this accident no name or line can break a frame.
12. `client.go:121` Whoever has such a character, or a space at an end, in the
    name is printed its own messages, as the name in the frame is not the one it was started
    with. (People of one name do not hear each other; `PlainIsShown` has both.)

The models also have in them, without a configuration of their own:

- `newServer.go:418` A room is deleted without the notice its comment (415) announces; the
  line that would send it is commented out.
- `ken/server.go:368` When a peer hangs up, neither goroutine of its client closes the
  connection.
- `util.go:136` With `thisClientOnly` the message is replaced by its type, so the answers to
  "/list" do not name the rooms, nor "ready" the port.
- `util.go:90` and `client.go:133` The server announces "disconnected", the client handles
  "disconnect": nobody is shown that another has gone (`Show` has no such case).
- `util.go:140` says "all but the provided client", but the loop writes to the sender too.
- `server.go:80` After the end of its input a handler receives from a closed channel for ever.
- `util.go:232`, `237` A log file that cannot be written ends the server for everybody.

## 5. Proofs

| theorem | module | for all constants |
|---|---|---|
| `PromisesKept` | `ChatRooms` | `Spec => [](SeatedInOpenRooms /\ SeenIsPrefix)` |
| `ClosedForGood` | `ChatRooms` | `Spec => ClosedIsFinal` |
| `TypeCorrect` | `LobbyProofs` | `Spec => []TypeOK` |
| `TasksCorrect` | `LobbyProofs` | `Spec => []TaskOK` |
| `RoomsCorrect` | `LobbyProofs` | `Spec => []RoomsAccounted` |
| `MembershipCorrect` | `LobbyProofs` | `Spec => []MembershipAgrees` |
| `DeletionCorrect` | `LobbyProofs` | `Spec => DeletionOnlyWhenInactive` |
| `DepartedCorrect` | `LobbyRefinementProofs` | `Spec => []DepartedStayOut` |
| `DeliveryCorrect` | `LobbyRefinementProofs` | `Spec => []LogDelivered` |
| `Refinement` | `LobbyRefinementProofs` | `Spec => ImplementsChatRooms` |
| `Promises` | `LobbyRefinementProofs` | `Spec => [](Chat!SeatedInOpenRooms /\ Chat!SeenIsPrefix)` |
| `ClosedForGood` | `LobbyRefinementProofs` | `Spec => Chat!ClosedIsFinal` |
| `LogsCorrect` | `LobbyRefinementProofs` | `Spec => []LogsReadable` |
| `LogTruthful` | `LobbyRefinementProofs` | `Spec => []LogTellsMembership` |
| `KTypes` | `KenProofs` | `KSpec => []KTypeOK` |
| `KMembers` | `KenProofs` | `KSpec => []MembershipAgrees` |
| `KTimers` | `KenProofs` | `KSpec => []KTimersAccounted` |
| `NoSendOnClosed` | `KenProofs` | `KSpec => []SendsReachOpenChannels` |
| `PlacesCounted` | `KenProofs` | `KSpec => []ClientsCounted` |
| `KDeletion` | `KenProofs` | `KSpec => DeletionOnlyWhenInactive` |
| `KRefinement` | `KenProofs` | `KSpec => KImplementsChatRooms` |
| `KPromises` | `KenProofs` | `KSpec => [](KChat!SeatedInOpenRooms /\ KChat!SeenIsPrefix)` |
| `KClosedForGood` | `KenProofs` | `KSpec => KChat!ClosedIsFinal` |
| `RegistryTypes` | `RegistryProofs` | `Spec => []TypeOK` |
| `BroadcastsCorrect` | `RegistryProofs` | `Spec => []BroadcastReachesAudience` |
| `RpcTypes` | `RpcRoomsProofs` | `Spec => []TypeOK` |
| `MembersListed` | `RpcRoomsProofs` | `Spec => []SeatedIsListed` |
| `LockProtects` | `RpcRoomsProofs` | `Spec => SeatsStableUnderLock` |
| `NamesStand` | `RpcRoomsProofs` | `Spec => RegistrationsStand` |
| `SpeakersHear` | `RpcRoomsProofs` | `Spec => SpeakerIsHeard` |
| `FrameIsIntact` | `WireProofs` | `Spec => []FrameIntact` |
| `PlainLinesAreShown` | `WireProofs` | `Spec => []PlainIsShown` |
| `TablesAreInverse` | `WireProofs` | `Spec => []TablesInvert` |

Every safety property of every passing run is among them.

They rest on the named assumptions of `LobbyServer`, `KenServer` (`Nil` is no list of clients),
`RegistryServer`, `RpcRooms` and `Wire` (names and lines are made of `Symbols`, among which are
those the programs write; a typed line is not empty and has no spaces at its ends, as
`TrimSpace` has been over it) and on nothing else; TLC evaluates those on every run.
`Clients`, `Rooms`, `Names`, the symbols, the lines and all limits are arbitrary, so the bounds
of the runs play no part.

*Types.* `TypeOK` is not inductive: `ParseMsg` leaves work for after its sends in
`task`, and what `FinishCreate` or `FinishSwitch` then does is well-typed only if
the task speaks of a client, and of a room where it needs one. `TypeInv` is `TypeOK`
with `TaskOK`; the proof has a lemma per action.

*Rooms and members.* `RoomInv` is `RoomsAccounted` (a registered room is registered
under its own name and has one timer, which ends no later than its expiry; no other
room has a timer, and a room not yet made has no members) together with
`MembershipAgrees` (nobody is listed twice; whoever is in a room is in a registered
one; and such a room lists exactly those who are in it and no longer joining).
Neither is inductive alone. That only made rooms get members needs that clients are
in registered rooms; and that a client's room stays registered until the client is
unseated needs that a room has one name only, under which it is deleted.
`ListLemmas` has the facts about lists: what
appending and removing an element does to the set of elements and to duplicates.

*Deletions.* `DeletionOnlyWhenInactive` speaks of steps; `RoomsAccounted` relates
`quiet` to `roomExpire` before the step, and only `DeleteCRoom` unregisters.

*Refinement.* The server takes a step of `ChatRooms`, or none, in each of its own. Most follow from the
handler at once; what does not is that `LobbySend` hands a client the next entry it lacks. That
is `Delivery`, a case distinction on what `out` holds: nothing of a log; the last entry of
a log, for just those members who lack it (`Announcing`); or the rest of a log for one that joins
(`Replaying`). A broadcast establishes the second because `MembershipAgrees`: the list it is sent to
is who sits in the room, each once. When `out` is drained every client has its whole log
(`Drained`), which is where each handler and each rest of one starts. `LogDelivered` is `Delivery` said of one client: the
entries for it stand next to each other in `out` (`InFlightRun`), and picking out
consecutive places of a list gives that piece of it (`ConsecutiveElements`). `DepartedStayOut` follows from
`ConnectedOnly`: nobody is seated without a running forwarder, but for the one whose departure
the handler is at.

*Logs.* `LogsReadable` is not inductive: it speaks of entries only, and which entry comes next
depends on the clients. `LogInv` ties the two: by the log of a registered room a client is in it
(`Told`) just when it sits there, was announced and is not at leaving (`Present`), and its last
entry shows the name under which it was last announced (`Announced`: the new name while the
rename is running, as the entry comes before the assignment). Each entry written is then
one that `AppendReadable` allows, and `LogsWritten` carries `LogInv` over every step that writes one.
Between two handlers `Present` is `cRoom[c] = r`, which is `LogTellsMembership`.

*ken's server.* It shares handlers with `LobbyServer` but not its invariant: a client that
leaves may have ended before it left its room, a room between the news of its deletion and the
end of it is registered without a timer, and both lists of clients may be old. `KTaskOK` says
what a handler cut at its sends goes on with: a room to leave, a registered room to move to, a
list that was read before it is written. `Connections` says that a channel is closed only when
its client's forwarder has ended and its client has left its room, and `RoomAgrees` has the
two kinds of registered room (one timer, or under deletion and none). With `MembershipAgrees`
this gives `SendsReachOpenChannels`: whoever is written to is the client of the handler, which
is connected, or a member of a room, which is seated, and nobody closed is either.
`ClientsCounted` is inductive with `Found`: unless an update was lost, the client to be removed
is in the list the lobby read. The news of a room's deletion renews the room's expiry, so
`KDeletion` rests on `quiet = EXTIME` when the deletion began, which is part of `RoomAgrees`.

Its refinement needs another `Delivery`, as the lobby goes on while entries are owed in more ways: a
room that is joined is replayed without markers, and the news of a deletion is sent among
entries. `Owed` says it of each client by itself: the entries for it in `out` stand next to each
other and are those that `got` lacks of the log. The log is `Shown`, without the news of a
deletion; that this is the log but for its last element, and only in a room whose deletion
has begun, is `LogsPlain`. A delivery takes one off `Owed`, a broadcast
adds the same entry to the log and to what is owed each member, a replay owes the whole log.

*Promises.* `ChatRooms` is proved to keep what its header promises (`PromisesKept`, `ClosedForGood`); both
servers implement it, so both keep it too.

*First server.* One invariant carries both theorems: `TypeOK`, `SnapshotsOK`, `ListOK` and
`BroadcastsOK`. `TypeOK` promises that nobody is twice in `curClients`, whatever is lost; that is
inductive only together with what is true of every list some goroutine may still store:
it is without duplicates too and has only clients whose threads have started, so that
the client main is about to append cannot be in it (`SnapshotsOK`). For broadcasts,
whoever a message is still due to (`due`, which forgets a client that goes or
becomes anonymous, and one that moves if what is said is said to a room) is still ahead in
the list the loop ranges over, and the loop will write to it (`BroadcastsOK`). This needs that
when the loop starts the list has every connected client but those in `lost` (`ListOK`): a
removal takes off nobody else than its own client, which is closed by then, and whoever a
store of an older list takes off besides is in `lost`. It also needs that the sender's own room
stays as it is while it speaks in it, because only its handler both speaks and moves. When the loop is done,
nothing is ahead, so nothing is due. `AnnounceStep` is the one lemma for all five
broadcasts that start.

*RPC server.* Handlers and rooms meet at two things, the mutex of a client and the channel of
a room, and the invariant says what each side has in hand there. `CallOK`: a handler that waits
at the channel of its client's room holds the client's mutex for reading, and the room it waits
at is the one the client is in. `LoopOK`: a room that is sending a client the log holds that
mutex for writing and without readers. Both survive the steps of all others, because a thread
can give up only its own part of a lock and take one only when no writer has it (`OthersLocks`);
and a client's room changes only in three steps, each of them without readers
(`SeatsStep`). From this follows `SeatedIsListed`: a room that takes a request to leave is in its
select, so the client, which is in that room, is on its list (`TakerIsListed`); the same
lemma gives `SpeakerIsHeard`.

*Encoding and frames.* `Replace` goes through a table, and each of its stages joins pieces
(`FlattenSeq`). Both are recursive functions; the proofs give the solution of the recursion
explicitly, show that it satisfies the equation, and that no other does, by the least number at
which two of them would differ (`UpTo`). A stage that replaces a symbol by a symbol then works place by place
(`ReplaceSymbol`), so `Encode`, which walks each special character through the table up to the
percent sign, is `Masked`: every special character becomes a percent sign (`EncodeMasks`). A text
without special characters, apart from percent signs, has no bracket or colon by which a reader
could cut it, so the separators of a frame are found where `Sent` and `Relayed` put them.
`FrameIntact` is inductive with `WSent` and `WRelayed`, which say for each stage what the reader of the
frame that is under way will find in it. `PlainIsShown` is the case in which nothing is masked; the
lemmas about `TrimSpace` are what makes it say `TrimSpace(name)` and not `name`.

`TablesInvert` needs more, since each stage changes the length of the text. With a set `K` of
characters encoded a text is a row of blocks, a symbol each or a percent sign with its digits
(`Blocks`). A stage of encoding adds one character to `K` (`EncodeOne`; the percent sign must be the first,
or it would encode those that are already there), a stage of decoding takes one away
(`DecodeOne`; the percent sign must be the last: while it is in `K`, each one in the text starts a block, so
a token is found only where a block stands). `PiecesOfBlocks` turns what a stage does at
each block into what it does to the text. After six stages back, `K` is empty.

Only model-checked is liveness (`LinesHandled`, `RoomsExpire`, `DepartureHandled`, `CallsReturn`,
`DeparturesForgotten`), as the prover has no rule for fairness and ENABLED.

## 6. Not modelled

- Vendored libraries (`Evan's Work/Assign4/src/code.google.com`, `launchpad.net`,
  `bitbucket.org`): about 66,000 of the 69,000 lines of Go here. They are third-party code
  (an HTML parser, a YAML parser, network packages) that no program of this repository
  imports, so the share of all lines that is modelled stays small although nearly all of
  the repository's own programs are.
- `Evan's Work/Assign4/src/connectToDB`: a script that writes and reads a database once, step
  by step, without state of its own or anything beside it.
- `endpoint/json`: does not compile (`util` has no `QueryMessages` and no `JSONEndpointPort`).
- In `newServer.go` `Lobby.Leave`, `lob.joinRoom` and `SFULL`, which no code uses; the corba
  files of Assign 2, an interface definition without a program.
- In `util.go` the log file and the slice `actions`, which is only written; `LoadConfig`.
- Go's memory model below single reads and writes: a torn read of an expiry, of a string or of a
  slice's header, and two appends into one array.
- Wording, time stamps and the order in which a map is listed.
