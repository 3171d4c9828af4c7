------------------------------ MODULE ChatRooms ------------------------------
(***************************************************************************)
(* What a chat server with named rooms promises to the people who use it,  *)
(* whatever goroutines, channels and locks it is built from.               *)
(*                                                                         *)
(* A room is a log of entries.  A client sits in at most one room, only a  *)
(* seated client adds to a log, and what the server hands to a client is   *)
(* its room's log, from the first entry on, in order, nothing missing and  *)
(* nothing twice.  A room that was closed stays closed: nobody sits in it  *)
(* and its log never grows again.                                          *)
(***************************************************************************)
EXTENDS Naturals, Sequences, TLAPS

CONSTANTS Clients,  \* the connections the server serves
          Rooms,    \* room objects, one for each time a room is created
          Entry,    \* what a log holds: records whose field "who" is the author
          Nil       \* no room

VARIABLES status,   \* status[r]: "fresh", then "open", then "closed"
          log,      \* log[r]: the entries of the room, oldest first
          seat,     \* seat[c]: the room the client sits in, or Nil
          seen      \* seen[c]: what c was handed of the log since it sat down

vars == <<status, log, seat, seen>>

TypeOK ==
  /\ status \in [Rooms -> {"fresh", "open", "closed"}]
  /\ log \in [Rooms -> Seq(Entry)]
  /\ seat \in [Clients -> Rooms \cup {Nil}]
  /\ seen \in [Clients -> Seq(Entry)]

Init ==
  /\ status = [r \in Rooms |-> "fresh"]
  /\ log = [r \in Rooms |-> <<>>]
  /\ seat = [c \in Clients |-> Nil]
  /\ seen = [c \in Clients |-> <<>>]

\* A room is created.
Open(r) ==
  /\ status[r] = "fresh"
  /\ status' = [status EXCEPT ![r] = "open"]
  /\ UNCHANGED <<log, seat, seen>>

\* A client sits down in an open room, giving up the room it sat in.
Enter(c, r) ==
  /\ status[r] = "open"
  /\ seat' = [seat EXCEPT ![c] = r]
  /\ seen' = [seen EXCEPT ![c] = <<>>]
  /\ UNCHANGED <<status, log>>

\* A seated client adds an entry to the log of its room.
Post(c, e) ==
  /\ seat[c] # Nil
  /\ e.who = c
  /\ log' = [log EXCEPT ![seat[c]] = Append(@, e)]
  /\ UNCHANGED <<status, seat, seen>>

\* A client is handed the next entry of its room's log.
Deliver(c) ==
  /\ seat[c] # Nil
  /\ Len(seen[c]) < Len(log[seat[c]])
  /\ seen' = [seen EXCEPT ![c] = Append(@, log[seat[c]][Len(@) + 1])]
  /\ UNCHANGED <<status, log, seat>>

\* A client goes back to the lobby.
Leave(c) ==
  /\ seat[c] # Nil
  /\ seat' = [seat EXCEPT ![c] = Nil]
  /\ seen' = [seen EXCEPT ![c] = <<>>]
  /\ UNCHANGED <<status, log>>

\* A room is closed; those who sat in it are back in the lobby.
Close(r) ==
  /\ status[r] = "open"
  /\ status' = [status EXCEPT ![r] = "closed"]
  /\ seat' = [c \in Clients |-> IF seat[c] = r THEN Nil ELSE seat[c]]
  /\ seen' = [c \in Clients |-> IF seat[c] = r THEN <<>> ELSE seen[c]]
  /\ UNCHANGED log

Next ==
  \/ \E r \in Rooms : Open(r) \/ Close(r)
  \/ \E c \in Clients :
       \/ \E r \in Rooms : Enter(c, r)
       \/ \E e \in Entry : Post(c, e)
       \/ Deliver(c)
       \/ Leave(c)

Spec == Init /\ [][Next]_vars

------------------------------------------------------------------------------
\* A client sits in no room but an open one.
SeatedInOpenRooms == \A c \in Clients : seat[c] # Nil => status[seat[c]] = "open"

\* What a client was handed is a prefix of the log of the room it sits in.
SeenIsPrefix ==
  \A c \in Clients :
    seat[c] # Nil =>
      /\ Len(seen[c]) <= Len(log[seat[c]])
      /\ \A i \in 1 .. Len(seen[c]) : seen[c][i] = log[seat[c]][i]

\* The log of a room that is closed never changes.
StaysClosed ==
  \A r \in Rooms : status[r] = "closed" => status'[r] = "closed" /\ log'[r] = log[r]

ClosedIsFinal == [][StaysClosed]_vars

------------------------------------------------------------------------------
(* The promises hold of the specification, and so of every server shown to *)
(* implement it: whoever has an instance of this module has these theorems.*)

\* A list that grows at its end keeps what it has.
LEMMA AppendKeeps ==
  ASSUME NEW s \in Seq(Entry), NEW e \in Entry
  PROVE  /\ Append(s, e) \in Seq(Entry)
         /\ Len(s) \in Nat /\ Len(Append(s, e)) = Len(s) + 1
         /\ \A i \in 1 .. Len(s) : Append(s, e)[i] = s[i]
         /\ Append(s, e)[Len(s) + 1] = e
OBVIOUS

Promises == TypeOK /\ SeatedInOpenRooms /\ SeenIsPrefix

LEMMA PromisesInit == Init => Promises
<1> SUFFICES ASSUME Init PROVE Promises
  OBVIOUS
<1>1. <<>> \in Seq(Entry)
  OBVIOUS
<1>2. \A c \in Clients : seat[c] = Nil
  BY DEF Init
<1>3. TypeOK
  BY <1>1 DEF Init, TypeOK
<1> QED BY <1>2, <1>3 DEF Promises, SeatedInOpenRooms, SeenIsPrefix

LEMMA PromisesStep == Promises /\ [Next]_vars => Promises'
<1> SUFFICES ASSUME Promises, [Next]_vars PROVE Promises'
  OBVIOUS
<1>0. TypeOK /\ SeatedInOpenRooms /\ SeenIsPrefix
  BY DEF Promises
<1>1. ASSUME NEW r \in Rooms, Open(r)
      PROVE  Promises'
  BY <1>0, <1>1 DEF Open, Promises, TypeOK, SeatedInOpenRooms, SeenIsPrefix
<1>2. ASSUME NEW r \in Rooms, Close(r)
      PROVE  Promises'
  <2>1. \A c \in Clients : seat'[c] = (IF seat[c] = r THEN Nil ELSE seat[c])
                          /\ seen'[c] = (IF seat[c] = r THEN <<>> ELSE seen[c])
    BY <1>2 DEF Close
  <2>2. TypeOK'
    BY <1>0, <1>2 DEF Close, TypeOK
  <2>3. SeatedInOpenRooms'
    BY <1>0, <1>2, <2>1 DEF Close, TypeOK, SeatedInOpenRooms
  <2>4. SeenIsPrefix'
    BY <1>0, <1>2, <2>1 DEF Close, TypeOK, SeenIsPrefix
  <2> QED BY <2>2, <2>3, <2>4 DEF Promises
<1>3. ASSUME NEW c \in Clients, NEW r \in Rooms, Enter(c, r)
      PROVE  Promises'
  <2>1. /\ seat'[c] = r /\ seen'[c] = <<>> /\ Len(<<>>) = 0
        /\ \A d \in Clients \ {c} : seat'[d] = seat[d] /\ seen'[d] = seen[d]
    BY <1>0, <1>3 DEF Enter, TypeOK
  <2>2. TypeOK'
    BY <1>0, <1>3 DEF Enter, TypeOK
  <2>3. SeatedInOpenRooms'
    BY <1>0, <1>3, <2>1 DEF Enter, TypeOK, SeatedInOpenRooms
  <2>4. SeenIsPrefix'
    <3>1. log' = log /\ Len(log[r]) \in Nat
      BY <1>0, <1>3 DEF Enter, TypeOK
    <3> QED BY <1>0, <2>1, <3>1 DEF SeenIsPrefix
  <2> QED BY <2>2, <2>3, <2>4 DEF Promises
<1>4. ASSUME NEW c \in Clients, NEW e \in Entry, Post(c, e)
      PROVE  Promises'
  <2>1. PICK r \in Rooms : r = seat[c]
    BY <1>0, <1>4 DEF Post, TypeOK
  <2>2. PICK s \in Seq(Entry) : s = log[r]
    BY <1>0 DEF TypeOK
  <2>3. /\ log' = [log EXCEPT ![r] = Append(s, e)] /\ log'[r] = Append(s, e)
        /\ \A q \in Rooms \ {r} : log'[q] = log[q]
        /\ UNCHANGED <<status, seat, seen>>
    BY <1>0, <1>4, <2>1, <2>2 DEF Post, TypeOK
  <2>4. /\ Append(s, e) \in Seq(Entry)
        /\ Len(s) \in Nat /\ Len(Append(s, e)) = Len(s) + 1
        /\ \A i \in 1 .. Len(s) : Append(s, e)[i] = s[i]
    BY AppendKeeps
  <2>5. TypeOK'
    BY <1>0, <2>3, <2>4 DEF TypeOK
  <2>6. SeatedInOpenRooms'
    BY <1>0, <2>3 DEF SeatedInOpenRooms
  <2>7. SeenIsPrefix'
    <3>1. ASSUME NEW d \in Clients, seat[d] # Nil
          PROVE  /\ Len(seen[d]) <= Len(log'[seat[d]])
                 /\ \A i \in 1 .. Len(seen[d]) : seen[d][i] = log'[seat[d]][i]
      <4>1. /\ Len(seen[d]) <= Len(log[seat[d]]) /\ Len(seen[d]) \in Nat
            /\ \A i \in 1 .. Len(seen[d]) : seen[d][i] = log[seat[d]][i]
        BY <1>0, <3>1 DEF SeenIsPrefix, TypeOK
      <4>2. CASE seat[d] = r
        BY <2>2, <2>3, <2>4, <4>1, <4>2
      <4>3. CASE seat[d] # r
        BY <1>0, <2>3, <3>1, <4>1, <4>3 DEF TypeOK
      <4> QED BY <4>2, <4>3
    <3> QED BY <2>3, <3>1 DEF SeenIsPrefix
  <2> QED BY <2>5, <2>6, <2>7 DEF Promises
<1>5. ASSUME NEW c \in Clients, Deliver(c)
      PROVE  Promises'
  <2>1. PICK r \in Rooms : r = seat[c]
    BY <1>0, <1>5 DEF Deliver, TypeOK
  <2>2. PICK s \in Seq(Entry), g \in Seq(Entry) : s = log[r] /\ g = seen[c]
    BY <1>0 DEF TypeOK
  <2>3. Len(s) \in Nat /\ Len(g) \in Nat /\ Len(g) < Len(s)
    BY <1>5, <2>1, <2>2 DEF Deliver
  <2>4. PICK e \in Entry : e = s[Len(g) + 1]
    BY <2>3
  <2>5. /\ seen'[c] = Append(g, e)
        /\ \A d \in Clients \ {c} : seen'[d] = seen[d]
        /\ seen' = [seen EXCEPT ![c] = Append(g, e)]
        /\ UNCHANGED <<status, log, seat>>
    BY <1>0, <1>5, <2>1, <2>2, <2>4 DEF Deliver, TypeOK
  <2>6. /\ Append(g, e) \in Seq(Entry) /\ Len(Append(g, e)) = Len(g) + 1
        /\ \A i \in 1 .. Len(g) : Append(g, e)[i] = g[i]
        /\ Append(g, e)[Len(g) + 1] = e
    BY AppendKeeps
  <2>7. TypeOK'
    BY <1>0, <2>5, <2>6 DEF TypeOK
  <2>8. SeatedInOpenRooms'
    BY <1>0, <2>5 DEF SeatedInOpenRooms
  <2>9. SeenIsPrefix'
    <3>1. /\ Len(Append(g, e)) <= Len(s)
          /\ \A i \in 1 .. Len(Append(g, e)) : Append(g, e)[i] = s[i]
      <4>1. \A i \in 1 .. Len(g) : g[i] = s[i]
        BY <1>0, <1>5, <2>1, <2>2 DEF SeenIsPrefix, Deliver
      <4> QED BY <2>3, <2>4, <2>6, <4>1
    <3> QED BY <1>0, <2>1, <2>2, <2>5, <3>1 DEF SeenIsPrefix
  <2> QED BY <2>7, <2>8, <2>9 DEF Promises
<1>6. ASSUME NEW c \in Clients, Leave(c)
      PROVE  Promises'
  <2>1. /\ seat'[c] = Nil /\ status' = status /\ log' = log
        /\ \A d \in Clients \ {c} : seat'[d] = seat[d] /\ seen'[d] = seen[d]
    BY <1>0, <1>6 DEF Leave, TypeOK
  <2>2. TypeOK'
    BY <1>0, <1>6 DEF Leave, TypeOK
  <2>3. SeatedInOpenRooms'
    BY <1>0, <2>1 DEF SeatedInOpenRooms
  <2>4. SeenIsPrefix'
    BY <1>0, <2>1 DEF SeenIsPrefix
  <2> QED BY <2>2, <2>3, <2>4 DEF Promises
<1>7. CASE UNCHANGED vars
  BY <1>0, <1>7 DEF vars, Promises, TypeOK, SeatedInOpenRooms, SeenIsPrefix
<1> QED BY <1>1, <1>2, <1>3, <1>4, <1>5, <1>6, <1>7 DEF Next

\* What a client was handed is always the beginning of the log of the open room
\* it sits in.
THEOREM PromisesKept == Spec => [](SeatedInOpenRooms /\ SeenIsPrefix)
<1>1. Promises => SeatedInOpenRooms /\ SeenIsPrefix
  BY DEF Promises
<1> QED BY <1>1, PromisesInit, PromisesStep, PTL DEF Spec

LEMMA ClosedStep == Promises /\ [Next]_vars => [StaysClosed]_vars
<1> SUFFICES ASSUME Promises, Next PROVE StaysClosed
  OBVIOUS
<1>0. TypeOK /\ SeatedInOpenRooms
  BY DEF Promises
<1>1. ASSUME NEW r \in Rooms, Open(r) \/ Close(r)
      PROVE  StaysClosed
  BY <1>0, <1>1 DEF Open, Close, TypeOK, StaysClosed
<1>2. ASSUME NEW c \in Clients, NEW r \in Rooms, Enter(c, r)
      PROVE  StaysClosed
  BY <1>2 DEF Enter, StaysClosed
<1>3. ASSUME NEW c \in Clients, NEW e \in Entry, Post(c, e)
      PROVE  StaysClosed
  <2>1. status[seat[c]] = "open" /\ status' = status
    BY <1>0, <1>3 DEF Post, SeatedInOpenRooms
  <2>2. \A r \in Rooms : r # seat[c] => log'[r] = log[r]
    BY <1>0, <1>3 DEF Post, TypeOK
  <2> QED BY <2>1, <2>2 DEF StaysClosed
<1>4. ASSUME NEW c \in Clients, Deliver(c) \/ Leave(c)
      PROVE  StaysClosed
  BY <1>4 DEF Deliver, Leave, StaysClosed
<1> QED BY <1>1, <1>2, <1>3, <1>4 DEF Next

\* A closed room stays closed and its log as it is.
THEOREM ClosedForGood == Spec => ClosedIsFinal
BY PromisesInit, PromisesStep, ClosedStep, PTL DEF Spec, ClosedIsFinal
==============================================================================
