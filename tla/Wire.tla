--------------------------------- MODULE Wire ---------------------------------
(***************************************************************************)
(* What becomes of a line between two people who use client.go with the    *)
(* first server: the sender's client parses what is typed, encodes it and  *)
(* frames it as "/command body"; server.go takes the frame apart and sends *)
(* "/type [user] body" to everybody; the hearer's client takes that apart, *)
(* decodes it and prints it.  Names and bodies are free text, so the parts *)
(* of a frame survive only as far as the encoding keeps the separators out.*)
(*                                                                         *)
(* A text is a sequence of symbols: "space", "/", the six characters that  *)
(* are encoded, words without any of these ("enter"), and the two digits   *)
(* of an encoded character ("3A"), which mean nothing except after "%".    *)
(*                                                                         *)
(* Definitions marked FAULT are plausible slips in the definition that     *)
(* follows them; no other definition refers to them.                       *)
(***************************************************************************)
EXTENDS Naturals, Sequences, FiniteSets, SequencesExt

CONSTANTS Symbols,  \* what texts are made of
          Names,    \* names given to a client when it is started
          Typed     \* lines typed at the sender's console

\* The symbols that are encoded.
Special == {"%", ":", "[", "]", ",", "quote"}

\* Names and lines are free text, and the programs write these symbols.
ASSUME SymbolsAssumption ==
  /\ {"space", "/", "lobby", "user", "message", "enter", "leave", "list", "disconnect",
      "connect"} \cup Special \subseteq Symbols
  /\ Names \subseteq Seq(Symbols) /\ Typed \subseteq Seq(Symbols)
ASSUME TypedAssumption == \A s \in Typed : s # <<>> /\ s[1] # "space" /\ Last(s) # "space"

VARIABLES
  name,    \* the name the sender's client was started with
  hearer,  \* the name of the one whose screen is looked at
  stage,   \* "none" between lines, or the line is "sent", "relayed" or "shown"
           \* (dealt with, printed or not); at first, "ready"
  typed,   \* the line typed last
  frame,   \* the bytes on their way, to the server or to the hearer
  user,    \* the server's Client.User of the sender
  room,    \* the server's Client.Room of the sender
  entered, \* history: the room the sender typed that it enters
  screen   \* what the frame shown last printed on the hearer's screen

vars == <<name, hearer, stage, typed, frame, user, room, entered, screen>>

------------------------------------------------------------------------------
(* util.go: the tables, and replacing by them.                             *)

ENCODE_UNENCODED_TOKEN == << <<"%">>, <<":">>, <<"[">>, <<"]">>, <<",">>, <<"quote">> >>

ENCODE_ENCODED_TOKEN ==
  << <<"%", "25">>, <<"%", "3A">>, <<"%", "5B">>, <<"%", "5D">>, <<"%", "2C">>, <<"%", "22">> >>

DECODE_UNENCODED_TOKEN == << <<":">>, <<"[">>, <<"]">>, <<",">>, <<"quote">>, <<"%">> >>

DECODE_ENCODED_TOKEN ==
  << <<"%", "3A">>, <<"%", "5B">>, <<"%", "5D">>, <<"%", "2C">>, <<"%", "22">>, <<"%", "25">> >>

\* strings.Replace: every place where the token stands is replaced.
ReplaceToken(s, token, new) ==
  LET n == Len(token)
      at == {i \in 1 .. Len(s) - n + 1 : SubSeq(s, i, i + n - 1) = token}
      within == {i \in DOMAIN s : \E j \in at : i \in j + 1 .. j + n - 1}
  IN FlattenSeq([i \in DOMAIN s |->
       IF i \in at THEN new ELSE IF i \in within THEN <<>> ELSE <<s[i]>>])

\* replace: one token after the other, each in what the last one left.
Replace(tokens, news, s) ==
  LET val[i \in 0 .. Len(tokens)] ==
        IF i = 0 THEN s ELSE ReplaceToken(val[i - 1], tokens[i], news[i])
  IN val[Len(tokens)]

\* Encode takes its replacements from the table of decoded characters, in
\* which each stands one place off.
Encode(s) == Replace(ENCODE_UNENCODED_TOKEN, DECODE_UNENCODED_TOKEN, s)

\* FAULT: "%" is decoded first, and what it yields is decoded again.
DecodePercentFirst(s) ==
  Replace(<<DECODE_ENCODED_TOKEN[6]>> \o SubSeq(DECODE_ENCODED_TOKEN, 1, 5),
          <<DECODE_UNENCODED_TOKEN[6]>> \o SubSeq(DECODE_UNENCODED_TOKEN, 1, 5), s)

Decode(s) == Replace(DECODE_ENCODED_TOKEN, DECODE_UNENCODED_TOKEN, s)

------------------------------------------------------------------------------
(* The regular expressions, and strings.TrimSpace.                         *)

FirstNonSpace(s) == SelectInSeq(s, LAMBDA ch : ch # "space")

\* Where the run of symbols other than space from position i on has ended.
EndOfWord(s, i) ==
  LET spaces == {j \in i .. Len(s) : s[j] = "space"}
  IN IF spaces = {} THEN Len(s) + 1 ELSE CHOOSE j \in spaces : \A k \in spaces : j <= k

SkipSpaces(s) ==
  IF FirstNonSpace(s) = 0 THEN <<>> ELSE SubSeq(s, FirstNonSpace(s), Len(s))

TrimSpace(s) == Reverse(SkipSpaces(Reverse(SkipSpaces(s))))

IsCommand(s) == s # <<>> /\ s[1] = "/"

Cmd(s) == IF IsCommand(s) THEN SubSeq(s, 2, EndOfWord(s, 2) - 1) ELSE <<>>

\* What follows the command.
Rest(s) == SubSeq(s, EndOfWord(s, 2), Len(s))

\* The body as parseInput and getAction find it.
Body(s) == IF IsCommand(s) THEN SkipSpaces(Rest(s)) ELSE <<>>

\* FAULT: the space before the brackets is not skipped.
UserPartUnspaced(s) == Rest(s)

\* parseCommand: after the command, one space is skipped.
UserPart(s) ==
  LET rest == Rest(s)
  IN IF rest # <<>> /\ rest[1] = "space" THEN Tail(rest) ELSE rest

\* Where the brackets around a user end, 0 if there are none.
UserEnd(s) ==
  LET part == UserPart(s)
  IN IF part # <<>> /\ part[1] = "[" THEN SelectInSeq(part, LAMBDA ch : ch = "]") ELSE 0

\* parseCommand's user and body.
UserOf(s) == IF UserEnd(s) = 0 THEN <<>> ELSE SubSeq(UserPart(s), 2, UserEnd(s) - 1)
BodyOf(s) == SkipSpaces(SubSeq(UserPart(s), UserEnd(s) + 1, Len(UserPart(s))))

------------------------------------------------------------------------------
(* The programs.                                                           *)

Init ==
  /\ name \in Names
  /\ hearer \in Names
  /\ stage = "ready"
  /\ typed = <<>>
  /\ frame = <<>>
  /\ user = <<>>
  /\ room = <<"lobby">>
  /\ entered = <<"lobby">>
  /\ screen = [kind |-> "none"]

\* FAULT: the frame is made from what was typed.
SentUnencoded(cmd, body) == <<"/">> \o cmd \o <<"space">> \o body

\* sendCommandToServ, as the server reads it (it trims what it reads).
Sent(cmd, body) == <<"/">> \o Encode(cmd) \o <<"space">> \o Encode(body)

\* The sender's client answers the server's "ready" with its name.
Ready ==
  /\ stage = "ready"
  /\ frame' = TrimSpace(Sent(<<"user">>, name))
  /\ stage' = "sent"
  /\ UNCHANGED <<name, hearer, typed, user, room, entered, screen>>

\* watchForConsoleIn: a line is parsed and sent; what has no command is a
\* message, whole, and a command the client does not know is not sent.
Type(s) ==
  /\ stage = "none"
  /\ typed' = s
  /\ \/ /\ Cmd(s) = <<>>
        /\ frame' = TrimSpace(Sent(<<"message">>, s))
        /\ stage' = "sent"
     \/ /\ Cmd(s) \in {<<"leave">>, <<"list">>, <<"disconnect">>}
        /\ frame' = TrimSpace(Sent(Cmd(s), <<>>))
        /\ stage' = "sent"
     \/ /\ Cmd(s) = <<"enter">>
        /\ frame' = TrimSpace(Sent(<<"enter">>, Body(s)))
        /\ stage' = "sent"
     \/ /\ Cmd(s) \notin {<<>>, <<"leave">>, <<"list">>, <<"disconnect">>, <<"enter">>}
        /\ frame' = <<>>
        /\ stage' = "shown"
  /\ UNCHANGED <<name, hearer, user, room, entered, screen>>

\* SendClientMessage: the frame for the others, if the sender has a name.
Relayed(type, u, body) ==
  IF u = <<>>
  THEN /\ frame' = <<>>
       /\ stage' = "shown"
  ELSE /\ frame' = TrimSpace(<<"/", type, "space", "[">> \o u \o <<"]", "space">> \o body)
       /\ stage' = "relayed"

\* HandleUserInput: the frame is taken apart and relayed (the table of rooms
\* and the end of the connection are RegistryServer's).
Handle ==
  LET cmd == Cmd(frame)
      body == Body(frame)
  IN /\ stage = "sent"
     /\ \/ /\ cmd = <<"user">>
           /\ user' = body
           /\ Relayed("connect", body, <<>>)
           /\ UNCHANGED <<room, entered>>
        \/ /\ cmd = <<"message">>
           /\ Relayed("message", user, body)
           /\ UNCHANGED <<user, room, entered>>
        \/ /\ cmd = <<"enter">>
           /\ body # <<>>
           /\ room' = body
           /\ entered' = Body(typed)
           /\ Relayed("enter", user, body)
           /\ UNCHANGED user
        \/ /\ cmd = <<"leave">>
           /\ room # <<"lobby">>
           /\ room' = <<"lobby">>
           /\ Relayed("leave", user, room)
           /\ UNCHANGED <<user, entered>>
        \/ /\ \/ cmd = <<"enter">> /\ body = <<>>
              \/ cmd = <<"leave">> /\ room = <<"lobby">>
              \/ cmd \notin {<<"user">>, <<"message">>, <<"enter">>, <<"leave">>}
           /\ frame' = <<>>
           /\ stage' = "shown"
           /\ UNCHANGED <<user, room, entered>>
  /\ UNCHANGED <<name, hearer, typed, screen>>

\* watchForServerIn: one's own messages are not printed.
Show ==
  LET cmd == Decode(Cmd(frame))
      who == Decode(UserOf(frame))
      what == Decode(BodyOf(frame))
  IN /\ stage = "relayed"
     /\ stage' = "shown"
     /\ screen' = IF \/ cmd = <<"message">> /\ who # hearer
                     \/ cmd \in {<<"connect">>, <<"enter">>, <<"leave">>}
                  THEN [kind |-> cmd[1], who |-> who, what |-> what]
                  ELSE [kind |-> "none"]
     /\ frame' = <<>>
     /\ UNCHANGED <<name, hearer, typed, user, room, entered>>

\* The sender's client waits for the next line.
NextLine ==
  /\ stage = "shown"
  /\ stage' = "none"
  /\ typed' = <<>>
  /\ screen' = [kind |-> "none"]
  /\ UNCHANGED <<name, hearer, frame, user, room, entered>>

Next ==
  \/ Ready
  \/ NextLine
  \/ \E s \in Typed : Type(s)
  \/ Handle
  \/ Show

Spec == Init /\ [][Next]_vars

------------------------------------------------------------------------------
(* What makes the three programs understand each other.                    *)

\* A text with a percent sign for every special character.
Masked(s) == [i \in DOMAIN s |-> IF s[i] \in Special THEN "%" ELSE s[i]]

\* What the hearer can see of a text: the special characters are percent signs,
\* and may then look like encoded ones.
Seen(s) == Decode(TrimSpace(Masked(s)))

\* The parts of a frame come out as they went in, whatever a name or a line
\* contains: what is printed is the sender's name, and the line (the room), as
\* far as the encoding lets it be seen, and no part spills into another.
FrameIntact ==
  screen.kind # "none" =>
    /\ screen.who = Seen(name)
    /\ screen.what = CASE screen.kind = "connect" -> <<>>
                       [] screen.kind = "message" -> Seen(typed)
                       [] screen.kind = "enter" -> Seen(Body(typed))
                       [] screen.kind = "leave" -> Seen(entered)

Plain(s) == \A i \in DOMAIN s : s[i] \notin Special

\* Among people with plain names a plain line is printed as it was typed, to
\* all but those who have the sender's name.
PlainIsShown ==
  /\ stage = "shown"
  /\ typed # <<>> /\ Cmd(typed) = <<>>
  /\ user # <<>>
  /\ Plain(name \o typed)
  =>
    screen = IF TrimSpace(name) = hearer
             THEN [kind |-> "none"]
             ELSE [kind |-> "message", who |-> TrimSpace(name), what |-> typed]

\* Replacing by the two tables of encoded characters, each in its order, would
\* give every line back.
TablesInvert ==
  Decode(Replace(ENCODE_UNENCODED_TOKEN, ENCODE_ENCODED_TOKEN, typed)) = typed

------------------------------------------------------------------------------
(* What comments of the source say, and the code does not do.               *)

\* util.go:15: there are "Things we encode to send to clients so we don't break
\* chat!": among people with plain names, what is printed is what was typed.
LinesSurvive == screen.kind = "message" /\ Plain(name) => screen.what = typed

\* client.go:120: a message is printed "If username doesn't equal itself.": not
\* by the client of whoever has typed it.
OwnLinesHidden == screen.kind = "message" => name # hearer
==============================================================================
