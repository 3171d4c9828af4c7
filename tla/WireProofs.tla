------------------------------ MODULE WireProofs ------------------------------
(***************************************************************************)
(* For every set of symbols, names and lines of Wire: the parts of a frame *)
(* come out as they went in, a plain line is printed as it was typed, and  *)
(* the two tables of encoded characters undo each other.                   *)
(* The encoding is a chain of replacements, each of them shown to change a *)
(* text place by place; with the special characters gone, the readers of a *)
(* frame find its separators where its writer put them.                    *)
(***************************************************************************)
EXTENDS Wire, ListLemmas

Text == Seq(Symbols)

------------------------------------------------------------------------------
(* Joining and replacing, for every text.                                 *)

\* What holds at the start and carries over to the next number holds of all.
LEMMA UpTo ==
  ASSUME NEW n \in Nat, NEW T, 0 \in T, \A i \in 0 .. n : i \in T /\ i # n => i + 1 \in T
  PROVE  0 .. n \subseteq T
<1> DEFINE M == {i \in 0 .. n : i \notin T}
<1> SUFFICES ASSUME M # {} PROVE FALSE
  OBVIOUS
<1>1. Min(M) \in M /\ \A x \in M : Min(M) <= x
  <2>1. M \subseteq Nat
    OBVIOUS
  <2> HIDE DEF M
  <2> QED BY <2>1, MinProperties
<1>2. PICK i \in M : \A x \in M : i <= x
  <2> HIDE DEF M
  <2> QED BY <1>1
<1>3. i # 0 /\ i - 1 \in 0 .. n
  BY <1>2
<1>4. i - 1 \in T
  BY <1>2, <1>3
<1> QED BY <1>2, <1>3, <1>4

\* FlattenSeq joins the lists one after the other.
LEMMA FlattenBySteps ==
  ASSUME NEW seqs, NEW n \in Nat \ {0}, Len(seqs) = n,
         NEW sol, \A i \in 1 .. n : sol[i] = IF i = 1 THEN seqs[i] ELSE sol[i - 1] \o seqs[i]
  PROVE  FlattenSeq(seqs) = sol[n]
<1> DEFINE Rec(f) == f = [i \in 1 .. Len(seqs) |->
                            IF i = 1 THEN seqs[i] ELSE f[i - 1] \o seqs[i]]
           flat == CHOOSE f : Rec(f)
<1>1. Rec(flat)
  <2> DEFINE g == [i \in 1 .. n |-> sol[i]]
  <2>1. Rec(g)
    OBVIOUS
  <2> HIDE DEF Rec, g
  <2> QED BY <2>1
<1>2. FlattenSeq(seqs) = flat[n]
  BY DEF FlattenSeq
<1>3. PICK f : f = flat /\ Rec(f)
  <2> HIDE DEF Rec, flat
  <2> QED BY <1>1
<1>0. \A i \in 1 .. n : f[i] = IF i = 1 THEN seqs[i] ELSE f[i - 1] \o seqs[i]
  <2>1. f = [i \in 1 .. n |-> IF i = 1 THEN seqs[i] ELSE f[i - 1] \o seqs[i]]
    BY <1>3
  <2> HIDE DEF flat
  <2> QED BY <2>1
<1> DEFINE T == {i \in 0 .. n : i = 0 \/ f[i] = sol[i]}
<1> HIDE DEF flat
<1>4. 0 .. n \subseteq T
  <2>1. ASSUME NEW i \in 0 .. n, i \in T, i # n
        PROVE  i + 1 \in T
    <3>1. i + 1 \in 1 .. n /\ (i + 1) - 1 = i
      BY <2>1
    <3>2. f[i + 1] = IF i + 1 = 1 THEN seqs[i + 1] ELSE f[i] \o seqs[i + 1]
      BY <1>0, <3>1
    <3>3. sol[i + 1] = IF i + 1 = 1 THEN seqs[i + 1] ELSE sol[i] \o seqs[i + 1]
      BY <3>1
    <3> QED BY <2>1, <3>1, <3>2, <3>3
  <2>2. 0 \in T
    OBVIOUS
  <2> HIDE DEF T
  <2> QED BY <2>1, <2>2, UpTo
<1>5. f[n] = sol[n]
  <2>1. n \in T /\ n # 0
    BY <1>4
  <2> QED BY <2>1
<1>6. f = flat
  BY <1>3
<1> HIDE DEF Rec, T
<1> QED BY <1>2, <1>5, <1>6

LEMMA SubSeqOne ==
  ASSUME NEW S, NEW s \in Seq(S), NEW i \in 1 .. Len(s)
  PROVE  SubSeq(s, i, i) = <<s[i]>>
<1>1. Len(s) \in Nat /\ s[i] \in S
  BY LenProperties, ElementOfSeq
<1>2. \A j \in i .. i : s[j] \in S
  BY <1>1
<1>3. PICK a, b : a = SubSeq(s, i, i) /\ b = <<s[i]>>
  OBVIOUS
<1>4. i \in Int /\ i - i + 1 = 1 /\ i <= i
  BY <1>1
<1>5. a \in Seq(S) /\ Len(a) = 1 /\ a[1] = s[i]
  <2>1. /\ SubSeq(s, i, i) \in Seq(S)
        /\ Len(SubSeq(s, i, i)) = 1
        /\ \A j \in 1 .. i - i + 1 : SubSeq(s, i, i)[j] = s[i + j - 1]
    BY <1>2, <1>4, SubSeqProperties
  <2>2. 1 \in 1 .. i - i + 1 /\ i + 1 - 1 = i
    BY <1>1
  <2> QED BY <2>1, <2>2, <1>3
<1>6. b \in Seq(S) /\ Len(b) = 1 /\ b[1] = s[i]
  BY <1>1, <1>3
<1>7. a = b
  <2>1. \A j \in 1 .. 1 : a[j] = b[j]
    BY <1>5, <1>6
  <2> QED BY <2>1, <1>5, <1>6, SeqEqual
<1> QED BY <1>3, <1>7

\* Cutting a list up into lists of one element changes nothing.
LEMMA FlattenSingles ==
  ASSUME NEW S, NEW s \in Seq(S)
  PROVE  FlattenSeq([i \in DOMAIN s |-> <<s[i]>>]) = s
<1> DEFINE ones == [i \in DOMAIN s |-> <<s[i]>>]
           n == Len(s)
<1>1. n \in Nat /\ DOMAIN s = 1 .. n
  BY LenProperties
<1>2. Len(ones) = n /\ ones \in Seq(Seq(S))
  <2>1. \A i \in 1 .. n : <<s[i]>> \in Seq(S)
    BY ElementOfSeq
  <2> QED BY <1>1, <2>1
<1>3. CASE n = 0
  <2>1. s = <<>>
    BY <1>3, EmptySeq
  <2>2. ones = <<>>
    BY <1>2, <1>3, EmptySeq
  <2> HIDE DEF ones
  <2> QED BY <1>2, <1>3, <2>1, <2>2 DEF FlattenSeq
<1>4. CASE n # 0
  <2> DEFINE sol == [i \in 1 .. n |-> SubSeq(s, 1, i)]
  <2>1. sol = [i \in 1 .. n |-> IF i = 1 THEN ones[i] ELSE sol[i - 1] \o ones[i]]
    <3>1. ASSUME NEW i \in 1 .. n, i # 1
          PROVE  SubSeq(s, 1, i) = SubSeq(s, 1, i - 1) \o <<s[i]>>
      <4>1. 1 \in 1 .. Len(s) /\ i \in 1 .. Len(s)
        BY <1>1, <3>1
      <4> QED BY <4>1, SubSeqRecursiveSecond
    <3>2. SubSeq(s, 1, 1) = <<s[1]>>
      BY <1>1, <1>4, SubSeqOne
    <3>3. \A i \in 1 .. n : sol[i] = IF i = 1 THEN ones[i] ELSE sol[i - 1] \o ones[i]
      <4>1. ASSUME NEW i \in 1 .. n, i # 1
            PROVE  sol[i] = sol[i - 1] \o ones[i]
        <5>1. i - 1 \in 1 .. n /\ i \in DOMAIN s
          BY <1>1, <4>1
        <5>2. sol[i - 1] = SubSeq(s, 1, i - 1) /\ sol[i] = SubSeq(s, 1, i) /\ ones[i] = <<s[i]>>
          BY <5>1
        <5>3. SubSeq(s, 1, i) = SubSeq(s, 1, i - 1) \o <<s[i]>>
          BY <3>1, <4>1
        <5> HIDE DEF sol, ones
        <5> QED BY <5>2, <5>3
      <4>2. sol[1] = ones[1]
        <5>1. 1 \in 1 .. n
          BY <1>1, <1>4
        <5>2. sol[1] = SubSeq(s, 1, 1) /\ ones[1] = <<s[1]>>
          BY <5>1, <1>1
        <5> HIDE DEF sol, ones
        <5> QED BY <5>2, <3>2
      <4> HIDE DEF sol, ones
      <4> QED BY <4>1, <4>2
    <3> QED BY <3>3
  <2>2. PICK so : so = sol
    OBVIOUS
  <2>3. FlattenSeq(ones) = so[n]
    <3>1. \A i \in 1 .. n : so[i] = IF i = 1 THEN ones[i] ELSE so[i - 1] \o ones[i]
      BY <2>1, <2>2
    <3>2. n \in Nat \ {0}
      BY <1>1, <1>4
    <3>3. Len(ones) = n
      BY <1>2
    <3> HIDE DEF ones, sol, n
    <3> QED BY <3>1, <3>2, <3>3, FlattenBySteps
  <2>4. so[n] = SubSeq(s, 1, n)
    BY <2>2, <1>1, <1>4
  <2>5. SubSeq(s, 1, n) = s
    BY SubSeqFull
  <2> QED BY <2>3, <2>4, <2>5
<1> QED BY <1>3, <1>4, <1>1

\* Replace makes one replacement after the other.
LEMMA ReplaceBySteps ==
  ASSUME NEW tokens, NEW news, NEW s, NEW n \in Nat, Len(tokens) = n,
         NEW sol, sol[0] = s,
         \A i \in 1 .. n : sol[i] = ReplaceToken(sol[i - 1], tokens[i], news[i])
  PROVE  Replace(tokens, news, s) = sol[n]
<1> DEFINE Rec(f) == f = [i \in 0 .. Len(tokens) |->
                            IF i = 0 THEN s ELSE ReplaceToken(f[i - 1], tokens[i], news[i])]
           val == CHOOSE f : Rec(f)
<1>1. Rec(val)
  <2> DEFINE g == [i \in 0 .. n |-> sol[i]]
  <2>1. Rec(g)
    <3>1. \A i \in 0 .. n : g[i] = IF i = 0 THEN s ELSE ReplaceToken(g[i - 1], tokens[i], news[i])
      OBVIOUS
    <3> QED BY <3>1
  <2> HIDE DEF Rec, g
  <2> QED BY <2>1
<1>2. Replace(tokens, news, s) = val[n]
  BY DEF Replace
<1>3. PICK f : f = val /\ Rec(f)
  <2> HIDE DEF Rec, val
  <2> QED BY <1>1
<1>4. \A i \in 0 .. n : f[i] = IF i = 0 THEN s ELSE ReplaceToken(f[i - 1], tokens[i], news[i])
  <2>1. f = [i \in 0 .. n |-> IF i = 0 THEN s ELSE ReplaceToken(f[i - 1], tokens[i], news[i])]
    BY <1>3
  <2> HIDE DEF val
  <2> QED BY <2>1
<1> DEFINE T == {i \in 0 .. n : f[i] = sol[i]}
<1> HIDE DEF val
<1>5. 0 .. n \subseteq T
  <2>1. ASSUME NEW i \in 0 .. n, i \in T, i # n
        PROVE  i + 1 \in T
    <3>1. i + 1 \in 1 .. n /\ (i + 1) - 1 = i
      BY <2>1
    <3>2. f[i + 1] = ReplaceToken(f[i], tokens[i + 1], news[i + 1])
      BY <1>4, <3>1
    <3>3. sol[i + 1] = ReplaceToken(sol[i], tokens[i + 1], news[i + 1])
      BY <3>1
    <3> QED BY <2>1, <3>1, <3>2, <3>3
  <2>2. 0 \in T
    BY <1>4
  <2> HIDE DEF T
  <2> QED BY <2>1, <2>2, UpTo
<1>6. f[n] = sol[n]
  <2>1. n \in T
    BY <1>5
  <2> QED BY <2>1
<1>7. f = val
  BY <1>3
<1> HIDE DEF Rec, T
<1> QED BY <1>2, <1>6, <1>7

\* Replacing a token of one symbol, piece by piece.
LEMMA ReplaceOne ==
  ASSUME NEW S, NEW s \in Seq(S), NEW a \in S, NEW new
  PROVE  ReplaceToken(s, <<a>>, new)
           = FlattenSeq([i \in DOMAIN s |-> IF s[i] = a THEN new ELSE <<s[i]>>])
<1>1. Len(s) \in Nat /\ DOMAIN s = 1 .. Len(s) /\ \A i \in 1 .. Len(s) : s[i] \in S
  BY LenProperties, ElementOfSeq
<1> DEFINE at == {i \in 1 .. Len(s) - 1 + 1 : SubSeq(s, i, i + 1 - 1) = <<a>>}
           within == {i \in DOMAIN s : \E j \in at : i \in j + 1 .. j + 1 - 1}
           pieces == [i \in DOMAIN s |->
                        IF i \in at THEN new ELSE IF i \in within THEN <<>> ELSE <<s[i]>>]
<1>2. \A i \in DOMAIN s : i \in at <=> s[i] = a
  <2>1. ASSUME NEW i \in DOMAIN s
        PROVE  SubSeq(s, i, i + 1 - 1) = <<s[i]>>
    <3>1. i \in 1 .. Len(s) /\ i + 1 - 1 = i
      BY <1>1
    <3> QED BY <3>1, SubSeqOne
  <2>2. 1 .. Len(s) - 1 + 1 = DOMAIN s
    BY <1>1
  <2> QED BY <2>1, <2>2
<1>3. within = {}
  <2> QED BY <1>1
<1>4. pieces = [i \in DOMAIN s |-> IF s[i] = a THEN new ELSE <<s[i]>>]
  <2> HIDE DEF at, within
  <2> QED BY <1>2, <1>3
<1>5. ReplaceToken(s, <<a>>, new) = FlattenSeq(pieces)
  <2>1. Len(<<a>>) = 1
    OBVIOUS
  <2> QED BY <2>1 DEF ReplaceToken
<1> HIDE DEF pieces
<1> QED BY <1>4, <1>5

\* Replacing a symbol by a symbol.
LEMMA ReplaceSymbol ==
  ASSUME NEW S, NEW s \in Seq(S), NEW a \in S, NEW b \in S
  PROVE  ReplaceToken(s, <<a>>, <<b>>) = [i \in DOMAIN s |-> IF s[i] = a THEN b ELSE s[i]]
<1> DEFINE r == [i \in DOMAIN s |-> IF s[i] = a THEN b ELSE s[i]]
<1>1. Len(s) \in Nat /\ DOMAIN s = 1 .. Len(s) /\ \A i \in 1 .. Len(s) : s[i] \in S
  BY LenProperties, ElementOfSeq
<1>2. r \in Seq(S) /\ DOMAIN r = DOMAIN s
  BY <1>1
<1>3. [i \in DOMAIN s |-> IF s[i] = a THEN <<b>> ELSE <<s[i]>>] = [i \in DOMAIN r |-> <<r[i]>>]
  OBVIOUS
<1>4. PICK new : new = <<b>>
  OBVIOUS
<1>5. ReplaceToken(s, <<a>>, new)
        = FlattenSeq([i \in DOMAIN s |-> IF s[i] = a THEN new ELSE <<s[i]>>])
  BY ReplaceOne
<1>6. FlattenSeq([i \in DOMAIN r |-> <<r[i]>>]) = r
  <2> HIDE DEF r
  <2> QED BY <1>2, FlattenSingles
<1> HIDE DEF r
<1> QED BY <1>3, <1>4, <1>5, <1>6 DEF r

\* A token of which no symbol of a text is the first is not replaced.
LEMMA ReplaceAbsent ==
  ASSUME NEW S, NEW s \in Seq(S), NEW token, NEW n \in Nat \ {0}, Len(token) = n, NEW new,
         Len(s) < n \/ \A i \in DOMAIN s : s[i] # token[1]
  PROVE  ReplaceToken(s, token, new) = s
<1>1. Len(s) \in Nat /\ DOMAIN s = 1 .. Len(s) /\ \A i \in 1 .. Len(s) : s[i] \in S
  BY LenProperties, ElementOfSeq
<1> DEFINE at == {i \in 1 .. Len(s) - n + 1 : SubSeq(s, i, i + n - 1) = token}
           within == {i \in DOMAIN s : \E j \in at : i \in j + 1 .. j + n - 1}
           pieces == [i \in DOMAIN s |->
                        IF i \in at THEN new ELSE IF i \in within THEN <<>> ELSE <<s[i]>>]
<1>2. at = {}
  <2>1. ASSUME NEW i \in 1 .. Len(s) - n + 1, SubSeq(s, i, i + n - 1) = token
        PROVE  FALSE
    <3>1. PICK m \in Int : m = i + n - 1
      BY <1>1
    <3>2. i \in DOMAIN s /\ m \in DOMAIN s /\ i \in Int /\ i <= m
      BY <1>1, <3>1
    <3>3. \A k \in i .. m : s[k] \in S
      BY <1>1, <3>2
    <3>4. /\ \A k \in 1 .. m - i + 1 : SubSeq(s, i, m)[k] = s[i + k - 1]
          /\ SubSeq(s, i, m) = token
      <4>1. \A k \in 1 .. m - i + 1 : SubSeq(s, i, m)[k] = s[i + k - 1]
        BY ONLY s \in Seq(S), i \in Int, m \in Int, <3>2, <3>3, SubSeqProperties
      <4>2. SubSeq(s, i, m) = token
        BY <2>1, <3>1
      <4> QED BY <4>1, <4>2
    <3>5. SubSeq(s, i, m)[1] = s[i]
      BY <3>2, <3>4
    <3> QED BY <1>1, <3>1, <3>2, <3>4, <3>5
  <2> QED BY <2>1
<1>3. within = {}
  BY <1>2
<1>4. pieces = [i \in DOMAIN s |-> <<s[i]>>]
  <2> HIDE DEF at, within
  <2> QED BY <1>2, <1>3
<1>5. ReplaceToken(s, token, new) = FlattenSeq(pieces)
  BY DEF ReplaceToken
<1> HIDE DEF pieces
<1> QED BY <1>4, <1>5, FlattenSingles

------------------------------------------------------------------------------
(* What the programs do to a text.                                         *)

Swap(t, a, b) == [i \in DOMAIN t |-> IF t[i] = a THEN b ELSE t[i]]

LEMMA SwapProperties ==
  ASSUME NEW t \in Text, NEW a \in Symbols, NEW b \in Symbols
  PROVE  /\ Swap(t, a, b) \in Text
         /\ DOMAIN Swap(t, a, b) = DOMAIN t
         /\ ReplaceToken(t, <<a>>, <<b>>) = Swap(t, a, b)
<1>1. Len(t) \in Nat /\ DOMAIN t = 1 .. Len(t)
  BY LenProperties DEF Text
<1>2. \A i \in 1 .. Len(t) : t[i] \in Symbols
  BY ElementOfSeq DEF Text
<1>3. Swap(t, a, b) \in Text
  BY <1>1, <1>2 DEF Text, Swap
<1>4. ReplaceToken(t, <<a>>, <<b>>) = Swap(t, a, b)
  <2>1. t \in Seq(Symbols)
    BY DEF Text
  <2>2. ReplaceToken(t, <<a>>, <<b>>) = [i \in DOMAIN t |-> IF t[i] = a THEN b ELSE t[i]]
    BY ONLY a \in Symbols, b \in Symbols, <2>1, ReplaceSymbol
  <2> QED BY ONLY <2>2 DEF Swap
<1> QED BY <1>3, <1>4 DEF Swap

\* Replacing by a table of six.
LEMMA ReplaceBySix ==
  \A U, D, s, t1, t2, t3, t4, t5, t6 :
    /\ Len(U) = 6
    /\ t1 = ReplaceToken(s, U[1], D[1])
    /\ t2 = ReplaceToken(t1, U[2], D[2])
    /\ t3 = ReplaceToken(t2, U[3], D[3])
    /\ t4 = ReplaceToken(t3, U[4], D[4])
    /\ t5 = ReplaceToken(t4, U[5], D[5])
    /\ t6 = ReplaceToken(t5, U[6], D[6])
    => Replace(U, D, s) = t6
<1>1. ASSUME NEW U, NEW D, Len(U) = 6, NEW s,
             NEW t1, t1 = ReplaceToken(s, U[1], D[1]),
             NEW t2, t2 = ReplaceToken(t1, U[2], D[2]),
             NEW t3, t3 = ReplaceToken(t2, U[3], D[3]),
             NEW t4, t4 = ReplaceToken(t3, U[4], D[4]),
             NEW t5, t5 = ReplaceToken(t4, U[5], D[5]),
             NEW t6, t6 = ReplaceToken(t5, U[6], D[6])
      PROVE  Replace(U, D, s) = t6
  <2> DEFINE sol == [k \in 0 .. 6 |-> CASE k = 0 -> s [] k = 1 -> t1 [] k = 2 -> t2
                       [] k = 3 -> t3 [] k = 4 -> t4 [] k = 5 -> t5 [] k = 6 -> t6]
  <2>1. /\ sol[0] = s /\ sol[1] = t1 /\ sol[2] = t2 /\ sol[3] = t3
        /\ sol[4] = t4 /\ sol[5] = t5 /\ sol[6] = t6
    OBVIOUS
  <2> HIDE DEF sol
  <2>2. ASSUME NEW i \in 1 .. 6
        PROVE  sol[i] = ReplaceToken(sol[i - 1], U[i], D[i])
    <3>0. i = 1 \/ i = 2 \/ i = 3 \/ i = 4 \/ i = 5 \/ i = 6
      OBVIOUS
    <3>1. CASE i = 1
      <4>1. i - 1 = 0
        BY <3>1
      <4> QED BY <1>1, <2>1, <3>1, <4>1, Zenon
    <3>2. CASE i = 2
      <4>1. i - 1 = 1
        BY <3>2
      <4> QED BY <1>1, <2>1, <3>2, <4>1, Zenon
    <3>3. CASE i = 3
      <4>1. i - 1 = 2
        BY <3>3
      <4> QED BY <1>1, <2>1, <3>3, <4>1, Zenon
    <3>4. CASE i = 4
      <4>1. i - 1 = 3
        BY <3>4
      <4> QED BY <1>1, <2>1, <3>4, <4>1, Zenon
    <3>5. CASE i = 5
      <4>1. i - 1 = 4
        BY <3>5
      <4> QED BY <1>1, <2>1, <3>5, <4>1, Zenon
    <3>6. CASE i = 6
      <4>1. i - 1 = 5
        BY <3>6
      <4> QED BY <1>1, <2>1, <3>6, <4>1, Zenon
    <3> QED BY <3>0, <3>1, <3>2, <3>3, <3>4, <3>5, <3>6
  <2>3. PICK n \in Nat : n = 6
    OBVIOUS
  <2>4. PICK so : so = sol
    OBVIOUS
  <2>5. Len(U) = n /\ so[0] = s
    BY <1>1, <2>1, <2>3, <2>4
  <2>6. \A i \in 1 .. n : so[i] = ReplaceToken(so[i - 1], U[i], D[i])
    BY <2>2, <2>3, <2>4
  <2>7. Replace(U, D, s) = so[n]
    BY <2>5, <2>6, ReplaceBySteps
  <2> QED BY <2>1, <2>3, <2>4, <2>7
<1> QED BY <1>1

\* Encode makes a percent sign of every special character.
LEMMA EncodeMasks ==
  ASSUME NEW s \in Text
  PROVE  Encode(s) = Masked(s)
<1>0. /\ "%" \in Special /\ ":" \in Special /\ "[" \in Special
      /\ "]" \in Special /\ "," \in Special /\ "quote" \in Special
  BY DEF Special
<1>01. \A t \in Text, a, b \in Symbols :
       /\ Swap(t, a, b) \in Text
       /\ DOMAIN Swap(t, a, b) = DOMAIN t
       /\ ReplaceToken(t, <<a>>, <<b>>) = Swap(t, a, b)
  BY SwapProperties
<1>1. \A t \in Text : \A a \in Special : \A b \in Special : \E r \in Text :
        /\ DOMAIN r = DOMAIN t
        /\ r = Swap(t, a, b)
        /\ ReplaceToken(t, <<a>>, <<b>>) = r
  <2> TAKE t \in Text
  <2> TAKE a \in Special
  <2> TAKE b \in Special
  <2>1. a \in Symbols /\ b \in Symbols
    BY SymbolsAssumption
  <2>2. /\ Swap(t, a, b) \in Text
        /\ DOMAIN Swap(t, a, b) = DOMAIN t
        /\ ReplaceToken(t, <<a>>, <<b>>) = Swap(t, a, b)
    BY <2>1, <1>01, Zenon
  <2> QED BY <2>2
<1>2. PICK t1 \in Text :
        /\ DOMAIN t1 = DOMAIN s
        /\ t1 = Swap(s, "%", ":")
        /\ ReplaceToken(s, <<"%">>, <<":">>) = t1
  BY <1>0, <1>1, Zenon
<1>3. PICK t2 \in Text :
        /\ DOMAIN t2 = DOMAIN t1
        /\ t2 = Swap(t1, ":", "[")
        /\ ReplaceToken(t1, <<":">>, <<"[">>) = t2
  BY <1>0, <1>1, <1>2, Zenon
<1>4. PICK t3 \in Text :
        /\ DOMAIN t3 = DOMAIN t2
        /\ t3 = Swap(t2, "[", "]")
        /\ ReplaceToken(t2, <<"[">>, <<"]">>) = t3
  BY <1>0, <1>1, <1>3, Zenon
<1>5. PICK t4 \in Text :
        /\ DOMAIN t4 = DOMAIN t3
        /\ t4 = Swap(t3, "]", ",")
        /\ ReplaceToken(t3, <<"]">>, <<",">>) = t4
  BY <1>0, <1>1, <1>4, Zenon
<1>6. PICK t5 \in Text :
        /\ DOMAIN t5 = DOMAIN t4
        /\ t5 = Swap(t4, ",", "quote")
        /\ ReplaceToken(t4, <<",">>, <<"quote">>) = t5
  BY <1>0, <1>1, <1>5, Zenon
<1>7. PICK t6 \in Text :
        /\ DOMAIN t6 = DOMAIN t5
        /\ t6 = Swap(t5, "quote", "%")
        /\ ReplaceToken(t5, <<"quote">>, <<"%">>) = t6
  BY <1>0, <1>1, <1>6, Zenon
<1>8. Encode(s) = t6
  <2> DEFINE U == ENCODE_UNENCODED_TOKEN
             D == DECODE_UNENCODED_TOKEN
  <2>1. /\ U[1] = <<"%">> /\ U[2] = <<":">> /\ U[3] = <<"[">>
        /\ U[4] = <<"]">> /\ U[5] = <<",">> /\ U[6] = <<"quote">> /\ Len(U) = 6
    BY DEF ENCODE_UNENCODED_TOKEN
  <2>2. /\ D[1] = <<":">> /\ D[2] = <<"[">> /\ D[3] = <<"]">>
        /\ D[4] = <<",">> /\ D[5] = <<"quote">> /\ D[6] = <<"%">>
    BY DEF DECODE_UNENCODED_TOKEN
  <2> HIDE DEF U, D
  <2>3. /\ t1 = ReplaceToken(s, U[1], D[1]) /\ t2 = ReplaceToken(t1, U[2], D[2])
        /\ t3 = ReplaceToken(t2, U[3], D[3]) /\ t4 = ReplaceToken(t3, U[4], D[4])
        /\ t5 = ReplaceToken(t4, U[5], D[5]) /\ t6 = ReplaceToken(t5, U[6], D[6])
    BY ONLY <2>1, <2>2, <1>2, <1>3, <1>4, <1>5, <1>6, <1>7
  <2>4. Replace(U, D, s) = t6
    BY ONLY <2>1, <2>3, ReplaceBySix
  <2> QED BY <2>4 DEF Encode, U, D
<1>9. t6 = Masked(s)
  <2>1. DOMAIN t6 = DOMAIN s
    BY <1>2, <1>3, <1>4, <1>5, <1>6, <1>7
  <2>2. ASSUME NEW i \in DOMAIN s
        PROVE  t6[i] = Masked(s)[i]
    <3>1. t1[i] = IF s[i] = "%" THEN ":" ELSE s[i]
      BY <1>2 DEF Swap
    <3>2. t2[i] = IF t1[i] = ":" THEN "[" ELSE t1[i]
      BY <1>2, <1>3 DEF Swap
    <3>3. t3[i] = IF t2[i] = "[" THEN "]" ELSE t2[i]
      BY <1>2, <1>3, <1>4 DEF Swap
    <3>4. t4[i] = IF t3[i] = "]" THEN "," ELSE t3[i]
      BY <1>2, <1>3, <1>4, <1>5 DEF Swap
    <3>5. t5[i] = IF t4[i] = "," THEN "quote" ELSE t4[i]
      BY <1>2, <1>3, <1>4, <1>5, <1>6 DEF Swap
    <3>6. t6[i] = IF t5[i] = "quote" THEN "%" ELSE t5[i]
      BY <1>2, <1>3, <1>4, <1>5, <1>6, <1>7 DEF Swap
    <3>7. Masked(s)[i] = IF s[i] \in Special THEN "%" ELSE s[i]
      BY DEF Masked
    <3> QED BY <3>1, <3>2, <3>3, <3>4, <3>5, <3>6, <3>7 DEF Special
  <2>3. t6 = [i \in DOMAIN t6 |-> t6[i]]
    BY <1>7 DEF Swap
  <2> QED BY <2>1, <2>2, <2>3 DEF Masked
<1> QED BY <1>8, <1>9

\* Decode leaves a text alone that has no percent sign, or but one symbol.
LEMMA DecodeKeeps ==
  ASSUME NEW s \in Text, Len(s) < 2 \/ \A i \in DOMAIN s : s[i] # "%"
  PROVE  Decode(s) = s
<1> DEFINE U == DECODE_ENCODED_TOKEN
           D == DECODE_UNENCODED_TOKEN
<1>1. Len(U) = 6 /\ \A i \in 1 .. 6 : Len(U[i]) = 2 /\ U[i][1] = "%"
  BY DEF DECODE_ENCODED_TOKEN
<1> HIDE DEF U, D
<1>2. ASSUME NEW i \in 1 .. 6
      PROVE  s = ReplaceToken(s, U[i], D[i])
  <2>1. PICK token, new : token = U[i] /\ new = D[i]
    OBVIOUS
  <2>2. 2 \in Nat \ {0} /\ Len(token) = 2
    BY <1>1, <2>1
  <2>3. Len(s) < 2 \/ \A j \in DOMAIN s : s[j] # token[1]
    BY <1>1, <2>1
  <2>4. ReplaceToken(s, token, new) = s
    BY <2>2, <2>3, ReplaceAbsent, Zenon DEF Text
  <2> QED BY <2>1, <2>4
<1>3. /\ s = ReplaceToken(s, U[1], D[1]) /\ s = ReplaceToken(s, U[2], D[2])
      /\ s = ReplaceToken(s, U[3], D[3]) /\ s = ReplaceToken(s, U[4], D[4])
      /\ s = ReplaceToken(s, U[5], D[5]) /\ s = ReplaceToken(s, U[6], D[6])
  <2>1. /\ 1 \in 1 .. 6 /\ 2 \in 1 .. 6 /\ 3 \in 1 .. 6
        /\ 4 \in 1 .. 6 /\ 5 \in 1 .. 6 /\ 6 \in 1 .. 6
    OBVIOUS
  <2> QED BY <1>2, <2>1
<1>4. Replace(U, D, s) = s
  <2>1. Len(U) = 6
    BY <1>1
  <2> QED BY <2>1, <1>3, ReplaceBySix
<1> QED BY <1>4 DEF Decode, U, D

------------------------------------------------------------------------------
(* Cutting and trimming, place by place.                                   *)

\* A text is read by its places, and two texts are equal place by place.
LEMMA TextFacts ==
  ASSUME NEW s \in Text
  PROVE  /\ Len(s) \in Nat
         /\ DOMAIN s = 1 .. Len(s)
         /\ \A i \in 1 .. Len(s) : s[i] \in Symbols
BY LenProperties, ElementOfSeq DEF Text

LEMMA TextEqual ==
  ASSUME NEW s \in Text, NEW t \in Text, Len(s) = Len(t),
         \A i \in 1 .. Len(s) : s[i] = t[i]
  PROVE  s = t
BY SeqEqual DEF Text

\* What the places from a to b hold.
LEMMA CutFacts ==
  ASSUME NEW s \in Text, NEW a \in Nat, NEW b \in Nat, 1 <= a, a <= b + 1, b <= Len(s)
  PROVE  /\ SubSeq(s, a, b) \in Text
         /\ Len(SubSeq(s, a, b)) = b - a + 1
         /\ \A i \in 1 .. b - a + 1 : SubSeq(s, a, b)[i] = s[a + i - 1]
<1>1. Len(s) \in Nat /\ \A i \in a .. b : s[i] \in Symbols
  BY TextFacts
<1>2. a \in Int /\ b \in Int
  OBVIOUS
<1>3. /\ SubSeq(s, a, b) \in Seq(Symbols)
      /\ Len(SubSeq(s, a, b)) = IF a <= b THEN b - a + 1 ELSE 0
      /\ \A i \in 1 .. b - a + 1 : SubSeq(s, a, b)[i] = s[a + i - 1]
  BY <1>1, <1>2, SubSeqProperties
<1>4. Len(SubSeq(s, a, b)) = b - a + 1
  BY <1>3
<1> QED BY <1>3, <1>4 DEF Text

\* What the places of two texts joined hold, and of a text turned round.
LEMMA JoinFacts ==
  ASSUME NEW s \in Text, NEW t \in Text
  PROVE  /\ s \o t \in Text
         /\ Len(s \o t) = Len(s) + Len(t)
         /\ \A i \in 1 .. Len(s) : (s \o t)[i] = s[i]
         /\ \A i \in 1 .. Len(t) : (s \o t)[Len(s) + i] = t[i]
<1>1. /\ s \o t \in Seq(Symbols)
      /\ Len(s \o t) = Len(s) + Len(t)
      /\ \A i \in 1 .. Len(s) + Len(t) :
           (s \o t)[i] = IF i <= Len(s) THEN s[i] ELSE t[i - Len(s)]
  BY ConcatProperties DEF Text
<1>2. Len(s) \in Nat /\ Len(t) \in Nat
  BY TextFacts
<1> HIDE DEF Text
<1>3. \A i \in 1 .. Len(s) : (s \o t)[i] = s[i]
  BY <1>1, <1>2
<1>4. ASSUME NEW i \in 1 .. Len(t)
      PROVE  (s \o t)[Len(s) + i] = t[i]
  <2>1. Len(s) + i \in 1 .. Len(s) + Len(t) /\ ~(Len(s) + i <= Len(s)) /\ Len(s) + i - Len(s) = i
    BY <1>2
  <2> QED BY <1>1, <2>1
<1> QED BY <1>1, <1>3, <1>4 DEF Text

LEMMA ReverseFacts ==
  ASSUME NEW s \in Text
  PROVE  /\ Reverse(s) \in Text
         /\ Len(Reverse(s)) = Len(s)
         /\ \A i \in 1 .. Len(s) : Reverse(s)[i] = s[Len(s) - i + 1]
<1>1. Len(s) \in Nat /\ \A i \in 1 .. Len(s) : s[Len(s) - i + 1] \in Symbols
  BY TextFacts
<1>2. Reverse(s) = [i \in 1 .. Len(s) |-> s[Len(s) - i + 1]]
  BY DEF Reverse
<1> QED BY <1>1, <1>2 DEF Text

\* SkipSpaces begins with the first symbol that is no space.
LEMMA SkipFrom ==
  ASSUME NEW s \in Text, NEW k \in 1 .. Len(s), s[k] # "space",
         \A j \in 1 .. Len(s) : j < k => s[j] = "space"
  PROVE  SkipSpaces(s) = SubSeq(s, k, Len(s))
<1> DEFINE I == {i \in 1 .. Len(s) : s[i] # "space"}
<1>1. Len(s) \in Nat
  BY TextFacts
<1>2. k \in I /\ I \subseteq Nat
  BY <1>1
<1>3. Min(I) \in I /\ \A x \in I : Min(I) <= x
  <2> HIDE DEF I
  <2> QED BY <1>2, MinProperties
<1>4. Min(I) = k
  <2>1. PICK m : m = Min(I)
    OBVIOUS
  <2>2. m \in 1 .. Len(s) /\ s[m] # "space" /\ m <= k
    BY <1>2, <1>3, <2>1
  <2> QED BY <1>1, <2>1, <2>2
<1>5. FirstNonSpace(s) = Min(I)
  BY <1>2 DEF FirstNonSpace, SelectInSeq
<1> HIDE DEF I
<1>6. FirstNonSpace(s) = k /\ k # 0
  BY <1>4, <1>5
<1> QED BY <1>6 DEF SkipSpaces

\* Of a text of spaces, nothing is left.
LEMMA SkipAll ==
  ASSUME NEW s \in Text, \A j \in 1 .. Len(s) : s[j] = "space"
  PROVE  SkipSpaces(s) = <<>>
BY DEF SkipSpaces, FirstNonSpace, SelectInSeq

\* A text is all spaces, or has a first and a last symbol that is no space.
LEMMA FirstAndLast ==
  ASSUME NEW s \in Text
  PROVE  \/ \A j \in 1 .. Len(s) : s[j] = "space"
         \/ \E a, b \in 1 .. Len(s) :
              /\ s[a] # "space" /\ s[b] # "space" /\ a <= b
              /\ \A j \in 1 .. Len(s) : j < a \/ b < j => s[j] = "space"
<1> DEFINE I == {i \in 1 .. Len(s) : s[i] # "space"}
           J == {Len(s) - i : i \in I}
<1>1. Len(s) \in Nat
  BY TextFacts
<1> SUFFICES ASSUME NEW x \in I
             PROVE  \E a, b \in 1 .. Len(s) :
                      /\ s[a] # "space" /\ s[b] # "space" /\ a <= b
                      /\ \A j \in 1 .. Len(s) : j < a \/ b < j => s[j] = "space"
  OBVIOUS
<1>2. PICK a \in I : \A y \in I : a <= y
  <2>1. I \subseteq Nat /\ I # {}
    BY <1>1
  <2> HIDE DEF I
  <2> QED BY <2>1, MinProperties
<1>3. PICK c \in J : \A y \in J : c <= y
  <2>1. J \subseteq Nat /\ J # {}
    BY <1>1
  <2> HIDE DEF J
  <2> QED BY <2>1, MinProperties
<1>4. PICK b \in I : c = Len(s) - b
  BY <1>3
<1>5. \A y \in I : y <= b
  <2> TAKE y \in I
  <2>1. c <= Len(s) - y
    BY <1>3
  <2> QED BY <1>1, <1>4, <2>1
<1>6. a <= b /\ a \in 1 .. Len(s) /\ b \in 1 .. Len(s) /\ s[a] # "space" /\ s[b] # "space"
  BY <1>2, <1>4
<1>7. \A j \in 1 .. Len(s) : j < a \/ b < j => s[j] = "space"
  BY <1>1, <1>2, <1>5, <1>6
<1> QED BY <1>6, <1>7

\* TrimSpace takes what is between them.
LEMMA TrimFrom ==
  ASSUME NEW s \in Text, NEW a \in 1 .. Len(s), NEW b \in 1 .. Len(s),
         s[a] # "space", s[b] # "space", a <= b,
         \A j \in 1 .. Len(s) : j < a \/ b < j => s[j] = "space"
  PROVE  TrimSpace(s) = SubSeq(s, a, b)
<1>1. PICK n \in Nat : n = Len(s)
  BY TextFacts
<1>2. PICK u : u = SkipSpaces(s)
  OBVIOUS
<1>3. u \in Text /\ Len(u) = n - a + 1 /\ \A i \in 1 .. n - a + 1 : u[i] = s[a + i - 1]
  <2>1. u = SubSeq(s, a, n)
    BY <1>1, <1>2, SkipFrom
  <2>2. a \in Nat /\ 1 <= a /\ a <= n + 1 /\ n <= Len(s)
    BY <1>1
  <2> QED BY <2>1, <2>2, CutFacts
<1>4. PICK v : v = Reverse(u)
  OBVIOUS
<1>5. v \in Text /\ Len(v) = n - a + 1 /\ \A i \in 1 .. n - a + 1 : v[i] = s[n - i + 1]
  <2>1. PICK m : m = Len(u)
    OBVIOUS
  <2>2. m = n - a + 1
    BY <1>3, <2>1
  <2>3. v \in Text /\ Len(v) = m /\ \A i \in 1 .. m : v[i] = u[m - i + 1]
    BY <1>3, <1>4, <2>1, ReverseFacts
  <2>4. ASSUME NEW i \in 1 .. m
        PROVE  u[m - i + 1] = s[n - i + 1]
    <3>1. PICK k : k = m - i + 1
      OBVIOUS
    <3>2. k \in 1 .. n - a + 1 /\ a + k - 1 = n - i + 1
      BY <1>1, <2>2, <3>1
    <3> QED BY <1>3, <3>1, <3>2
  <2> QED BY <2>2, <2>3, <2>4
<1>6. PICK w : w = SkipSpaces(v)
  OBVIOUS
<1>7. w \in Text /\ Len(w) = b - a + 1 /\ \A i \in 1 .. b - a + 1 : w[i] = s[b - i + 1]
  <2>1. PICK k \in Nat : k = n - b + 1
    BY <1>1
  <2>2. k \in 1 .. Len(v) /\ v[k] # "space"
    BY <1>1, <1>5, <2>1
  <2>3. \A j \in 1 .. Len(v) : j < k => v[j] = "space"
    <3>1. ASSUME NEW j \in 1 .. Len(v), j < k
          PROVE  v[j] = "space"
      <4>1. PICK i : i = n - j + 1
        OBVIOUS
      <4>2. i \in 1 .. Len(s) /\ b < i /\ v[j] = s[i]
        BY <1>1, <1>5, <2>1, <3>1, <4>1
      <4> QED BY <4>2
    <3> QED BY <3>1
  <2>4. w = SubSeq(v, k, Len(v))
    BY <1>5, <1>6, <2>2, <2>3, SkipFrom
  <2>5. PICK m \in Nat : m = Len(v)
    BY <1>5, TextFacts
  <2>6. 1 <= k /\ k <= m + 1 /\ m <= Len(v) /\ m - k + 1 = b - a + 1
    BY <1>1, <1>5, <2>1, <2>2, <2>5
  <2>7. w \in Text /\ Len(w) = b - a + 1 /\ \A i \in 1 .. b - a + 1 : w[i] = v[k + i - 1]
    BY <1>5, <2>4, <2>5, <2>6, CutFacts
  <2>8. ASSUME NEW i \in 1 .. b - a + 1
        PROVE  v[k + i - 1] = s[b - i + 1]
    <3>1. k + i - 1 \in 1 .. n - a + 1 /\ n - (k + i - 1) + 1 = b - i + 1
      BY <1>1, <2>1
    <3> QED BY <1>5, <3>1
  <2> QED BY <2>7, <2>8
<1>8. TrimSpace(s) = Reverse(w)
  BY <1>2, <1>4, <1>6 DEF TrimSpace
<1>9. PICK x : x = Reverse(w)
  OBVIOUS
<1>10. x \in Text /\ Len(x) = b - a + 1 /\ \A i \in 1 .. b - a + 1 : x[i] = s[a + i - 1]
  <2>1. PICK m : m = Len(w)
    OBVIOUS
  <2>2. m = b - a + 1
    BY <1>7, <2>1
  <2>3. x \in Text /\ Len(x) = m /\ \A i \in 1 .. m : x[i] = w[m - i + 1]
    BY <1>7, <1>9, <2>1, ReverseFacts
  <2>4. ASSUME NEW i \in 1 .. m
        PROVE  w[m - i + 1] = s[a + i - 1]
    <3>1. PICK k : k = m - i + 1
      OBVIOUS
    <3>2. k \in 1 .. b - a + 1 /\ b - k + 1 = a + i - 1
      BY <2>2, <3>1
    <3> QED BY <1>7, <3>1, <3>2
  <2> QED BY <2>2, <2>3, <2>4
<1>11. PICK y : y = SubSeq(s, a, b)
  OBVIOUS
<1>12. y \in Text /\ Len(y) = b - a + 1 /\ \A i \in 1 .. b - a + 1 : y[i] = s[a + i - 1]
  <2>1. a \in Nat /\ b \in Nat /\ 1 <= a /\ a <= b + 1 /\ b <= Len(s)
    BY <1>1
  <2> QED BY <1>11, <2>1, CutFacts
<1>13. x = y
  BY <1>10, <1>12, TextEqual
<1> QED BY <1>8, <1>9, <1>11, <1>13

LEMMA TrimAll ==
  ASSUME NEW s \in Text, \A j \in 1 .. Len(s) : s[j] = "space"
  PROVE  TrimSpace(s) = <<>>
<1>1. SkipSpaces(s) = <<>>
  BY SkipAll
<1>2. <<>> \in Text /\ Len(<<>>) = 0
  BY EmptySeq DEF Text
<1>3. Reverse(<<>>) \in Text /\ Len(Reverse(<<>>)) = 0
  BY <1>2, ReverseFacts
<1>4. Reverse(<<>>) = <<>>
  BY <1>3, EmptySeq DEF Text
<1>5. SkipSpaces(<<>>) = <<>>
  BY <1>2, SkipAll
<1> QED BY <1>1, <1>4, <1>5 DEF TrimSpace

------------------------------------------------------------------------------
(* Frames, and what their readers find in them.                            *)

\* The frame "/cmd ..." names its command, which ends at the first space.
LEMMA CommandOf ==
  ASSUME NEW f \in Text, NEW c \in Symbols, 2 <= Len(f), f[1] = "/", f[2] = c, c # "space",
         Len(f) = 2 \/ f[3] = "space"
  PROVE  /\ IsCommand(f)
         /\ Cmd(f) = <<c>>
         /\ Rest(f) = SubSeq(f, 3, Len(f))
<1>1. Len(f) \in Nat
  BY TextFacts
<1>2. IsCommand(f)
  <2>1. f # <<>>
    BY <1>1
  <2> QED BY <2>1 DEF IsCommand
<1>3. EndOfWord(f, 2) = 3
  <2> DEFINE spaces == {j \in 2 .. Len(f) : f[j] = "space"}
  <2>1. CASE spaces = {}
    <3>1. ASSUME Len(f) # 2
          PROVE  FALSE
      <4>1. 3 \in 2 .. Len(f)
        <5>1. PICK n \in Nat : n = Len(f)
          BY <1>1
        <5>2. 2 <= n /\ n # 2
          BY <3>1, <5>1
        <5> QED BY <5>1, <5>2
      <4>2. f[3] = "space"
        BY <3>1
      <4> QED BY <2>1, <4>1, <4>2
    <3>2. EndOfWord(f, 2) = Len(f) + 1
      BY <2>1 DEF EndOfWord
    <3> QED BY <3>1, <3>2
  <2>2. CASE spaces # {}
    <3>1. 3 \in spaces /\ \A k \in spaces : 3 <= k
      BY <1>1, <2>2
    <3>2. \A j \in spaces : (\A k \in spaces : j <= k) => j = 3
      <4>1. \A j \in spaces : j \in Int
        BY <1>1
      <4> HIDE DEF spaces
      <4> QED BY <3>1, <4>1
    <3>3. EndOfWord(f, 2) = CHOOSE j \in spaces : \A k \in spaces : j <= k
      BY <2>2 DEF EndOfWord
    <3> HIDE DEF spaces
    <3> QED BY <3>1, <3>2, <3>3
  <2> QED BY <2>1, <2>2
<1>4. Cmd(f) = SubSeq(f, 2, 2)
  <2>1. 3 - 1 = 2
    OBVIOUS
  <2> QED BY <1>2, <1>3, <2>1 DEF Cmd
<1>5. SubSeq(f, 2, 2) = <<c>>
  <2>1. 2 \in 1 .. Len(f)
    BY <1>1
  <2> QED BY <2>1, SubSeqOne DEF Text
<1>6. Rest(f) = SubSeq(f, 3, Len(f))
  BY <1>3 DEF Rest
<1> QED BY <1>2, <1>4, <1>5, <1>6

\* Encoding keeps the spaces where they are and leaves no bracket.
LEMMA MaskedFacts ==
  ASSUME NEW s \in Text
  PROVE  /\ Masked(s) \in Text
         /\ Len(Masked(s)) = Len(s)
         /\ \A i \in 1 .. Len(s) :
              /\ Masked(s)[i] = IF s[i] \in Special THEN "%" ELSE s[i]
              /\ Masked(s)[i] = "space" <=> s[i] = "space"
              /\ Masked(s)[i] # "]"
<1>1. /\ Len(s) \in Nat
      /\ DOMAIN s = 1 .. Len(s)
      /\ \A i \in 1 .. Len(s) : s[i] \in Symbols
  BY TextFacts
<1>2. "%" \in Symbols
  BY SymbolsAssumption DEF Special
<1>3. Masked(s) = [i \in 1 .. Len(s) |-> IF s[i] \in Special THEN "%" ELSE s[i]]
  BY <1>1 DEF Masked
<1>4. Masked(s) \in Text /\ Len(Masked(s)) = Len(s)
  BY <1>1, <1>2, <1>3 DEF Text
<1>5. \A i \in 1 .. Len(s) : Masked(s)[i] = IF s[i] \in Special THEN "%" ELSE s[i]
  BY <1>3
<1>6. \A i \in 1 .. Len(s) : Masked(s)[i] = "space" <=> s[i] = "space"
  BY <1>5 DEF Special
<1>7. \A i \in 1 .. Len(s) : Masked(s)[i] # "]"
  BY <1>5 DEF Special
<1> QED BY <1>4, <1>5, <1>6, <1>7

LEMMA OneSymbol ==
  ASSUME NEW c \in Symbols
  PROVE  /\ <<c>> \in Text /\ Len(<<c>>) = 1 /\ <<c>>[1] = c
BY DEF Text

LEMMA JoinSymbol ==
  ASSUME NEW s \in Text, NEW c \in Symbols
  PROVE  /\ s \o <<c>> \in Text
         /\ Len(s \o <<c>>) = Len(s) + 1
         /\ \A i \in 1 .. Len(s) : (s \o <<c>>)[i] = s[i]
         /\ (s \o <<c>>)[Len(s) + 1] = c
<1>1. PICK t : t = <<c>>
  OBVIOUS
<1>2. t \in Text /\ Len(t) = 1 /\ t[1] = c
  BY <1>1, OneSymbol
<1>3. /\ s \o t \in Text
      /\ Len(s \o t) = Len(s) + Len(t)
      /\ \A i \in 1 .. Len(s) : (s \o t)[i] = s[i]
      /\ \A i \in 1 .. Len(t) : (s \o t)[Len(s) + i] = t[i]
  BY <1>2, JoinFacts
<1>4. (s \o t)[Len(s) + 1] = c
  <2>1. 1 \in 1 .. Len(t)
    BY <1>2
  <2> QED BY <1>2, <1>3, <2>1
<1> QED BY <1>1, <1>2, <1>3, <1>4

\* One word that needs no encoding is encoded as it is.
LEMMA EncodeWord ==
  ASSUME NEW c \in Symbols, c \notin Special
  PROVE  Encode(<<c>>) = <<c>>
<1>1. PICK s : s = <<c>>
  OBVIOUS
<1>2. s \in Text /\ Len(s) = 1 /\ s[1] = c
  BY <1>1, OneSymbol
<1>3. Masked(s) \in Text /\ Len(Masked(s)) = 1 /\ \A i \in 1 .. 1 : Masked(s)[i] = s[i]
  BY <1>2, MaskedFacts
<1>4. Masked(s) = s
  BY <1>2, <1>3, TextEqual
<1> QED BY <1>1, <1>2, <1>4, EncodeMasks

\* What the server makes of what sendCommandToServ sends.
LEMMA SentFrame ==
  ASSUME NEW c \in Symbols, c \notin Special, c # "space", NEW e \in Text
  PROVE  /\ Cmd(TrimSpace(Sent(<<c>>, e))) = <<c>>
         /\ Body(TrimSpace(Sent(<<c>>, e))) = TrimSpace(Masked(e))
<1>1. PICK m : m = Masked(e)
  OBVIOUS
<1>2. m \in Text
  BY <1>1, MaskedFacts
<1>3. PICK l \in Nat : l = Len(m)
  BY <1>2, TextFacts
<1>4. PICK g : g = Sent(<<c>>, e)
  OBVIOUS
<1>5. /\ g \in Text /\ Len(g) = l + 3
      /\ g[1] = "/" /\ g[2] = c /\ g[3] = "space"
      /\ \A i \in 1 .. l : g[i + 3] = m[i]
  <2>1. PICK p : p = <<"/">>
    OBVIOUS
  <2>2. "/" \in Symbols /\ "space" \in Symbols
    BY SymbolsAssumption
  <2>3. p \in Text /\ Len(p) = 1 /\ p[1] = "/"
    BY <2>1, <2>2, OneSymbol
  <2>4. PICK x : x = p \o <<c>>
    OBVIOUS
  <2>5. x \in Text /\ Len(x) = 2 /\ x[1] = "/" /\ x[2] = c
    <3>1. /\ x \in Text /\ Len(x) = Len(p) + 1
          /\ \A i \in 1 .. Len(p) : x[i] = p[i]
          /\ x[Len(p) + 1] = c
      BY <2>3, <2>4, JoinSymbol
    <3> QED BY <2>3, <3>1
  <2>6. PICK y : y = x \o <<"space">>
    OBVIOUS
  <2>7. y \in Text /\ Len(y) = 3 /\ y[1] = "/" /\ y[2] = c /\ y[3] = "space"
    <3>1. /\ y \in Text /\ Len(y) = Len(x) + 1
          /\ \A i \in 1 .. Len(x) : y[i] = x[i]
          /\ y[Len(x) + 1] = "space"
      BY <2>2, <2>5, <2>6, JoinSymbol
    <3> QED BY <2>5, <3>1
  <2>8. g = y \o m
    <3>1. Encode(<<c>>) = <<c>> /\ Encode(e) = m
      BY <1>1, EncodeWord, EncodeMasks
    <3> QED BY <1>4, <2>1, <2>4, <2>6, <3>1 DEF Sent
  <2>9. /\ g \in Text /\ Len(g) = 3 + l
        /\ \A i \in 1 .. 3 : g[i] = y[i]
        /\ \A i \in 1 .. l : g[3 + i] = m[i]
    <3>1. /\ g \in Text /\ Len(g) = Len(y) + Len(m)
          /\ \A i \in 1 .. Len(y) : g[i] = y[i]
          /\ \A i \in 1 .. Len(m) : g[Len(y) + i] = m[i]
      BY <1>2, <2>7, <2>8, JoinFacts
    <3> QED BY <1>3, <2>7, <3>1
  <2>10. \A i \in 1 .. l : g[i + 3] = m[i]
    BY <2>9
  <2> QED BY <2>7, <2>9, <2>10
<1>6. PICK f : f = TrimSpace(g)
  OBVIOUS
<1>7. CASE \A j \in 1 .. l : m[j] = "space"
  <2>1. \A j \in 1 .. l + 3 : 2 < j => g[j] = "space"
    <3> TAKE j \in 1 .. l + 3
    <3> HAVE 2 < j
    <3>1. j = 3 \/ (j - 3 \in 1 .. l /\ (j - 3) + 3 = j)
      OBVIOUS
    <3> QED BY <1>5, <1>7, <3>1
  <2>2. f = SubSeq(g, 1, 2)
    <3>1. /\ 1 \in 1 .. Len(g) /\ 2 \in 1 .. Len(g) /\ 1 <= 2
          /\ g[1] # "space" /\ g[2] # "space"
          /\ \A j \in 1 .. Len(g) : j < 1 \/ 2 < j => g[j] = "space"
      BY <1>5, <2>1
    <3> QED BY <1>5, <1>6, <3>1, TrimFrom
  <2>3. f \in Text /\ Len(f) = 2 /\ f[1] = "/" /\ f[2] = c
    BY <1>5, <2>2, CutFacts
  <2>4. Cmd(f) = <<c>> /\ IsCommand(f) /\ Rest(f) = SubSeq(f, 3, 2)
    BY <2>3, CommandOf
  <2>5. Rest(f) = <<>>
    BY <2>4, SubSeqEmpty
  <2>6. Body(f) = <<>>
    <3>1. <<>> \in Text /\ Len(<<>>) = 0
      BY EmptySeq DEF Text
    <3>2. SkipSpaces(<<>>) = <<>>
      BY <3>1, SkipAll
    <3> QED BY <2>4, <2>5, <3>2 DEF Body
  <2>7. TrimSpace(m) = <<>>
    BY <1>2, <1>3, <1>7, TrimAll
  <2> QED BY <1>1, <1>4, <1>6, <2>4, <2>6, <2>7
<1>8. ASSUME NEW a \in 1 .. l, NEW b \in 1 .. l, m[a] # "space", m[b] # "space", a <= b,
             \A j \in 1 .. l : j < a \/ b < j => m[j] = "space"
      PROVE  Cmd(f) = <<c>> /\ Body(f) = TrimSpace(m)
  <2>1. PICK k \in Nat : k = b + 3
    OBVIOUS
  <2>2. f = SubSeq(g, 1, k)
    <3>1. \A j \in 1 .. Len(g) : j < 1 \/ k < j => g[j] = "space"
      <4> TAKE j \in 1 .. Len(g)
      <4> HAVE j < 1 \/ k < j
      <4>1. j - 3 \in 1 .. l /\ b < j - 3 /\ (j - 3) + 3 = j
        BY <1>5, <2>1
      <4> QED BY <1>5, <1>8, <4>1
    <3>2. 1 \in 1 .. Len(g) /\ k \in 1 .. Len(g) /\ 1 <= k /\ g[1] # "space" /\ g[k] # "space"
      BY <1>5, <1>8, <2>1
    <3> QED BY <1>5, <1>6, <3>1, <3>2, TrimFrom
  <2>3. f \in Text /\ Len(f) = k /\ \A i \in 1 .. k : f[i] = g[i]
    <3>1. 1 \in Nat /\ 1 <= 1 /\ 1 <= k + 1 /\ k <= Len(g)
      BY <1>5, <2>1
    <3>2. /\ SubSeq(g, 1, k) \in Text
          /\ Len(SubSeq(g, 1, k)) = k - 1 + 1
          /\ \A i \in 1 .. k - 1 + 1 : SubSeq(g, 1, k)[i] = g[1 + i - 1]
      BY <1>5, <3>1, CutFacts
    <3> QED BY <2>2, <3>2
  <2>4. f[1] = "/" /\ f[2] = c /\ f[3] = "space" /\ \A i \in 1 .. b : f[i + 3] = m[i]
    <3>1. f[1] = g[1] /\ f[2] = g[2] /\ f[3] = g[3]
      BY <2>1, <2>3
    <3>2. \A i \in 1 .. b : f[i + 3] = g[i + 3]
      BY <2>1, <2>3
    <3>3. \A i \in 1 .. b : i \in 1 .. l
      OBVIOUS
    <3>4. \A i \in 1 .. b : g[i + 3] = m[i]
      BY <1>5, <3>3
    <3>5. \A i \in 1 .. b : f[i + 3] = m[i]
      BY <3>2, <3>4
    <3>6. f[1] = "/" /\ f[2] = c /\ f[3] = "space"
      BY <1>5, <3>1
    <3> QED BY <3>5, <3>6
  <2>5. Cmd(f) = <<c>> /\ IsCommand(f) /\ Rest(f) = SubSeq(f, 3, k)
    <3>1. 2 <= Len(f)
      BY <2>1, <2>3
    <3>2. Cmd(f) = <<c>> /\ IsCommand(f) /\ Rest(f) = SubSeq(f, 3, Len(f))
      BY <2>3, <2>4, <3>1, CommandOf
    <3> QED BY <2>3, <3>2
  <2>6. PICK r : r = Rest(f)
    OBVIOUS
  <2>7. r \in Text /\ Len(r) = b + 1 /\ r[1] = "space" /\ \A i \in 1 .. b : r[i + 1] = m[i]
    <3>1. 3 \in Nat /\ 1 <= 3 /\ 3 <= k + 1 /\ k <= Len(f)
      BY <2>1, <2>3
    <3>2. r \in Text /\ Len(r) = k - 3 + 1 /\ \A i \in 1 .. k - 3 + 1 : r[i] = f[3 + i - 1]
      BY <2>3, <2>5, <2>6, <3>1, CutFacts
    <3>3. r[1] = f[3]
      BY <2>1, <3>2
    <3>4. ASSUME NEW i \in 1 .. b
          PROVE  r[i + 1] = f[i + 3]
      <4>1. i + 1 \in 1 .. k - 3 + 1 /\ 3 + (i + 1) - 1 = i + 3
        BY <2>1
      <4> QED BY <3>2, <4>1
    <3> QED BY <2>1, <2>4, <3>2, <3>3, <3>4
  <2>8. PICK n \in Nat : n = a + 1
    OBVIOUS
  <2>9. SkipSpaces(r) = SubSeq(r, n, b + 1)
    <3>1. \A j \in 1 .. Len(r) : j < n => r[j] = "space"
      <4> TAKE j \in 1 .. Len(r)
      <4> HAVE j < n
      <4>1. j = 1 \/ (j - 1 \in 1 .. b /\ j - 1 < a /\ (j - 1) + 1 = j /\ j - 1 \in 1 .. l)
        BY <2>7, <2>8
      <4> QED BY <1>8, <2>7, <4>1
    <3>2. n \in 1 .. Len(r) /\ r[n] # "space"
      BY <1>8, <2>7, <2>8
    <3> QED BY <2>7, <3>1, <3>2, SkipFrom
  <2>10. PICK x, y : x = SubSeq(r, n, b + 1) /\ y = SubSeq(m, a, b)
    OBVIOUS
  <2>11. x \in Text /\ Len(x) = b - a + 1 /\ \A i \in 1 .. b - a + 1 : x[i] = m[a + i - 1]
    <3>1. PICK d \in Nat : d = b + 1
      OBVIOUS
    <3>2. 1 <= n /\ n <= d + 1 /\ d <= Len(r) /\ d - n + 1 = b - a + 1
      BY <1>8, <2>7, <2>8, <3>1
    <3>3. x \in Text /\ Len(x) = b - a + 1 /\ \A i \in 1 .. b - a + 1 : x[i] = r[n + i - 1]
      BY <2>7, <2>10, <3>1, <3>2, CutFacts
    <3>4. ASSUME NEW i \in 1 .. b - a + 1
          PROVE  r[n + i - 1] = m[a + i - 1]
      <4>1. a + i - 1 \in 1 .. b /\ n + i - 1 = (a + i - 1) + 1
        BY <2>8
      <4> QED BY <2>7, <4>1
    <3> QED BY <3>3, <3>4
  <2>12. y \in Text /\ Len(y) = b - a + 1 /\ \A i \in 1 .. b - a + 1 : y[i] = m[a + i - 1]
    <3>1. a \in Nat /\ b \in Nat /\ 1 <= a /\ a <= b + 1 /\ b <= Len(m)
      BY <1>3, <1>8
    <3> QED BY <1>2, <2>10, <3>1, CutFacts
  <2>13. x = y
    BY <2>11, <2>12, TextEqual
  <2>14. TrimSpace(m) = y
    BY <1>2, <1>3, <1>8, <2>10, TrimFrom
  <2> QED BY <2>5, <2>6, <2>9, <2>10, <2>13, <2>14 DEF Body
<1> QED BY <1>1, <1>2, <1>3, <1>4, <1>6, <1>7, <1>8, FirstAndLast

\* A text without spaces at its ends.
Trim(s) == s = <<>> \/ (s[1] # "space" /\ s[Len(s)] # "space")

LEMMA EmptyText == <<>> \in Text /\ Len(<<>>) = 0
BY EmptySeq DEF Text

\* TrimSpace yields a text without spaces at its ends, from symbols of the text,
\* and leaves such a text alone.
LEMMA TrimProperties ==
  ASSUME NEW s \in Text
  PROVE  /\ TrimSpace(s) \in Text
         /\ Trim(TrimSpace(s))
         /\ \A i \in 1 .. Len(TrimSpace(s)) : \E j \in 1 .. Len(s) : TrimSpace(s)[i] = s[j]
<1>1. CASE \A j \in 1 .. Len(s) : s[j] = "space"
  <2>1. TrimSpace(s) = <<>>
    BY <1>1, TrimAll
  <2> QED BY <2>1, EmptyText DEF Trim
<1>2. ASSUME NEW a \in 1 .. Len(s), NEW b \in 1 .. Len(s), s[a] # "space", s[b] # "space",
             a <= b, \A j \in 1 .. Len(s) : j < a \/ b < j => s[j] = "space"
      PROVE  /\ TrimSpace(s) \in Text
             /\ Trim(TrimSpace(s))
             /\ \A i \in 1 .. Len(TrimSpace(s)) : \E j \in 1 .. Len(s) : TrimSpace(s)[i] = s[j]
  <2>1. PICK t : t = TrimSpace(s)
    OBVIOUS
  <2>2. t = SubSeq(s, a, b)
    BY <1>2, <2>1, TrimFrom
  <2>3. Len(s) \in Nat
    BY TextFacts
  <2>4. a \in Nat /\ b \in Nat /\ 1 <= a /\ a <= b + 1 /\ b <= Len(s)
    BY <1>2, <2>3
  <2>5. t \in Text /\ Len(t) = b - a + 1 /\ \A i \in 1 .. b - a + 1 : t[i] = s[a + i - 1]
    BY <2>2, <2>4, CutFacts
  <2>6. t[1] = s[a] /\ t[Len(t)] = s[b]
    BY <1>2, <2>4, <2>5
  <2>7. ASSUME NEW i \in 1 .. Len(t)
        PROVE  \E j \in 1 .. Len(s) : t[i] = s[j]
    <3>1. a + i - 1 \in 1 .. Len(s) /\ t[i] = s[a + i - 1]
      BY <1>2, <2>3, <2>4, <2>5
    <3> QED BY <3>1
  <2> QED BY <1>2, <2>1, <2>5, <2>6, <2>7 DEF Trim
<1> QED BY <1>1, <1>2, FirstAndLast

LEMMA TrimKeeps ==
  ASSUME NEW s \in Text, Trim(s)
  PROVE  TrimSpace(s) = s
<1>1. Len(s) \in Nat
  BY TextFacts
<1>2. CASE s = <<>>
  <2>1. \A j \in 1 .. Len(s) : s[j] = "space"
    BY <1>2, EmptyText
  <2> QED BY <1>2, <2>1, TrimAll
<1>3. CASE s # <<>>
  <2>1. Len(s) # 0
    BY <1>3, EmptySeq DEF Text
  <2>2. 1 \in 1 .. Len(s) /\ Len(s) \in 1 .. Len(s) /\ 1 <= Len(s)
    BY <1>1, <2>1
  <2>3. \A j \in 1 .. Len(s) : j < 1 \/ Len(s) < j => s[j] = "space"
    BY <1>1
  <2>4. s[1] # "space" /\ s[Len(s)] # "space"
    BY <1>3 DEF Trim
  <2>5. TrimSpace(s) = SubSeq(s, 1, Len(s))
    BY <2>2, <2>3, <2>4, TrimFrom
  <2> QED BY <2>5, SubSeqFull DEF Text
<1> QED BY <1>2, <1>3

\* What was typed, and what follows the command, are texts.
LEMMA BodyText ==
  ASSUME NEW s \in Text
  PROVE  Body(s) \in Text
<1>1. Len(s) \in Nat
  BY TextFacts
<1>2. CASE ~IsCommand(s)
  BY <1>2, EmptyText DEF Body
<1>3. CASE IsCommand(s)
  <2>1. Len(s) # 0
    <3>1. s # <<>>
      BY <1>3 DEF IsCommand
    <3> QED BY <3>1, EmptySeq DEF Text
  <2>2. EndOfWord(s, 2) \in 2 .. Len(s) + 1
    <3> DEFINE spaces == {j \in 2 .. Len(s) : s[j] = "space"}
    <3>1. CASE spaces = {}
      <4>1. EndOfWord(s, 2) = Len(s) + 1
        BY <3>1 DEF EndOfWord
      <4> QED BY <1>1, <2>1, <4>1
    <3>2. CASE spaces # {}
      <4>1. PICK m \in spaces : \A k \in spaces : m <= k
        <5>1. spaces \subseteq Nat
          BY <1>1
        <5> HIDE DEF spaces
        <5> QED BY <3>2, <5>1, MinProperties
      <4>2. EndOfWord(s, 2) = CHOOSE j \in spaces : \A k \in spaces : j <= k
        BY <3>2 DEF EndOfWord
      <4>3. (CHOOSE j \in spaces : \A k \in spaces : j <= k) \in spaces
        <5> HIDE DEF spaces
        <5> QED BY <4>1
      <4>4. EndOfWord(s, 2) \in 2 .. Len(s)
        BY <4>2, <4>3
      <4> QED BY <1>1, <4>4
    <3> QED BY <3>1, <3>2
  <2>3. PICK k \in Nat : k = EndOfWord(s, 2) /\ 1 <= k /\ k <= Len(s) + 1
    BY <1>1, <2>2
  <2>4. PICK r : r = Rest(s)
    OBVIOUS
  <2>5. r \in Text
    <3>1. r = SubSeq(s, k, Len(s))
      BY <2>3, <2>4 DEF Rest
    <3> QED BY <1>1, <2>3, <3>1, CutFacts
  <2>6. SkipSpaces(r) \in Text
    <3>1. CASE \A j \in 1 .. Len(r) : r[j] = "space"
      <4>1. SkipSpaces(r) = <<>>
        BY <2>5, <3>1, SkipAll
      <4> QED BY <4>1, EmptyText
    <3>2. ASSUME NEW a \in 1 .. Len(r), r[a] # "space",
                 \A j \in 1 .. Len(r) : j < a => r[j] = "space"
          PROVE  SkipSpaces(r) \in Text
      <4>1. SkipSpaces(r) = SubSeq(r, a, Len(r))
        BY <2>5, <3>2, SkipFrom
      <4>2. Len(r) \in Nat
        BY <2>5, TextFacts
      <4>3. a \in Nat /\ 1 <= a /\ a <= Len(r) + 1 /\ Len(r) <= Len(r)
        BY <4>2
      <4> QED BY <2>5, <4>1, <4>2, <4>3, CutFacts
    <3> QED BY <2>5, <3>1, <3>2, FirstAndLast
  <2> QED BY <1>3, <2>4, <2>6 DEF Body
<1> QED BY <1>2, <1>3

\* What a hearer's client makes of what SendClientMessage sends.
LEMMA RelayedFrame ==
  ASSUME NEW t \in Symbols, t # "space",
         NEW u \in Text, \A i \in 1 .. Len(u) : u[i] # "]",
         NEW b \in Text, Trim(b),
         NEW f, f = TrimSpace(<<"/", t, "space", "[">> \o u \o <<"]", "space">> \o b)
  PROVE  Cmd(f) = <<t>> /\ UserOf(f) = u /\ BodyOf(f) = b
<1>1. PICK n \in Nat : n = Len(u)
  BY TextFacts
<1>2. PICK l \in Nat : l = Len(b)
  BY TextFacts
<1>3. PICK g : g = <<"/", t, "space", "[">> \o u \o <<"]", "space">> \o b
  OBVIOUS
<1>4. /\ g \in Text /\ Len(g) = n + l + 6
      /\ g[1] = "/" /\ g[2] = t /\ g[3] = "space" /\ g[4] = "["
      /\ \A i \in 1 .. n : g[i + 4] = u[i]
      /\ g[n + 5] = "]" /\ g[n + 6] = "space"
      /\ \A i \in 1 .. l : g[i + (n + 6)] = b[i]
  <2>1. PICK p, q : p = <<"/", t, "space", "[">> /\ q = <<"]", "space">>
    OBVIOUS
  <2>2. "/" \in Symbols /\ "space" \in Symbols /\ "[" \in Symbols /\ "]" \in Symbols
    BY SymbolsAssumption DEF Special
  <2>3. p \in Text /\ Len(p) = 4 /\ p[1] = "/" /\ p[2] = t /\ p[3] = "space" /\ p[4] = "["
    BY <2>1, <2>2 DEF Text
  <2>4. q \in Text /\ Len(q) = 2 /\ q[1] = "]" /\ q[2] = "space"
    BY <2>1, <2>2 DEF Text
  <2>5. PICK x : x = p \o u
    OBVIOUS
  <2>6. /\ x \in Text /\ Len(x) = n + 4
        /\ \A i \in 1 .. 4 : x[i] = p[i]
        /\ \A i \in 1 .. n : x[i + 4] = u[i]
    <3>1. /\ x \in Text /\ Len(x) = Len(p) + Len(u)
          /\ \A i \in 1 .. Len(p) : x[i] = p[i]
          /\ \A i \in 1 .. Len(u) : x[Len(p) + i] = u[i]
      BY <2>3, <2>5, JoinFacts
    <3> QED BY <1>1, <2>3, <3>1
  <2>7. PICK y : y = x \o q
    OBVIOUS
  <2>8. /\ y \in Text /\ Len(y) = n + 6
        /\ \A i \in 1 .. n + 4 : y[i] = x[i]
        /\ y[n + 5] = "]" /\ y[n + 6] = "space"
    <3>1. /\ y \in Text /\ Len(y) = Len(x) + Len(q)
          /\ \A i \in 1 .. Len(x) : y[i] = x[i]
          /\ \A i \in 1 .. Len(q) : y[Len(x) + i] = q[i]
      <4>1. x \in Text /\ q \in Text
        BY <2>4, <2>6
      <4> QED BY <4>1, <2>7, JoinFacts
    <3>2. y[n + 4 + 1] = q[1] /\ y[n + 4 + 2] = q[2]
      BY <2>4, <2>6, <3>1
    <3>3. n + 4 + 1 = n + 5 /\ n + 4 + 2 = n + 6
      OBVIOUS
    <3> QED BY <2>4, <2>6, <3>1, <3>2, <3>3
  <2>9. g = y \o b
    BY <1>3, <2>1, <2>5, <2>7
  <2>10. /\ g \in Text /\ Len(g) = n + 6 + l
         /\ \A i \in 1 .. n + 6 : g[i] = y[i]
         /\ \A i \in 1 .. l : g[i + (n + 6)] = b[i]
    <3>1. /\ g \in Text /\ Len(g) = Len(y) + Len(b)
          /\ \A i \in 1 .. Len(y) : g[i] = y[i]
          /\ \A i \in 1 .. Len(b) : g[Len(y) + i] = b[i]
      <4>1. y \in Text
        BY <2>8
      <4> QED BY <4>1, <2>9, JoinFacts
    <3> QED BY <1>2, <2>8, <3>1
  <2>11. g[1] = "/" /\ g[2] = t /\ g[3] = "space" /\ g[4] = "["
    <3>1. \A i \in 1 .. 4 : g[i] = p[i]
      BY <2>6, <2>8, <2>10
    <3> QED BY <2>3, <3>1
  <2>12. ASSUME NEW i \in 1 .. n
         PROVE  g[i + 4] = u[i]
    <3>1. i + 4 \in 1 .. n + 4 /\ i + 4 \in 1 .. n + 6
      OBVIOUS
    <3> QED BY <2>6, <2>8, <2>10, <3>1
  <2>13. g[n + 5] = "]" /\ g[n + 6] = "space"
    BY <2>8, <2>10
  <2> QED BY <2>10, <2>11, <2>12, <2>13
<1>5. PICK k \in Nat : (l = 0 => k = n + 5) /\ (l # 0 => k = n + 6 + l)
  <2>1. PICK d : d = IF l = 0 THEN n + 5 ELSE n + 6 + l
    OBVIOUS
  <2>2. d \in Nat /\ (l = 0 => d = n + 5) /\ (l # 0 => d = n + 6 + l)
    BY <2>1
  <2> QED BY <2>2
<1>6. f = SubSeq(g, 1, k)
  <2>1. g[k] # "space" /\ k \in 1 .. Len(g)
    <3>1. CASE l = 0
      BY <1>4, <1>5, <3>1
    <3>2. CASE l # 0
      <4>1. b[l] # "space"
        <5>1. b # <<>>
          BY <1>2, <3>2, EmptyText
        <5> QED BY <1>2, <5>1 DEF Trim
      <4>2. l \in 1 .. l /\ l + (n + 6) = k
        BY <1>5, <3>2
      <4>3. g[l + (n + 6)] = b[l]
        BY <1>4, <4>2
      <4>4. g[k] # "space"
        BY <4>1, <4>2, <4>3
      <4>5. k \in 1 .. Len(g)
        BY <1>4, <1>5, <3>2
      <4> QED BY <4>4, <4>5
    <3> QED BY <3>1, <3>2
  <2>2. \A j \in 1 .. Len(g) : j < 1 \/ k < j => g[j] = "space"
    <3> TAKE j \in 1 .. Len(g)
    <3> HAVE j < 1 \/ k < j
    <3>1. l = 0 /\ j = n + 6
      BY <1>4, <1>5
    <3> QED BY <1>4, <3>1
  <2>3. 1 \in 1 .. Len(g) /\ 1 <= k /\ g[1] # "space"
    BY <1>4, <1>5
  <2> QED BY <1>3, <1>4, <2>1, <2>2, <2>3, TrimFrom
<1>7. f \in Text /\ Len(f) = k /\ \A i \in 1 .. k : f[i] = g[i]
  <2>1. PICK a, z : a = 1 /\ z = SubSeq(g, a, k)
    OBVIOUS
  <2>2. a \in Nat /\ 1 <= a /\ a <= k + 1 /\ k <= Len(g)
    BY <1>4, <1>5, <2>1
  <2>3. g \in Text /\ f = z
    BY <1>4, <1>6, <2>1
  <2>4. z \in Text /\ Len(z) = k - a + 1 /\ \A i \in 1 .. k - a + 1 : z[i] = g[a + i - 1]
    BY <2>1, <2>2, <2>3, CutFacts
  <2>5. k - a + 1 = k /\ \A i \in 1 .. k : a + i - 1 = i
    BY <2>1
  <2> QED BY <2>3, <2>4, <2>5
<1>8. f[1] = "/" /\ f[2] = t /\ f[3] = "space" /\ f[4] = "[" /\ f[n + 5] = "]"
  <2>1. f[1] = g[1] /\ f[2] = g[2] /\ f[3] = g[3] /\ f[4] = g[4] /\ f[n + 5] = g[n + 5]
    BY <1>5, <1>7
  <2> QED BY <1>4, <2>1
<1>9. Cmd(f) = <<t>> /\ Rest(f) = SubSeq(f, 3, k)
  <2>1. 2 <= Len(f)
    BY <1>5, <1>7
  <2>2. Cmd(f) = <<t>> /\ Rest(f) = SubSeq(f, 3, Len(f))
    BY <1>7, <1>8, <2>1, CommandOf
  <2> QED BY <1>7, <2>2
<1>10. PICK r : r = Rest(f)
  OBVIOUS
<1>11. r \in Text /\ Len(r) = k - 2 /\ \A i \in 1 .. k - 2 : r[i] = f[i + 2]
  <2>1. PICK a : a = 3
    OBVIOUS
  <2>2. a \in Nat /\ 1 <= a /\ a <= k + 1 /\ k <= Len(f)
    BY <1>5, <1>7, <2>1
  <2>3. f \in Text /\ r = SubSeq(f, a, k)
    BY <1>7, <1>9, <1>10, <2>1
  <2>4. r \in Text /\ Len(r) = k - a + 1 /\ \A i \in 1 .. k - a + 1 : r[i] = f[a + i - 1]
    BY <2>2, <2>3, CutFacts
  <2>5. k - a + 1 = k - 2 /\ \A i \in 1 .. k - 2 : a + i - 1 = i + 2
    BY <2>1
  <2> QED BY <2>4, <2>5
<1>12. PICK part : part = UserPart(f)
  OBVIOUS
<1>13. part \in Text /\ Len(part) = k - 3 /\ \A i \in 1 .. k - 3 : part[i] = g[i + 3]
  <2>1. r # <<>> /\ r[1] = "space"
    <3>1. Len(r) # 0
      BY <1>5, <1>11
    <3>2. r[1] = f[3]
      BY <1>5, <1>11
    <3> QED BY <1>8, <3>1, <3>2, EmptyText
  <2>2. part = Tail(r)
    BY <1>10, <1>12, <2>1 DEF UserPart
  <2>3. part \in Text /\ Len(part) = k - 3 /\ \A i \in 1 .. k - 3 : part[i] = r[i + 1]
    <3>1. part \in Text /\ Len(part) = Len(r) - 1 /\ \A i \in 1 .. Len(part) : part[i] = r[i + 1]
      <4>1. r \in Seq(Symbols) /\ r # <<>>
        BY <1>11, <2>1 DEF Text
      <4> QED BY ONLY <2>2, <4>1, HeadTailProperties DEF Text
    <3> QED BY ONLY <1>11, <3>1
  <2>4. ASSUME NEW i \in 1 .. k - 3
        PROVE  r[i + 1] = g[i + 3]
    <3>1. PICK j, m : j = i + 1 /\ m = i + 3
      OBVIOUS
    <3>2. j \in 1 .. k - 2 /\ j + 2 = m /\ m \in 1 .. k
      BY <1>5, <3>1
    <3>3. r[j] = f[j + 2]
      BY ONLY <1>11, <3>2
    <3>4. f[m] = g[m]
      BY ONLY <1>7, <3>2
    <3> QED BY ONLY <3>1, <3>2, <3>3, <3>4
  <2> QED BY <2>3, <2>4
<1>14. /\ part[1] = "[" /\ part[n + 2] = "]"
       /\ \A i \in 1 .. n : part[i + 1] = u[i]
  <2>1. part[1] = g[4] /\ part[n + 2] = g[n + 5]
    BY <1>5, <1>13
  <2>2. ASSUME NEW i \in 1 .. n
        PROVE  part[i + 1] = u[i]
    <3>1. i + 1 \in 1 .. k - 3 /\ i + 1 + 3 = i + 4
      BY <1>5
    <3> QED BY <1>4, <1>13, <3>1
  <2> QED BY <1>4, <2>1, <2>2
<1>15. UserEnd(f) = n + 2
  <2> DEFINE I == {i \in 1 .. Len(part) : part[i] = "]"}
  <2>1. I \subseteq Nat /\ n + 2 \in I
    BY <1>5, <1>13, <1>14
  <2>2. \A i \in I : n + 2 <= i
    <3> TAKE i \in I
    <3>1. CASE i = 1
      BY <1>14, <3>1
    <3>2. CASE i # 1 /\ i < n + 2
      <4>1. i - 1 \in 1 .. n /\ (i - 1) + 1 = i
        BY <1>13, <3>2
      <4> QED BY <1>1, <1>14, <4>1
    <3> QED BY <1>13, <3>1, <3>2
  <2>3. Min(I) = n + 2
    <3>1. Min(I) \in I /\ \A x \in I : Min(I) <= x
      <4> HIDE DEF I
      <4> QED BY <2>1, MinProperties
    <3>2. PICK v : v = Min(I)
      OBVIOUS
    <3>3. v \in Nat /\ v <= n + 2 /\ n + 2 <= v
      <4> HIDE DEF I
      <4> QED BY <2>1, <2>2, <3>1, <3>2
    <3> QED BY <3>2, <3>3
  <2>4. SelectInSeq(part, LAMBDA ch : ch = "]") = Min(I)
    BY <2>1 DEF SelectInSeq
  <2>5. part # <<>>
    BY <1>5, <1>13, EmptyText
  <2> HIDE DEF I
  <2> QED BY <1>12, <1>14, <2>3, <2>4, <2>5 DEF UserEnd
<1>16. UserOf(f) = u
  <2>1. PICK m, w : m = n + 1 /\ w = SubSeq(part, 2, m)
    OBVIOUS
  <2>2. 2 \in Nat /\ m \in Nat /\ 1 <= 2 /\ 2 <= m + 1 /\ m <= Len(part)
    BY <1>5, <1>13, <2>1
  <2>3. w \in Text /\ Len(w) = m - 2 + 1 /\ \A i \in 1 .. m - 2 + 1 : w[i] = part[2 + i - 1]
    BY <1>13, <2>1, <2>2, CutFacts
  <2>4. Len(w) = n /\ \A i \in 1 .. n : w[i] = part[i + 1]
    BY <2>1, <2>3
  <2>5. \A i \in 1 .. n : w[i] = u[i]
    BY <1>14, <2>4
  <2>6. w = u
    BY <1>1, <2>3, <2>4, <2>5, TextEqual
  <2>7. UserOf(f) = w
    <3>1. UserEnd(f) # 0 /\ UserEnd(f) - 1 = m
      BY <1>15, <2>1
    <3> QED BY <1>12, <2>1, <3>1 DEF UserOf
  <2> QED BY <2>6, <2>7
<1>17. BodyOf(f) = b
  <2>1. PICK m, h, w : m = n + 3 /\ h = Len(part) /\ w = SubSeq(part, m, h)
    OBVIOUS
  <2>2. BodyOf(f) = SkipSpaces(w)
    <3>1. UserEnd(f) + 1 = m
      BY <1>15, <2>1
    <3> QED BY <1>12, <2>1, <3>1 DEF BodyOf
  <2>3. m \in Nat /\ h \in Nat /\ 1 <= m /\ m <= h + 1 /\ h <= Len(part) /\ h = k - 3
    BY <1>5, <1>13, <2>1
  <2>4. w \in Text /\ Len(w) = h - m + 1 /\ \A i \in 1 .. h - m + 1 : w[i] = part[m + i - 1]
    BY <1>13, <2>1, <2>3, CutFacts
  <2>5. CASE l = 0
    <3>1. Len(w) = 0 /\ b = <<>>
      <4>1. Len(w) = 0
        BY <1>5, <2>1, <2>3, <2>4, <2>5
      <4>2. b = <<>>
        BY <1>2, <2>5, EmptySeq DEF Text
      <4> QED BY <4>1, <4>2
    <3>2. \A j \in 1 .. Len(w) : w[j] = "space"
      BY <3>1
    <3>3. SkipSpaces(w) = <<>>
      BY <2>4, <3>2, SkipAll
    <3> QED BY <2>2, <3>1, <3>3
  <2>6. CASE l # 0
    <3>1. h - m + 1 = l + 1
      BY <1>5, <2>1, <2>3, <2>6
    <3>2. ASSUME NEW i \in 1 .. l + 1
          PROVE  w[i] = g[i + (n + 5)]
      <4>1. m + i - 1 \in 1 .. k - 3 /\ m + i - 1 + 3 = i + (n + 5)
        BY <1>5, <2>1, <2>6
      <4> QED BY <1>13, <2>4, <3>1, <4>1
    <3>3. w[1] = "space"
      <4>1. 1 \in 1 .. l + 1 /\ 1 + (n + 5) = n + 6
        OBVIOUS
      <4> QED BY <1>4, <3>2, <4>1
    <3>4. ASSUME NEW i \in 1 .. l
          PROVE  w[i + 1] = b[i]
      <4>1. i + 1 \in 1 .. l + 1 /\ i + 1 + (n + 5) = i + (n + 6)
        OBVIOUS
      <4> QED BY <1>4, <3>2, <4>1
    <3>5. b[1] # "space"
      <4>1. b # <<>>
        BY <1>2, <2>6, EmptyText
      <4> QED BY <4>1 DEF Trim
    <3>6. SkipSpaces(w) = SubSeq(w, 2, l + 1)
      <4>1. Len(w) = l + 1
        BY <2>4, <3>1
      <4>2. 2 \in 1 .. Len(w) /\ w[2] # "space"
        <5>1. w[1 + 1] = b[1]
          BY <2>6, <3>4
        <5> QED BY <2>6, <3>5, <4>1, <5>1
      <4>3. \A j \in 1 .. Len(w) : j < 2 => w[j] = "space"
        BY <3>3, <4>1
      <4> QED BY <2>4, <4>1, <4>2, <4>3, SkipFrom
    <3>7. PICK d, z : d = l + 1 /\ z = SubSeq(w, 2, d)
      OBVIOUS
    <3>8. 2 \in Nat /\ d \in Nat /\ 1 <= 2 /\ 2 <= d + 1 /\ d <= Len(w)
      BY <2>4, <3>1, <3>7
    <3>9. z \in Text /\ Len(z) = d - 2 + 1 /\ \A i \in 1 .. d - 2 + 1 : z[i] = w[2 + i - 1]
      BY <2>4, <3>7, <3>8, CutFacts
    <3>10. Len(z) = l /\ \A i \in 1 .. l : z[i] = w[i + 1]
      BY <3>7, <3>9
    <3>11. \A i \in 1 .. l : z[i] = b[i]
      BY <3>4, <3>10
    <3>12. z = b
      BY <1>2, <3>9, <3>10, <3>11, TextEqual
    <3> QED BY <2>2, <3>6, <3>7, <3>12
  <2> QED BY <2>5, <2>6
<1> QED BY <1>9, <1>16, <1>17

\* What arrives of a text that is encoded, framed and trimmed.
Carried(s) == TrimSpace(Masked(s))

\* What was typed is a line or nothing, and the server knows the sender and the
\* sender's room by what arrived of them.
WTexts ==
  /\ name \in Text /\ entered \in Text
  /\ typed = <<>> \/ typed \in Typed
  /\ user \in {<<>>, Carried(name)}
  /\ room \in {<<"lobby">>, Carried(entered)}

\* Only a line that has been dealt with is on the screen, and nothing is typed
\* before the name is sent.
WStages ==
  /\ stage # "shown" => screen = [kind |-> "none"]
  /\ stage = "ready" => typed = <<>>

\* The frame on its way to the server carries the name, or what was typed.
WSent ==
  stage = "sent" =>
    \/ /\ typed = <<>>
       /\ Cmd(frame) = <<"user">>
       /\ Body(frame) = Carried(name)
    \/ /\ typed # <<>> /\ Cmd(typed) = <<>>
       /\ Cmd(frame) = <<"message">>
       /\ Body(frame) = Carried(typed)
    \/ /\ typed # <<>> /\ Cmd(typed) = <<"enter">>
       /\ Cmd(frame) = <<"enter">>
       /\ Body(frame) = Carried(Body(typed))
    \/ /\ typed # <<>> /\ Cmd(typed) \in {<<"leave">>, <<"list">>, <<"disconnect">>}
       /\ Cmd(frame) = Cmd(typed)

\* The frame on its way to the hearer carries the sender's name and what was
\* typed, each in its place.
WRelayed ==
  stage = "relayed" =>
    /\ user # <<>>
    /\ UserOf(frame) = user
    /\ \/ /\ typed = <<>>
          /\ Cmd(frame) = <<"connect">>
          /\ BodyOf(frame) = <<>>
       \/ /\ typed # <<>> /\ Cmd(typed) = <<>>
          /\ Cmd(frame) = <<"message">>
          /\ BodyOf(frame) = Carried(typed)
       \/ /\ typed # <<>> /\ Cmd(typed) = <<"enter">>
          /\ Cmd(frame) = <<"enter">>
          /\ BodyOf(frame) = Carried(Body(typed))
       \/ /\ typed # <<>> /\ Cmd(typed) = <<"leave">>
          /\ Cmd(frame) = <<"leave">>
          /\ BodyOf(frame) = Carried(entered)

WInv == WTexts /\ WStages /\ WSent /\ WRelayed /\ FrameIntact /\ PlainIsShown

\* What arrives is trimmed and has no bracket that would end a user early.
LEMMA CarriedFacts ==
  ASSUME NEW s \in Text
  PROVE  /\ Carried(s) \in Text
         /\ Trim(Carried(s))
         /\ \A i \in 1 .. Len(Carried(s)) : Carried(s)[i] # "]"
<1>1. PICK m : m = Masked(s)
  OBVIOUS
<1>2. m \in Text /\ \A i \in 1 .. Len(m) : m[i] # "]"
  BY <1>1, MaskedFacts
<1>3. /\ TrimSpace(m) \in Text /\ Trim(TrimSpace(m))
      /\ \A i \in 1 .. Len(TrimSpace(m)) : \E j \in 1 .. Len(m) : TrimSpace(m)[i] = m[j]
  BY <1>2, TrimProperties
<1>4. Carried(s) = TrimSpace(m)
  BY <1>1 DEF Carried
<1> QED BY <1>2, <1>3, <1>4

\* A plain text arrives as it is, but for the spaces around it.
LEMMA PlainCarried ==
  ASSUME NEW s \in Text, \A i \in 1 .. Len(s) : s[i] \notin Special
  PROVE  Decode(Carried(s)) = TrimSpace(s)
<1>1. Masked(s) = s
  <2>1. /\ Masked(s) \in Text /\ Len(Masked(s)) = Len(s)
        /\ \A i \in 1 .. Len(s) : Masked(s)[i] = s[i]
    BY MaskedFacts
  <2>2. PICK m : m = Masked(s)
    OBVIOUS
  <2>3. m = s
    BY <2>1, <2>2, TextEqual
  <2> QED BY <2>2, <2>3
<1>2. PICK w : w = TrimSpace(s)
  OBVIOUS
<1>3. w \in Text /\ \A i \in 1 .. Len(w) : \E j \in 1 .. Len(s) : w[i] = s[j]
  BY <1>2, TrimProperties
<1>4. \A i \in 1 .. Len(w) : w[i] # "%"
  BY <1>3 DEF Special
<1>5. \A i \in DOMAIN w : w[i] # "%"
  BY <1>3, <1>4, TextFacts
<1>6. Decode(w) = w
  BY <1>3, <1>5, DecodeKeeps
<1> QED BY <1>1, <1>2, <1>6 DEF Carried

\* If two texts joined are plain, so is each.
LEMMA PlainParts ==
  ASSUME NEW s \in Text, NEW t \in Text, Plain(s \o t)
  PROVE  /\ \A i \in 1 .. Len(s) : s[i] \notin Special
         /\ \A i \in 1 .. Len(t) : t[i] \notin Special
<1>1. PICK x : x = s \o t
  OBVIOUS
<1>2. PICK n, m \in Nat : n = Len(s) /\ m = Len(t)
  BY TextFacts
<1>3. /\ x \in Text /\ Len(x) = n + m
      /\ \A i \in 1 .. n : x[i] = s[i]
      /\ \A i \in 1 .. m : x[n + i] = t[i]
  <2>1. /\ x \in Text /\ Len(x) = Len(s) + Len(t)
        /\ \A i \in 1 .. Len(s) : x[i] = s[i]
        /\ \A i \in 1 .. Len(t) : x[Len(s) + i] = t[i]
    BY <1>1, JoinFacts
  <2> QED BY <1>2, <2>1
<1>4. \A i \in 1 .. n + m : x[i] \notin Special
  <2>1. DOMAIN x = 1 .. Len(x)
    BY <1>3, TextFacts
  <2> QED BY <1>1, <1>3, <2>1 DEF Plain
<1>5. ASSUME NEW i \in 1 .. n
      PROVE  s[i] \notin Special
  <2>1. i \in 1 .. n + m
    BY <1>2
  <2> QED BY <1>3, <1>4, <2>1
<1>6. ASSUME NEW i \in 1 .. m
      PROVE  t[i] \notin Special
  <2>1. n + i \in 1 .. n + m
    BY <1>2
  <2> QED BY <1>3, <1>4, <2>1
<1> QED BY <1>2, <1>5, <1>6

\* One symbol is no encoded character.
LEMMA WordDecoded ==
  ASSUME NEW c \in Symbols
  PROVE  Decode(<<c>>) = <<c>>
<1>1. PICK s : s = <<c>>
  OBVIOUS
<1>2. s \in Text /\ Len(s) = 1
  BY <1>1 DEF Text
<1>3. Len(s) < 2
  BY <1>2
<1>4. Decode(s) = s
  BY <1>2, <1>3, DecodeKeeps
<1> QED BY <1>1, <1>4

Sendable == {"user", "message", "enter", "leave", "list", "disconnect"}

\* What the server makes of a frame of the sender's client.
LEMMA SentArrives ==
  ASSUME NEW c \in Sendable, NEW e \in Text
  PROVE  /\ Cmd(TrimSpace(Sent(<<c>>, e))) = <<c>>
         /\ Body(TrimSpace(Sent(<<c>>, e))) = Carried(e)
<1>1. c \in Symbols /\ c \notin Special /\ c # "space"
  BY SymbolsAssumption DEF Special, Sendable
<1> QED BY <1>1, SentFrame DEF Carried

\* What SendClientMessage sends of a sender with a name.
LEMMA RelayedArrives ==
  ASSUME NEW t \in {"connect", "message", "enter", "leave"}, NEW n \in Text, NEW u, NEW b \in Text,
         u = Carried(n), Trim(b), u # <<>>, Relayed(t, u, b)
  PROVE  /\ stage' = "relayed"
         /\ Cmd(frame') = <<t>> /\ UserOf(frame') = u /\ BodyOf(frame') = b
<1>1. t \in Symbols /\ t # "space"
  BY SymbolsAssumption
<1>2. u \in Text /\ \A i \in 1 .. Len(u) : u[i] # "]"
  BY CarriedFacts
<1>3. PICK f : f = TrimSpace(<<"/", t, "space", "[">> \o u \o <<"]", "space">> \o b)
  OBVIOUS
<1>4. stage' = "relayed" /\ frame' = f
  BY <1>3 DEF Relayed
<1>5. Cmd(f) = <<t>> /\ UserOf(f) = u /\ BodyOf(f) = b
  BY <1>1, <1>2, <1>3, RelayedFrame
<1> QED BY <1>4, <1>5

\* All that is sent is text; a typed line has no spaces at its ends.
LEMMA LinesAreTexts ==
  ASSUME WTexts
  PROVE  /\ name \in Text /\ entered \in Text /\ typed \in Text /\ Body(typed) \in Text
         /\ Trim(typed) /\ Trim(<<>>) /\ <<>> \in Text
<1>1. typed \in Text /\ Trim(typed)
  <2>1. CASE typed = <<>>
    BY <2>1, EmptyText DEF Trim
  <2>2. CASE typed \in Typed
    <3>1. typed \in Text
      BY <2>2, SymbolsAssumption DEF Text
    <3>2. typed # <<>> /\ typed[1] # "space" /\ Last(typed) # "space"
      BY <2>2, TypedAssumption
    <3>3. Last(typed) = typed[Len(typed)]
      BY DEF Last
    <3> QED BY <3>1, <3>2, <3>3 DEF Trim
  <2> QED BY <2>1, <2>2 DEF WTexts
<1>2. name \in Text /\ entered \in Text
  BY DEF WTexts
<1>3. <<>> \in Text /\ Trim(<<>>)
  BY EmptyText DEF Trim
<1> QED BY <1>1, <1>2, <1>3, BodyText

LEMMA WInit == Init => WInv
<1> SUFFICES ASSUME Init PROVE WInv
  OBVIOUS
<1>1. <<"lobby">> \in Text
  BY SymbolsAssumption DEF Text
<1>2. WTexts
  BY <1>1, SymbolsAssumption DEF WTexts, Init, Text
<1>3. WStages /\ WSent /\ WRelayed /\ PlainIsShown
  BY DEF Init, WStages, WSent, WRelayed, PlainIsShown
<1>4. FrameIntact
  BY DEF Init, FrameIntact
<1> QED BY <1>2, <1>3, <1>4 DEF WInv

\* Nothing is on the screen and no frame is on its way to the hearer.
LEMMA NothingShown ==
  ASSUME screen' = [kind |-> "none"], stage' # "shown"
  PROVE  FrameIntact' /\ PlainIsShown'
BY DEF FrameIntact, PlainIsShown

LEMMA ReadyKeeps == WInv /\ Ready => WInv'
<1> SUFFICES ASSUME WInv, Ready PROVE WInv'
  OBVIOUS
<1> USE DEF Ready, WInv
<1>1. WTexts'
  BY DEF WTexts
<1>2. WStages' /\ WRelayed'
  BY DEF WStages, WRelayed
<1>3. WSent'
  <2>1. name \in Text
    BY DEF WTexts
  <2>2. Cmd(frame') = <<"user">> /\ Body(frame') = Carried(name)
    BY <2>1, SentArrives DEF Sendable
  <2>3. typed' = <<>> /\ name' = name
    BY DEF WStages
  <2> QED BY <2>2, <2>3 DEF WSent
<1>4. FrameIntact' /\ PlainIsShown'
  BY NothingShown DEF WStages
<1> QED BY <1>1, <1>2, <1>3, <1>4

LEMMA TypeKeeps ==
  ASSUME NEW s \in Typed, WInv, Type(s)
  PROVE  WInv'
<1> USE DEF Type, WInv
<1>1. WTexts'
  BY DEF WTexts
<1>2. s \in Text /\ Body(s) \in Text /\ <<>> \in Text /\ s # <<>>
  BY SymbolsAssumption, TypedAssumption, BodyText, EmptyText DEF Text
<1>3. screen' = [kind |-> "none"] /\ stage' \in {"sent", "shown"}
  BY DEF WStages
<1>4. WStages' /\ WRelayed' /\ FrameIntact'
  BY <1>3 DEF WStages, WRelayed, FrameIntact
<1>5. CASE Cmd(s) = <<>> /\ frame' = TrimSpace(Sent(<<"message">>, s)) /\ stage' = "sent"
  <2>1. Cmd(frame') = <<"message">> /\ Body(frame') = Carried(s)
    BY <1>2, <1>5, SentArrives DEF Sendable
  <2>2. WSent'
    BY <1>2, <1>5, <2>1 DEF WSent
  <2>3. PlainIsShown'
    BY <1>5 DEF PlainIsShown
  <2> QED BY <1>1, <1>4, <2>2, <2>3
<1>6. CASE /\ Cmd(s) \in {<<"leave">>, <<"list">>, <<"disconnect">>}
           /\ frame' = TrimSpace(Sent(Cmd(s), <<>>))
           /\ stage' = "sent"
  <2>1. PICK c \in {"leave", "list", "disconnect"} : Cmd(s) = <<c>>
    BY <1>6
  <2>2. Cmd(frame') = <<c>>
    <3>1. c \in Sendable /\ frame' = TrimSpace(Sent(<<c>>, <<>>))
      BY <1>6, <2>1 DEF Sendable
    <3> QED BY <1>2, <3>1, SentArrives
  <2>3. WSent'
    BY <1>2, <1>6, <2>1, <2>2 DEF WSent
  <2>4. PlainIsShown'
    BY <1>6 DEF PlainIsShown
  <2> QED BY <1>1, <1>4, <2>3, <2>4
<1>7. CASE Cmd(s) = <<"enter">> /\ frame' = TrimSpace(Sent(<<"enter">>, Body(s))) /\ stage' = "sent"
  <2>1. Cmd(frame') = <<"enter">> /\ Body(frame') = Carried(Body(s))
    BY <1>2, <1>7, SentArrives DEF Sendable
  <2>2. WSent'
    BY <1>2, <1>7, <2>1 DEF WSent
  <2>3. PlainIsShown'
    BY <1>7 DEF PlainIsShown
  <2> QED BY <1>1, <1>4, <2>2, <2>3
<1>8. CASE Cmd(s) # <<>> /\ stage' = "shown"
  BY <1>1, <1>4, <1>8 DEF WSent, PlainIsShown
<1> QED BY <1>5, <1>6, <1>7, <1>8

LEMMA NextLineKeeps == WInv /\ NextLine => WInv'
<1> SUFFICES ASSUME WInv, NextLine PROVE WInv'
  OBVIOUS
<1> USE DEF NextLine, WInv
<1>1. WTexts'
  BY DEF WTexts
<1>2. WStages' /\ WSent' /\ WRelayed'
  BY DEF WStages, WSent, WRelayed
<1>3. FrameIntact' /\ PlainIsShown'
  BY NothingShown
<1> QED BY <1>1, <1>2, <1>3

\* The server's part: whatever it takes from the frame, it relays the sender's
\* name and the body, or nothing.
LEMMA HandleKeeps == WInv /\ Handle => WInv'
<1> SUFFICES ASSUME WInv, Handle PROVE WInv'
  OBVIOUS
<1> USE DEF WInv
<1>1. /\ stage = "sent" /\ screen = [kind |-> "none"]
      /\ name' = name /\ hearer' = hearer /\ typed' = typed /\ screen' = screen
  BY DEF Handle, WStages
<1>2. FrameIntact'
  BY <1>1 DEF FrameIntact
<1>3. /\ name \in Text /\ entered \in Text /\ typed \in Text /\ Body(typed) \in Text
      /\ <<>> \in Text /\ Trim(<<>>)
  BY LinesAreTexts
<1>4. ASSUME NEW x \in Text
      PROVE  Carried(x) \in Text /\ Trim(Carried(x))
  BY CarriedFacts
<1>5. WStages' <=> (stage' = "ready" => typed = <<>>)
  BY <1>1 DEF WStages
<1>6. CASE Cmd(frame) = <<"user">>
  <2>1. typed = <<>> /\ Body(frame) = Carried(name)
    BY <1>1, <1>6 DEF WSent
  <2>2. /\ user' = Carried(name) /\ room' = room /\ entered' = entered
        /\ Relayed("connect", user', <<>>)
    BY <1>6, <2>1 DEF Handle
  <2>3. WTexts'
    BY <1>1, <2>2 DEF WTexts
  <2>4. CASE user' = <<>>
    BY <1>1, <1>2, <1>5, <2>1, <2>2, <2>3, <2>4 DEF Relayed, WSent, WRelayed, PlainIsShown
  <2>5. CASE user' # <<>>
    <3>1. /\ stage' = "relayed"
          /\ Cmd(frame') = <<"connect">> /\ UserOf(frame') = user' /\ BodyOf(frame') = <<>>
      BY <1>3, <2>2, <2>5, RelayedArrives
    <3> QED BY <1>1, <1>2, <1>5, <2>1, <2>3, <2>5, <3>1 DEF WSent, WRelayed, PlainIsShown
  <2> QED BY <2>4, <2>5
<1>7. CASE Cmd(frame) = <<"message">>
  <2>1. typed # <<>> /\ Cmd(typed) = <<>> /\ Body(frame) = Carried(typed)
    BY <1>1, <1>7 DEF WSent
  <2>2. /\ user' = user /\ room' = room /\ entered' = entered
        /\ Relayed("message", user, Carried(typed))
    BY <1>7, <2>1 DEF Handle
  <2>3. WTexts'
    BY <1>1, <2>2 DEF WTexts
  <2>4. CASE user = <<>>
    BY <1>1, <1>2, <1>5, <2>1, <2>2, <2>3, <2>4 DEF Relayed, WSent, WRelayed, PlainIsShown
  <2>5. CASE user # <<>>
    <3>1. /\ stage' = "relayed"
          /\ Cmd(frame') = <<"message">> /\ UserOf(frame') = user /\ BodyOf(frame') = Carried(typed)
      <4>1. user = Carried(name)
        BY <2>5 DEF WTexts
      <4>2. Carried(typed) \in Text /\ Trim(Carried(typed))
        BY <1>3, <1>4
      <4> QED BY <1>3, <2>2, <2>5, <4>1, <4>2, RelayedArrives
    <3> QED BY <1>1, <1>2, <1>5, <2>1, <2>2, <2>3, <2>5, <3>1 DEF WSent, WRelayed, PlainIsShown
  <2> QED BY <2>4, <2>5
<1>8. CASE Cmd(frame) = <<"enter">> /\ Body(frame) # <<>>
  <2>1. typed # <<>> /\ Cmd(typed) = <<"enter">> /\ Body(frame) = Carried(Body(typed))
    BY <1>1, <1>8 DEF WSent
  <2>2. /\ user' = user /\ room' = Carried(Body(typed)) /\ entered' = Body(typed)
        /\ Relayed("enter", user, Carried(Body(typed)))
    BY <1>8, <2>1 DEF Handle
  <2>3. WTexts'
    BY <1>1, <1>3, <2>2 DEF WTexts
  <2>4. CASE user = <<>>
    BY <1>1, <1>2, <1>5, <2>1, <2>2, <2>3, <2>4 DEF Relayed, WSent, WRelayed, PlainIsShown
  <2>5. CASE user # <<>>
    <3>1. /\ stage' = "relayed"
          /\ Cmd(frame') = <<"enter">> /\ UserOf(frame') = user
          /\ BodyOf(frame') = Carried(Body(typed))
      <4>1. user = Carried(name)
        BY <2>5 DEF WTexts
      <4>2. Carried(Body(typed)) \in Text /\ Trim(Carried(Body(typed)))
        BY <1>3, <1>4
      <4> QED BY <1>3, <2>2, <2>5, <4>1, <4>2, RelayedArrives
    <3> QED BY <1>1, <1>2, <1>5, <2>1, <2>2, <2>3, <2>5, <3>1 DEF WSent, WRelayed, PlainIsShown
  <2> QED BY <2>4, <2>5
<1>9. CASE Cmd(frame) = <<"leave">> /\ room # <<"lobby">>
  <2>1. typed # <<>> /\ Cmd(typed) = <<"leave">> /\ room = Carried(entered)
    BY <1>1, <1>9 DEF WSent, WTexts
  <2>2. /\ user' = user /\ room' = <<"lobby">> /\ entered' = entered
        /\ Relayed("leave", user, Carried(entered))
    BY <1>9, <2>1 DEF Handle
  <2>3. WTexts'
    BY <1>1, <2>2 DEF WTexts
  <2>4. CASE user = <<>>
    BY <1>1, <1>2, <1>5, <2>1, <2>2, <2>3, <2>4 DEF Relayed, WSent, WRelayed, PlainIsShown
  <2>5. CASE user # <<>>
    <3>1. /\ stage' = "relayed"
          /\ Cmd(frame') = <<"leave">> /\ UserOf(frame') = user
          /\ BodyOf(frame') = Carried(entered)
      <4>1. user = Carried(name)
        BY <2>5 DEF WTexts
      <4>2. Carried(entered) \in Text /\ Trim(Carried(entered))
        BY <1>3, <1>4
      <4> QED BY <1>3, <2>2, <2>5, <4>1, <4>2, RelayedArrives
    <3> QED BY <1>1, <1>2, <1>5, <2>1, <2>2, <2>3, <2>5, <3>1 DEF WSent, WRelayed, PlainIsShown
  <2> QED BY <2>4, <2>5
<1>10. CASE /\ \/ Cmd(frame) = <<"enter">> /\ Body(frame) = <<>>
               \/ Cmd(frame) = <<"leave">> /\ room = <<"lobby">>
               \/ Cmd(frame) \notin {<<"user">>, <<"message">>, <<"enter">>, <<"leave">>}
  <2>1. /\ frame' = <<>> /\ stage' = "shown"
        /\ user' = user /\ room' = room /\ entered' = entered
    BY <1>10 DEF Handle
  <2>2. typed = <<>> \/ Cmd(typed) # <<>>
    BY <1>1, <1>10 DEF WSent
  <2> QED BY <1>1, <1>2, <1>5, <2>1, <2>2 DEF WTexts, WSent, WRelayed, PlainIsShown
<1> QED BY <1>6, <1>7, <1>8, <1>9, <1>10 DEF Handle

\* The hearer's part: what is printed comes out of the frame as it went in.
LEMMA ShowKeeps == WInv /\ Show => WInv'
<1> SUFFICES ASSUME WInv, Show PROVE WInv'
  OBVIOUS
<1> USE DEF WInv
<1>1. /\ stage = "relayed" /\ stage' = "shown" /\ name' = name /\ hearer' = hearer
      /\ typed' = typed /\ user' = user /\ room' = room /\ entered' = entered
  BY DEF Show
<1>2. WTexts'
  BY <1>1 DEF WTexts
<1>3. WStages' /\ WSent' /\ WRelayed'
  BY <1>1 DEF WStages, WSent, WRelayed
<1>4. /\ name \in Text /\ entered \in Text /\ typed \in Text /\ Body(typed) \in Text
      /\ Trim(typed) /\ <<>> \in Text
  BY LinesAreTexts
<1>5. user = Carried(name) /\ UserOf(frame) = user
  BY <1>1 DEF WTexts, WRelayed
<1>6. \A x : Decode(Carried(x)) = Seen(x)
  BY DEF Carried, Seen
<1>7. Decode(UserOf(frame)) = Seen(name)
  BY <1>5, <1>6
<1>8. PICK t, what :
        /\ t \in {"connect", "message", "enter", "leave"}
        /\ Cmd(frame) = <<t>> /\ Decode(BodyOf(frame)) = what
        /\ t = "connect" => what = <<>> /\ typed = <<>>
        /\ t = "message" => what = Seen(typed) /\ Cmd(typed) = <<>>
        /\ t = "enter" => what = Seen(Body(typed)) /\ Cmd(typed) # <<>>
        /\ t = "leave" => what = Seen(entered) /\ Cmd(typed) # <<>>
  <2>1. Decode(<<>>) = <<>>
    <3>1. PICK e : e = <<>>
      OBVIOUS
    <3>2. e \in Text /\ Len(e) < 2
      BY <3>1, EmptyText
    <3>3. Decode(e) = e
      BY <3>2, DecodeKeeps
    <3> QED BY <3>1, <3>3
  <2>2. CASE typed = <<>> /\ Cmd(frame) = <<"connect">> /\ BodyOf(frame) = <<>>
    BY <2>1, <2>2
  <2>3. CASE typed # <<>> /\ Cmd(typed) = <<>> /\ Cmd(frame) = <<"message">>
             /\ BodyOf(frame) = Carried(typed)
    BY <1>6, <2>3
  <2>4. CASE typed # <<>> /\ Cmd(typed) = <<"enter">> /\ Cmd(frame) = <<"enter">>
             /\ BodyOf(frame) = Carried(Body(typed))
    BY <1>6, <2>4
  <2>5. CASE typed # <<>> /\ Cmd(typed) = <<"leave">> /\ Cmd(frame) = <<"leave">>
             /\ BodyOf(frame) = Carried(entered)
    BY <1>6, <2>5
  <2> QED BY <1>1, <2>2, <2>3, <2>4, <2>5 DEF WRelayed
<1>9. Decode(Cmd(frame)) = <<t>>
  <2>1. t \in Symbols
    BY <1>8, SymbolsAssumption
  <2> QED BY <1>8, <2>1, WordDecoded
<1>10. screen' = IF t # "message" \/ Seen(name) # hearer
                 THEN [kind |-> t, who |-> Seen(name), what |-> what]
                 ELSE [kind |-> "none"]
  <2>1. screen' = IF \/ <<t>> = <<"message">> /\ Seen(name) # hearer
                     \/ <<t>> \in {<<"connect">>, <<"enter">>, <<"leave">>}
                  THEN [kind |-> <<t>>[1], who |-> Seen(name), what |-> what]
                  ELSE [kind |-> "none"]
    BY <1>7, <1>8, <1>9 DEF Show
  <2>2. \A x : <<t>> = <<x>> <=> t = x
    OBVIOUS
  <2>3. <<t>>[1] = t
    OBVIOUS
  <2> QED BY <1>8, <2>1, <2>2, <2>3
<1>11. FrameIntact'
  <2>1. CASE t # "message" \/ Seen(name) # hearer
    <3>1. screen'.kind = t /\ screen'.who = Seen(name) /\ screen'.what = what
      BY <1>10, <2>1
    <3>2. Seen(name)' = Seen(name) /\ Seen(typed)' = Seen(typed)
          /\ Seen(Body(typed))' = Seen(Body(typed)) /\ Seen(entered)' = Seen(entered)
      BY <1>1
    <3>3. CASE t = "connect"
      BY <1>8, <3>1, <3>2, <3>3 DEF FrameIntact
    <3>4. CASE t = "message"
      BY <1>8, <3>1, <3>2, <3>4 DEF FrameIntact
    <3>5. CASE t = "enter"
      BY <1>8, <3>1, <3>2, <3>5 DEF FrameIntact
    <3>6. CASE t = "leave"
      BY <1>8, <3>1, <3>2, <3>6 DEF FrameIntact
    <3> QED BY <1>8, <3>3, <3>4, <3>5, <3>6
  <2>2. CASE ~(t # "message" \/ Seen(name) # hearer)
    <3>1. screen'.kind = "none"
      BY <1>10, <2>2
    <3> QED BY <3>1 DEF FrameIntact
  <2> QED BY <2>1, <2>2
<1>12. PlainIsShown'
  <2> SUFFICES ASSUME typed # <<>>, Cmd(typed) = <<>>, Plain(name \o typed)
               PROVE  screen' = IF TrimSpace(name) = hearer
                                THEN [kind |-> "none"]
                                ELSE [kind |-> "message", who |-> TrimSpace(name), what |-> typed]
    BY <1>1 DEF PlainIsShown
  <2>1. t = "message" /\ what = Seen(typed)
    BY <1>8
  <2>2. Seen(name) = TrimSpace(name) /\ Seen(typed) = typed
    <3>1. /\ \A i \in 1 .. Len(name) : name[i] \notin Special
          /\ \A i \in 1 .. Len(typed) : typed[i] \notin Special
      BY <1>4, PlainParts
    <3>2. Decode(Carried(name)) = TrimSpace(name) /\ Decode(Carried(typed)) = TrimSpace(typed)
      BY <1>4, <3>1, PlainCarried
    <3>3. TrimSpace(typed) = typed
      BY <1>4, TrimKeeps
    <3> QED BY <1>6, <3>2, <3>3
  <2> QED BY <1>10, <2>1, <2>2
<1> QED BY <1>2, <1>3, <1>11, <1>12

LEMMA WInvariant == Spec => []WInv
<1>1. WInv /\ [Next]_vars => WInv'
  <2> SUFFICES ASSUME WInv, [Next]_vars PROVE WInv'
    OBVIOUS
  <2>1. CASE UNCHANGED vars
    BY <2>1 DEF WInv, WTexts, WStages, WSent, WRelayed, FrameIntact, PlainIsShown, vars
  <2> QED BY <2>1, ReadyKeeps, NextLineKeeps, TypeKeeps, HandleKeeps, ShowKeeps DEF Next
<1> QED BY <1>1, WInit, PTL DEF Spec

------------------------------------------------------------------------------
(* Encoding by the tables, character by character.                         *)
(* With the characters of a set K encoded a text is a row of blocks, each  *)
(* a symbol or a percent sign with a symbol for its digits.  One stage of  *)
(* encoding adds a character to K, one stage of decoding takes one away:   *)
(* while the percent sign is encoded, one in the text starts a block.      *)

\* FlattenSeq is the last of them.
LEMMA FlattenIs ==
  ASSUME NEW S, NEW seqs \in Seq(Seq(S)), NEW sol, sol[0] = <<>>,
         \A i \in 1 .. Len(seqs) : sol[i] = sol[i - 1] \o seqs[i]
  PROVE  FlattenSeq(seqs) = sol[Len(seqs)]
<1>1. PICK n \in Nat : n = Len(seqs)
  BY LenProperties
<1>2. CASE n = 0
  <2>1. seqs = <<>>
    BY <1>1, <1>2, EmptySeq
  <2> QED BY <1>1, <1>2, <2>1 DEF FlattenSeq
<1>3. CASE n # 0
  <2>1. ASSUME NEW i \in 1 .. n
        PROVE  sol[i] = IF i = 1 THEN seqs[i] ELSE sol[i - 1] \o seqs[i]
    <3>1. sol[i] = sol[i - 1] \o seqs[i]
      BY <1>1
    <3>2. CASE i = 1
      <4>1. seqs[i] \in Seq(S)
        BY <1>1, ElementOfSeq
      <4>2. <<>> \o seqs[i] = seqs[i]
        BY <4>1, ConcatEmptySeq
      <4>3. i - 1 = 0
        BY <3>2
      <4> QED BY <3>1, <3>2, <4>2, <4>3
    <3> QED BY <3>1, <3>2
  <2>2. n \in Nat \ {0} /\ Len(seqs) = n
    BY <1>1, <1>3
  <2>3. FlattenSeq(seqs) = sol[n]
    <3>1. \A i \in 1 .. n : sol[i] = IF i = 1 THEN seqs[i] ELSE sol[i - 1] \o seqs[i]
      BY <2>1
    <3> QED BY ONLY <2>2, <3>1, FlattenBySteps
  <2> QED BY <1>1, <2>3
<1> QED BY <1>2, <1>3


\* The lists joined so far, for any list of lists: what was joined first stays
\* where it is.
LEMMA FlattenSteps ==
  ASSUME NEW S, NEW seqs \in Seq(Seq(S))
  PROVE  \E sol :
           /\ \A i \in 0 .. Len(seqs) : sol[i] \in Seq(S)
           /\ sol[0] = <<>>
           /\ \A i \in 1 .. Len(seqs) : sol[i] = sol[i - 1] \o seqs[i]
           /\ \A i \in 0 .. Len(seqs) :
                /\ Len(sol[i]) \in Nat /\ Len(sol[i]) <= Len(sol[Len(seqs)])
                /\ \A k \in 1 .. Len(sol[i]) : sol[Len(seqs)][k] = sol[i][k]
           /\ FlattenSeq(seqs) = sol[Len(seqs)]
<1>1. PICK n \in Nat : n = Len(seqs)
  BY LenProperties
<1>2. \A i \in 1 .. n : seqs[i] \in Seq(S)
  BY <1>1, ElementOfSeq
<1> DEFINE T == {k \in 0 .. n : \E sol \in [0 .. k -> Seq(S)] :
                   /\ sol[0] = <<>>
                   /\ \A i \in 1 .. k : sol[i] = sol[i - 1] \o seqs[i]}
<1>3. 0 \in T
  <2> DEFINE sol == [k \in 0 .. 0 |-> <<>>]
  <2>1. <<>> \in Seq(S)
    BY EmptySeq
  <2>2. sol \in [0 .. 0 -> Seq(S)] /\ sol[0] = <<>>
    BY <2>1
  <2>3. \A i \in 1 .. 0 : sol[i] = sol[i - 1] \o seqs[i]
    OBVIOUS
  <2> HIDE DEF sol
  <2>4. \E so \in [0 .. 0 -> Seq(S)] :
          so[0] = <<>> /\ \A i \in 1 .. 0 : so[i] = so[i - 1] \o seqs[i]
    BY <2>2, <2>3
  <2>5. 0 \in 0 .. n
    OBVIOUS
  <2> QED BY <2>4, <2>5
<1>4. ASSUME NEW k \in 0 .. n, k \in T, k # n
      PROVE  k + 1 \in T
  <2>1. PICK sol \in [0 .. k -> Seq(S)] :
          sol[0] = <<>> /\ \A i \in 1 .. k : sol[i] = sol[i - 1] \o seqs[i]
    BY <1>4
  <2>2. PICK new : new = sol[k] \o seqs[k + 1]
    OBVIOUS
  <2>3. new \in Seq(S)
    <3>1. sol[k] \in Seq(S) /\ seqs[k + 1] \in Seq(S)
      BY <1>2, <1>4
    <3> QED BY <2>2, <3>1, ConcatProperties
  <2> DEFINE more == [j \in 0 .. k + 1 |-> IF j = k + 1 THEN new ELSE sol[j]]
  <2>4. more \in [0 .. k + 1 -> Seq(S)]
    BY <2>3
  <2>5. more[0] = <<>>
    BY <2>1
  <2>6. ASSUME NEW i \in 1 .. k + 1
        PROVE  more[i] = more[i - 1] \o seqs[i]
    <3>1. i - 1 \in 0 .. k /\ more[i - 1] = sol[i - 1]
      OBVIOUS
    <3>2. CASE i = k + 1
      <4>1. more[i] = new /\ i - 1 = k
        BY <3>2
      <4> QED BY <2>2, <3>1, <3>2, <4>1
    <3>3. CASE i # k + 1
      <4>1. i \in 1 .. k /\ more[i] = sol[i]
        BY <3>3
      <4> QED BY <2>1, <3>1, <4>1
    <3> QED BY <3>2, <3>3
  <2>7. k + 1 \in 0 .. n
    BY <1>4
  <2> HIDE DEF more
  <2> QED BY <2>4, <2>5, <2>6, <2>7
<1>5. n \in T
  <2> HIDE DEF T
  <2>1. 0 .. n \subseteq T
    BY <1>3, <1>4, UpTo
  <2> QED BY <2>1
<1>6. PICK sol :
        /\ \A i \in 0 .. n : sol[i] \in Seq(S)
        /\ sol[0] = <<>>
        /\ \A i \in 1 .. n : sol[i] = sol[i - 1] \o seqs[i]
  BY <1>5
<1> HIDE DEF T
<1>7. \A i \in 0 .. n : Len(sol[i]) \in Nat
  BY <1>6, LenProperties
<1> DEFINE Cut(i, j) == /\ Len(sol[i]) <= Len(sol[j])
                        /\ \A k \in 1 .. Len(sol[i]) : sol[j][k] = sol[i][k]
           C == {j \in 0 .. n : \A i \in 0 .. j : Cut(i, j)}
<1>8. 0 \in C
  BY <1>7
<1>9. ASSUME NEW j \in 0 .. n, j \in C, j # n
      PROVE  j + 1 \in C
  <2>1. Cut(j, j + 1)
    <3>0. j + 1 \in 1 .. n /\ (j + 1) - 1 = j
      BY <1>9
    <3>1. sol[j + 1] = sol[j] \o seqs[j + 1]
      BY <1>6, <3>0
    <3>2. sol[j] \in Seq(S) /\ seqs[j + 1] \in Seq(S)
      BY <1>1, <1>6, <1>9, <3>0, ElementOfSeq
    <3>3. PICK a, b : a = sol[j] /\ b = seqs[j + 1]
      OBVIOUS
    <3>4. /\ Len(a \o b) = Len(a) + Len(b)
          /\ \A i \in 1 .. Len(a) + Len(b) :
               (a \o b)[i] = IF i <= Len(a) THEN a[i] ELSE b[i - Len(a)]
      <4>1. a \in Seq(S) /\ b \in Seq(S)
        BY ONLY <3>2, <3>3
      <4> QED BY ONLY <4>1, ConcatProperties
    <3>5. Len(a) \in Nat /\ Len(b) \in Nat
      BY <3>2, <3>3, LenProperties
    <3>6. PICK c : c = sol[j + 1]
      OBVIOUS
    <3>7. Len(a) <= Len(c) /\ \A k \in 1 .. Len(a) : c[k] = a[k]
      <4>1. c = a \o b
        BY <3>1, <3>3, <3>6
      <4>2. \A k \in 1 .. Len(a) : k \in 1 .. Len(a) + Len(b) /\ k <= Len(a)
        BY <3>5
      <4> QED BY ONLY <3>4, <3>5, <4>1, <4>2
    <3> QED BY <3>3, <3>6, <3>7
  <2>2. ASSUME NEW i \in 0 .. j + 1
        PROVE  Cut(i, j + 1)
    <3>1. CASE i = j + 1
      <4>1. Len(sol[j + 1]) \in Nat
        BY <1>7, <1>9
      <4> QED BY <3>1, <4>1
    <3>2. CASE i # j + 1
      <4>1. i \in 0 .. j /\ Cut(i, j)
        BY <1>9, <3>2
      <4>2. Len(sol[i]) \in Nat /\ Len(sol[j]) \in Nat /\ Len(sol[j + 1]) \in Nat
        BY <1>7, <1>9, <4>1
      <4> QED BY <2>1, <4>1, <4>2
    <3> QED BY <3>1, <3>2
  <2>3. j + 1 \in 0 .. n
    BY <1>9
  <2> HIDE DEF Cut
  <2> QED BY <2>2, <2>3
<1>10. n \in C
  <2> HIDE DEF C
  <2>1. 0 .. n \subseteq C
    BY <1>8, <1>9, UpTo
  <2> QED BY <2>1
<1>11. FlattenSeq(seqs) = sol[n]
  BY <1>1, <1>6, FlattenIs
<1> QED BY <1>1, <1>6, <1>7, <1>10, <1>11

\* Replacing a token of two symbols.
LEMMA ReplaceTwo ==
  ASSUME NEW S, NEW s \in Seq(S), NEW a \in S, NEW b \in S, NEW new
  PROVE  ReplaceToken(s, <<a, b>>, new)
           = FlattenSeq([i \in DOMAIN s |->
               IF i < Len(s) /\ s[i] = a /\ s[i + 1] = b THEN new
               ELSE IF i > 1 /\ s[i - 1] = a /\ s[i] = b THEN <<>>
               ELSE <<s[i]>>])
<1>1. Len(s) \in Nat /\ DOMAIN s = 1 .. Len(s) /\ \A i \in 1 .. Len(s) : s[i] \in S
  BY LenProperties, ElementOfSeq
<1> DEFINE at == {i \in 1 .. Len(s) - 2 + 1 : SubSeq(s, i, i + 2 - 1) = <<a, b>>}
           within == {i \in DOMAIN s : \E j \in at : i \in j + 1 .. j + 2 - 1}
           pieces == [i \in DOMAIN s |->
                        IF i \in at THEN new ELSE IF i \in within THEN <<>> ELSE <<s[i]>>]
<1>2. \A i \in Nat : i \in at <=> i \in DOMAIN s /\ i < Len(s) /\ s[i] = a /\ s[i + 1] = b
  <2>1. ASSUME NEW i \in 1 .. Len(s) - 1
        PROVE  SubSeq(s, i, i + 1) = <<a, b>> <=> s[i] = a /\ s[i + 1] = b
    <3>1. PICK m \in Int : m = i + 1
      BY <1>1
    <3>2. i \in Int /\ i <= m /\ m - i + 1 = 2 /\ \A k \in i .. m : s[k] \in S
      BY <1>1, <3>1
    <3>3. PICK t, u : t = SubSeq(s, i, m) /\ u = <<a, b>>
      OBVIOUS
    <3>4. t \in Seq(S) /\ Len(t) = 2 /\ \A k \in 1 .. m - i + 1 : t[k] = s[i + k - 1]
      BY <3>2, <3>3, SubSeqProperties
    <3>5. t[1] = s[i] /\ t[2] = s[i + 1]
      BY <3>2, <3>4
    <3>6. u \in Seq(S) /\ Len(u) = 2 /\ u[1] = a /\ u[2] = b
      BY <3>3
    <3>7. t = u <=> s[i] = a /\ s[i + 1] = b
      <4>1. ASSUME s[i] = a, s[i + 1] = b
            PROVE  t = u
        <5>1. \A k \in 1 .. Len(t) : t[k] = u[k]
          BY <3>4, <3>5, <3>6, <4>1
        <5> QED BY <3>4, <3>6, <5>1, SeqEqual
      <4> QED BY <3>5, <3>6, <4>1
    <3> QED BY <3>1, <3>3, <3>7
  <2>2. /\ Len(s) - 2 + 1 = Len(s) - 1 /\ \A i \in Nat : i + 2 - 1 = i + 1
        /\ \A i \in Nat : i \in 1 .. Len(s) - 1 <=> i \in DOMAIN s /\ i < Len(s)
    BY <1>1
  <2> QED BY <2>1, <2>2
<1>3. \A i \in DOMAIN s : i \in within <=> i > 1 /\ s[i - 1] = a /\ s[i] = b
  <2> TAKE i \in DOMAIN s
  <2>1. at \subseteq Nat
    BY <1>1
  <2>2. \A j \in Nat : i \in j + 1 .. j + 2 - 1 <=> j = i - 1
    BY <1>1
  <2>3. i \in within <=> i - 1 \in at
    <3>1. at \subseteq Nat => (i \in within <=> \E j \in at : j = i - 1)
      <4> HIDE DEF at
      <4> QED BY <2>2
    <3> HIDE DEF at, within
    <3> QED BY <2>1, <3>1
  <2>4. i - 1 \in at <=> i > 1 /\ s[i - 1] = a /\ s[i] = b
    <3>1. CASE i = 1
      <4>1. 0 \notin at
        OBVIOUS
      <4> HIDE DEF at
      <4> QED BY <3>1, <4>1
    <3>2. CASE i # 1
      <4>1. i - 1 \in Nat /\ i - 1 \in DOMAIN s /\ i - 1 < Len(s) /\ (i - 1) + 1 = i /\ i > 1
        BY <1>1, <3>2
      <4> HIDE DEF at
      <4> QED BY <1>2, <4>1
    <3> QED BY <3>1, <3>2
  <2> QED BY <2>3, <2>4
<1>4. pieces = [i \in DOMAIN s |->
                  IF i < Len(s) /\ s[i] = a /\ s[i + 1] = b THEN new
                  ELSE IF i > 1 /\ s[i - 1] = a /\ s[i] = b THEN <<>>
                  ELSE <<s[i]>>]
  <2>1. \A i \in DOMAIN s : i \in at <=> i < Len(s) /\ s[i] = a /\ s[i + 1] = b
    <3> HIDE DEF at
    <3> QED BY <1>1, <1>2
  <2> HIDE DEF at, within
  <2> QED BY <1>3, <2>1
<1>5. ReplaceToken(s, <<a, b>>, new) = FlattenSeq(pieces)
  <2>1. Len(<<a, b>>) = 2
    OBVIOUS
  <2> QED BY <2>1 DEF ReplaceToken
<1> HIDE DEF pieces
<1> QED BY <1>4, <1>5

\* A block stands in a text after its first p elements.
Stands(block, p, t) ==
  /\ p + Len(block) <= Len(t)
  /\ \A k \in 1 .. Len(block) : t[p + k] = block[k]

\* In a text t made of blocks of one or two elements, the pieces of a block,
\* wherever it stands, make up its replacement.
MakeUp(pieces, blocks, news, t) ==
  \A i \in 1 .. Len(blocks), p \in Nat :
    /\ Stands(blocks[i], p, t)
    /\ p = 0 \/ \E j \in 1 .. Len(blocks) : t[p] = blocks[j][Len(blocks[j])]
    => \/ Len(blocks[i]) = 1 /\ pieces[p + 1] = news[i]
       \/ Len(blocks[i]) = 2 /\ pieces[p + 1] \o pieces[p + 2] = news[i]

\* Three texts in a row, put together in either order.
Associate(x, y, z) == (x \o y) \o z = x \o (y \o z)

LEMMA ThreeInARow ==
  \A S, x, y, z :
    x \in Seq(S) /\ y \in Seq(S) /\ z \in Seq(S) => Associate(x, y, z)
<1> SUFFICES ASSUME NEW S, NEW x, NEW y, NEW z,
                    x \in Seq(S), y \in Seq(S), z \in Seq(S)
             PROVE  (x \o y) \o z = x \o (y \o z)
  BY DEF Associate
<1> QED BY ConcatAssociative

\* Then all pieces make up all replacements.
LEMMA PiecesOfBlocks ==
  ASSUME NEW S, NEW blocks \in Seq(Seq(S)), NEW news \in Seq(Seq(S)), Len(news) = Len(blocks),
         \A i \in 1 .. Len(blocks) : Len(blocks[i]) \in {1, 2},
         NEW t, t = FlattenSeq(blocks), NEW pieces \in Seq(Seq(S)), Len(pieces) = Len(t),
         MakeUp(pieces, blocks, news, t)
  PROVE  FlattenSeq(pieces) = FlattenSeq(news)
<1>1. PICK m \in Nat : m = Len(blocks)
  BY LenProperties
<1>2. PICK F :
        /\ \A i \in 0 .. Len(blocks) : F[i] \in Seq(S)
        /\ F[0] = <<>>
        /\ \A i \in 1 .. Len(blocks) : F[i] = F[i - 1] \o blocks[i]
        /\ \A i \in 0 .. Len(blocks) :
             /\ Len(F[i]) \in Nat /\ Len(F[i]) <= Len(F[Len(blocks)])
             /\ \A k \in 1 .. Len(F[i]) : F[Len(blocks)][k] = F[i][k]
        /\ FlattenSeq(blocks) = F[Len(blocks)]
  BY FlattenSteps
<1>3. t = F[m] /\ F[0] = <<>> /\ \A i \in 0 .. m : F[i] \in Seq(S)
  BY <1>1, <1>2
<1>4. \A i \in 0 .. m :
        /\ Len(F[i]) \in Nat /\ Len(F[i]) <= Len(t)
        /\ \A k \in 1 .. Len(F[i]) : t[k] = F[i][k]
  BY <1>1, <1>2
<1>5. PICK N \in Nat : N = Len(t)
  <2>1. m \in 0 .. m
    OBVIOUS
  <2> QED BY <1>3, <1>4, <2>1
<1>6. PICK G :
        /\ \A k \in 0 .. N : G[k] \in Seq(S)
        /\ G[0] = <<>>
        /\ \A k \in 1 .. N : G[k] = G[k - 1] \o pieces[k]
        /\ FlattenSeq(pieces) = G[N]
  <2>1. PICK g :
          /\ \A k \in 0 .. Len(pieces) : g[k] \in Seq(S)
          /\ g[0] = <<>>
          /\ \A k \in 1 .. Len(pieces) : g[k] = g[k - 1] \o pieces[k]
          /\ \A k \in 0 .. Len(pieces) :
               /\ Len(g[k]) \in Nat /\ Len(g[k]) <= Len(g[Len(pieces)])
               /\ \A l \in 1 .. Len(g[k]) : g[Len(pieces)][l] = g[k][l]
          /\ FlattenSeq(pieces) = g[Len(pieces)]
    BY FlattenSteps
  <2> QED BY <1>5, <2>1
<1>7. \A i \in 1 .. m : F[i] = F[i - 1] \o blocks[i]
  BY <1>1, <1>2
<1>8. ASSUME NEW i \in 1 .. m
      PROVE  /\ Len(F[i]) = Len(F[i - 1]) + Len(blocks[i])
             /\ \A k \in 1 .. Len(blocks[i]) : F[i][Len(F[i - 1]) + k] = blocks[i][k]
             /\ Len(blocks[i]) \in {1, 2}
  <2>1. PICK a, b : a = F[i - 1] /\ b = blocks[i]
    OBVIOUS
  <2>2. a \in Seq(S) /\ b \in Seq(S) /\ F[i] = a \o b /\ Len(b) \in {1, 2}
    <3>1. b \in Seq(S)
      <4>1. i \in 1 .. Len(blocks)
        BY <1>1
      <4> QED BY ONLY blocks \in Seq(Seq(S)), <2>1, <4>1, ElementOfSeq
    <3>2. a \in Seq(S) /\ F[i] = a \o b
      <4>1. i - 1 \in 0 .. m
        OBVIOUS
      <4> QED BY ONLY i \in 1 .. m, <1>3, <1>7, <2>1, <4>1
    <3>3. Len(b) \in {1, 2}
      BY <1>1, <2>1
    <3> QED BY <3>1, <3>2, <3>3
  <2>3. /\ Len(a \o b) = Len(a) + Len(b) /\ Len(a) \in Nat
        /\ \A k \in 1 .. Len(a) + Len(b) :
             (a \o b)[k] = IF k <= Len(a) THEN a[k] ELSE b[k - Len(a)]
    BY <2>2, ConcatProperties, LenProperties
  <2>4. \A k \in 1 .. Len(b) :
          Len(a) + k \in 1 .. Len(a) + Len(b) /\ ~(Len(a) + k <= Len(a)) /\ (Len(a) + k) - Len(a) = k
    BY <2>2, <2>3
  <2> QED BY <2>1, <2>2, <2>3, <2>4
<1> DEFINE H == [i \in 0 .. m |-> G[Len(F[i])]]
<1>9. ASSUME NEW i \in 1 .. m
      PROVE  H[i] = H[i - 1] \o news[i]
  <2>1. PICK p \in Nat : p = Len(F[i - 1])
    BY <1>4
  <2>2. PICK b : b = blocks[i]
    OBVIOUS
  <2>3. /\ Len(F[i]) = p + Len(b) /\ Len(b) \in {1, 2} /\ p + Len(b) <= N
        /\ \A k \in 1 .. Len(b) : t[p + k] = b[k]
    <3>1. Len(F[i]) = p + Len(b) /\ Len(b) \in {1, 2}
          /\ \A k \in 1 .. Len(b) : F[i][p + k] = b[k]
      BY <1>8, <2>1, <2>2
    <3>2. Len(F[i]) <= N /\ \A k \in 1 .. Len(F[i]) : t[k] = F[i][k]
      BY <1>4, <1>5
    <3>3. \A k \in 1 .. Len(b) : p + k \in 1 .. Len(F[i])
      BY <3>1
    <3> QED BY <3>1, <3>2, <3>3
  <2>4. p = 0 \/ \E j \in 1 .. m : t[p] = blocks[j][Len(blocks[j])]
    <3>1. CASE i = 1
      <4>1. i - 1 = 0 /\ Len(<<>>) = 0
        BY <3>1
      <4> QED BY <1>3, <2>1, <4>1
    <3>2. CASE i # 1
      <4>1. PICK j \in 1 .. m : j = i - 1
        BY <3>2
      <4>2. PICK l \in {1, 2} : l = Len(blocks[j])
        BY <1>8
      <4>3. p = Len(F[j - 1]) + l /\ F[j][Len(F[j - 1]) + l] = blocks[j][l]
        <5>1. l \in 1 .. l
          OBVIOUS
        <5> QED BY <1>8, <2>1, <4>1, <4>2, <5>1
      <4>4. Len(F[j - 1]) \in Nat
        BY <1>4
      <4>5. t[p] = F[j][p]
        <5>1. p \in 1 .. Len(F[j])
          BY <2>1, <4>1, <4>3, <4>4
        <5> QED BY <1>4, <5>1
      <4> QED BY <4>2, <4>3, <4>5
    <3> QED BY <3>1, <3>2
  <2>5. \/ Len(b) = 1 /\ pieces[p + 1] = news[i]
        \/ Len(b) = 2 /\ pieces[p + 1] \o pieces[p + 2] = news[i]
    BY <1>1, <1>5, <2>2, <2>3, <2>4 DEF MakeUp, Stands
  <2>6. H[i - 1] = G[p] /\ H[i] = G[p + Len(b)]
    <3>1. i - 1 \in 0 .. m /\ i \in 0 .. m
      OBVIOUS
    <3> QED BY ONLY <2>1, <2>3, <3>1 DEF H
  <2>7. G[p + 1] = G[p] \o pieces[p + 1]
    <3>1. p + 1 \in 1 .. N /\ (p + 1) - 1 = p
      <4>1. PICK l : l = Len(b)
        OBVIOUS
      <4>2. l \in {1, 2} /\ p + l <= N
        BY ONLY <2>3, <4>1
      <4> QED BY ONLY p \in Nat, N \in Nat, <4>2
    <3> QED BY <1>6, <3>1
  <2>8. CASE Len(b) = 2
    <3>1. p + 2 \in 1 .. N /\ (p + 2) - 1 = p + 1
      BY <2>3, <2>8
    <3>2. G[p + 2] = G[p + 1] \o pieces[p + 2]
      BY <1>6, <3>1
    <3>3. pieces[p + 1] \in Seq(S) /\ pieces[p + 2] \in Seq(S) /\ G[p] \in Seq(S)
      <4>1. p + 1 \in 1 .. N /\ p \in 0 .. N
        BY <3>1
      <4>2. p + 1 \in 1 .. Len(pieces) /\ p + 2 \in 1 .. Len(pieces)
        BY <1>5, <3>1, <4>1
      <4>3. pieces[p + 1] \in Seq(S) /\ pieces[p + 2] \in Seq(S)
        BY ONLY pieces \in Seq(Seq(S)), <4>2, ElementOfSeq
      <4> QED BY ONLY <1>6, <4>1, <4>3
    <3>4. (G[p] \o pieces[p + 1]) \o pieces[p + 2] = G[p] \o (pieces[p + 1] \o pieces[p + 2])
      <4>1. PICK x, y, z : x = G[p] /\ y = pieces[p + 1] /\ z = pieces[p + 2]
        OBVIOUS
      <4>2. x \in Seq(S) /\ y \in Seq(S) /\ z \in Seq(S)
        BY ONLY <3>3, <4>1
      <4>3. Associate(x, y, z)
        BY <4>2, ThreeInARow, Zenon
      <4>4. (x \o y) \o z = x \o (y \o z)
        BY ONLY <4>3 DEF Associate
      <4> QED BY ONLY <4>1, <4>4
    <3> HIDE DEF H
    <3> QED BY <2>5, <2>6, <2>7, <2>8, <3>2, <3>4
  <2> HIDE DEF H
  <2> QED BY <2>5, <2>6, <2>7, <2>8
<1>10. H[0] = <<>>
  <2>1. Len(F[0]) = 0
    BY <1>3
  <2> QED BY <1>6, <2>1
<1>11. PICK h : h = H
  OBVIOUS
<1>12. h[0] = <<>> /\ \A i \in 1 .. Len(news) : h[i] = h[i - 1] \o news[i]
  <2> HIDE DEF H
  <2> QED BY <1>1, <1>9, <1>10, <1>11
<1>13. FlattenSeq(news) = h[Len(news)]
  BY ONLY news \in Seq(Seq(S)), <1>12, FlattenIs
<1>14. h[Len(news)] = G[N]
  BY <1>1, <1>3, <1>5, <1>11
<1> QED BY <1>6, <1>13, <1>14

\* The digits of an encoded character.
Digits == [c \in Special |-> CASE c = "%" -> "25" [] c = ":" -> "3A" [] c = "[" -> "5B"
                               [] c = "]" -> "5D" [] c = "," -> "2C" [] c = "quote" -> "22"]

CodeSymbols == Symbols \cup {Digits[c] : c \in Special}

\* A symbol, and a text symbol by symbol, when the characters of K are encoded.
Coded(K, c) == IF c \in K THEN <<"%", Digits[c]>> ELSE <<c>>

Blocks(K, s) == [i \in DOMAIN s |-> Coded(K, s[i])]

LEMMA DigitsDiffer ==
  \A c \in Special :
    /\ Digits[c] \notin Special
    /\ \A d \in Special : Digits[c] = Digits[d] => c = d
BY DEF Digits, Special

LEMMA BlocksFacts ==
  ASSUME NEW s \in Text, NEW K \in SUBSET Special
  PROVE  /\ Blocks(K, s) \in Seq(Seq(CodeSymbols))
         /\ Len(Blocks(K, s)) = Len(s)
         /\ \A i \in 1 .. Len(s) : Blocks(K, s)[i] = Coded(K, s[i])
         /\ \A i \in 1 .. Len(s) : Len(Coded(K, s[i])) = IF s[i] \in K THEN 2 ELSE 1
<1>1. Len(s) \in Nat /\ DOMAIN s = 1 .. Len(s) /\ \A i \in 1 .. Len(s) : s[i] \in Symbols
  BY TextFacts
<1>2. ASSUME NEW i \in 1 .. Len(s)
      PROVE  /\ Coded(K, s[i]) \in Seq(CodeSymbols)
             /\ Len(Coded(K, s[i])) = IF s[i] \in K THEN 2 ELSE 1
  <2>1. CASE s[i] \in K
    <3>1. "%" \in CodeSymbols /\ Digits[s[i]] \in CodeSymbols
      BY <2>1, SymbolsAssumption DEF CodeSymbols, Special
    <3>2. PICK x : x = Digits[s[i]]
      OBVIOUS
    <3>3. <<"%", x>> \in Seq(CodeSymbols) /\ Len(<<"%", x>>) = 2
      BY <3>1, <3>2
    <3> QED BY <2>1, <3>2, <3>3 DEF Coded
  <2>2. CASE s[i] \notin K
    <3>1. s[i] \in CodeSymbols
      BY <1>1 DEF CodeSymbols
    <3>2. PICK x : x = s[i]
      OBVIOUS
    <3>3. <<x>> \in Seq(CodeSymbols) /\ Len(<<x>>) = 1
      BY <3>1, <3>2
    <3> QED BY <2>2, <3>2, <3>3 DEF Coded
  <2> QED BY <2>1, <2>2
<1> QED BY <1>1, <1>2 DEF Blocks

\* The last symbol of an encoded one.
LastOf(K, c) == IF c \in K THEN Digits[c] ELSE c

\* The pieces that a replacement puts in place of a text's symbols, K encoded,
\* make up the symbols with L encoded.
Recode(piece, K, L, s, t) ==
  \A i \in 1 .. Len(s), p \in Nat :
    /\ Stands(Coded(K, s[i]), p, t)
    /\ p = 0 \/ \E j \in 1 .. Len(s) : t[p] = LastOf(K, s[j])
    => \/ s[i] \notin K /\ piece[p + 1] = Coded(L, s[i])
       \/ s[i] \in K /\ piece[p + 1] \o piece[p + 2] = Coded(L, s[i])

LEMMA CodedIsText ==
  ASSUME NEW s \in Text, NEW K \in SUBSET Special
  PROVE  FlattenSeq(Blocks(K, s)) \in Seq(CodeSymbols)
<1>1. PICK b : b = Blocks(K, s)
  OBVIOUS
<1>2. b \in Seq(Seq(CodeSymbols))
  BY <1>1, BlocksFacts
<1>3. PICK F :
        /\ \A i \in 0 .. Len(b) : F[i] \in Seq(CodeSymbols)
        /\ F[0] = <<>>
        /\ \A i \in 1 .. Len(b) : F[i] = F[i - 1] \o b[i]
        /\ \A i \in 0 .. Len(b) :
             /\ Len(F[i]) \in Nat /\ Len(F[i]) <= Len(F[Len(b)])
             /\ \A k \in 1 .. Len(F[i]) : F[Len(b)][k] = F[i][k]
        /\ FlattenSeq(b) = F[Len(b)]
  BY <1>2, FlattenSteps
<1>4. Len(b) \in 0 .. Len(b)
  BY <1>2, LenProperties
<1> QED BY <1>1, <1>3, <1>4

\* Then all of them make up the text with L encoded.
LEMMA CodedText ==
  ASSUME NEW s \in Text, NEW K \in SUBSET Special, NEW L \in SUBSET Special,
         NEW t, t = FlattenSeq(Blocks(K, s)), NEW piece,
         \A k \in 1 .. Len(t) : piece[k] \in Seq(CodeSymbols),
         Recode(piece, K, L, s, t)
  PROVE  FlattenSeq([k \in DOMAIN t |-> piece[k]]) = FlattenSeq(Blocks(L, s))
<1>1. PICK b, c : b = Blocks(K, s) /\ c = Blocks(L, s)
  OBVIOUS
<1>2. /\ b \in Seq(Seq(CodeSymbols)) /\ Len(b) = Len(s)
      /\ \A i \in 1 .. Len(s) : b[i] = Coded(K, s[i])
      /\ \A i \in 1 .. Len(s) : Len(Coded(K, s[i])) = IF s[i] \in K THEN 2 ELSE 1
  BY <1>1, BlocksFacts
<1>3. /\ c \in Seq(Seq(CodeSymbols)) /\ Len(c) = Len(s)
      /\ \A i \in 1 .. Len(s) : c[i] = Coded(L, s[i])
  BY <1>1, BlocksFacts
<1>4. t \in Seq(CodeSymbols)
  BY CodedIsText
<1>5. Len(t) \in Nat /\ DOMAIN t = 1 .. Len(t)
  BY <1>4, LenProperties
<1>6. PICK pieces : pieces = [k \in 1 .. Len(t) |-> piece[k]]
  OBVIOUS
<1>7. pieces \in Seq(Seq(CodeSymbols)) /\ Len(pieces) = Len(t)
  BY <1>5, <1>6
<1>8. ASSUME NEW j \in 1 .. Len(s)
      PROVE  Coded(K, s[j])[Len(Coded(K, s[j]))] = LastOf(K, s[j])
  <2>1. CASE s[j] \in K
    <3>1. PICK x : x = Digits[s[j]]
      OBVIOUS
    <3>2. Len(<<"%", x>>) = 2 /\ <<"%", x>>[2] = x
      OBVIOUS
    <3> QED BY ONLY <2>1, <3>1, <3>2 DEF Coded, LastOf
  <2>2. CASE s[j] \notin K
    <3>1. PICK x : x = s[j]
      OBVIOUS
    <3>2. Len(<<x>>) = 1 /\ <<x>>[1] = x
      OBVIOUS
    <3> QED BY ONLY <2>2, <3>1, <3>2 DEF Coded, LastOf
  <2> QED BY <2>1, <2>2
<1>9. ASSUME NEW i \in 1 .. Len(b), NEW p \in Nat,
             Stands(b[i], p, t),
             p = 0 \/ \E j \in 1 .. Len(b) : t[p] = b[j][Len(b[j])]
      PROVE  \/ Len(b[i]) = 1 /\ pieces[p + 1] = c[i]
             \/ Len(b[i]) = 2 /\ pieces[p + 1] \o pieces[p + 2] = c[i]
  <2>1. i \in 1 .. Len(s) /\ b[i] = Coded(K, s[i]) /\ c[i] = Coded(L, s[i])
        /\ Len(b[i]) = IF s[i] \in K THEN 2 ELSE 1
    BY ONLY <1>2, <1>3, i \in 1 .. Len(b)
  <2>2. p = 0 \/ \E j \in 1 .. Len(s) : t[p] = LastOf(K, s[j])
    BY ONLY <1>2, <1>8, <1>9
  <2>3. \/ s[i] \notin K /\ piece[p + 1] = Coded(L, s[i])
        \/ s[i] \in K /\ piece[p + 1] \o piece[p + 2] = Coded(L, s[i])
    <3>1. Stands(Coded(K, s[i]), p, t)
      BY ONLY <1>9, <2>1
    <3> QED BY ONLY Recode(piece, K, L, s, t), p \in Nat, <2>1, <2>2, <3>1 DEF Recode
  <2>4. \A k \in 1 .. Len(b[i]) : pieces[p + k] = piece[p + k]
    <3>1. PICK l : l = Len(b[i])
      OBVIOUS
    <3>2. l \in {1, 2} /\ p + l <= Len(t)
      BY ONLY <1>9, <2>1, <3>1 DEF Stands
    <3>3. \A k \in 1 .. l : p + k \in 1 .. Len(t)
      BY ONLY <1>5, <3>2, p \in Nat
    <3> QED BY ONLY <1>6, <3>1, <3>3
  <2>5. CASE s[i] \notin K
    <3>1. Len(b[i]) = 1 /\ pieces[p + 1] = piece[p + 1]
      BY ONLY <2>1, <2>4, <2>5
    <3> QED BY ONLY <2>1, <2>3, <2>5, <3>1
  <2>6. CASE s[i] \in K
    <3>1. Len(b[i]) = 2 /\ pieces[p + 1] = piece[p + 1] /\ pieces[p + 2] = piece[p + 2]
      BY ONLY <2>1, <2>4, <2>6
    <3> QED BY ONLY <2>1, <2>3, <2>6, <3>1
  <2> QED BY <2>5, <2>6
<1>10. MakeUp(pieces, b, c, t)
  BY ONLY <1>9 DEF MakeUp
<1>11. FlattenSeq(pieces) = FlattenSeq(c)
  <2>1. /\ \A i \in 1 .. Len(b) : Len(b[i]) \in {1, 2}
        /\ Len(c) = Len(b) /\ t = FlattenSeq(b)
    <3>1. ASSUME NEW i \in 1 .. Len(b)
          PROVE  Len(b[i]) \in {1, 2}
      <4>1. i \in 1 .. Len(s)
        BY ONLY <1>2, <3>1
      <4>2. Len(b[i]) = IF s[i] \in K THEN 2 ELSE 1
        BY ONLY <1>2, <4>1
      <4> QED BY ONLY <4>2
    <3>2. Len(c) = Len(b)
      BY ONLY <1>2, <1>3
    <3>3. t = FlattenSeq(b)
      BY ONLY <1>1, t = FlattenSeq(Blocks(K, s))
    <3> QED BY ONLY <3>1, <3>2, <3>3
  <2> QED BY ONLY <1>2, <1>3, <1>7, <1>10, <2>1, PiecesOfBlocks
<1> QED BY ONLY <1>1, <1>5, <1>6, <1>11

\* What comes before a block, or ends one, is no percent sign once that is
\* encoded.
LEMMA BlockEnds ==
  ASSUME NEW K \in SUBSET Special, "%" \in K, NEW c
  PROVE  LastOf(K, c) # "%"
BY DigitsDiffer DEF LastOf, Special

\* Where the code of a symbol stands in a text.
LEMMA StandsAt ==
  ASSUME NEW K, NEW c, NEW p \in Nat, NEW t, Len(t) \in Nat, Stands(Coded(K, c), p, t)
  PROVE  /\ p + 1 \in 1 .. Len(t)
         /\ c \notin K => t[p + 1] = c
         /\ c \in K => p + 2 \in 1 .. Len(t) /\ t[p + 1] = "%" /\ t[p + 2] = Digits[c]
<1>1. CASE c \notin K
  <2>1. Coded(K, c) = <<c>> /\ Len(<<c>>) = 1 /\ <<c>>[1] = c
    BY <1>1 DEF Coded
  <2>2. p + 1 <= Len(t) /\ t[p + 1] = c
    BY <2>1 DEF Stands
  <2> QED BY <1>1, <2>2
<1>2. CASE c \in K
  <2>1. PICK x : x = Digits[c]
    OBVIOUS
  <2>2. Coded(K, c) = <<"%", x>> /\ Len(<<"%", x>>) = 2
        /\ <<"%", x>>[1] = "%" /\ <<"%", x>>[2] = x
    BY <1>2, <2>1 DEF Coded
  <2>3. p + 2 <= Len(t) /\ t[p + 1] = "%" /\ t[p + 2] = x
    BY <2>2 DEF Stands
  <2> QED BY <1>2, <2>1, <2>3
<1> QED BY <1>1, <1>2

LEMMA PairOf ==
  ASSUME NEW a, NEW b
  PROVE  <<a>> \o <<b>> = <<a, b>>
<1>1. PICK S : a \in S /\ b \in S
  <2>1. a \in {a, b} /\ b \in {a, b}
    OBVIOUS
  <2> QED BY <2>1
<1>2. PICK x, y, z : x = <<a>> /\ y = <<b>> /\ z = <<a, b>>
  OBVIOUS
<1>3. x \in Seq(S) /\ y \in Seq(S) /\ z \in Seq(S)
  BY <1>1, <1>2
<1>4. Len(x) = 1 /\ Len(y) = 1 /\ Len(z) = 2 /\ x[1] = a /\ y[1] = b /\ z[1] = a /\ z[2] = b
  BY <1>2
<1>5. /\ x \o y \in Seq(S)
      /\ Len(x \o y) = Len(x) + Len(y)
      /\ \A i \in 1 .. Len(x) + Len(y) :
           (x \o y)[i] = IF i <= Len(x) THEN x[i] ELSE y[i - Len(x)]
  BY <1>3, ConcatProperties
<1>6. PICK w : w = x \o y
  OBVIOUS
<1>7. w \in Seq(S) /\ Len(w) = 2 /\ w[1] = a /\ w[2] = b
  BY <1>4, <1>5, <1>6
<1>8. w = z
  <2>1. \A i \in 1 .. Len(w) : w[i] = z[i]
    BY <1>4, <1>7
  <2> QED BY <1>3, <1>4, <1>7, <2>1, SeqEqual
<1> QED BY <1>2, <1>6, <1>8

\* One step of encoding, the percent sign being the first.
LEMMA EncodeOne ==
  ASSUME NEW s \in Text, NEW K \in SUBSET Special, NEW c \in Special, c \notin K,
         K = {} \/ c # "%"
  PROVE  ReplaceToken(FlattenSeq(Blocks(K, s)), <<c>>, <<"%", Digits[c]>>)
           = FlattenSeq(Blocks(K \cup {c}, s))
<1>1. PICK t : t = FlattenSeq(Blocks(K, s))
  OBVIOUS
<1>2. PICK new : new = <<"%", Digits[c]>>
  OBVIOUS
<1>3. PICK L : L = K \cup {c}
  OBVIOUS
<1>4. t \in Seq(CodeSymbols) /\ c \in CodeSymbols
  BY <1>1, CodedIsText, SymbolsAssumption DEF CodeSymbols
<1>5. Len(t) \in Nat /\ DOMAIN t = 1 .. Len(t) /\ \A k \in 1 .. Len(t) : t[k] \in CodeSymbols
  BY <1>4, LenProperties, ElementOfSeq
<1>6. new \in Seq(CodeSymbols)
  <2>1. "%" \in CodeSymbols /\ Digits[c] \in CodeSymbols
    BY SymbolsAssumption DEF CodeSymbols, Special
  <2>2. PICK x : x = Digits[c]
    OBVIOUS
  <2> QED BY <1>2, <2>1, <2>2
<1>7. PICK piece : piece = [k \in 1 .. Len(t) |-> IF t[k] = c THEN new ELSE <<t[k]>>]
  OBVIOUS
<1>8. \A k \in 1 .. Len(t) :
        piece[k] = (IF t[k] = c THEN new ELSE <<t[k]>>) /\ piece[k] \in Seq(CodeSymbols)
  BY <1>5, <1>6, <1>7
<1>9. ReplaceToken(t, <<c>>, new) = FlattenSeq([k \in DOMAIN t |-> piece[k]])
  <2>1. ReplaceToken(t, <<c>>, new)
          = FlattenSeq([k \in DOMAIN t |-> IF t[k] = c THEN new ELSE <<t[k]>>])
    BY ONLY <1>4, ReplaceOne
  <2>2. [k \in DOMAIN t |-> IF t[k] = c THEN new ELSE <<t[k]>>] = [k \in DOMAIN t |-> piece[k]]
    BY ONLY <1>5, <1>8
  <2> QED BY ONLY <2>1, <2>2
<1>10. ASSUME NEW i \in 1 .. Len(s), NEW p \in Nat,
              Stands(Coded(K, s[i]), p, t)
       PROVE  \/ s[i] \notin K /\ piece[p + 1] = Coded(L, s[i])
              \/ s[i] \in K /\ piece[p + 1] \o piece[p + 2] = Coded(L, s[i])
  <2>1. /\ p + 1 \in 1 .. Len(t)
        /\ s[i] \notin K => t[p + 1] = s[i]
        /\ s[i] \in K => /\ p + 2 \in 1 .. Len(t)
                         /\ t[p + 1] = "%" /\ t[p + 2] = Digits[s[i]]
    BY ONLY <1>5, <1>10, StandsAt
  <2>2. CASE s[i] \notin K
    <3>1. piece[p + 1] = IF s[i] = c THEN new ELSE <<s[i]>>
      BY ONLY <1>8, <2>1, <2>2
    <3>2. Coded(L, s[i]) = IF s[i] = c THEN new ELSE <<s[i]>>
      BY ONLY <1>2, <1>3, <2>2 DEF Coded
    <3> QED BY ONLY <2>2, <3>1, <3>2
  <2>3. CASE s[i] \in K
    <3>1. PICK x : x = Digits[s[i]]
      OBVIOUS
    <3>2. x # c /\ c # "%"
      BY <2>3, <3>1, DigitsDiffer
    <3>3. piece[p + 1] = <<"%">> /\ piece[p + 2] = <<x>>
      <4>1. t[p + 1] = "%" /\ t[p + 1] # c /\ t[p + 2] = x /\ t[p + 2] # c
        BY ONLY <2>1, <2>3, <3>1, <3>2
      <4>2. piece[p + 1] = <<t[p + 1]>> /\ piece[p + 2] = <<t[p + 2]>>
        BY ONLY <1>8, <2>1, <2>3, <4>1
      <4> QED BY ONLY <4>1, <4>2
    <3>4. <<"%">> \o <<x>> = <<"%", x>>
      BY PairOf
    <3>5. Coded(L, s[i]) = <<"%", x>>
      BY ONLY <1>3, <2>3, <3>1 DEF Coded
    <3> QED BY ONLY <2>3, <3>3, <3>4, <3>5
  <2> QED BY <2>2, <2>3
<1>11. Recode(piece, K, L, s, t)
  BY ONLY <1>10 DEF Recode
<1>12. FlattenSeq([k \in DOMAIN t |-> piece[k]]) = FlattenSeq(Blocks(L, s))
  <2>1. L \in SUBSET Special /\ \A k \in 1 .. Len(t) : piece[k] \in Seq(CodeSymbols)
    BY <1>3, <1>8
  <2> QED BY ONLY s \in Text, K \in SUBSET Special, <1>1, <1>11, <2>1, CodedText
<1> QED BY ONLY <1>1, <1>2, <1>3, <1>9, <1>12

\* One step of decoding, the percent sign being the last.
LEMMA DecodeOne ==
  ASSUME NEW s \in Text, NEW K \in SUBSET Special, NEW c \in K, "%" \in K
  PROVE  ReplaceToken(FlattenSeq(Blocks(K, s)), <<"%", Digits[c]>>, <<c>>)
           = FlattenSeq(Blocks(K \ {c}, s))
<1>1. PICK t : t = FlattenSeq(Blocks(K, s))
  OBVIOUS
<1>2. PICK d : d = Digits[c]
  OBVIOUS
<1>3. PICK L : L = K \ {c}
  OBVIOUS
<1>4. t \in Seq(CodeSymbols) /\ "%" \in CodeSymbols /\ c \in CodeSymbols /\ d \in CodeSymbols
  BY <1>1, <1>2, CodedIsText, SymbolsAssumption DEF CodeSymbols
<1>5. Len(t) \in Nat /\ DOMAIN t = 1 .. Len(t) /\ \A k \in 1 .. Len(t) : t[k] \in CodeSymbols
  BY <1>4, LenProperties, ElementOfSeq
<1>6. PICK piece :
        piece = [k \in 1 .. Len(t) |->
                   IF k < Len(t) /\ t[k] = "%" /\ t[k + 1] = d THEN <<c>>
                   ELSE IF k > 1 /\ t[k - 1] = "%" /\ t[k] = d THEN <<>>
                   ELSE <<t[k]>>]
  OBVIOUS
<1>7. \A k \in 1 .. Len(t) :
        piece[k] = IF k < Len(t) /\ t[k] = "%" /\ t[k + 1] = d THEN <<c>>
                   ELSE IF k > 1 /\ t[k - 1] = "%" /\ t[k] = d THEN <<>>
                   ELSE <<t[k]>>
  BY <1>6
<1>8. \A k \in 1 .. Len(t) : piece[k] \in Seq(CodeSymbols)
  <2>1. <<>> \in Seq(CodeSymbols) /\ <<c>> \in Seq(CodeSymbols)
        /\ \A k \in 1 .. Len(t) : <<t[k]>> \in Seq(CodeSymbols)
    BY <1>4, <1>5
  <2> QED BY ONLY <1>7, <2>1
<1>9. ReplaceToken(t, <<"%", d>>, <<c>>) = FlattenSeq([k \in DOMAIN t |-> piece[k]])
  <2>1. PICK new, a : new = <<c>> /\ a = "%"
    OBVIOUS
  <2>2. a \in CodeSymbols
    BY <1>4, <2>1
  <2>3. ReplaceToken(t, <<a, d>>, new)
          = FlattenSeq([k \in DOMAIN t |->
              IF k < Len(t) /\ t[k] = a /\ t[k + 1] = d THEN new
              ELSE IF k > 1 /\ t[k - 1] = a /\ t[k] = d THEN <<>>
              ELSE <<t[k]>>])
    BY ONLY <1>4, <2>2, ReplaceTwo
  <2>4. [k \in DOMAIN t |->
           IF k < Len(t) /\ t[k] = a /\ t[k + 1] = d THEN new
           ELSE IF k > 1 /\ t[k - 1] = a /\ t[k] = d THEN <<>>
           ELSE <<t[k]>>] = [k \in DOMAIN t |-> piece[k]]
    BY ONLY <1>5, <1>7, <2>1
  <2> QED BY ONLY <2>1, <2>3, <2>4
<1>10. ASSUME NEW i \in 1 .. Len(s), NEW p \in Nat,
              Stands(Coded(K, s[i]), p, t),
              p = 0 \/ \E j \in 1 .. Len(s) : t[p] = LastOf(K, s[j])
       PROVE  \/ s[i] \notin K /\ piece[p + 1] = Coded(L, s[i])
              \/ s[i] \in K /\ piece[p + 1] \o piece[p + 2] = Coded(L, s[i])
  <2>1. /\ p + 1 \in 1 .. Len(t)
        /\ s[i] \notin K => t[p + 1] = s[i]
        /\ s[i] \in K => /\ p + 2 \in 1 .. Len(t)
                         /\ t[p + 1] = "%" /\ t[p + 2] = Digits[s[i]]
    BY ONLY <1>5, <1>10, StandsAt
  <2>2. p = 0 \/ t[p] # "%"
    BY <1>10, BlockEnds
  <2>3. p + 1 > 1 => p # 0
    OBVIOUS
  <2>4. (p + 1) - 1 = p /\ (p + 2) - 1 = p + 1 /\ (p + 1) + 1 = p + 2
    OBVIOUS
  <2>5. CASE s[i] \notin K
    <3>1. s[i] # "%" /\ s[i] # c
      BY <2>5
    <3>2. piece[p + 1] = <<s[i]>>
      BY ONLY <1>7, <2>1, <2>2, <2>3, <2>4, <2>5, <3>1
    <3>3. Coded(L, s[i]) = <<s[i]>>
      BY ONLY <1>3, <2>5 DEF Coded
    <3> QED BY ONLY <2>5, <3>2, <3>3
  <2>6. CASE s[i] \in K
    <3>1. PICK x : x = Digits[s[i]]
      OBVIOUS
    <3>2. x # "%" /\ (x = d <=> s[i] = c)
      BY <1>2, <2>6, <3>1, DigitsDiffer DEF Special
    <3>3. t[p + 1] = "%" /\ t[p + 2] = x /\ p + 2 \in 1 .. Len(t) /\ p + 1 < Len(t) /\ p + 2 > 1
      BY <1>5, <2>1, <2>6, <3>1
    <3>4. piece[p + 1] = (IF x = d THEN <<c>> ELSE <<"%">>)
      BY ONLY <1>7, <2>1, <2>2, <2>3, <2>4, <3>3
    <3>5. piece[p + 2] = (IF x = d THEN <<>> ELSE <<x>>)
      BY ONLY <1>7, <2>4, <3>2, <3>3
    <3>6. CASE x = d
      <4>1. <<c>> \o <<>> = <<c>>
        OBVIOUS
      <4>2. Coded(L, s[i]) = <<c>>
        BY ONLY <1>3, <3>2, <3>6 DEF Coded
      <4> QED BY ONLY <2>6, <3>4, <3>5, <3>6, <4>1, <4>2
    <3>7. CASE x # d
      <4>1. <<"%">> \o <<x>> = <<"%", x>>
        BY PairOf
      <4>2. Coded(L, s[i]) = <<"%", x>>
        BY ONLY <1>3, <2>6, <3>1, <3>2, <3>7 DEF Coded
      <4> QED BY ONLY <2>6, <3>4, <3>5, <3>7, <4>1, <4>2
    <3> QED BY <3>6, <3>7
  <2> QED BY <2>5, <2>6
<1>11. Recode(piece, K, L, s, t)
  BY ONLY <1>10 DEF Recode
<1>12. FlattenSeq([k \in DOMAIN t |-> piece[k]]) = FlattenSeq(Blocks(L, s))
  <2>1. L \in SUBSET Special
    BY <1>3
  <2> QED BY ONLY s \in Text, K \in SUBSET Special, <1>1, <1>8, <1>11, <2>1, CodedText
<1> QED BY ONLY <1>1, <1>2, <1>3, <1>9, <1>12

LEMMA NothingCoded ==
  ASSUME NEW s \in Text
  PROVE  FlattenSeq(Blocks({}, s)) = s
<1>1. Blocks({}, s) = [i \in DOMAIN s |-> <<s[i]>>]
  BY DEF Blocks, Coded
<1>2. s \in Seq(Symbols)
  BY DEF Text
<1> QED BY ONLY <1>1, <1>2, FlattenSingles

\* The six replacements by the table of encoded characters encode every special
\* character.
LEMMA EncodesSpecial ==
  ASSUME NEW s \in Text
  PROVE  Replace(ENCODE_UNENCODED_TOKEN, ENCODE_ENCODED_TOKEN, s) = FlattenSeq(Blocks(Special, s))
<1> DEFINE e(K) == FlattenSeq(Blocks(K, s))
<1>1. PICK K1, K2, K3, K4, K5, K6 :
        /\ K1 = {} \cup {"%"} /\ K2 = K1 \cup {":"} /\ K3 = K2 \cup {"["}
        /\ K4 = K3 \cup {"]"} /\ K5 = K4 \cup {","} /\ K6 = K5 \cup {"quote"}
  OBVIOUS
<1>2. K6 = Special
  BY <1>1 DEF Special
<1>3. PICK U, D : U = ENCODE_UNENCODED_TOKEN /\ D = ENCODE_ENCODED_TOKEN
  OBVIOUS
<1>4. /\ U[1] = <<"%">> /\ U[2] = <<":">> /\ U[3] = <<"[">>
      /\ U[4] = <<"]">> /\ U[5] = <<",">> /\ U[6] = <<"quote">> /\ Len(U) = 6
  BY <1>3 DEF ENCODE_UNENCODED_TOKEN
<1>5. /\ D[1] = <<"%", Digits["%"]>> /\ D[2] = <<"%", Digits[":"]>> /\ D[3] = <<"%", Digits["["]>>
      /\ D[4] = <<"%", Digits["]"]>> /\ D[5] = <<"%", Digits[","]>>
      /\ D[6] = <<"%", Digits["quote"]>>
  <2>1. /\ Digits["%"] = "25" /\ Digits[":"] = "3A" /\ Digits["["] = "5B"
        /\ Digits["]"] = "5D" /\ Digits[","] = "2C" /\ Digits["quote"] = "22"
    BY DEF Digits, Special
  <2> QED BY <1>3, <2>1 DEF ENCODE_ENCODED_TOKEN
<1>6. e({}) = s
  BY NothingCoded
<1> HIDE DEF e
<1>7. ASSUME NEW K \in SUBSET Special, NEW c \in Special, c \notin K, K = {} \/ c # "%"
      PROVE  ReplaceToken(e(K), <<c>>, <<"%", Digits[c]>>) = e(K \cup {c})
  BY <1>7, EncodeOne DEF e
<1>8. e(K1) = ReplaceToken(s, U[1], D[1])
  <2>1. ReplaceToken(e({}), <<"%">>, <<"%", Digits["%"]>>) = e({} \cup {"%"})
    BY <1>7 DEF Special
  <2> QED BY ONLY <1>1, <1>4, <1>5, <1>6, <2>1
<1>9. e(K2) = ReplaceToken(e(K1), U[2], D[2])
  <2>1. K1 \in SUBSET Special /\ ":" \in Special /\ ":" \notin K1 /\ ":" # "%"
    BY ONLY <1>1 DEF Special
  <2>2. ReplaceToken(e(K1), <<":">>, <<"%", Digits[":"]>>) = e(K1 \cup {":"})
    BY ONLY <1>7, <2>1
  <2> QED BY ONLY <1>1, <1>4, <1>5, <2>2
<1>10. e(K3) = ReplaceToken(e(K2), U[3], D[3])
  <2>1. K2 \in SUBSET Special /\ "[" \in Special /\ "[" \notin K2 /\ "[" # "%"
    BY ONLY <1>1 DEF Special
  <2>2. ReplaceToken(e(K2), <<"[">>, <<"%", Digits["["]>>) = e(K2 \cup {"["})
    BY ONLY <1>7, <2>1
  <2> QED BY ONLY <1>1, <1>4, <1>5, <2>2
<1>11. e(K4) = ReplaceToken(e(K3), U[4], D[4])
  <2>1. K3 \in SUBSET Special /\ "]" \in Special /\ "]" \notin K3 /\ "]" # "%"
    BY ONLY <1>1 DEF Special
  <2>2. ReplaceToken(e(K3), <<"]">>, <<"%", Digits["]"]>>) = e(K3 \cup {"]"})
    BY ONLY <1>7, <2>1
  <2> QED BY ONLY <1>1, <1>4, <1>5, <2>2
<1>12. e(K5) = ReplaceToken(e(K4), U[5], D[5])
  <2>1. K4 \in SUBSET Special /\ "," \in Special /\ "," \notin K4 /\ "," # "%"
    BY ONLY <1>1 DEF Special
  <2>2. ReplaceToken(e(K4), <<",">>, <<"%", Digits[","]>>) = e(K4 \cup {","})
    BY ONLY <1>7, <2>1
  <2> QED BY ONLY <1>1, <1>4, <1>5, <2>2
<1>13. e(K6) = ReplaceToken(e(K5), U[6], D[6])
  <2>1. K5 \in SUBSET Special /\ "quote" \in Special /\ "quote" \notin K5 /\ "quote" # "%"
    BY ONLY <1>1 DEF Special
  <2>2. ReplaceToken(e(K5), <<"quote">>, <<"%", Digits["quote"]>>) = e(K5 \cup {"quote"})
    BY ONLY <1>7, <2>1
  <2> QED BY ONLY <1>1, <1>4, <1>5, <2>2
<1>14. Replace(U, D, s) = e(K6)
  BY ONLY <1>4, <1>8, <1>9, <1>10, <1>11, <1>12, <1>13, ReplaceBySix
<1> QED BY ONLY <1>2, <1>3, <1>14 DEF e

\* Decode undoes them, the percent sign last.
LEMMA DecodesSpecial ==
  ASSUME NEW s \in Text
  PROVE  Decode(FlattenSeq(Blocks(Special, s))) = s
<1> DEFINE e(K) == FlattenSeq(Blocks(K, s))
<1>1. PICK K0, K1, K2, K3, K4, K5, K6 :
        /\ K0 = Special /\ K1 = K0 \ {":"} /\ K2 = K1 \ {"["} /\ K3 = K2 \ {"]"}
        /\ K4 = K3 \ {","} /\ K5 = K4 \ {"quote"} /\ K6 = K5 \ {"%"}
  OBVIOUS
<1>2. K6 = {}
  BY <1>1 DEF Special
<1>3. PICK U, D : U = DECODE_ENCODED_TOKEN /\ D = DECODE_UNENCODED_TOKEN
  OBVIOUS
<1>4. /\ D[1] = <<":">> /\ D[2] = <<"[">> /\ D[3] = <<"]">>
      /\ D[4] = <<",">> /\ D[5] = <<"quote">> /\ D[6] = <<"%">>
  BY <1>3 DEF DECODE_UNENCODED_TOKEN
<1>5. /\ U[1] = <<"%", Digits[":"]>> /\ U[2] = <<"%", Digits["["]>> /\ U[3] = <<"%", Digits["]"]>>
      /\ U[4] = <<"%", Digits[","]>> /\ U[5] = <<"%", Digits["quote"]>>
      /\ U[6] = <<"%", Digits["%"]>> /\ Len(U) = 6
  <2>1. /\ Digits["%"] = "25" /\ Digits[":"] = "3A" /\ Digits["["] = "5B"
        /\ Digits["]"] = "5D" /\ Digits[","] = "2C" /\ Digits["quote"] = "22"
    BY DEF Digits, Special
  <2> QED BY <1>3, <2>1 DEF DECODE_ENCODED_TOKEN
<1>6. e({}) = s
  BY NothingCoded
<1> HIDE DEF e
<1>7. ASSUME NEW K \in SUBSET Special, NEW c \in K, "%" \in K
      PROVE  ReplaceToken(e(K), <<"%", Digits[c]>>, <<c>>) = e(K \ {c})
  BY <1>7, DecodeOne DEF e
<1>8. e(K1) = ReplaceToken(e(K0), U[1], D[1])
  <2>1. K0 \in SUBSET Special /\ ":" \in K0 /\ "%" \in K0
    BY ONLY <1>1 DEF Special
  <2>2. ReplaceToken(e(K0), <<"%", Digits[":"]>>, <<":">>) = e(K0 \ {":"})
    BY ONLY <1>7, <2>1
  <2> QED BY ONLY <1>1, <1>4, <1>5, <2>2
<1>9. e(K2) = ReplaceToken(e(K1), U[2], D[2])
  <2>1. K1 \in SUBSET Special /\ "[" \in K1 /\ "%" \in K1
    BY ONLY <1>1 DEF Special
  <2>2. ReplaceToken(e(K1), <<"%", Digits["["]>>, <<"[">>) = e(K1 \ {"["})
    BY ONLY <1>7, <2>1
  <2> QED BY ONLY <1>1, <1>4, <1>5, <2>2
<1>10. e(K3) = ReplaceToken(e(K2), U[3], D[3])
  <2>1. K2 \in SUBSET Special /\ "]" \in K2 /\ "%" \in K2
    BY ONLY <1>1 DEF Special
  <2>2. ReplaceToken(e(K2), <<"%", Digits["]"]>>, <<"]">>) = e(K2 \ {"]"})
    BY ONLY <1>7, <2>1
  <2> QED BY ONLY <1>1, <1>4, <1>5, <2>2
<1>11. e(K4) = ReplaceToken(e(K3), U[4], D[4])
  <2>1. K3 \in SUBSET Special /\ "," \in K3 /\ "%" \in K3
    BY ONLY <1>1 DEF Special
  <2>2. ReplaceToken(e(K3), <<"%", Digits[","]>>, <<",">>) = e(K3 \ {","})
    BY ONLY <1>7, <2>1
  <2> QED BY ONLY <1>1, <1>4, <1>5, <2>2
<1>12. e(K5) = ReplaceToken(e(K4), U[5], D[5])
  <2>1. K4 \in SUBSET Special /\ "quote" \in K4 /\ "%" \in K4
    BY ONLY <1>1 DEF Special
  <2>2. ReplaceToken(e(K4), <<"%", Digits["quote"]>>, <<"quote">>) = e(K4 \ {"quote"})
    BY ONLY <1>7, <2>1
  <2> QED BY ONLY <1>1, <1>4, <1>5, <2>2
<1>13. e(K6) = ReplaceToken(e(K5), U[6], D[6])
  <2>1. K5 \in SUBSET Special /\ "%" \in K5
    BY ONLY <1>1 DEF Special
  <2>2. ReplaceToken(e(K5), <<"%", Digits["%"]>>, <<"%">>) = e(K5 \ {"%"})
    BY ONLY <1>7, <2>1
  <2> QED BY ONLY <1>1, <1>4, <1>5, <2>2
<1>14. Replace(U, D, e(K0)) = e(K6)
  <2>1. PICK t, t1, t2, t3, t4, t5, t6 :
          /\ t = e(K0) /\ t1 = e(K1) /\ t2 = e(K2) /\ t3 = e(K3)
          /\ t4 = e(K4) /\ t5 = e(K5) /\ t6 = e(K6)
    OBVIOUS
  <2>2. /\ Len(U) = 6
        /\ t1 = ReplaceToken(t, U[1], D[1]) /\ t2 = ReplaceToken(t1, U[2], D[2])
        /\ t3 = ReplaceToken(t2, U[3], D[3]) /\ t4 = ReplaceToken(t3, U[4], D[4])
        /\ t5 = ReplaceToken(t4, U[5], D[5]) /\ t6 = ReplaceToken(t5, U[6], D[6])
    BY ONLY <1>5, <1>8, <1>9, <1>10, <1>11, <1>12, <1>13, <2>1
  <2>3. Replace(U, D, t) = t6
    BY ONLY <2>2, ReplaceBySix
  <2> QED BY ONLY <2>1, <2>3
<1>15. Decode(e(Special)) = s
  BY ONLY <1>1, <1>2, <1>3, <1>6, <1>14 DEF Decode
<1> QED BY <1>15 DEF e

------------------------------------------------------------------------------
\* Whatever names and lines are, what is printed is the sender's name and the
\* line or the room, as far as they can be seen: no part of a frame that
\* sendCommandToServ and SendClientMessage make spills into another when
\* getAction and parseCommand take it apart.
THEOREM FrameIsIntact == Spec => []FrameIntact
<1>1. WInv => FrameIntact
  BY DEF WInv
<1> QED BY <1>1, WInvariant, PTL

\* A plain line of a sender with a plain name is printed as it was typed, to all
\* but those who have that name.
THEOREM PlainLinesAreShown == Spec => []PlainIsShown
<1>1. WInv => PlainIsShown
  BY DEF WInv
<1> QED BY <1>1, WInvariant, PTL

\* Every line is given back by Decode when the tables of encoded characters
\* were used to encode it; that Encode uses another one is what loses characters.
THEOREM TablesAreInverse == Spec => []TablesInvert
<1>1. ASSUME WInv
      PROVE  TablesInvert
  <2>1. typed \in Text
    BY <1>1, LinesAreTexts DEF WInv
  <2>2. PICK s \in Text : s = typed
    BY <2>1
  <2>3. Decode(Replace(ENCODE_UNENCODED_TOKEN, ENCODE_ENCODED_TOKEN, s)) = s
    BY ONLY s \in Text, EncodesSpecial, DecodesSpecial
  <2> QED BY ONLY <2>2, <2>3 DEF TablesInvert
<1>2. WInv => TablesInvert
  BY <1>1
<1> QED BY <1>2, WInvariant, PTL
==============================================================================
