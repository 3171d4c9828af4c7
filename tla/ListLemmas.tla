----------------------------- MODULE ListLemmas -----------------------------
(***************************************************************************)
(* Lemmas about taking elements off lists, for every list: what the member *)
(* lists of the chat rooms rely on.                                        *)
(***************************************************************************)
EXTENDS Integers, Sequences, FiniteSets, Functions, SequencesExt, Lists,
        FiniteSetTheorems, SequenceTheorems, WellFoundedInduction, TLAPS

\* A sequence without its i-th element.
LEMMA RemoveAtProperties ==
  ASSUME NEW S, NEW s \in Seq(S), NEW i \in 1 .. Len(s)
  PROVE  /\ RemoveAt(s, i) \in Seq(S)
         /\ Len(RemoveAt(s, i)) = Len(s) - 1
         /\ \A j \in 1 .. Len(s) - 1 :
              RemoveAt(s, i)[j] = IF j < i THEN s[j] ELSE s[j + 1]
<1> DEFINE a == SubSeq(s, 1, i - 1)
           b == SubSeq(s, i + 1, Len(s))
<1>1. /\ a \in Seq(S)
      /\ Len(a) = i - 1
      /\ \A j \in 1 .. i - 1 : a[j] = s[j]
  <2>1. \A j \in 1 .. i - 1 : s[j] \in S
    BY ElementOfSeq, LenProperties
  <2>2. /\ a \in Seq(S)
        /\ Len(a) = IF 1 <= i - 1 THEN (i - 1) - 1 + 1 ELSE 0
        /\ \A j \in 1 .. (i - 1) - 1 + 1 : a[j] = s[1 + j - 1]
    BY <2>1, SubSeqProperties, LenProperties
  <2> QED BY <2>2, LenProperties
<1>2. /\ b \in Seq(S)
      /\ Len(b) = Len(s) - i
      /\ \A j \in 1 .. Len(s) - i : b[j] = s[i + j]
  <2>1. \A j \in i + 1 .. Len(s) : s[j] \in S
    BY ElementOfSeq, LenProperties
  <2>2. /\ b \in Seq(S)
        /\ Len(b) = IF i + 1 <= Len(s) THEN Len(s) - (i + 1) + 1 ELSE 0
        /\ \A j \in 1 .. Len(s) - (i + 1) + 1 : b[j] = s[(i + 1) + j - 1]
    BY <2>1, SubSeqProperties, LenProperties
  <2> QED BY <2>2, LenProperties
<1>3. /\ a \o b \in Seq(S)
      /\ Len(a \o b) = Len(a) + Len(b)
      /\ \A j \in 1 .. Len(a) + Len(b) :
           (a \o b)[j] = IF j <= Len(a) THEN a[j] ELSE b[j - Len(a)]
  BY <1>1, <1>2, ConcatProperties
<1>4. RemoveAt(s, i) = a \o b
  BY DEF RemoveAt
<1>5. Len(s) \in Nat
  BY LenProperties
<1> HIDE DEF a, b
<1>6. Len(a \o b) = Len(s) - 1
  BY <1>1, <1>2, <1>3, <1>5
<1>7. ASSUME NEW j \in 1 .. Len(s) - 1
      PROVE  (a \o b)[j] = IF j < i THEN s[j] ELSE s[j + 1]
  <2>1. CASE j < i
    BY <2>1, <1>1, <1>2, <1>3, <1>5
  <2>2. CASE ~(j < i)
    <3>1. (a \o b)[j] = b[j - (i - 1)]
      BY <2>2, <1>1, <1>2, <1>3, <1>5
    <3>2. j - (i - 1) \in 1 .. Len(s) - i
      BY <2>2, <1>5
    <3>3. b[j - (i - 1)] = s[i + (j - (i - 1))]
      BY <3>2, <1>2
    <3>4. i + (j - (i - 1)) = j + 1
      BY <1>5
    <3> QED BY <2>2, <3>1, <3>3, <3>4
  <2> QED BY <2>1, <2>2
<1> QED
  BY <1>3, <1>4, <1>6, <1>7

\* A set of naturals that has an element has a smallest one.
LEMMA MinProperties ==
  ASSUME NEW T, T \subseteq Nat, T # {}
  PROVE  /\ Min(T) \in T
         /\ \A x \in T : Min(T) <= x
<1>1. PICK x \in T : \A y \in T : ~ (<<y, x>> \in OpToRel(<, Nat))
  BY NatLessThanWellFounded, WFMin
<1>2. \A y \in T : ~ (y < x)
  BY <1>1 DEF OpToRel
<1>3. \A y \in T : x <= y
  BY <1>2
<1> QED
  BY <1>3 DEF Min

\* Taking an element off a list (as CRoom.Leave does): nothing happens when it
\* is not there, else some place where it was is gone.
LEMMA RemoveFirstCases ==
  ASSUME NEW S, NEW s \in Seq(S), NEW e
  PROVE  \/ e \notin Range(s) /\ RemoveFirst(s, e) = s
         \/ \E i \in 1 .. Len(s) : s[i] = e /\ RemoveFirst(s, e) = RemoveAt(s, i)
<1> DEFINE I == {i \in 1 .. Len(s) : s[i] = e}
<1>1. CASE I = {}
  BY <1>1, LenProperties DEF RemoveFirst, Range
<1>2. CASE I # {}
  <2>1. Min(I) \in I
    <3>1. I \subseteq Nat
      BY LenProperties
    <3> HIDE DEF I
    <3> QED BY <1>2, <3>1, MinProperties
  <2>2. SelectInSeq(s, LAMBDA v : v = e) = Min(I)
    BY <1>2 DEF SelectInSeq
  <2>3. RemoveFirst(s, e) = RemoveAt(s, Min(I))
    BY <1>2, <2>2 DEF RemoveFirst
  <2> QED
    BY <2>1, <2>3
<1> QED
  BY <1>1, <1>2

\* CRoom.Leave on a member list without duplicates: the leaver is gone and the
\* others are still listed once.
LEMMA RemoveFirstProperties ==
  ASSUME NEW S, NEW s \in Seq(S), NEW e
  PROVE  /\ RemoveFirst(s, e) \in Seq(S)
         /\ IsInjective(s) => /\ IsInjective(RemoveFirst(s, e))
                              /\ Range(RemoveFirst(s, e)) = Range(s) \ {e}
<1>1. CASE e \notin Range(s) /\ RemoveFirst(s, e) = s
  BY <1>1
<1>2. ASSUME NEW i \in 1 .. Len(s), s[i] = e, RemoveFirst(s, e) = RemoveAt(s, i)
      PROVE  /\ RemoveFirst(s, e) \in Seq(S)
             /\ IsInjective(s) => /\ IsInjective(RemoveFirst(s, e))
                                  /\ Range(RemoveFirst(s, e)) = Range(s) \ {e}
  <2> DEFINE t == RemoveAt(s, i)
  <2>1. /\ t \in Seq(S)
        /\ Len(t) = Len(s) - 1
        /\ \A j \in 1 .. Len(s) - 1 : t[j] = IF j < i THEN s[j] ELSE s[j + 1]
    BY RemoveAtProperties
  <2>2. /\ Len(s) \in Nat
        /\ DOMAIN s = 1 .. Len(s)
        /\ DOMAIN t = 1 .. Len(s) - 1
    BY <2>1, LenProperties
  <2> HIDE DEF t
  <2>3. ASSUME IsInjective(s)
        PROVE  IsInjective(t)
    <3>1. SUFFICES ASSUME NEW a \in 1 .. Len(s) - 1, NEW b \in 1 .. Len(s) - 1, a < b
                   PROVE  t[a] # t[b]
      <4>1. ASSUME NEW a \in 1 .. Len(s) - 1, NEW b \in 1 .. Len(s) - 1, t[a] = t[b]
            PROVE  a = b
        BY <2>2, <3>1, <4>1
      <4> QED BY <2>2, <4>1 DEF IsInjective
    <3> DEFINE u == IF a < i THEN a ELSE a + 1
               v == IF b < i THEN b ELSE b + 1
    <3>2. u \in DOMAIN s /\ v \in DOMAIN s /\ u # v
      BY <2>2, <3>1
    <3>3. t[a] = s[u] /\ t[b] = s[v]
      BY <2>1
    <3> HIDE DEF u, v
    <3> QED BY <2>3, <3>2, <3>3 DEF IsInjective
  <2>4. ASSUME IsInjective(s), NEW x \in Range(t)
        PROVE  x \in Range(s) \ {e}
    <3>1. PICK j \in 1 .. Len(s) - 1 : x = t[j]
      BY <2>2, <2>4 DEF Range
    <3>2. PICK k \in 1 .. Len(s) : x = s[k] /\ k # i
      <4>1. CASE j < i
        BY <4>1, <3>1, <2>1, <2>2
      <4>2. CASE ~(j < i)
        BY <4>2, <3>1, <2>1, <2>2
      <4> QED BY <4>1, <4>2
    <3> QED BY <3>2, <2>2, <2>4, <1>2 DEF IsInjective, Range
  <2>5. ASSUME NEW x \in Range(s) \ {e}
        PROVE  x \in Range(t)
    <3>1. PICK k \in 1 .. Len(s) : x = s[k]
      BY <2>2 DEF Range
    <3>2. k # i
      BY <3>1, <1>2
    <3>3. CASE k < i
      <4>1. k \in 1 .. Len(s) - 1 /\ t[k] = x
        BY <3>1, <3>3, <2>1, <2>2
      <4> QED BY <4>1, <2>2 DEF Range
    <3>4. CASE k > i
      <4>1. k - 1 \in 1 .. Len(s) - 1 /\ t[k - 1] = x
        BY <3>1, <3>4, <2>1, <2>2
      <4> QED BY <4>1, <2>2 DEF Range
    <3> QED BY <3>2, <3>3, <3>4, <2>2
  <2> QED
    BY <1>2, <2>1, <2>3, <2>4, <2>5 DEF t
<1> QED
  BY <1>1, <1>2, RemoveFirstCases

\* CRoom.Join on a member list without duplicates: a client that is not listed
\* comes last and once.
LEMMA AppendFreshProperties ==
  ASSUME NEW S, NEW s \in Seq(S), NEW e \in S, IsInjective(s), e \notin Range(s)
  PROVE  /\ IsInjective(Append(s, e))
         /\ Range(Append(s, e)) = Range(s) \cup {e}
<1> DEFINE t == Append(s, e)
<1>1. /\ Len(s) \in Nat
      /\ DOMAIN s = 1 .. Len(s)
  BY LenProperties
<1>2. /\ t \in Seq(S)
      /\ Len(t) = Len(s) + 1
      /\ \A i \in 1 .. Len(s) : t[i] = s[i]
      /\ t[Len(s) + 1] = e
  BY AppendProperties
<1>3. DOMAIN t = 1 .. Len(s) + 1
  BY <1>2, LenProperties
<1> HIDE DEF t
<1>4. \A i \in 1 .. Len(s) : s[i] # e
  BY <1>1 DEF Range
<1>5. IsInjective(t)
  BY <1>1, <1>2, <1>3, <1>4 DEF IsInjective
<1>6. Range(t) = Range(s) \cup {e}
  <2>1. ASSUME NEW x \in Range(t) PROVE x \in Range(s) \cup {e}
    BY <1>1, <1>2, <1>3, <2>1 DEF Range
  <2>2. ASSUME NEW x \in Range(s) PROVE x \in Range(t)
    BY <1>1, <1>2, <1>3, <2>2 DEF Range
  <2>3. e \in Range(t)
    BY <1>1, <1>2, <1>3 DEF Range
  <2> QED BY <2>1, <2>2, <2>3
<1> QED BY <1>5, <1>6 DEF t

\* A list that grows keeps all that are on it, duplicates or not.
LEMMA RangeAppend ==
  ASSUME NEW S, NEW s \in Seq(S), NEW e \in S
  PROVE  Range(s) \cup {e} \subseteq Range(Append(s, e))
<1>1. /\ Len(s) \in Nat /\ DOMAIN s = 1 .. Len(s)
      /\ Append(s, e) \in Seq(S) /\ Len(Append(s, e)) = Len(s) + 1
      /\ \A i \in 1 .. Len(s) : Append(s, e)[i] = s[i]
      /\ Append(s, e)[Len(s) + 1] = e
  BY LenProperties, AppendProperties
<1>2. DOMAIN Append(s, e) = 1 .. Len(s) + 1
  BY <1>1, LenProperties
<1>3. \A i \in 1 .. Len(s) : s[i] \in Range(Append(s, e))
  BY <1>1, <1>2 DEF Range
<1>4. e \in Range(Append(s, e))
  BY <1>1, <1>2 DEF Range
<1> QED BY <1>1, <1>3, <1>4 DEF Range

\* Taking one client off a list leaves all others on it, once or more.
LEMMA RangeRemoveFirst ==
  ASSUME NEW S, NEW s \in Seq(S), NEW e
  PROVE  Range(s) \ {e} \subseteq Range(RemoveFirst(s, e))
<1>1. CASE RemoveFirst(s, e) = s
  BY <1>1
<1>2. ASSUME NEW i \in 1 .. Len(s), s[i] = e, RemoveFirst(s, e) = RemoveAt(s, i)
      PROVE  Range(s) \ {e} \subseteq Range(RemoveFirst(s, e))
  <2> DEFINE t == RemoveAt(s, i)
  <2>1. /\ t \in Seq(S)
        /\ Len(t) = Len(s) - 1
        /\ \A j \in 1 .. Len(s) - 1 : t[j] = IF j < i THEN s[j] ELSE s[j + 1]
    BY RemoveAtProperties
  <2>2. /\ Len(s) \in Nat
        /\ DOMAIN s = 1 .. Len(s)
        /\ DOMAIN t = 1 .. Len(s) - 1
    BY <2>1, LenProperties
  <2> HIDE DEF t
  <2>3. ASSUME NEW k \in 1 .. Len(s), k # i
        PROVE  s[k] \in Range(t)
    <3>1. CASE k < i
      <4>1. k \in 1 .. Len(s) - 1 /\ t[k] = s[k]
        BY <2>1, <2>2, <2>3, <3>1
      <4> QED BY <2>2, <4>1 DEF Range
    <3>2. CASE k > i
      <4>1. k - 1 \in 1 .. Len(s) - 1 /\ t[k - 1] = s[k]
        BY <2>1, <2>2, <2>3, <3>2
      <4> QED BY <2>2, <4>1 DEF Range
    <3> QED BY <2>2, <2>3, <3>1, <3>2
  <2> QED BY <1>2, <2>2, <2>3 DEF Range, t
<1> QED BY <1>1, <1>2, RemoveFirstCases

\* The elements of a list at consecutive positions, counted out one by one.
CountedOut(s, a, n) == ElementsAt(s, a + 1 .. a + n) = [k \in 1 .. n |-> s[a + k]]

LEMMA ConsecutiveElements ==
  ASSUME NEW s, NEW a \in Nat, NEW n \in Nat
  PROVE  CountedOut(s, a, n)
<1> SUFFICES ElementsAt(s, a + 1 .. a + n) = [k \in 1 .. n |-> s[a + k]]
  BY DEF CountedOut
<1> DEFINE pick(k) == CHOOSE i \in a + 1 .. a + n :
                        Cardinality({j \in a + 1 .. a + n : j <= i}) = k
<1>1. Cardinality(a + 1 .. a + n) = n
  BY FS_Interval
<1>2. ASSUME NEW i \in a + 1 .. a + n
      PROVE  Cardinality({j \in a + 1 .. a + n : j <= i}) = i - a
  <2>1. {j \in a + 1 .. a + n : j <= i} = a + 1 .. i
    OBVIOUS
  <2>2. Cardinality(a + 1 .. i) = i - a
    BY FS_Interval
  <2> QED BY <2>1, <2>2
<1>3. ASSUME NEW k \in 1 .. n
      PROVE  pick(k) = a + k
  <2>1. a + k \in a + 1 .. a + n
    OBVIOUS
  <2>2. \A i \in a + 1 .. a + n :
          Cardinality({j \in a + 1 .. a + n : j <= i}) = k <=> i = a + k
    BY <1>2
  <2> DEFINE place(i) == Cardinality({j \in a + 1 .. a + n : j <= i})
  <2>3. \A i \in a + 1 .. a + n : place(i) = k <=> i = a + k
    BY <2>2
  <2> HIDE DEF place
  <2>4. (CHOOSE i \in a + 1 .. a + n : place(i) = k) = a + k
    BY <2>1, <2>3
  <2> QED BY <2>4 DEF place
<1>4. [k \in 1 .. n |-> s[pick(k)]] = [k \in 1 .. n |-> s[a + k]]
  <2> HIDE DEF pick
  <2> QED BY <1>3
<1> QED BY <1>1, <1>4 DEF ElementsAt
==============================================================================
