----------------------------- MODULE ClientProofs ---------------------------
(***************************************************************************)
(* Theorems about module Client: the window, that the library implements   *)
(* Delivery, the order of messages and that what the broker sends arrives, *)
(* for any window, threads, losses and numbers of messages, as long as no  *)
(* identifier is used twice.                                               *)
(***************************************************************************)
EXTENDS Client, TLAPS, NaturalsInduction, WellFoundedInduction,
        SequenceTheorems, FiniteSetTheorems

-----------------------------------------------------------------------------
(* Recursion and sequences.                                                 *)

(* A set of naturals that has 0 and is closed under successor has them all. *)
LEMMA SetInduction ==
  ASSUME NEW T \in SUBSET Nat, 0 \in T, \A n \in T : n + 1 \in T
  PROVE  T = Nat
<1> SUFFICES ASSUME T # Nat PROVE FALSE
  OBVIOUS
<1> DEFINE B == Nat \ T
<1>1. B \subseteq Nat /\ B # {}
  OBVIOUS
<1>2. PICK x \in B : \A y \in B : ~(<<y, x>> \in OpToRel(<, Nat))
  <2> HIDE DEF B
  <2> QED BY <1>1, NatLessThanWellFounded, WFMin, Zenon
<1>3. \A y \in B : ~(y < x)
  BY <1>2 DEF OpToRel
<1>4. x # 0 /\ x - 1 \in Nat /\ x - 1 < x
  OBVIOUS
<1>5. x - 1 \in T
  BY <1>3, <1>4
<1> QED BY <1>5, <1>4

(* The walk of FlattenSeq over n pieces.                                    *)
Flattens(ps, n, f) ==
  f = [i \in 1..n |-> IF i = 1 THEN ps[i] ELSE f[i - 1] \o ps[i]]

(* The walk exists, for any number of pieces.                               *)
LEMMA FlattenExists ==
  ASSUME NEW ps
  PROVE  \A n \in Nat : \E f : Flattens(ps, n, f)
<1> DEFINE T == {n \in Nat : \E f : Flattens(ps, n, f)}
<1>1. 0 \in T
  <2>1. Flattens(ps, 0, [i \in 1..0 |-> ps])
    BY DEF Flattens
  <2> QED BY <2>1
<1>2. ASSUME NEW n \in T PROVE n + 1 \in T
  <2>1. n \in Nat
    OBVIOUS
  <2>2. PICK f : Flattens(ps, n, f)
    OBVIOUS
  <2>3. \A i \in 1..n : f[i] = IF i = 1 THEN ps[i] ELSE f[i - 1] \o ps[i]
    BY <2>2, Zenon DEF Flattens
  <2> DEFINE last == IF n = 0 THEN ps[1] ELSE f[n] \o ps[n + 1]
             g == [i \in 1..(n + 1) |-> IF i = n + 1 THEN last ELSE f[i]]
  <2>4. ASSUME NEW i \in 1..(n + 1)
        PROVE  g[i] = IF i = 1 THEN ps[i] ELSE g[i - 1] \o ps[i]
    <3>1. CASE i = n + 1 /\ n = 0
      BY <2>1, <3>1
    <3>2. CASE i = n + 1 /\ n # 0
      <4>1. i - 1 = n /\ n \in 1..(n + 1) /\ n # n + 1 /\ i # 1
        BY <2>1, <3>2
      <4> QED BY <3>2, <4>1
    <3>3. CASE i # n + 1
      <4>1. i \in 1..n
        BY <2>1, <3>3
      <4>2. i # 1 => i - 1 \in 1..(n + 1) /\ i - 1 # n + 1
        BY <2>1, <4>1
      <4> QED BY <2>3, <3>3, <4>1, <4>2
    <3> QED BY <3>1, <3>2, <3>3
  <2>5. Flattens(ps, n + 1, g)
    <3>1. g = [i \in 1..(n + 1) |-> g[i]]
      OBVIOUS
    <3> HIDE DEF g
    <3> QED BY <2>4, <3>1 DEF Flattens
  <2> HIDE DEF g
  <2> QED BY <2>1, <2>5
<1>3. T = Nat
  <2>1. T \in SUBSET Nat
    OBVIOUS
  <2> HIDE DEF T
  <2> QED BY <1>1, <1>2, <2>1, SetInduction
<1> QED BY <1>3

(* n pieces of at most one element of S, and a list of what is in them.     *)
Pieces(S, n, ps) ==
  ps = [i \in 1..n |-> ps[i]] /\ \A i \in 1..n : ps[i] = <<>> \/ \E x \in S : ps[i] = <<x>>
OfPieces(S, n, ps, s) == s \in Seq(S) /\ \A k \in DOMAIN s : \E i \in 1..n : ps[i] = <<s[k]>>

(* What FlattenSeq makes of pieces of at most one element has the elements  *)
(* of the pieces only.                                                      *)
LEMMA FlattenIn ==
  ASSUME NEW S, NEW n \in Nat, NEW ps, Pieces(S, n, ps)
  PROVE  OfPieces(S, n, ps, FlattenSeq(ps))
<1> USE DEF Pieces, OfPieces
<1> DEFINE In(s) == s \in Seq(S) /\ \A k \in DOMAIN s : \E i \in 1..n : ps[i] = <<s[k]>>
<1>1. Len(ps) = n
  OBVIOUS
<1>2. CASE n = 0
  <2>1. ps = <<>>
    BY <1>2
  <2>2. FlattenSeq(ps) = <<>>
    BY <1>1, <1>2, <2>1 DEF FlattenSeq
  <2> QED BY <2>2
<1>3. CASE n # 0
  <2> DEFINE f == CHOOSE f : Flattens(ps, n, f)
  <2>1. FlattenSeq(ps) = f[n]
    BY <1>1, <1>3 DEF FlattenSeq, Flattens
  <2>2. Flattens(ps, n, f)
    BY FlattenExists
  <2> HIDE DEF f
  <2>3. \A i \in 1..n : f[i] = IF i = 1 THEN ps[i] ELSE f[i - 1] \o ps[i]
    BY <2>2, Zenon DEF Flattens
  <2>4. ASSUME NEW i \in 1..n PROVE In(ps[i])
    <3>1. CASE ps[i] = <<>>
      BY <3>1
    <3>2. ASSUME NEW x \in S, ps[i] = <<x>> PROVE In(ps[i])
      <4>1. <<x>> \in Seq(S) /\ DOMAIN <<x>> = {1} /\ <<x>>[1] = x
        OBVIOUS
      <4>2. ps[i] \in Seq(S) /\ \A k \in DOMAIN ps[i] : ps[i][k] = x
        BY <3>2, <4>1
      <4> QED BY <3>2, <4>2
    <3> QED BY <3>1, <3>2
  <2>5. ASSUME NEW s, NEW t, In(s), In(t) PROVE In(s \o t)
    <3>1. /\ s \o t \in Seq(S) /\ Len(s \o t) = Len(s) + Len(t)
          /\ \A k \in 1..(Len(s) + Len(t)) :
               (s \o t)[k] = IF k <= Len(s) THEN s[k] ELSE t[k - Len(s)]
      BY <2>5, ConcatProperties
    <3>2. ASSUME NEW k \in DOMAIN (s \o t) PROVE \E i \in 1..n : ps[i] = <<(s \o t)[k]>>
      <4>1. k \in 1..(Len(s) + Len(t)) /\ Len(s) \in Nat /\ Len(t) \in Nat
        BY <2>5, <3>1
      <4>2. CASE k <= Len(s)
        <5>1. k \in DOMAIN s /\ (s \o t)[k] = s[k]
          BY <2>5, <3>1, <4>1, <4>2
        <5> QED BY <2>5, <5>1
      <4>3. CASE ~(k <= Len(s))
        <5>1. k - Len(s) \in DOMAIN t /\ (s \o t)[k] = t[k - Len(s)]
          BY <2>5, <3>1, <4>1, <4>3
        <5> QED BY <2>5, <5>1
      <4> QED BY <4>2, <4>3
    <3> QED BY <3>1, <3>2
  <2> DEFINE T == {m \in Nat : m + 1 \in 1..n => In(f[m + 1])}
  <2> HIDE DEF In
  <2>6. 0 \in T
    BY <2>3, <2>4
  <2>7. ASSUME NEW m \in T PROVE m + 1 \in T
    <3>1. SUFFICES ASSUME (m + 1) + 1 \in 1..n PROVE In(f[(m + 1) + 1])
      OBVIOUS
    <3>2. m \in Nat /\ m + 1 \in 1..n /\ In(f[m + 1])
      BY <3>1
    <3>3. ((m + 1) + 1) - 1 = m + 1 /\ (m + 1) + 1 # 1
      BY <3>2
    <3>4. f[(m + 1) + 1] = f[m + 1] \o ps[(m + 1) + 1]
      BY <2>3, <3>1, <3>3
    <3> QED BY <2>4, <2>5, <3>1, <3>2, <3>4
  <2>8. T = Nat
    <3>1. T \in SUBSET Nat
      OBVIOUS
    <3> HIDE DEF T
    <3> QED BY <2>6, <2>7, <3>1, SetInduction
  <2>9. n - 1 \in Nat /\ (n - 1) + 1 = n /\ n \in 1..n
    BY <1>3
  <2>10. In(f[n])
    BY <2>8, <2>9
  <2> QED BY <2>1, <2>10 DEF In
<1> QED BY <1>2, <1>3

(* RemoveAt moves what is behind the place forward.                         *)
LEMMA RemoveAtIs ==
  ASSUME NEW S, NEW s \in Seq(S), NEW i \in 1..Len(s)
  PROVE  /\ RemoveAt(s, i) \in Seq(S) /\ Len(RemoveAt(s, i)) = Len(s) - 1
         /\ \A j \in 1..(Len(s) - 1) : RemoveAt(s, i)[j] = IF j < i THEN s[j] ELSE s[j + 1]
<1> DEFINE a == SubSeq(s, 1, i - 1)
           b == SubSeq(s, i + 1, Len(s))
           n == Len(s)
<1>1. n \in Nat /\ i \in 1..n /\ \A k \in 1..n : s[k] \in S
  BY ElementOfSeq
<1> HIDE DEF n
<1>2. /\ a \in Seq(S) /\ Len(a) = i - 1
      /\ \A k \in 1..(i - 1) : a[k] = s[k]
  <2>1. 1 \in Int /\ i - 1 \in Int /\ \A k \in 1..(i - 1) : s[k] \in S
    BY <1>1
  <2>2. /\ a \in Seq(S) /\ Len(a) = (IF 1 <= i - 1 THEN (i - 1) - 1 + 1 ELSE 0)
        /\ \A k \in 1..((i - 1) - 1 + 1) : a[k] = s[1 + k - 1]
    BY <2>1, SubSeqProperties
  <2>3. \A k \in 1..(i - 1) : 1 + k - 1 = k /\ k \in 1..((i - 1) - 1 + 1)
    BY <1>1
  <2> QED BY <1>1, <2>2, <2>3
<1>3. /\ b \in Seq(S) /\ Len(b) = n - i
      /\ \A k \in 1..(n - i) : b[k] = s[i + k]
  <2>1. i + 1 \in Int /\ n \in Int /\ \A k \in (i + 1)..n : s[k] \in S
    BY <1>1
  <2>2. b = SubSeq(s, i + 1, n)
    BY DEF n
  <2> DEFINE i1 == i + 1
  <2>3. i1 \in Int /\ n \in Int /\ (\A k \in i1..n : s[k] \in S) /\ b = SubSeq(s, i1, n)
    BY <2>1, <2>2
  <2> HIDE DEF i1, b
  <2>4. /\ SubSeq(s, i1, n) \in Seq(S) /\ Len(SubSeq(s, i1, n)) = (IF i1 <= n THEN n - i1 + 1 ELSE 0)
        /\ \A k \in 1..(n - i1 + 1) : SubSeq(s, i1, n)[k] = s[i1 + k - 1]
    BY <2>3, SubSeqProperties
  <2>5. \A k \in 1..(n - i) : i1 + k - 1 = i + k /\ k \in 1..(n - i1 + 1)
    BY <1>1 DEF i1
  <2>6. (IF i1 <= n THEN n - i1 + 1 ELSE 0) = n - i
    BY <1>1 DEF i1
  <2> QED BY <2>3, <2>4, <2>5, <2>6
<1>4. RemoveAt(s, i) = a \o b
  BY DEF RemoveAt
<1> HIDE DEF a, b
<1>5. /\ a \o b \in Seq(S) /\ Len(a \o b) = Len(a) + Len(b)
      /\ \A k \in 1..(Len(a) + Len(b)) :
           (a \o b)[k] = IF k <= Len(a) THEN a[k] ELSE b[k - Len(a)]
  BY <1>2, <1>3, ConcatProperties
<1>6. ASSUME NEW j \in 1..(n - 1) PROVE (a \o b)[j] = IF j < i THEN s[j] ELSE s[j + 1]
  <2>1. j \in 1..(Len(a) + Len(b))
    BY <1>1, <1>2, <1>3
  <2>2. CASE j < i
    <3>1. j <= Len(a) /\ j \in 1..(i - 1)
      BY <1>1, <1>2, <2>2
    <3> QED BY <1>2, <1>5, <2>1, <2>2, <3>1
  <2>3. CASE ~(j < i)
    <3>1. ~(j <= Len(a)) /\ j - Len(a) \in 1..(n - i) /\ i + (j - Len(a)) = j + 1
      BY <1>1, <1>2, <2>3
    <3> QED BY <1>3, <1>5, <2>1, <2>3, <3>1
  <2> QED BY <2>2, <2>3
<1>7. Len(a \o b) = n - 1
  BY <1>1, <1>2, <1>3, <1>5
<1> QED BY <1>4, <1>5, <1>6, <1>7 DEF n

(* s is a part of t.                                                        *)
Within(s, t) == \E k \in Nat : \A i \in DOMAIN s : i + k \in DOMAIN t /\ s[i] = t[i + k]

(* What is left of a list is within it, whichever end is taken away.        *)
LEMMA PartsWithin ==
  ASSUME NEW S, NEW s \in Seq(S), NEW t \in Seq(S)
  PROVE  /\ Within(s, s \o t) /\ Within(t, s \o t)
         /\ s # <<>> => Within(Tail(s) \o t, s \o t)
<1>1. /\ s \o t \in Seq(S) /\ Len(s \o t) = Len(s) + Len(t)
      /\ \A k \in 1..(Len(s) + Len(t)) :
           (s \o t)[k] = IF k <= Len(s) THEN s[k] ELSE t[k - Len(s)]
  BY ConcatProperties
<1>2. /\ Len(s) \in Nat /\ Len(t) \in Nat /\ DOMAIN s = 1..Len(s) /\ DOMAIN t = 1..Len(t)
      /\ DOMAIN (s \o t) = 1..(Len(s) + Len(t))
  BY <1>1
<1>3. Within(s, s \o t)
  <2>1. ASSUME NEW i \in DOMAIN s PROVE i + 0 \in DOMAIN (s \o t) /\ s[i] = (s \o t)[i + 0]
    <3>1. i + 0 = i /\ i \in 1..(Len(s) + Len(t)) /\ i <= Len(s)
      BY <1>2
    <3> QED BY <1>1, <1>2, <3>1
  <2> QED BY <2>1 DEF Within
<1>4. Within(t, s \o t)
  <2>1. ASSUME NEW i \in DOMAIN t
        PROVE  i + Len(s) \in DOMAIN (s \o t) /\ t[i] = (s \o t)[i + Len(s)]
    <3>1. i + Len(s) \in 1..(Len(s) + Len(t)) /\ ~(i + Len(s) <= Len(s)) /\ (i + Len(s)) - Len(s) = i
      BY <1>2
    <3> QED BY <1>1, <1>2, <3>1
  <2> QED BY <1>2, <2>1 DEF Within
<1>5. ASSUME s # <<>> PROVE Within(Tail(s) \o t, s \o t)
  <2> DEFINE u == Tail(s)
  <2>1. u \in Seq(S) /\ Len(u) = Len(s) - 1 /\ Len(s) > 0
    BY <1>5, HeadTailProperties, LenProperties
  <2>2. \A i \in 1..(Len(s) - 1) : u[i] = s[i + 1]
    BY <1>5, HeadTailProperties
  <2> HIDE DEF u
  <2>3. /\ u \o t \in Seq(S) /\ Len(u \o t) = Len(u) + Len(t)
        /\ \A k \in 1..(Len(u) + Len(t)) :
             (u \o t)[k] = IF k <= Len(u) THEN u[k] ELSE t[k - Len(u)]
    BY <2>1, ConcatProperties
  <2>4. ASSUME NEW i \in DOMAIN (u \o t)
        PROVE  i + 1 \in DOMAIN (s \o t) /\ (u \o t)[i] = (s \o t)[i + 1]
    <3>1. i \in 1..(Len(u) + Len(t)) /\ i + 1 \in 1..(Len(s) + Len(t))
      BY <1>2, <2>1, <2>3
    <3>2. CASE i <= Len(u)
      <4>1. i \in 1..(Len(s) - 1) /\ i + 1 <= Len(s)
        BY <1>2, <2>1, <3>1, <3>2
      <4> QED BY <1>1, <1>2, <2>2, <2>3, <3>1, <3>2, <4>1
    <3>3. CASE ~(i <= Len(u))
      <4>1. ~(i + 1 <= Len(s)) /\ (i + 1) - Len(s) = i - Len(u)
        BY <1>2, <2>1, <3>1, <3>3
      <4> QED BY <1>1, <1>2, <2>3, <3>1, <3>3, <4>1
    <3> QED BY <3>2, <3>3
  <2>5. Within(u \o t, s \o t)
    BY <2>4 DEF Within
  <2> QED BY <2>5 DEF u
<1> QED BY <1>3, <1>4, <1>5

(* A packet that is written goes from one list to the other.                *)
LEMMA MovedAlong ==
  ASSUME NEW S, NEW s \in Seq(S), NEW t \in Seq(S), t # <<>>
  PROVE  Append(s, Head(t)) \o Tail(t) = s \o t
<1>1. t = <<Head(t)>> \o Tail(t)
  BY HeadTailProperties
<1>2. Head(t) \in S /\ Tail(t) \in Seq(S) /\ <<Head(t)>> \in Seq(S)
  BY HeadTailProperties
<1>3. Append(s, Head(t)) = s \o <<Head(t)>>
  BY <1>2, AppendIsConcat
<1> DEFINE h == <<Head(t)>>
           u == Tail(t)
<1>4. h \in Seq(S) /\ u \in Seq(S) /\ t = h \o u /\ Append(s, Head(t)) = s \o h
  BY <1>1, <1>2, <1>3
<1> HIDE DEF h, u
<1>5. (s \o h) \o u = s \o (h \o u)
  BY ONLY <1>4, s \in Seq(S), ConcatAssociative
<1> QED BY <1>4, <1>5 DEF u

(* What a window of max_inflight_messages counts of a list of n messages.   *)
Counted(n) == IF MaxInflight = 0 \/ n <= MaxInflight THEN n ELSE MaxInflight

(* What the window counts is the number of the positions that are not       *)
(* behind it.                                                               *)
LEMMA CountedIs ==
  ASSUME NEW n \in Nat, NEW A, A = {i \in 1..n : ~(MaxInflight # 0 /\ i > MaxInflight)}
  PROVE  Cardinality(A) = Counted(n) /\ Counted(n) \in Nat
<1>1. MaxInflight \in Nat
  BY ClientAssumption
<1>2. Counted(n) \in Nat
  BY <1>1 DEF Counted
<1>3. A = 1..Counted(n)
  BY <1>1 DEF Counted
<1>4. \A a \in Int, b \in Int : Cardinality(a..b) = IF a > b THEN 0 ELSE b - a + 1
  BY FS_Interval
<1> DEFINE c == Counted(n)
<1>5. c \in Nat /\ A = 1..c
  BY <1>2, <1>3
<1> HIDE DEF c
<1>6. Cardinality(1..c) = c
  BY <1>4, <1>5
<1> QED BY <1>2, <1>5, <1>6 DEF c

-----------------------------------------------------------------------------
(* The list of outgoing messages.                                           *)

(* No identifier is used twice: the code's wrap at 65535.                   *)
NoWrap == MaxPublished <= MaxMid /\ MaxSent <= PeerMids

States == {"invalid", "publish_qos1", "publish_qos2", "resend_pubrel",
           "wait_for_puback", "wait_for_pubrec", "wait_for_pubcomp"}
Message == {m \in [id: Nat, mid: Nat, qos: {1, 2}, state: States] : m.state = "publish_qos1" => m.qos = 1}

(* A message that was not sent yet, one the broker may not have, and one it *)
(* has answered.                                                            *)
Unsent     == {"invalid"}
Unreleased == {"invalid", "publish_qos2", "wait_for_pubrec"}
Answered   == {"wait_for_pubcomp", "resend_pubrel"}

(* The broker took message b; b is past the states st, or no longer listed. *)
Took(b)     == \E i \in DOMAIN received : received[i] = b
Past(b, st) == /\ b \in DOMAIN accepted
               /\ \A i \in DOMAIN out_messages :
                    out_messages[i].id = b => out_messages[i].state \notin st
Begun(b)    == Past(b, Unsent)
Released(b) == Past(b, Unreleased)

ListTyped ==
  /\ out_messages \in Seq(Message) /\ accepted \in Seq({1, 2}) /\ received \in Seq(Nat)
  /\ announced \in SUBSET DOMAIN accepted
  /\ last_mid = Len(accepted) /\ Len(accepted) <= MaxPublished

(* The messages in the list were accepted, under the identifier that is     *)
(* their number, and are in the order of the calls.                         *)
Listed ==
  /\ \A i \in DOMAIN out_messages :
       /\ out_messages[i].mid = out_messages[i].id /\ out_messages[i].id \in DOMAIN accepted
       /\ out_messages[i].qos = accepted[out_messages[i].id]
       /\ out_messages[i].id \notin announced
       /\ out_messages[i].state \in Answered => Took(out_messages[i].id)
  /\ \A i, j \in DOMAIN out_messages : i < j => out_messages[i].id < out_messages[j].id

(* With a window of one they are the last that were accepted.               *)
LastOnes ==
  MaxInflight = 1 =>
    \A i \in DOMAIN out_messages : out_messages[i].id = (Len(accepted) - Len(out_messages)) + i

(* What has left the list, the broker took, and it took what was sent.      *)
Gone == \A b \in DOMAIN accepted : (\A i \in DOMAIN out_messages : out_messages[i].id # b) => Took(b)
TookSent == \A i \in DOMAIN received : Begun(received[i])

Windowed ==
  /\ inflight_messages = Counted(Len(out_messages))
  /\ \A i \in DOMAIN out_messages : Waits(i) <=> MaxInflight # 0 /\ i > MaxInflight

ListInv == ListTyped /\ Listed /\ LastOnes /\ Gone /\ TookSent /\ Windowed

(* Windowed says what Window does.                                          *)
LEMMA WindowedIsWindow ==
  ASSUME ListTyped, Windowed
  PROVE  Window
<1> DEFINE n == Len(out_messages)
           A == {i \in DOMAIN out_messages : ~Waits(i)}
<1>1. n \in Nat /\ DOMAIN out_messages = 1..n
  BY DEF ListTyped
<1>2. A = {i \in 1..n : ~(MaxInflight # 0 /\ i > MaxInflight)} /\ inflight_messages = Counted(n)
  BY <1>1 DEF Windowed
<1>3. inflight_messages = Cardinality(A)
  <2> HIDE DEF n, A
  <2> QED BY <1>1, <1>2, CountedIs
<1> QED BY <1>3 DEF Window, Windowed

(* Each message of the list was there, and none has gone back.              *)
Kin ==
  \A j \in DOMAIN out_messages' : \E i \in DOMAIN out_messages :
    /\ out_messages'[j].id = out_messages[i].id /\ out_messages'[j].mid = out_messages[i].mid
    /\ out_messages'[j].qos = out_messages[i].qos
    /\ out_messages[i].state \notin Unsent => out_messages'[j].state \notin Unsent
    /\ out_messages[i].state \notin Unreleased => out_messages'[j].state \notin Unreleased
    /\ out_messages'[j].state \in Answered => out_messages[i].state \in Answered \/ Took(out_messages[i].id)

(* What was so of an accepted message stays so.                             *)
Steady ==
  \A b : /\ Took(b) => Took(b)'
         /\ Begun(b) => Begun(b)'
         /\ Released(b) => Released(b)'
         /\ b \in DOMAIN accepted => b \in DOMAIN accepted' /\ accepted'[b] = accepted[b]

(* When the messages of a list come from those of the list before, and      *)
(* neither the application nor the broker did anything, all that was so of  *)
(* an accepted message stays so.                                            *)
LEMMA KinSteady ==
  ASSUME Kin, accepted' = accepted, received' = received
  PROVE  Steady
<1>1. ASSUME NEW b, Begun(b) PROVE Begun(b)'
  BY <1>1 DEF Kin, Begun, Past
<1>2. ASSUME NEW b, Released(b) PROVE Released(b)'
  BY <1>2 DEF Kin, Released, Past
<1> QED BY <1>1, <1>2 DEF Steady, Took

(* A step that only changes the list of what it holds already.              *)
LEMMA KinListed ==
  ASSUME ListInv, Kin, out_messages' \in Seq(Message), accepted' = accepted, received' = received,
         last_mid' = last_mid, announced' \in SUBSET DOMAIN accepted,
         \A i \in DOMAIN out_messages' : out_messages'[i].id \notin announced',
         \A i, j \in DOMAIN out_messages' : i < j => out_messages'[i].id < out_messages'[j].id,
         \A i \in DOMAIN out_messages :
           Took(out_messages[i].id) \/ \E j \in DOMAIN out_messages' : out_messages'[j].id = out_messages[i].id,
         LastOnes', Windowed'
  PROVE  ListInv' /\ Steady
<1>1. Steady
  BY KinSteady
<1>2. ListTyped'
  BY DEF ListInv, ListTyped
<1>3. \A b : Took(b)' <=> Took(b)
  BY DEF Took
<1>4. Listed'
  <2>1. ASSUME NEW j \in DOMAIN out_messages'
        PROVE  /\ out_messages'[j].mid = out_messages'[j].id /\ out_messages'[j].id \in DOMAIN accepted
               /\ out_messages'[j].qos = accepted[out_messages'[j].id]
               /\ out_messages'[j].state \in Answered => Took(out_messages'[j].id)
    <3>1. PICK i \in DOMAIN out_messages :
            /\ out_messages'[j].id = out_messages[i].id /\ out_messages'[j].mid = out_messages[i].mid
            /\ out_messages'[j].qos = out_messages[i].qos
            /\ out_messages'[j].state \in Answered => out_messages[i].state \in Answered \/ Took(out_messages[i].id)
      BY DEF Kin
    <3>2. /\ out_messages[i].mid = out_messages[i].id /\ out_messages[i].id \in DOMAIN accepted
          /\ out_messages[i].qos = accepted[out_messages[i].id]
          /\ out_messages[i].state \in Answered => Took(out_messages[i].id)
      BY DEF ListInv, Listed
    <3> QED BY <3>1, <3>2
  <2> QED BY <2>1 DEF Listed, Took
<1>5. Gone'
  <2>1. ASSUME NEW b \in DOMAIN accepted, \A j \in DOMAIN out_messages' : out_messages'[j].id # b
        PROVE  Took(b)'
    <3>1. CASE \A i \in DOMAIN out_messages : out_messages[i].id # b
      BY <1>3, <3>1 DEF ListInv, Gone
    <3>2. CASE ~\A i \in DOMAIN out_messages : out_messages[i].id # b
      BY <1>3, <2>1, <3>2
    <3> QED BY <3>1, <3>2
  <2> QED BY <2>1 DEF Gone
<1>6. TookSent'
  BY <1>1 DEF ListInv, TookSent, Steady
<1> QED BY <1>1, <1>2, <1>4, <1>5, <1>6 DEF ListInv

(* A step that leaves the list alone.                                       *)
LEMMA SameList ==
  ASSUME ListInv,
         UNCHANGED <<out_messages, accepted, received, announced, last_mid, inflight_messages>>
  PROVE  ListInv' /\ Steady
<1>1. ListInv'
  BY DEF ListInv, ListTyped, Listed, LastOnes, Gone, TookSent, Windowed, Took, Begun, Past, Waits
<1>2. Steady
  BY DEF Steady, Took, Begun, Released, Past
<1> QED BY <1>1, <1>2

(* The broker takes a message that was sent.                                *)
LEMMA TakenList ==
  ASSUME ListInv, NEW b \in Nat, Begun(b), received' = Append(received, b),
         UNCHANGED <<out_messages, accepted, announced, last_mid, inflight_messages>>
  PROVE  ListInv' /\ Steady /\ \A x : Took(x)' <=> Took(x) \/ x = b
<1>1. /\ received \in Seq(Nat) /\ received' \in Seq(Nat) /\ Len(received') = Len(received) + 1
      /\ (\A i \in 1..Len(received) : received'[i] = received[i]) /\ received'[Len(received) + 1] = b
  BY AppendProperties DEF ListInv, ListTyped
<1>2. /\ Len(received) \in Nat /\ DOMAIN received = 1..Len(received)
      /\ DOMAIN received' = 1..(Len(received) + 1)
  BY <1>1
<1>3. \A i \in DOMAIN received' : (i \in DOMAIN received /\ received'[i] = received[i]) \/ received'[i] = b
  BY <1>1, <1>2
<1>4. \A x : Took(x)' <=> Took(x) \/ x = b
  <2>1. ASSUME NEW x, Took(x) PROVE Took(x)'
    BY <1>1, <1>2, <2>1 DEF Took
  <2>2. Took(b)'
    BY <1>1, <1>2 DEF Took
  <2>3. ASSUME NEW x, Took(x)' PROVE Took(x) \/ x = b
    BY <1>3, <2>3 DEF Took
  <2> QED BY <2>1, <2>2, <2>3
<1>5. Steady
  BY <1>4 DEF Steady, Begun, Released, Past
<1>6. TookSent'
  <2>1. ASSUME NEW i \in DOMAIN received' PROVE Begun(received'[i])
    BY <1>3 DEF ListInv, TookSent
  <2> QED BY <2>1, <1>5 DEF TookSent, Steady
<1>7. ListTyped' /\ Listed' /\ LastOnes' /\ Gone' /\ Windowed'
  BY <1>1, <1>4 DEF ListInv, ListTyped, Listed, LastOnes, Gone, Windowed, Waits
<1> QED BY <1>4, <1>5, <1>6, <1>7 DEF ListInv

(* The next identifier is one more, before it wraps.                        *)
LEMMA NextMidIs ==
  ASSUME NEW n \in Nat, NEW m \in Nat \ {0}, n < m
  PROVE  n % m = n
OBVIOUS

(* Below the wrap of mosquitto__mid_generate, the identifier of a message   *)
(* is its place in the order of the calls of mosquitto_publish.             *)
LEMMA NewMid ==
  ASSUME NoWrap, ListTyped, Len(accepted) < MaxPublished
  PROVE  NextMid(last_mid) = Len(accepted) + 1
<1> DEFINE n == Len(accepted)
<1>1. n \in Nat /\ last_mid = n /\ n < MaxPublished
  BY DEF ListTyped
<1>2. MaxMid \in Nat \ {0} /\ MaxPublished \in Nat /\ MaxPublished <= MaxMid
  BY ClientAssumption DEF NoWrap
<1> HIDE DEF n
<1>3. n < MaxMid
  BY <1>1, <1>2
<1>4. n % MaxMid = n
  BY <1>1, <1>2, <1>3, NextMidIs
<1>5. NextMid(last_mid) = n + 1
  BY <1>1, <1>4 DEF NextMid
<1> QED BY <1>5 DEF n

(* A message that is accepted goes behind the others.                       *)
LEMMA AcceptedList ==
  ASSUME ListInv, NEW qos \in {1, 2}, NEW m, NEW room \in BOOLEAN,
         Len(accepted) < MaxPublished, room <=> HasRoom(inflight_messages),
         m = [id |-> Len(accepted) + 1, mid |-> Len(accepted) + 1, qos |-> qos,
              state |-> IF room THEN WaitState(qos) ELSE "invalid"],
         last_mid' = Len(accepted) + 1, out_messages' = Append(out_messages, m),
         inflight_messages' = inflight_messages + (IF room THEN 1 ELSE 0),
         accepted' = Append(accepted, qos), UNCHANGED <<received, announced>>
  PROVE  /\ ListInv' /\ Steady
         /\ m.id \notin DOMAIN accepted /\ accepted'[m.id] = m.qos
         /\ room => Begun(m.id)'
<1> DEFINE n == Len(out_messages)
           k == Len(accepted)
<1>1. /\ out_messages \in Seq(Message) /\ accepted \in Seq({1, 2}) /\ received \in Seq(Nat)
      /\ announced \in SUBSET DOMAIN accepted
  BY DEF ListInv, ListTyped
<1>2. /\ n \in Nat /\ k \in Nat /\ DOMAIN out_messages = 1..n /\ DOMAIN accepted = 1..k
      /\ MaxInflight \in Nat /\ MaxPublished \in Nat /\ k < MaxPublished
  BY <1>1, ClientAssumption
<1>3. WaitState(qos) \in States \ (Unsent \cup Answered \cup {"publish_qos1"})
  BY DEF WaitState, States, Unsent, Answered
<1>4. /\ m.id = k + 1 /\ m.mid = k + 1 /\ m.qos = qos
      /\ m.state = IF room THEN WaitState(qos) ELSE "invalid"
  OBVIOUS
<1>5. m \in Message /\ m.state \notin Answered /\ (m.state \in Unsent <=> ~room)
  <2>1. "invalid" \in States /\ "invalid" \in Unsent /\ "invalid" \notin Answered /\ "invalid" # "publish_qos1"
    BY DEF States, Unsent, Answered
  <2>2. m.state \in States /\ m.state # "publish_qos1"
    BY <1>3, <1>4, <2>1
  <2>3. m \in [id: Nat, mid: Nat, qos: {1, 2}, state: States]
    BY <1>2, <1>4, <2>2
  <2> QED BY <1>3, <1>4, <2>1, <2>2, <2>3 DEF Message
<1>6. /\ out_messages' \in Seq(Message) /\ DOMAIN out_messages' = 1..(n + 1)
      /\ Len(out_messages') = n + 1
      /\ \A i \in 1..n : out_messages'[i] = out_messages[i]
      /\ out_messages'[n + 1] = m
  <2> HIDE DEF n
  <2>1. /\ Append(out_messages, m) \in Seq(Message)
        /\ Len(Append(out_messages, m)) = Len(out_messages) + 1
        /\ \A i \in 1..Len(out_messages) : Append(out_messages, m)[i] = out_messages[i]
        /\ Append(out_messages, m)[Len(out_messages) + 1] = m
    BY <1>1, <1>5, AppendProperties
  <2> QED BY <1>2, <2>1 DEF n
<1>7. /\ accepted' \in Seq({1, 2}) /\ DOMAIN accepted' = 1..(k + 1) /\ Len(accepted') = k + 1
      /\ \A i \in 1..k : accepted'[i] = accepted[i]
      /\ accepted'[k + 1] = qos
  <2> HIDE DEF k
  <2>1. /\ Append(accepted, qos) \in Seq({1, 2})
        /\ Len(Append(accepted, qos)) = Len(accepted) + 1
        /\ \A i \in 1..Len(accepted) : Append(accepted, qos)[i] = accepted[i]
        /\ Append(accepted, qos)[Len(accepted) + 1] = qos
    BY <1>1, AppendProperties
  <2> QED BY <1>2, <2>1 DEF k
<1>8. /\ \A i \in 1..n : out_messages[i].id \in 1..k
      /\ k + 1 \notin 1..k
  <2>1. \A i \in DOMAIN out_messages : out_messages[i].id \in DOMAIN accepted
    BY ONLY ListInv DEF ListInv, Listed
  <2> HIDE DEF n, k
  <2> QED BY ONLY <1>2, <2>1
<1>window. /\ inflight_messages = Counted(n)
      /\ \A i \in 1..n : out_messages[i].state = "invalid" <=> MaxInflight # 0 /\ i > MaxInflight
  BY <1>2 DEF ListInv, Windowed, Waits
<1>step. last_mid' = k + 1 /\ (room <=> HasRoom(inflight_messages))
      /\ inflight_messages' = inflight_messages + (IF room THEN 1 ELSE 0)
  OBVIOUS
<1> HIDE DEF n, k
<1>9. ListTyped'
  <2>1. k + 1 <= MaxPublished
    BY <1>2
  <2>2. announced' \in SUBSET (DOMAIN accepted')
    BY <1>1, <1>2, <1>7
  <2> QED BY <1>1, <1>6, <1>7, <1>step, <2>1, <2>2 DEF ListTyped
<1>10. Steady
  <2>1. ASSUME NEW b, NEW st, Past(b, st) PROVE Past(b, st)'
    <3>1. b \in 1..k
      BY <1>2, <2>1 DEF Past
    <3>2. b \in 1..(k + 1) /\ b # k + 1
      BY <1>2, <3>1
    <3>3. ASSUME NEW i \in 1..(n + 1), out_messages'[i].id = b PROVE out_messages'[i].state \notin st
      <4>1. i # n + 1
        BY <1>4, <1>6, <3>2, <3>3
      <4>2. i \in 1..n
        BY <1>2, <4>1
      <4> QED BY <1>2, <1>6, <2>1, <3>3, <4>2 DEF Past
    <3> QED BY <1>6, <1>7, <3>2, <3>3 DEF Past
  <2>2. ASSUME NEW b \in 1..k PROVE b \in 1..(k + 1) /\ accepted'[b] = accepted[b]
    BY <1>2, <1>7
  <2> QED BY <1>2, <1>7, <2>1, <2>2 DEF Steady, Took, Begun, Released
<1>11. Listed'
  <2>1. ASSUME NEW i \in 1..(n + 1)
        PROVE  /\ out_messages'[i].mid = out_messages'[i].id /\ out_messages'[i].id \in 1..(k + 1)
               /\ out_messages'[i].qos = accepted'[out_messages'[i].id]
               /\ out_messages'[i].id \notin announced
               /\ out_messages'[i].state \in Answered => Took(out_messages'[i].id)
    <3>1. CASE i = n + 1
      <4>1. k + 1 \in 1..(k + 1) /\ k + 1 \notin announced
        BY <1>1, <1>2, <1>8
      <4> QED BY <1>4, <1>5, <1>6, <1>7, <3>1, <4>1
    <3>2. CASE i # n + 1
      <4>1. i \in 1..n
        BY <1>2, <3>2
      <4>2. /\ out_messages[i].mid = out_messages[i].id /\ out_messages[i].id \in 1..k
            /\ out_messages[i].qos = accepted[out_messages[i].id]
            /\ out_messages[i].id \notin announced
            /\ out_messages[i].state \in Answered => Took(out_messages[i].id)
        BY <1>2, <4>1 DEF ListInv, Listed
      <4>3. out_messages[i].id \in 1..(k + 1)
        BY <1>2, <4>2
      <4> QED BY <1>6, <1>7, <4>1, <4>2, <4>3
    <3> QED BY <3>1, <3>2
  <2>2. ASSUME NEW i \in 1..(n + 1), NEW j \in 1..(n + 1), i < j
        PROVE  out_messages'[i].id < out_messages'[j].id
    <3>1. i \in 1..n
      BY <1>2, <2>2
    <3>2. CASE j = n + 1
      <4>1. out_messages[i].id \in 1..k
        BY <1>8, <3>1
      <4> QED BY <1>2, <1>4, <1>6, <3>1, <3>2, <4>1
    <3>3. CASE j # n + 1
      <4>1. j \in 1..n
        BY <1>2, <3>3
      <4> QED BY <1>2, <1>6, <2>2, <3>1, <4>1 DEF ListInv, Listed
    <3> QED BY <3>2, <3>3
  <2> QED BY <1>6, <1>7, <2>1, <2>2 DEF Listed, Took
<1>12. LastOnes'
  <2>1. ASSUME MaxInflight = 1, NEW i \in 1..(n + 1)
        PROVE  out_messages'[i].id = ((k + 1) - (n + 1)) + i
    <3>1. CASE i = n + 1
      BY <1>2, <1>4, <1>6, <3>1
    <3>2. CASE i # n + 1
      <4>1. i \in 1..n
        BY <1>2, <3>2
      <4>2. out_messages[i].id = (k - n) + i
        BY <1>2, <2>1, <4>1 DEF ListInv, LastOnes, n, k
      <4> QED BY <1>2, <1>6, <4>1, <4>2
    <3> QED BY <3>1, <3>2
  <2> QED BY <1>6, <1>7, <2>1 DEF LastOnes
<1>13. Gone'
  <2>1. ASSUME NEW b \in 1..(k + 1), \A j \in 1..(n + 1) : out_messages'[j].id # b PROVE Took(b)
    <3>1. n + 1 \in 1..(n + 1)
      BY <1>2
    <3>2. b \in 1..k
      BY <1>2, <1>4, <1>6, <2>1, <3>1
    <3>3. \A i \in 1..n : i \in 1..(n + 1)
      BY <1>2
    <3>4. \A i \in 1..n : out_messages[i].id # b
      BY <1>6, <2>1, <3>3
    <3> QED BY <1>2, <3>2, <3>4 DEF ListInv, Gone
  <2> QED BY <1>6, <1>7, <2>1 DEF Gone, Took
<1>14. TookSent'
  BY <1>10 DEF ListInv, TookSent, Steady
<1>15. room <=> MaxInflight = 0 \/ n < MaxInflight
  BY <1>2, <1>step, <1>window DEF HasRoom, Counted
<1>16. Windowed'
  <2>1. inflight_messages' = Counted(n + 1)
    BY <1>2, <1>step, <1>window, <1>15 DEF Counted
  <2>2. ASSUME NEW i \in 1..(n + 1)
        PROVE  out_messages'[i].state = "invalid" <=> MaxInflight # 0 /\ i > MaxInflight
    <3>1. CASE i = n + 1
      <4>1. m.state = "invalid" <=> ~room
        BY <1>5 DEF Unsent
      <4> QED BY <1>2, <1>6, <1>15, <3>1, <4>1
    <3>2. CASE i # n + 1
      <4>1. i \in 1..n
        BY <1>2, <3>2
      <4> QED BY <1>6, <1>window, <4>1
    <3> QED BY <3>1, <3>2
  <2> QED BY <1>6, <2>1, <2>2 DEF Windowed, Waits
<1>17. ASSUME room PROVE Begun(m.id)'
  <2>1. ASSUME NEW i \in 1..(n + 1), out_messages'[i].id = m.id PROVE out_messages'[i].state \notin Unsent
    <3>1. CASE i = n + 1
      BY <1>5, <1>6, <1>17, <3>1
    <3>2. CASE i # n + 1
      <4>1. i \in 1..n
        BY <1>2, <3>2
      <4> QED BY <1>4, <1>6, <1>8, <2>1, <4>1
    <3> QED BY <3>1, <3>2
  <2>2. m.id \in 1..(k + 1)
    BY <1>2, <1>4
  <2> QED BY <1>6, <1>7, <2>1, <2>2 DEF Begun, Past
<1>18. m.id \notin DOMAIN accepted /\ accepted'[m.id] = m.qos
  BY <1>2, <1>4, <1>7, <1>8
<1> QED BY <1>9, <1>10, <1>11, <1>12, <1>13, <1>14, <1>16, <1>17, <1>18 DEF ListInv

(* A packet that publishes a message for the first time, or again.          *)
PacketTypes == {"CONNECT", "CONNACK", "PUBLISH", "PUBACK", "PUBREC", "PUBREL", "PUBCOMP"}
Packets == [t: PacketTypes, mid: Nat, id: Nat, qos: Nat]

Starts(p) ==
  /\ p \in Packets /\ p.t = "PUBLISH" /\ p.mid = p.id
  /\ p.id \in DOMAIN accepted' /\ p.qos = accepted'[p.id] /\ Begun(p.id)'
  /\ p.qos = 2 => ~Released(p.id)

(* message__remove: the first message that waits goes into flight.          *)
LEMMA StartedIs ==
  ASSUME NEW s, NEW L \in Nat, DOMAIN s = 1..(L - 1), L > 0,
         \A j \in 1..(L - 1) : s[j].state = "invalid" <=> MaxInflight # 0 /\ j >= MaxInflight
  PROVE  /\ MaxInflight = 0 \/ L <= MaxInflight => Started(s, Counted(L) - 1) = {}
         /\ MaxInflight # 0 /\ L > MaxInflight =>
              MaxInflight \in 1..(L - 1) /\ Started(s, Counted(L) - 1) = {MaxInflight}
<1> DEFINE W(j) == {k \in 1..(j - 1) : s[k].state = "invalid"}
           n == Counted(L) - 1
<1>1. MaxInflight \in Nat
  BY ClientAssumption
<1>2. Started(s, n) = {i \in 1..(L - 1) : s[i].state = "invalid" /\ HasRoom(n + Cardinality(W(i)))}
  BY DEF Started
<1>3. ASSUME MaxInflight = 0 \/ L <= MaxInflight PROVE Started(s, n) = {}
  <2>1. \A j \in 1..(L - 1) : s[j].state # "invalid"
    BY <1>1, <1>3
  <2> QED BY <1>2, <2>1
<1>4. ASSUME MaxInflight # 0, L > MaxInflight
      PROVE  MaxInflight \in 1..(L - 1) /\ Started(s, n) = {MaxInflight}
  <2>1. MaxInflight \in 1..(L - 1) /\ n = MaxInflight - 1
    BY <1>1, <1>4 DEF Counted
  <2>2. ASSUME NEW j \in 1..(L - 1), j >= MaxInflight
        PROVE  Cardinality(W(j)) = j - MaxInflight
    <3>1. W(j) = MaxInflight..(j - 1)
      BY <1>1, <1>4, <2>1, <2>2
    <3>2. MaxInflight \in Int /\ j - 1 \in Int
      BY <1>1
    <3>3. Cardinality(MaxInflight..(j - 1)) = IF MaxInflight > j - 1 THEN 0 ELSE (j - 1) - MaxInflight + 1
      BY <3>2, FS_Interval
    <3> DEFINE c == Cardinality(MaxInflight..(j - 1))
    <3>4. c = Cardinality(W(j)) /\ c = IF MaxInflight > j - 1 THEN 0 ELSE (j - 1) - MaxInflight + 1
      BY <3>1, <3>3
    <3>5. j \in Nat /\ j >= MaxInflight
      BY <2>2
    <3> HIDE DEF c, W
    <3>6. c = j - MaxInflight
      <4>1. CASE MaxInflight > j - 1
        BY <1>1, <3>4, <3>5, <4>1
      <4>2. CASE ~(MaxInflight > j - 1)
        BY <1>1, <3>4, <3>5, <4>2
      <4> QED BY <4>1, <4>2
    <3> QED BY <3>4, <3>6
  <2>3. s[MaxInflight].state = "invalid" /\ HasRoom(n + Cardinality(W(MaxInflight)))
    <3>1. Cardinality(W(MaxInflight)) = 0
      BY <1>1, <2>1, <2>2
    <3> HIDE DEF W
    <3> QED BY <1>1, <1>4, <2>1, <3>1 DEF HasRoom
  <2>4. ASSUME NEW j \in 1..(L - 1), s[j].state = "invalid", HasRoom(n + Cardinality(W(j)))
        PROVE  j = MaxInflight
    <3>1. j >= MaxInflight
      BY <2>4
    <3>2. Cardinality(W(j)) = j - MaxInflight
      BY <2>2, <3>1
    <3> HIDE DEF W
    <3> QED BY <1>1, <1>4, <2>1, <2>4, <3>1, <3>2 DEF HasRoom
  <2> HIDE DEF W, n
  <2> QED BY <1>2, <2>1, <2>3, <2>4
<1> QED BY <1>3, <1>4

(* A message that the broker took is removed and announced: the list stays  *)
(* in order, and the packets that are queued publish messages for the first *)
(* time.                                                                    *)
LEMMA RemovedList ==
  ASSUME ListInv, NEW i \in DOMAIN out_messages, ~Waits(i), Took(out_messages[i].id), Removed(i),
         announced' = announced \cup {out_messages[i].id}, UNCHANGED <<accepted, received, last_mid>>
  PROVE  /\ ListInv' /\ Steady
         /\ \E ps \in Seq(Packets) : Queue(ps) /\ \A k \in DOMAIN ps : Starts(ps[k])
<1> DEFINE L == Len(out_messages)
           s == RemoveAt(out_messages, i)
           n == inflight_messages - 1
           T == Started(s, n)
           old(j) == IF j < i THEN j ELSE j + 1
           pieces == [j \in DOMAIN s |-> IF j \in T THEN <<Publish(s[j])>> ELSE <<>>]
<1>1. /\ out_messages \in Seq(Message) /\ accepted \in Seq({1, 2}) /\ announced \in SUBSET DOMAIN accepted
      /\ L \in Nat /\ DOMAIN out_messages = 1..L /\ i \in 1..L /\ MaxInflight \in Nat
  BY ClientAssumption DEF ListInv, ListTyped
<1>2. /\ s \in Seq(Message) /\ Len(s) = L - 1 /\ DOMAIN s = 1..(L - 1)
      /\ \A j \in 1..(L - 1) : s[j] = out_messages[old(j)]
  <2>1. /\ s \in Seq(Message) /\ Len(s) = L - 1
        /\ \A j \in 1..(L - 1) : s[j] = IF j < i THEN out_messages[j] ELSE out_messages[j + 1]
    BY <1>1, RemoveAtIs
  <2> QED BY <2>1
<1>3. /\ inflight_messages = Counted(L) /\ n = Counted(L) - 1
      /\ \A j \in 1..L : out_messages[j].state = "invalid" <=> MaxInflight # 0 /\ j > MaxInflight
  BY <1>1 DEF ListInv, Windowed, Waits
<1>4. /\ out_messages' = [j \in DOMAIN s |->
           IF j \in T THEN [s[j] EXCEPT !.state = WaitState(s[j].qos)] ELSE s[j]]
      /\ inflight_messages' = n + Cardinality(T) /\ Queue(FlattenSeq(pieces))
  BY DEF Removed
<1>place. \A j \in 1..(L - 1) : old(j) \in 1..L /\ old(j) # i
  BY <1>1
<1>order. \A j \in 1..(L - 1), k \in 1..(L - 1) : j < k => old(j) < old(k)
  BY <1>1
<1>cover. \A k \in 1..L : k # i => \E j \in 1..(L - 1) : old(j) = k
  <2>1. ASSUME NEW k \in 1..L, k < i PROVE k \in 1..(L - 1) /\ old(k) = k
    BY <1>1, <2>1
  <2>2. ASSUME NEW k \in 1..L, k > i PROVE k - 1 \in 1..(L - 1) /\ old(k - 1) = k
    BY <1>1, <2>2
  <2> HIDE DEF old
  <2> QED BY <1>1, <2>1, <2>2
<1>5. \A j \in 1..(L - 1) : s[j].state = "invalid" <=> MaxInflight # 0 /\ j >= MaxInflight
  <2>1. ~(MaxInflight # 0 /\ i > MaxInflight)
    BY <1>1, <1>3 DEF Waits
  <2>2. ASSUME NEW j \in 1..(L - 1)
        PROVE  (MaxInflight # 0 /\ old(j) > MaxInflight) <=> (MaxInflight # 0 /\ j >= MaxInflight)
    BY <1>1, <2>1
  <2> HIDE DEF old, s
  <2> QED BY <1>2, <1>3, <1>place, <2>2
<1> HIDE DEF L, s, n, old
<1>6. /\ MaxInflight = 0 \/ L <= MaxInflight => T = {}
      /\ MaxInflight # 0 /\ L > MaxInflight => MaxInflight \in 1..(L - 1) /\ T = {MaxInflight}
  <2>1. L > 0
    BY <1>1
  <2> QED BY <1>1, <1>2, <1>3, <1>5, <2>1, StartedIs
<1>7. \A j \in T : j \in 1..(L - 1) /\ s[j].state = "invalid"
  BY <1>2 DEF Started
<1> HIDE DEF T
<1>8. ASSUME NEW j \in 1..(L - 1)
      PROVE  /\ s[j] \in Message /\ out_messages'[j] \in Message
             /\ out_messages'[j].id = s[j].id /\ out_messages'[j].mid = s[j].mid
             /\ out_messages'[j].qos = s[j].qos
             /\ j \notin T => out_messages'[j].state = s[j].state
             /\ j \in T => out_messages'[j].state \in {"wait_for_puback", "wait_for_pubrec"}
  <2>1. s[j] \in Message
    BY <1>2, ElementOfSeq
  <2>2. CASE j \notin T
    BY <1>2, <1>4, <2>1, <2>2
  <2>3. CASE j \in T
    <3> DEFINE w == WaitState(s[j].qos)
    <3>1. w \in {"wait_for_puback", "wait_for_pubrec"} /\ w \in States
      BY DEF WaitState, States
    <3>2. out_messages'[j] = [s[j] EXCEPT !.state = w]
      BY <1>2, <1>4, <2>3
    <3> HIDE DEF w
    <3>3. w # "publish_qos1"
      BY <3>1
    <3> QED BY <2>1, <2>3, <3>1, <3>2, <3>3 DEF Message
  <2> QED BY <2>2, <2>3
<1>9. out_messages' \in Seq(Message) /\ Len(out_messages') = L - 1 /\ DOMAIN out_messages' = 1..(L - 1)
  <2>1. DOMAIN out_messages' = 1..(L - 1) /\ out_messages' = [j \in 1..(L - 1) |-> out_messages'[j]]
    BY <1>2, <1>4
  <2>2. L - 1 \in Nat
    BY <1>1
  <2>3. out_messages' \in [1..(L - 1) -> Message]
    BY <1>8, <2>1
  <2> QED BY <2>1, <2>2, <2>3, IsASeq
<1>10. Kin
  <2>1. ASSUME NEW j \in 1..(L - 1)
        PROVE  /\ out_messages'[j].id = out_messages[old(j)].id
               /\ out_messages'[j].mid = out_messages[old(j)].mid
               /\ out_messages'[j].qos = out_messages[old(j)].qos
               /\ out_messages[old(j)].state \notin Unsent => out_messages'[j].state \notin Unsent
               /\ out_messages[old(j)].state \notin Unreleased => out_messages'[j].state \notin Unreleased
               /\ out_messages'[j].state \in Answered => out_messages[old(j)].state \in Answered
    <3>1. s[j] = out_messages[old(j)]
      BY <1>2
    <3>2. CASE j \notin T
      BY <1>8, <3>1, <3>2
    <3>3. CASE j \in T
      BY <1>7, <1>8, <3>1, <3>3 DEF Unsent, Unreleased, Answered
    <3> QED BY <3>2, <3>3
  <2> QED BY <1>1, <1>9, <1>place, <2>1 DEF Kin
<1>11. \A j, k \in 1..L : j < k => out_messages[j].id < out_messages[k].id
  BY <1>1 DEF ListInv, Listed
<1>12. \A j \in 1..L : out_messages[j].id \in Nat
  <2>1. ASSUME NEW j \in 1..L PROVE out_messages[j].id \in Nat
    <3>1. out_messages[j] \in Message
      BY <1>1, <2>1, ElementOfSeq DEF L
    <3> QED BY <3>1 DEF Message
  <2> QED BY <2>1
<1>13. \A j \in 1..L : j # i => out_messages[j].id # out_messages[i].id
  BY <1>1, <1>11, <1>12
<1>14. \A j \in 1..(L - 1) : out_messages'[j].id = out_messages[old(j)].id
  BY <1>2, <1>8
<1>15. \A j \in DOMAIN out_messages' : out_messages'[j].id \notin announced'
  <2>1. \A j \in 1..L : out_messages[j].id \notin announced
    BY <1>1 DEF ListInv, Listed
  <2> QED BY <1>9, <1>13, <1>14, <1>place, <2>1
<1>16. \A j, k \in DOMAIN out_messages' : j < k => out_messages'[j].id < out_messages'[k].id
  BY <1>9, <1>11, <1>14, <1>place, <1>order
<1>17. \A j \in DOMAIN out_messages :
         Took(out_messages[j].id) \/ \E k \in DOMAIN out_messages' : out_messages'[k].id = out_messages[j].id
  BY <1>1, <1>9, <1>14, <1>cover
<1>18. announced' \in SUBSET DOMAIN accepted
  BY <1>1 DEF ListInv, Listed
<1>19. LastOnes'
  <2>1. ASSUME MaxInflight = 1, NEW j \in 1..(L - 1)
        PROVE  out_messages'[j].id = (Len(accepted) - (L - 1)) + j
    <3>1. i = 1
      <4>1. ~(MaxInflight # 0 /\ i > MaxInflight)
        BY <1>1, <1>3 DEF Waits
      <4> QED BY <1>1, <2>1, <4>1
    <3>2. old(j) = j + 1
      BY <3>1 DEF old
    <3>3. j + 1 \in 1..L /\ Len(accepted) \in Nat
      BY <1>1
    <3>4. out_messages[j + 1].id = (Len(accepted) - L) + (j + 1)
      BY <1>1, <2>1, <3>3 DEF ListInv, LastOnes, L
    <3> QED BY <1>1, <1>14, <3>2, <3>3, <3>4
  <2> QED BY <1>9, <2>1 DEF LastOnes
<1>20. Windowed'
  <2>1. CASE MaxInflight = 0 \/ L <= MaxInflight
    <3>1. T = {} /\ Cardinality(T) = 0
      BY <1>6, <2>1, FS_EmptySet
    <3>2. inflight_messages' = Counted(L - 1)
      BY <1>1, <1>3, <1>4, <2>1, <3>1 DEF Counted
    <3>3. ASSUME NEW j \in 1..(L - 1)
          PROVE  out_messages'[j].state = "invalid" <=> MaxInflight # 0 /\ j > MaxInflight
      BY <1>1, <1>5, <1>8, <2>1, <3>1
    <3> QED BY <1>9, <3>2, <3>3 DEF Windowed, Waits
  <2>2. CASE MaxInflight # 0 /\ L > MaxInflight
    <3>1. T = {MaxInflight} /\ Cardinality(T) = 1
      BY <1>6, <2>2, FS_Singleton
    <3>2. Counted(L) = MaxInflight /\ Counted(L - 1) = MaxInflight
      <4>1. ~(MaxInflight = 0 \/ L <= MaxInflight)
        BY <1>1, <2>2
      <4>2. MaxInflight <= L - 1 /\ (L - 1 <= MaxInflight => L - 1 = MaxInflight)
        BY <1>1, <2>2
      <4> QED BY <2>2, <4>1, <4>2 DEF Counted
    <3>count. inflight_messages' = Counted(L - 1)
      BY <1>1, <1>3, <1>4, <3>1, <3>2
    <3>3. ASSUME NEW j \in 1..(L - 1)
          PROVE  out_messages'[j].state = "invalid" <=> MaxInflight # 0 /\ j > MaxInflight
      BY <1>1, <1>5, <1>8, <2>2, <3>1
    <3> QED BY <1>9, <3>count, <3>3 DEF Windowed, Waits
  <2> QED BY <1>1, <2>1, <2>2
<1>21. ListInv' /\ Steady
  BY <1>9, <1>10, <1>15, <1>16, <1>17, <1>18, <1>19, <1>20, KinListed
<1>22. ASSUME NEW j \in T, NEW p, p = Publish(s[j]) PROVE Starts(p)
  <2>1. j \in 1..(L - 1) /\ s[j] = out_messages[old(j)] /\ old(j) \in 1..L
    BY <1>2, <1>7, <1>place
  <2>2. /\ s[j].mid = s[j].id /\ s[j].id \in DOMAIN accepted /\ s[j].qos = accepted[s[j].id]
    BY <1>1, <2>1 DEF ListInv, Listed
  <2>3. p.t = "PUBLISH" /\ p.mid = s[j].mid /\ p.id = s[j].id /\ p.qos = s[j].qos
    BY <1>22 DEF Publish, Packet
  <2>4. p \in Packets
    <3>1. s[j] \in Message
      BY <1>8, <2>1
    <3> QED BY <1>22, <3>1 DEF Packets, PacketTypes, Publish, Packet, Message
  <2>5. ~Released(s[j].id)
    <3>1. out_messages[old(j)].state \in Unreleased
      BY <1>7, <2>1 DEF Unreleased
    <3> QED BY <1>1, <2>1, <3>1 DEF Released, Past
  <2>6. Begun(p.id)'
    <3>1. ASSUME NEW k \in 1..(L - 1), out_messages'[k].id = s[j].id PROVE out_messages'[k].state \notin Unsent
      <4>1. k = j
        <5>1. out_messages'[j].id = out_messages'[k].id
          BY <1>8, <2>1, <3>1
        <5>2. ~(j < k) /\ ~(k < j)
          <6>1. out_messages'[j].id \in Nat /\ out_messages'[k].id \in Nat
            BY <1>12, <1>14, <1>place, <2>1
          <6>2. j < k => out_messages'[j].id < out_messages'[k].id
            BY <1>9, <1>16, <2>1
          <6>3. k < j => out_messages'[k].id < out_messages'[j].id
            BY <1>9, <1>16, <2>1
          <6> QED BY <5>1, <6>1, <6>2, <6>3
        <5> QED BY <1>1, <2>1, <5>2
      <4> QED BY <1>8, <2>1, <4>1 DEF Unsent
    <3>2. ASSUME NEW k \in 1..(L - 1), out_messages'[k].id = p.id PROVE out_messages'[k].state \notin Unsent
      BY <2>3, <3>1, <3>2
    <3>3. p.id \in DOMAIN accepted'
      BY <2>2, <2>3
    <3> QED BY <1>9, <3>2, <3>3 DEF Begun, Past
  <2> QED BY <2>2, <2>3, <2>4, <2>5, <2>6 DEF Starts
<1>23. \E ps \in Seq(Packets) : Queue(ps) /\ \A k \in DOMAIN ps : Starts(ps[k])
  <2> DEFINE m == L - 1
  <2>1. m \in Nat /\ pieces = [j \in 1..m |-> pieces[j]]
    BY <1>1, <1>2
  <2>2. \A j \in 1..m : pieces[j] = <<>> \/ (j \in T /\ pieces[j] = <<Publish(s[j])>>)
    BY <1>2
  <2>3. \A j \in T : Publish(s[j]) \in Packets
    BY <1>22 DEF Starts
  <2> HIDE DEF m, pieces
  <2>4. Pieces(Packets, m, pieces)
    BY <2>1, <2>2, <2>3 DEF Pieces
  <2>5. OfPieces(Packets, m, pieces, FlattenSeq(pieces))
    BY <2>1, <2>4, FlattenIn
  <2> DEFINE ps == FlattenSeq(pieces)
  <2>6. ps \in Seq(Packets) /\ Queue(ps) /\ \A k \in DOMAIN ps : \E j \in 1..m : pieces[j] = <<ps[k]>>
    BY <1>4, <2>5 DEF OfPieces
  <2> HIDE DEF ps
  <2>7. ASSUME NEW k \in DOMAIN ps PROVE Starts(ps[k])
    <3>1. PICK j \in 1..m : pieces[j] = <<ps[k]>>
      BY <2>6
    <3>2. \A x : <<x>> # <<>>
      OBVIOUS
    <3>3. j \in T /\ <<ps[k]>> = <<Publish(s[j])>>
      BY <2>2, <3>1, <3>2
    <3>4. \A x, y : <<x>> = <<y>> => x = y
      OBVIOUS
    <3>5. ps[k] = Publish(s[j])
      BY <3>3, <3>4
    <3> QED BY <1>22, <3>3, <3>5
  <2> QED BY <2>6, <2>7
<1> QED BY <1>21, <1>23

(* The least of one number.                                                 *)
LEMMA MinOnly ==
  ASSUME NEW i \in Nat
  PROVE  Min({i}) = i
<1> DEFINE S == {i}
<1>1. \E x \in S : \A y \in S : x <= y
  OBVIOUS
<1>2. Min(S) \in S
  <2> HIDE DEF S
  <2> QED BY <1>1 DEF Min
<1> QED BY <1>2

(* A message of the list is the only one with its identifier.               *)
LEMMA OneAt ==
  ASSUME ListInv, NEW i \in DOMAIN out_messages
  PROVE  /\ IndexOf(out_messages, out_messages[i].id) = {i}
         /\ Min(IndexOf(out_messages, out_messages[i].id)) = i
         /\ \A j \in DOMAIN out_messages : out_messages[j].id = out_messages[i].id => j = i
<1>1. /\ out_messages \in Seq(Message) /\ Len(out_messages) \in Nat
      /\ DOMAIN out_messages = 1..Len(out_messages)
  BY DEF ListInv, ListTyped
<1>2. ASSUME NEW j \in DOMAIN out_messages PROVE out_messages[j].id \in Nat
  <2>1. out_messages[j] \in Message
    BY <1>1, ElementOfSeq
  <2> QED BY <2>1 DEF Message
<1>3. \A j, k \in DOMAIN out_messages : j < k => out_messages[j].id < out_messages[k].id
  BY DEF ListInv, Listed
<1>4. ASSUME NEW j \in DOMAIN out_messages, out_messages[j].id = out_messages[i].id PROVE j = i
  <2>1. ~(j < i) /\ ~(i < j)
    BY <1>2, <1>3, <1>4
  <2> QED BY <1>1, <2>1
<1>5. \A j \in DOMAIN out_messages : out_messages[j].mid = out_messages[j].id
  BY DEF ListInv, Listed
<1>6. IndexOf(out_messages, out_messages[i].id) = {i}
  BY <1>4, <1>5 DEF IndexOf
<1>7. i \in Nat
  BY <1>1
<1> QED BY <1>4, <1>6, <1>7, MinOnly

(* The broker has answered message mid: its PUBREL is next.                 *)
LEMMA PubrecList ==
  ASSUME ListInv, NEW mid, Took(mid), Begun(mid),
         LET S == IndexOf(out_messages, mid)
         IN  out_messages' = IF S = {} THEN out_messages
                             ELSE [out_messages EXCEPT ![Min(S)].state = "wait_for_pubcomp"],
         UNCHANGED <<accepted, received, announced, last_mid, inflight_messages>>
  PROVE  ListInv' /\ Steady /\ Released(mid)'
<1>1. /\ out_messages \in Seq(Message) /\ Len(out_messages) \in Nat /\ announced \in SUBSET DOMAIN accepted
      /\ DOMAIN out_messages = 1..Len(out_messages)
  BY DEF ListInv, ListTyped
<1>2. CASE IndexOf(out_messages, mid) = {}
  <2>1. out_messages' = out_messages
    BY <1>2
  <2>2. ListInv' /\ Steady
    BY <2>1, SameList
  <2>3. \A j \in DOMAIN out_messages : out_messages[j].id # mid
    BY <1>2 DEF IndexOf, ListInv, Listed
  <2>4. Released(mid)'
    BY <2>1, <2>3 DEF Released, Begun, Past
  <2> QED BY <2>2, <2>4
<1>3. ASSUME NEW i \in DOMAIN out_messages, out_messages[i].mid = mid
      PROVE  ListInv' /\ Steady /\ Released(mid)'
  <2>1. out_messages[i].id = mid
    BY <1>3 DEF ListInv, Listed
  <2>2. /\ IndexOf(out_messages, mid) = {i} /\ Min(IndexOf(out_messages, mid)) = i
        /\ \A j \in DOMAIN out_messages : out_messages[j].id = mid => j = i
    BY <2>1, OneAt
  <2> DEFINE pubcomp == "wait_for_pubcomp"
             m == [out_messages[i] EXCEPT !.state = pubcomp]
  <2>3. out_messages' = [out_messages EXCEPT ![i] = m]
    BY <2>2
  <2>4. pubcomp \in States /\ pubcomp # "invalid" /\ pubcomp # "publish_qos1"
        /\ pubcomp \notin Unsent /\ pubcomp \notin Unreleased
    BY DEF States, Unsent, Unreleased
  <2> HIDE DEF pubcomp
  <2>5. out_messages[i] \in Message
    BY <1>1, ElementOfSeq
  <2>6. /\ m \in Message /\ m.id = mid /\ m.mid = out_messages[i].mid /\ m.qos = out_messages[i].qos
        /\ m.state = pubcomp
    BY <2>1, <2>4, <2>5 DEF Message
  <2> HIDE DEF m
  <2>7. /\ DOMAIN out_messages' = DOMAIN out_messages /\ out_messages'[i] = m
        /\ \A j \in DOMAIN out_messages : j # i => out_messages'[j] = out_messages[j]
    BY <2>3
  <2>8. out_messages' \in Seq(Message) /\ Len(out_messages') = Len(out_messages)
    <3>1. i \in 1..Len(out_messages)
      BY <1>1
    <3>2. /\ [out_messages EXCEPT ![i] = m] \in Seq(Message)
          /\ Len([out_messages EXCEPT ![i] = m]) = Len(out_messages)
      BY <1>1, <2>6, <3>1, ExceptSeq
    <3> QED BY <2>3, <3>2
  <2>9. Kin
    <3>1. ASSUME NEW j \in DOMAIN out_messages
          PROVE  /\ out_messages'[j].id = out_messages[j].id /\ out_messages'[j].mid = out_messages[j].mid
                 /\ out_messages'[j].qos = out_messages[j].qos
                 /\ out_messages[j].state \notin Unsent => out_messages'[j].state \notin Unsent
                 /\ out_messages[j].state \notin Unreleased => out_messages'[j].state \notin Unreleased
                 /\ out_messages'[j].state \in Answered => out_messages[j].state \in Answered \/ Took(out_messages[j].id)
      <4>1. CASE j = i
        BY <2>1, <2>4, <2>6, <2>7, <4>1
      <4>2. CASE j # i
        BY <2>7, <4>2
      <4> QED BY <4>1, <4>2
    <3> QED BY <2>7, <3>1 DEF Kin
  <2>10. \A j \in DOMAIN out_messages : out_messages'[j].id = out_messages[j].id
    BY <2>1, <2>6, <2>7
  <2>11. \A j \in DOMAIN out_messages : out_messages'[j].state = "invalid" <=> out_messages[j].state = "invalid"
    <3>1. out_messages[i].state # "invalid"
      BY <2>1 DEF Begun, Past, Unsent
    <3> QED BY <2>4, <2>6, <2>7, <3>1
  <2>12. Windowed'
    BY <2>7, <2>8, <2>11 DEF ListInv, Windowed, Waits
  <2>13. LastOnes'
    BY <2>7, <2>8, <2>10 DEF ListInv, LastOnes
  <2>14. \A j \in DOMAIN out_messages' : out_messages'[j].id \notin announced'
    BY <2>7, <2>10 DEF ListInv, Listed
  <2>15. \A j, k \in DOMAIN out_messages' : j < k => out_messages'[j].id < out_messages'[k].id
    BY <2>7, <2>10 DEF ListInv, Listed
  <2>16. \A j \in DOMAIN out_messages :
           Took(out_messages[j].id) \/ \E k \in DOMAIN out_messages' : out_messages'[k].id = out_messages[j].id
    BY <2>7, <2>10
  <2>17. ListInv' /\ Steady
    BY <1>1, <2>8, <2>9, <2>12, <2>13, <2>14, <2>15, <2>16, KinListed
  <2>18. Released(mid)'
    <3>1. mid \in DOMAIN accepted
      BY DEF Begun, Past
    <3>2. ASSUME NEW j \in DOMAIN out_messages, out_messages'[j].id = mid PROVE out_messages'[j].state \notin Unreleased
      <4>1. j = i
        BY <2>2, <2>10, <3>2
      <4> QED BY <2>4, <2>6, <2>7, <4>1
    <3> QED BY <2>7, <3>1, <3>2 DEF Released, Past
  <2> QED BY <2>17, <2>18
<1> QED BY <1>2, <1>3 DEF IndexOf

(* message__reconnect_reset takes every message back to where it is sent    *)
(* again, and none to before what the broker has answered.                  *)
LEMMA ResetList ==
  ASSUME ListInv, out_messages' = Reset(out_messages),
         inflight_messages' = Cardinality({i \in DOMAIN out_messages : HasRoom(i - 1)}),
         UNCHANGED <<accepted, received, announced, last_mid>>
  PROVE  ListInv' /\ Steady
<1> DEFINE n == Len(out_messages)
           to(i) == IF HasRoom(i - 1) THEN ResetState(out_messages[i]) ELSE "invalid"
<1>1. /\ out_messages \in Seq(Message) /\ n \in Nat /\ announced \in SUBSET DOMAIN accepted
      /\ DOMAIN out_messages = 1..n /\ MaxInflight \in Nat
  BY ClientAssumption DEF ListInv, ListTyped
<1>2. ASSUME NEW i \in 1..n
      PROVE  out_messages[i] \in Message /\ (HasRoom(i - 1) <=> ~(MaxInflight # 0 /\ i > MaxInflight))
  <2>1. out_messages[i] \in Message
    BY <1>1, <1>2, ElementOfSeq
  <2> QED BY <1>1, <2>1 DEF HasRoom
<1>3. ASSUME NEW i \in 1..n
      PROVE  /\ out_messages[i].state = "invalid" <=> ~HasRoom(i - 1)
             /\ to(i) = "invalid" <=> ~HasRoom(i - 1)
             /\ to(i) \in States /\ (to(i) = "publish_qos1" => out_messages[i].qos = 1)
             /\ out_messages[i].state \notin Unreleased => to(i) \notin Unreleased
             /\ to(i) \in Answered => out_messages[i].state \in Answered
  <2>1. /\ out_messages[i] \in Message /\ (HasRoom(i - 1) <=> ~(MaxInflight # 0 /\ i > MaxInflight))
        /\ out_messages[i].state = "invalid" <=> MaxInflight # 0 /\ i > MaxInflight
    BY <1>1, <1>2 DEF ListInv, Windowed, Waits
  <2>2. out_messages[i].state \in States
    BY <2>1 DEF Message
  <2>3. CASE ~HasRoom(i - 1)
    <3>1. to(i) = "invalid" /\ out_messages[i].state = "invalid"
      BY <2>1, <2>3
    <3> HIDE DEF to
    <3> QED BY <2>3, <3>1 DEF States, Unreleased, Answered
  <2>4. CASE HasRoom(i - 1)
    <3> DEFINE m == out_messages[i]
               st == m.state
    <3>1. to(i) = ResetState(m) /\ st # "invalid" /\ st \in States
      BY <2>1, <2>2, <2>4
    <3> HIDE DEF to
    <3>2. CASE m.qos = 1
      <4>1. to(i) = "publish_qos1"
        BY <3>1, <3>2 DEF ResetState
      <4> HIDE DEF m
      <4> QED BY <2>4, <3>1, <3>2, <4>1 DEF States, Unreleased, Answered, m
    <3>3. CASE m.qos # 1
      <4>1. to(i) = IF st = "wait_for_pubrec" THEN "publish_qos2"
                    ELSE IF st = "wait_for_pubcomp" THEN "resend_pubrel" ELSE st
        BY <3>1, <3>3 DEF ResetState
      <4>2. st # "publish_qos1"
        BY <2>1, <3>3 DEF Message
      <4>3. /\ to(i) \in States /\ to(i) # "invalid" /\ to(i) # "publish_qos1"
            /\ st \notin Unreleased => to(i) \notin Unreleased
            /\ to(i) \in Answered => st \in Answered
        <5> HIDE DEF st
        <5> QED BY <3>1, <4>1, <4>2 DEF States, Unreleased, Answered
      <4> QED BY <2>4, <3>1, <4>3
    <3> QED BY <3>2, <3>3
  <2> QED BY <2>3, <2>4
<1>4. out_messages' = [i \in 1..n |-> [out_messages[i] EXCEPT !.state = to(i)]]
  BY <1>1 DEF Reset
<1> HIDE DEF to, n
<1>5. ASSUME NEW i \in 1..n
      PROVE  /\ out_messages'[i] \in Message /\ out_messages'[i].state = to(i)
             /\ out_messages'[i].id = out_messages[i].id /\ out_messages'[i].mid = out_messages[i].mid
             /\ out_messages'[i].qos = out_messages[i].qos
  <2>1. out_messages'[i] = [out_messages[i] EXCEPT !.state = to(i)]
    BY <1>4
  <2>2. to(i) \in States /\ (to(i) = "publish_qos1" => out_messages[i].qos = 1)
    BY <1>3
  <2> QED BY <1>2, <2>1, <2>2 DEF Message
<1>6. out_messages' \in Seq(Message) /\ DOMAIN out_messages' = 1..n /\ Len(out_messages') = n
  <2>1. DOMAIN out_messages' = 1..n /\ out_messages' = [i \in 1..n |-> out_messages'[i]]
    BY <1>4
  <2>2. out_messages' \in [1..n -> Message]
    BY <1>5, <2>1
  <2> QED BY <1>1, <2>1, <2>2, IsASeq
<1>7. Kin
  <2>1. ASSUME NEW i \in 1..n
        PROVE  /\ out_messages[i].state \notin Unsent => out_messages'[i].state \notin Unsent
               /\ out_messages[i].state \notin Unreleased => out_messages'[i].state \notin Unreleased
               /\ out_messages'[i].state \in Answered => out_messages[i].state \in Answered
    BY <1>3, <1>5 DEF Unsent
  <2> QED BY <1>1, <1>5, <1>6, <2>1 DEF Kin
<1>8. Windowed'
  <2> DEFINE A == {i \in DOMAIN out_messages : HasRoom(i - 1)}
  <2>1. A = {i \in 1..n : ~(MaxInflight # 0 /\ i > MaxInflight)} /\ inflight_messages' = Cardinality(A)
    BY <1>1, <1>2
  <2> HIDE DEF A
  <2>2. inflight_messages' = Counted(n)
    BY <1>1, <2>1, CountedIs
  <2>3. \A i \in 1..n : out_messages'[i].state = "invalid" <=> MaxInflight # 0 /\ i > MaxInflight
    BY <1>2, <1>3, <1>5
  <2> QED BY <1>6, <2>2, <2>3 DEF Windowed, Waits
<1>9. LastOnes'
  BY <1>1, <1>5, <1>6 DEF ListInv, LastOnes, n
<1>10. \A i \in DOMAIN out_messages' : out_messages'[i].id \notin announced'
  BY <1>1, <1>5, <1>6 DEF ListInv, Listed
<1>11. \A i, j \in DOMAIN out_messages' : i < j => out_messages'[i].id < out_messages'[j].id
  BY <1>1, <1>5, <1>6 DEF ListInv, Listed
<1>12. \A i \in DOMAIN out_messages :
         Took(out_messages[i].id) \/ \E k \in DOMAIN out_messages' : out_messages'[k].id = out_messages[i].id
  BY <1>1, <1>5, <1>6
<1> QED BY <1>1, <1>6, <1>7, <1>8, <1>9, <1>10, <1>11, <1>12, KinListed

(* A PUBREL of a message that the broker took, and that is past its PUBLISH. *)
Releases(p) ==
  /\ p \in Packets /\ p.t = "PUBREL" /\ Took(p.mid)' /\ Released(p.mid)'

(* message__retry_check sends again what was sent, each as far as it was.   *)
LEMMA RetryList ==
  ASSUME ListInv, UNCHANGED <<out_messages, accepted, received>>
  PROVE  /\ RetryCheck(out_messages) \in Seq(Packets)
         /\ \A k \in DOMAIN RetryCheck(out_messages) :
              Starts(RetryCheck(out_messages)[k]) \/ Releases(RetryCheck(out_messages)[k])
<1> DEFINE n == Len(out_messages)
           pieces == [i \in DOMAIN out_messages |-> Retried(out_messages[i])]
<1>1. out_messages \in Seq(Message) /\ n \in Nat /\ DOMAIN out_messages = 1..n
  BY DEF ListInv, ListTyped
<1>2. \A b : (Begun(b)' <=> Begun(b)) /\ (Released(b)' <=> Released(b)) /\ (Took(b)' <=> Took(b))
  BY DEF Begun, Released, Past, Took
<1>3. ASSUME NEW i \in DOMAIN out_messages, NEW m, m = out_messages[i]
      PROVE  Retried(m) = <<>> \/ \E x \in Packets : Retried(m) = <<x>> /\ (Starts(x) \/ Releases(x))
  <2>1. /\ m \in Message /\ m.mid = m.id /\ m.id \in DOMAIN accepted /\ m.qos = accepted[m.id]
        /\ m.state \in Answered => Took(m.id)
    <3>1. m \in Message
      BY <1>1, <1>3, ElementOfSeq
    <3> QED BY <1>3, <3>1 DEF ListInv, Listed
  <2>2. \A j \in DOMAIN out_messages : out_messages[j].id = m.id => out_messages[j] = m
    BY <1>3, OneAt
  <2>3. CASE m.state \in {"publish_qos1", "publish_qos2"}
    <3>1. Retried(m) = <<Publish(m)>>
      BY <2>3 DEF Retried
    <3>2. ASSUME NEW x, x = Publish(m) PROVE Starts(x)
      <4>1. x.t = "PUBLISH" /\ x.mid = m.mid /\ x.id = m.id /\ x.qos = m.qos /\ x \in Packets
        BY <2>1, <3>2 DEF Publish, Packet, Packets, PacketTypes, Message
      <4>2. Begun(m.id)'
        BY <1>2, <2>1, <2>2, <2>3 DEF Begun, Past, Unsent
      <4>3. m.qos = 2 => ~Released(m.id)
        <5>1. ASSUME m.qos = 2 PROVE m.state \in Unreleased
          BY <2>1, <2>3, <5>1 DEF Message, Unreleased
        <5> QED BY <1>3, <5>1 DEF Released, Past
      <4>4. Begun(x.id)'
        BY <1>2, <4>1, <4>2
      <4> QED BY <2>1, <4>1, <4>3, <4>4 DEF Starts
    <3> QED BY <3>1, <3>2 DEF Starts
  <2>4. CASE m.state \in {"resend_pubrel", "wait_for_pubcomp"}
    <3>1. Retried(m) = <<Cmd("PUBREL", m.mid)>>
      BY <2>4 DEF Retried
    <3>2. ASSUME NEW x, x = Cmd("PUBREL", m.mid) PROVE Releases(x)
      <4>1. x.t = "PUBREL" /\ x.mid = m.id /\ x \in Packets
        BY <2>1, <3>2 DEF Cmd, Packet, Packets, PacketTypes, Message
      <4>2. Took(m.id) /\ Released(m.id)
        BY <2>1, <2>2, <2>4 DEF Released, Past, Unreleased, Answered
      <4> QED BY <1>2, <4>1, <4>2 DEF Releases
    <3> QED BY <3>1, <3>2 DEF Releases
  <2>5. CASE m.state \notin {"publish_qos1", "publish_qos2", "resend_pubrel", "wait_for_pubcomp"}
    BY <2>5 DEF Retried
  <2> QED BY <2>3, <2>4, <2>5
<1>4. \A i \in 1..n :
        pieces[i] = <<>> \/ \E x \in Packets : pieces[i] = <<x>> /\ (Starts(x) \/ Releases(x))
  BY <1>1, <1>3
<1>5. pieces = [i \in 1..n |-> pieces[i]] /\ RetryCheck(out_messages) = FlattenSeq(pieces)
  BY <1>1 DEF RetryCheck
<1> HIDE DEF pieces, n
<1>6. Pieces(Packets, n, pieces)
  BY <1>4, <1>5 DEF Pieces
<1>7. OfPieces(Packets, n, pieces, FlattenSeq(pieces))
  BY <1>1, <1>6, FlattenIn
<1> DEFINE s == RetryCheck(out_messages)
<1>8. s \in Seq(Packets) /\ \A k \in DOMAIN s : \E i \in 1..n : pieces[i] = <<s[k]>>
  BY <1>5, <1>7 DEF OfPieces
<1> HIDE DEF s
<1>9. ASSUME NEW k \in DOMAIN s PROVE Starts(s[k]) \/ Releases(s[k])
  <2>1. PICK i \in 1..n : pieces[i] = <<s[k]>>
    BY <1>8
  <2>2. PICK x \in Packets : pieces[i] = <<x>> /\ (Starts(x) \/ Releases(x))
    <3>1. \A y : <<y>> # <<>>
      OBVIOUS
    <3> QED BY <1>4, <2>1, <3>1
  <2>3. \A y, z : <<y>> = <<z>> => y = z
    OBVIOUS
  <2>4. s[k] = x
    BY <2>1, <2>2, <2>3
  <2> QED BY <2>2, <2>4
<1> QED BY <1>8, <1>9 DEF s

-----------------------------------------------------------------------------
(* The packets on their way.                                                *)

In(s, x) == \E i \in DOMAIN s : s[i] = x

(* What is in a list that is made of others.                                *)
LEMMA InConcat ==
  ASSUME NEW S, NEW s \in Seq(S), NEW t \in Seq(S), NEW x
  PROVE  In(s \o t, x) <=> In(s, x) \/ In(t, x)
<1>1. /\ s \o t \in Seq(S) /\ Len(s \o t) = Len(s) + Len(t)
      /\ \A k \in 1..(Len(s) + Len(t)) :
           (s \o t)[k] = IF k <= Len(s) THEN s[k] ELSE t[k - Len(s)]
  BY ConcatProperties
<1>2. /\ Len(s) \in Nat /\ Len(t) \in Nat /\ DOMAIN s = 1..Len(s) /\ DOMAIN t = 1..Len(t)
      /\ DOMAIN (s \o t) = 1..(Len(s) + Len(t))
  BY <1>1
<1>3. ASSUME In(s, x) PROVE In(s \o t, x)
  <2>1. PICK k \in DOMAIN s : s[k] = x
    BY <1>3 DEF In
  <2>2. k \in 1..(Len(s) + Len(t)) /\ k <= Len(s)
    BY <1>2
  <2>3. (s \o t)[k] = x
    BY <1>1, <2>1, <2>2
  <2> QED BY <1>2, <2>2, <2>3 DEF In
<1>4. ASSUME In(t, x) PROVE In(s \o t, x)
  <2>1. PICK k \in DOMAIN t : t[k] = x
    BY <1>4 DEF In
  <2>2. k + Len(s) \in 1..(Len(s) + Len(t)) /\ ~(k + Len(s) <= Len(s)) /\ (k + Len(s)) - Len(s) = k
    BY <1>2
  <2>3. (s \o t)[k + Len(s)] = x
    BY <1>1, <2>1, <2>2
  <2> QED BY <1>2, <2>2, <2>3 DEF In
<1>5. ASSUME In(s \o t, x) PROVE In(s, x) \/ In(t, x)
  <2>1. PICK k \in 1..(Len(s) + Len(t)) : (s \o t)[k] = x
    BY <1>2, <1>5 DEF In
  <2>2. CASE k <= Len(s)
    <3>1. k \in DOMAIN s /\ s[k] = x
      BY <1>1, <1>2, <2>1, <2>2
    <3> QED BY <3>1 DEF In
  <2>3. CASE ~(k <= Len(s))
    <3>1. k - Len(s) \in DOMAIN t /\ t[k - Len(s)] = x
      BY <1>1, <1>2, <2>1, <2>3
    <3> QED BY <3>1 DEF In
  <2> QED BY <2>2, <2>3
<1> QED BY <1>3, <1>4, <1>5

(* An element of an extended sequence is one of the sequence, or the one    *)
(* appended.                                                                *)
LEMMA InAppend ==
  ASSUME NEW S, NEW s \in Seq(S), NEW y \in S, NEW x
  PROVE  In(Append(s, y), x) <=> In(s, x) \/ x = y
<1>1. Append(s, y) = s \o <<y>> /\ <<y>> \in Seq(S)
  BY AppendIsConcat
<1>2. In(<<y>>, x) <=> x = y
  BY DEF In
<1> DEFINE t == <<y>>
<1>3. t \in Seq(S) /\ Append(s, y) = s \o t /\ (In(t, x) <=> x = y)
  BY <1>1, <1>2
<1> HIDE DEF t
<1> QED BY <1>3, InConcat

(* The elements of a sequence are its first one and those of its tail.      *)
LEMMA InTail ==
  ASSUME NEW S, NEW s \in Seq(S), s # <<>>
  PROVE  /\ Tail(s) \in Seq(S) /\ Head(s) \in S /\ In(s, Head(s))
         /\ \A x : In(Tail(s), x) => In(s, x)
<1>1. /\ Tail(s) \in Seq(S) /\ Head(s) \in S /\ Head(s) = s[1] /\ Len(Tail(s)) = Len(s) - 1
      /\ \A i \in 1..(Len(s) - 1) : Tail(s)[i] = s[i + 1]
  BY HeadTailProperties, ElementOfSeq
<1>2. Len(s) \in Nat /\ Len(s) > 0 /\ DOMAIN s = 1..Len(s) /\ DOMAIN Tail(s) = 1..(Len(s) - 1)
  BY <1>1, LenProperties, EmptySeq
<1>3. In(s, Head(s))
  BY <1>1, <1>2 DEF In
<1>4. ASSUME NEW x, In(Tail(s), x) PROVE In(s, x)
  <2>1. PICK i \in 1..(Len(s) - 1) : Tail(s)[i] = x
    BY <1>2, <1>4 DEF In
  <2>2. i + 1 \in DOMAIN s /\ s[i + 1] = x
    BY <1>1, <1>2, <2>1
  <2> QED BY <2>2 DEF In
<1> QED BY <1>1, <1>3, <1>4

(* Removing one position of a sequence takes away no element but the one    *)
(* that is there.                                                           *)
LEMMA InRemoved ==
  ASSUME NEW S, NEW s \in Seq(S), NEW i \in DOMAIN s
  PROVE  /\ RemoveAt(s, i) \in Seq(S)
         /\ \A x : In(RemoveAt(s, i), x) => In(s, x)
         /\ \A x : In(s, x) => In(RemoveAt(s, i), x) \/ x = s[i]
<1> DEFINE n == Len(s)
           r == RemoveAt(s, i)
<1>1. n \in Nat /\ DOMAIN s = 1..n /\ i \in 1..n
  OBVIOUS
<1>2. /\ r \in Seq(S) /\ Len(r) = n - 1
      /\ \A j \in 1..(n - 1) : r[j] = IF j < i THEN s[j] ELSE s[j + 1]
  BY <1>1, RemoveAtIs
<1>3. DOMAIN r = 1..(n - 1)
  BY <1>2
<1> HIDE DEF n, r
<1>4. ASSUME NEW x, In(r, x) PROVE In(s, x)
  <2>1. PICK j \in 1..(n - 1) : r[j] = x
    BY <1>3, <1>4 DEF In
  <2>2. CASE j < i
    <3>1. j \in DOMAIN s /\ s[j] = x
      BY <1>1, <1>2, <2>1, <2>2
    <3> QED BY <3>1 DEF In
  <2>3. CASE ~(j < i)
    <3>1. j + 1 \in DOMAIN s /\ s[j + 1] = x
      BY <1>1, <1>2, <2>1, <2>3
    <3> QED BY <3>1 DEF In
  <2> QED BY <2>2, <2>3
<1>5. ASSUME NEW x, In(s, x), x # s[i] PROVE In(r, x)
  <2>1. PICK j \in DOMAIN s : s[j] = x
    BY <1>5 DEF In
  <2>2. CASE j < i
    <3>1. j \in 1..(n - 1) /\ r[j] = x
      BY <1>1, <1>2, <2>1, <2>2
    <3> QED BY <1>3, <3>1 DEF In
  <2>3. CASE ~(j < i)
    <3>1. j - 1 \in 1..(n - 1) /\ ~(j - 1 < i) /\ (j - 1) + 1 = j
      BY <1>1, <1>5, <2>1, <2>3
    <3>2. r[j - 1] = x
      BY <1>2, <2>1, <3>1
    <3> QED BY <1>3, <3>1, <3>2 DEF In
  <2> QED BY <2>2, <2>3
<1> QED BY <1>2, <1>4, <1>5 DEF r

(* Some number of a list is the least.                                      *)
LEMMA MinIn ==
  ASSUME NEW n \in Nat, NEW A \in SUBSET (1..n), A # {}
  PROVE  Min(A) \in A
<1>1. PICK x \in A : \A y \in A : ~(<<y, x>> \in OpToRel(<, Nat))
  <2>1. A \subseteq Nat
    OBVIOUS
  <2> QED BY <2>1, NatLessThanWellFounded, WFMin, Zenon
<1>2. \A y \in A : x \in Nat /\ y \in Nat
  OBVIOUS
<1>3. \A y \in A : ~(y < x)
  BY <1>1, <1>2 DEF OpToRel
<1>4. \A y \in A : x <= y
  BY <1>2, <1>3
<1> QED BY <1>4 DEF Min

(* The broker's message b was handed to the application, or is held for it. *)
Came(b) == In(arrived, b)
Got(b)  == Came(b) \/ \E m : In(in_messages, m) /\ m.id = b

(* The packets that the library has queued, in the order they go out.       *)
Pipe == up \o out_packet

(* What a packet that goes out says is so, and what one that comes in says. *)
UpFits(p) ==
  /\ p.t = "PUBLISH" => p.mid = p.id /\ p.qos = accepted[p.id] /\ Begun(p.id)
  /\ p.t = "PUBREL" => Took(p.mid) /\ Released(p.mid)
  /\ p.t \in {"PUBACK", "PUBCOMP"} => Came(p.mid)
  /\ p.t = "PUBREC" => Got(p.mid)
DownFits(p) ==
  /\ p.t \in {"PUBACK", "PUBREC", "PUBCOMP"} => Took(p.mid)
  /\ p.t = "PUBLISH" => p.id = p.mid
  /\ p.t = "PUBREL" => Got(p.mid)

Pending == [at: {"check", "queue"}, packet: Packets]

FlowInv ==
  /\ up \in Seq(Packets) /\ out_packet \in Seq(Packets) /\ down \in Seq(Packets)
  /\ pending \in Seq(Pending)
  /\ \A p : In(Pipe, p) => UpFits(p)
  /\ \A p : In(down, p) => DownFits(p)
  /\ \A w : In(pending, w) => UpFits(w.packet)

(* A message of QoS 2 is not published again behind its PUBREL.             *)
Twice(p) == p.t = "PUBLISH" /\ p.qos = 2
Ordered(q) == \A i, j \in DOMAIN q : i < j /\ q[i].t = "PUBREL" /\ Twice(q[j]) => q[i].mid # q[j].id

(* When the application publishes in the callbacks: a message the broker    *)
(* took goes to it again only while the broker knows its identifier, and    *)
(* once it does not, the library only sends the PUBREL.                     *)
ExactInv == ~own_thread =>
  /\ pending = <<>>
  /\ \A p : In(Pipe, p) /\ Twice(p) /\ Took(p.id) => p.id \in peer.stored
  /\ Ordered(Pipe)
  /\ \A b \in DOMAIN accepted : accepted[b] = 2 /\ Took(b) /\ b \notin peer.stored => Released(b)

InSteady == \A b : (Came(b) => Came(b)') /\ (Got(b) => Got(b)')

(* The packets that a step queues.                                          *)
Fresh(ps) ==
  /\ ps \in Seq(Packets) /\ Ordered(ps)
  /\ \A p : In(ps, p) => UpFits(p)' /\ (~own_thread /\ Twice(p) => ~Released(p.id))

PipeStep ==
  /\ up' \in Seq(Packets) /\ out_packet' \in Seq(Packets)
  /\ Within(Pipe', Pipe) \/ \E ps : Pipe' = Pipe \o ps /\ Fresh(ps)

(* What a packet says stays so.                                             *)
LEMMA FitsStay ==
  ASSUME Steady, InSteady, NEW p
  PROVE  (UpFits(p) => UpFits(p)') /\ (DownFits(p) => DownFits(p)')
<1>1. ASSUME UpFits(p) PROVE UpFits(p)'
  <2>1. ASSUME p.t = "PUBLISH" PROVE p.mid = p.id /\ p.qos = accepted'[p.id] /\ Begun(p.id)'
    <3>1. p.mid = p.id /\ p.qos = accepted[p.id] /\ Begun(p.id) /\ p.id \in DOMAIN accepted
      BY <1>1, <2>1 DEF UpFits, Begun, Past
    <3> QED BY <3>1 DEF Steady
  <2>2. p.t = "PUBREL" => Took(p.mid)' /\ Released(p.mid)'
    BY <1>1 DEF UpFits, Steady
  <2>3. /\ p.t \in {"PUBACK", "PUBCOMP"} => Came(p.mid)'
        /\ p.t = "PUBREC" => Got(p.mid)'
    BY <1>1 DEF UpFits, InSteady
  <2> QED BY <2>1, <2>2, <2>3 DEF UpFits
<1>2. ASSUME DownFits(p) PROVE DownFits(p)'
  BY <1>2 DEF DownFits, Steady, InSteady
<1> QED BY <1>1, <1>2

(* An element of a part is an element of the whole.                         *)
LEMMA WithinIn ==
  ASSUME NEW s, NEW t, Within(s, t), NEW x, In(s, x)
  PROVE  In(t, x)
BY DEF Within, In

(* Every packet that was queued was, or is new.                             *)
LEMMA PipeIn ==
  ASSUME FlowInv, PipeStep, NEW p, In(Pipe', p)
  PROVE  In(Pipe, p) \/ \E ps : Pipe' = Pipe \o ps /\ Fresh(ps) /\ In(ps, p)
<1>1. CASE Within(Pipe', Pipe)
  BY <1>1, WithinIn
<1>2. ASSUME NEW ps, Pipe' = Pipe \o ps, Fresh(ps)
      PROVE  In(Pipe, p) \/ In(ps, p)
  <2>1. Pipe \in Seq(Packets) /\ ps \in Seq(Packets)
    BY <1>2, ConcatProperties DEF FlowInv, Fresh, Pipe
  <2> HIDE DEF Pipe
  <2> QED BY <1>2, <2>1, InConcat
<1> QED BY <1>1, <1>2 DEF PipeStep

(* What the packets on the connection say stays so, in a step that queues   *)
(* packets that fit, reads what was on its way, or closes the connection.   *)
LEMMA FlowKept ==
  ASSUME FlowInv, Steady, InSteady, PipeStep,
         down' \in Seq(Packets), \A p : In(down', p) => In(down, p) \/ DownFits(p)',
         pending' \in Seq(Pending),
         \A w : In(pending', w) => (\E v : In(pending, v) /\ v.packet = w.packet) \/ UpFits(w.packet)'
  PROVE  FlowInv'
<1>1. ASSUME NEW p, In(Pipe', p) PROVE UpFits(p)'
  <2>1. CASE In(Pipe, p)
    BY <2>1, FitsStay DEF FlowInv
  <2>2. CASE \E ps : Pipe' = Pipe \o ps /\ Fresh(ps) /\ In(ps, p)
    BY <2>2 DEF Fresh
  <2> QED BY <1>1, <2>1, <2>2, PipeIn
<1>2. ASSUME NEW p, In(down', p) PROVE DownFits(p)'
  BY <1>2, FitsStay DEF FlowInv
<1>3. ASSUME NEW w, In(pending', w) PROVE UpFits(w.packet)'
  <2>1. CASE \E v : In(pending, v) /\ v.packet = w.packet
    <3>1. UpFits(w.packet)
      BY <2>1 DEF FlowInv
    <3> QED BY <3>1, FitsStay
  <2>2. CASE UpFits(w.packet)'
    BY <2>2
  <2> QED BY <1>3, <2>1, <2>2
<1> QED BY <1>1, <1>2, <1>3 DEF FlowInv, PipeStep, In

(* A list within one that is in order is in order, and so is one with new   *)
(* packets behind it.                                                       *)
LEMMA OrderWithin ==
  ASSUME NEW s, s \in Seq(Packets), NEW t, t \in Seq(Packets), Within(s, t), Ordered(t)
  PROVE  Ordered(s)
<1>1. PICK k \in Nat : \A i \in DOMAIN s : i + k \in DOMAIN t /\ s[i] = t[i + k]
  BY DEF Within
<1>2. ASSUME NEW i \in DOMAIN s, NEW j \in DOMAIN s, i < j, s[i].t = "PUBREL", Twice(s[j])
      PROVE  s[i].mid # s[j].id
  <2>1. i \in Nat /\ j \in Nat
    OBVIOUS
  <2>2. i + k < j + k
    BY <1>2, <2>1
  <2> QED BY <1>1, <1>2, <2>2 DEF Ordered
<1> QED BY <1>2 DEF Ordered

(* Packets queued behind others keep the order of PUBLISH and PUBREL, when  *)
(* none of them publishes again a message that is released before.          *)
LEMMA OrderBehind ==
  ASSUME NEW s \in Seq(Packets), NEW t \in Seq(Packets), Ordered(s), Ordered(t),
         \A p, q : In(s, p) /\ In(t, q) /\ p.t = "PUBREL" /\ Twice(q) => p.mid # q.id
  PROVE  Ordered(s \o t)
<1> DEFINE u == s \o t
<1>1. /\ u \in Seq(Packets) /\ Len(u) = Len(s) + Len(t)
      /\ \A k \in 1..(Len(s) + Len(t)) : u[k] = IF k <= Len(s) THEN s[k] ELSE t[k - Len(s)]
  BY ConcatProperties
<1> HIDE DEF u
<1>2. /\ Len(s) \in Nat /\ Len(t) \in Nat /\ DOMAIN s = 1..Len(s) /\ DOMAIN t = 1..Len(t)
      /\ DOMAIN u = 1..(Len(s) + Len(t))
  BY <1>1
<1>3. ASSUME NEW i \in DOMAIN u, NEW j \in DOMAIN u, i < j, u[i].t = "PUBREL", Twice(u[j])
      PROVE  u[i].mid # u[j].id
  <2>1. CASE j <= Len(s)
    <3>1. i \in DOMAIN s /\ j \in DOMAIN s /\ u[i] = s[i] /\ u[j] = s[j]
      BY <1>1, <1>2, <1>3, <2>1
    <3> QED BY <1>3, <3>1 DEF Ordered
  <2>2. CASE ~(j <= Len(s)) /\ i <= Len(s)
    <3>1. i \in DOMAIN s /\ j - Len(s) \in DOMAIN t /\ u[i] = s[i] /\ u[j] = t[j - Len(s)]
      BY <1>1, <1>2, <1>3, <2>2
    <3>2. In(s, u[i]) /\ In(t, u[j])
      BY <3>1 DEF In
    <3> QED BY <1>3, <3>2
  <2>3. CASE ~(i <= Len(s))
    <3>1. /\ i - Len(s) \in DOMAIN t /\ j - Len(s) \in DOMAIN t /\ i - Len(s) < j - Len(s)
          /\ u[i] = t[i - Len(s)] /\ u[j] = t[j - Len(s)]
      BY <1>1, <1>2, <1>3, <2>3
    <3> QED BY <1>3, <3>1 DEF Ordered
  <2> QED BY <2>1, <2>2, <2>3
<1>4. Ordered(u)
  BY <1>3 DEF Ordered
<1> QED BY <1>4 DEF u

(* The order is kept.                                                       *)
LEMMA OrderKept ==
  ASSUME FlowInv, PipeStep, ~own_thread, Ordered(Pipe)
  PROVE  Ordered(Pipe')
<1>1. Pipe \in Seq(Packets) /\ Pipe' \in Seq(Packets)
  BY ConcatProperties DEF FlowInv, PipeStep, Pipe
<1>2. CASE Within(Pipe', Pipe)
  <2> DEFINE s == Pipe'
             t == Pipe
  <2>1. s \in Seq(Packets) /\ t \in Seq(Packets) /\ Within(s, t) /\ Ordered(t)
    BY <1>1, <1>2
  <2> HIDE DEF s, t
  <2>2. Ordered(s)
    BY <2>1, OrderWithin
  <2> QED BY <2>2 DEF s
<1>3. ASSUME NEW ps, Pipe' = Pipe \o ps, Fresh(ps) PROVE Ordered(Pipe')
  <2>1. \A p, q : In(Pipe, p) /\ In(ps, q) /\ p.t = "PUBREL" /\ Twice(q) => p.mid # q.id
    BY <1>3 DEF FlowInv, UpFits, Fresh
  <2>2. ps \in Seq(Packets) /\ Ordered(ps)
    BY <1>3 DEF Fresh
  <2> HIDE DEF Pipe
  <2>3. Ordered(Pipe \o ps)
    BY <1>1, <2>1, <2>2, OrderBehind
  <2> QED BY <1>3, <2>3
<1> QED BY <1>2, <1>3 DEF PipeStep

(* A step of the library keeps exactly once.                                *)
LEMMA ExactKept ==
  ASSUME ListInv, FlowInv, ExactInv, Steady, PipeStep,
         UNCHANGED <<received, own_thread>>, peer'.stored = peer.stored,
         ~own_thread => pending' = <<>>
  PROVE  ExactInv'
<1> SUFFICES ASSUME ~own_thread PROVE ExactInv'
  BY DEF ExactInv
<1>1. \A b : Took(b)' <=> Took(b)
  BY DEF Took
<1>2. \A b : Took(b) => b \in DOMAIN accepted /\ accepted'[b] = accepted[b]
  BY DEF ListInv, TookSent, Took, Begun, Past, Steady
<1>3. ASSUME NEW p, In(Pipe', p), Twice(p), Took(p.id) PROVE p.id \in peer.stored
  <2>1. CASE In(Pipe, p)
    BY <1>3, <2>1 DEF ExactInv
  <2>2. ASSUME NEW ps, Fresh(ps), In(ps, p) PROVE p.id \in peer.stored
    <3>1. ~Released(p.id) /\ UpFits(p)'
      BY <1>3, <2>2 DEF Fresh
    <3>2. accepted'[p.id] = p.qos /\ p.qos = 2
      BY <1>3, <3>1 DEF UpFits, Twice
    <3>3. p.id \in DOMAIN accepted /\ accepted[p.id] = 2
      BY <1>2, <1>3, <3>2
    <3> QED BY <1>3, <3>1, <3>3 DEF ExactInv
  <2> QED BY <1>3, <2>1, <2>2, PipeIn
<1>4. Ordered(Pipe')
  BY OrderKept DEF ExactInv
<1>5. ASSUME NEW b \in DOMAIN accepted', accepted'[b] = 2, Took(b), b \notin peer.stored
      PROVE  Released(b)'
  BY <1>2, <1>5 DEF ExactInv, Steady
<1> QED BY <1>1, <1>3, <1>4, <1>5 DEF ExactInv, In

-----------------------------------------------------------------------------
(* What the broker sends.                                                   *)

OutMessage == [id: Nat, mid: Nat, qos: {1, 2}, released: BOOLEAN]
Peer == [connected: BOOLEAN, stored: SUBSET Nat, out: Seq(OutMessage), last_mid: Nat]

(* The broker numbers its messages like the library does; it holds a        *)
(* message until it arrived, and the identifiers of what it took.           *)
InInv ==
  /\ sent \in Seq({1, 2}) /\ arrived \in Seq(Nat) /\ in_messages \in Seq([id: Nat, mid: Nat])
  /\ peer \in Peer /\ peer.last_mid = Len(sent) /\ Len(sent) <= MaxSent
  /\ \A m : In(in_messages, m) => m.id = m.mid
  /\ \A m : In(peer.out, m) => m.mid = m.id /\ (m.released => Got(m.id))
  /\ \A b \in peer.stored : Took(b)
  /\ \A b \in DOMAIN sent : Came(b) \/ \E m : In(peer.out, m) /\ m.id = b

ClientInv == ListInv /\ FlowInv /\ InInv /\ ExactInv

(* The messages from the broker stay as they are in a step that changes     *)
(* neither its side of them nor the list of those the client has.           *)
LEMMA InKept ==
  ASSUME InInv, Steady, InSteady, arrived' \in Seq(Nat), in_messages' \in Seq([id: Nat, mid: Nat]),
         \A m : In(in_messages', m) => m.id = m.mid,
         peer' \in Peer, peer'.out = peer.out, peer'.stored = peer.stored,
         peer'.last_mid = peer.last_mid, sent' = sent
  PROVE  InInv'
<1>1. \A b : (Came(b) => Came(b)') /\ (Got(b) => Got(b)') /\ (Took(b) => Took(b)')
  BY DEF Steady, InSteady
<1>3. \A m : In(peer'.out, m) <=> In(peer.out, m)
  OBVIOUS
<1>4. \A m : In(peer'.out, m) => m.mid = m.id /\ (m.released => Got(m.id)')
  BY <1>1, <1>3 DEF InInv
<1>5. \A b \in DOMAIN sent' : Came(b)' \/ \E m : In(peer'.out, m) /\ m.id = b
  BY <1>1, <1>3 DEF InInv
<1>6. \A b \in peer'.stored : Took(b)'
  BY <1>1 DEF InInv
<1> QED BY <1>4, <1>5, <1>6 DEF InInv, In

(* A step that leaves the incoming messages alone.                          *)
LEMMA SameIn ==
  ASSUME InInv, UNCHANGED <<arrived, in_messages>>
  PROVE  /\ InSteady /\ arrived' \in Seq(Nat) /\ in_messages' \in Seq([id: Nat, mid: Nat])
         /\ \A m : In(in_messages', m) => m.id = m.mid
BY DEF InInv, InSteady, Came, Got, In

(* A step that reads a packet, or that the library or the network takes.    *)
LEMMA StepKept ==
  ASSUME ClientInv, ListInv', Steady, InSteady, PipeStep,
         down' \in Seq(Packets), \A p : In(down', p) => In(down, p) \/ DownFits(p)',
         pending' \in Seq(Pending),
         \A w : In(pending', w) => (\E v : In(pending, v) /\ v.packet = w.packet) \/ UpFits(w.packet)',
         ~own_thread => pending' = <<>>,
         arrived' \in Seq(Nat), in_messages' \in Seq([id: Nat, mid: Nat]),
         \A m : In(in_messages', m) => m.id = m.mid,
         peer' \in Peer, peer'.out = peer.out, peer'.stored = peer.stored,
         peer'.last_mid = peer.last_mid, UNCHANGED <<sent, received, own_thread>>
  PROVE  ClientInv'
<1>1. FlowInv'
  BY FlowKept DEF ClientInv
<1>2. ExactInv'
  BY ExactKept DEF ClientInv
<1>3. InInv'
  BY InKept DEF ClientInv
<1> QED BY <1>1, <1>2, <1>3 DEF ClientInv

(* The ways in which the packets that go out change.                        *)
LEMMA PipeSame ==
  ASSUME FlowInv, UNCHANGED <<up, out_packet>>
  PROVE  PipeStep
<1>1. Within(Pipe', Pipe)
  <2> DEFINE s == Pipe
  <2>1. Pipe' = s /\ s \in Seq(Packets)
    BY ConcatProperties DEF FlowInv, Pipe
  <2>2. \A i \in DOMAIN s : i + 0 = i
    BY <2>1
  <2> HIDE DEF s
  <2>3. Within(s, s)
    BY <2>2 DEF Within
  <2> QED BY <2>1, <2>3 DEF s
<1> QED BY <1>1 DEF PipeStep, FlowInv

(* Queueing packets is one of the steps of the connection.                  *)
LEMMA PipeQueued ==
  ASSUME FlowInv, NEW ps, Fresh(ps), Queue(ps), up' = up
  PROVE  PipeStep
<1>1. up \in Seq(Packets) /\ out_packet \in Seq(Packets) /\ ps \in Seq(Packets)
  BY DEF FlowInv, Fresh
<1>2. out_packet' = out_packet \o ps /\ out_packet' \in Seq(Packets)
  BY <1>1, ConcatProperties DEF Queue
<1>3. Pipe' = Pipe \o ps
  <2>1. (up \o out_packet) \o ps = up \o (out_packet \o ps)
    BY ONLY <1>1, ConcatAssociative
  <2>2. up' \o out_packet' = up \o (out_packet \o ps)
    BY <1>2
  <2> QED BY ONLY <2>1, <2>2 DEF Pipe
<1> QED BY <1>1, <1>2, <1>3 DEF PipeStep

(* The first packet was read, or there are none any more.                   *)
LEMMA PipeRead ==
  ASSUME FlowInv, out_packet' = out_packet, up # <<>>, up' = Tail(up)
  PROVE  PipeStep
<1>1. up \in Seq(Packets) /\ out_packet \in Seq(Packets) /\ up' \in Seq(Packets)
  BY HeadTailProperties DEF FlowInv
<1>2. Within(Tail(up) \o out_packet, up \o out_packet)
  BY <1>1, PartsWithin
<1> QED BY <1>1, <1>2 DEF PipeStep, Pipe

(* The end of the connection loses what was written, and leaves what was    *)
(* queued.                                                                  *)
LEMMA PipeHangup ==
  ASSUME FlowInv, out_packet' = out_packet, up' = <<>>
  PROVE  PipeStep
<1>1. up \in Seq(Packets) /\ out_packet \in Seq(Packets) /\ up' \in Seq(Packets)
  BY DEF FlowInv
<1>2. Pipe' = out_packet
  BY <1>1, ConcatEmptySeq DEF Pipe
<1>3. Within(out_packet, up \o out_packet)
  BY <1>1, PartsWithin
<1> QED BY <1>1, <1>2, <1>3 DEF PipeStep, Pipe

(* Dropping the queue leaves what was written.                              *)
LEMMA PipeDropped ==
  ASSUME FlowInv, out_packet' = <<>>, up' = up
  PROVE  PipeStep
<1>1. up \in Seq(Packets) /\ out_packet \in Seq(Packets) /\ out_packet' \in Seq(Packets)
  BY DEF FlowInv
<1>2. Pipe' = up
  BY <1>1, ConcatEmptySeq DEF Pipe
<1>3. Within(up, up \o out_packet)
  BY <1>1, PartsWithin
<1> QED BY <1>1, <1>2, <1>3 DEF PipeStep, Pipe

(* Writing a packet moves it within the pipe, which stays as it is.         *)
LEMMA PipeWritten ==
  ASSUME FlowInv, out_packet # <<>>, up' = Append(up, Head(out_packet)), out_packet' = Tail(out_packet)
  PROVE  PipeStep
<1>1. up \in Seq(Packets) /\ out_packet \in Seq(Packets)
  BY DEF FlowInv
<1>2. Head(out_packet) \in Packets /\ out_packet' \in Seq(Packets)
  BY <1>1, InTail
<1>3. up' \in Seq(Packets)
  BY <1>1, <1>2, AppendProperties
<1>4. Pipe' = Pipe
  BY <1>1, MovedAlong DEF Pipe
<1> DEFINE s == Pipe
<1>5. Pipe' = s /\ s \in Seq(Packets)
  BY <1>1, <1>4, ConcatProperties DEF Pipe
<1>6. \A i \in DOMAIN s : i + 0 = i
  BY <1>5
<1> HIDE DEF s
<1>7. Within(s, s)
  BY <1>6 DEF Within
<1>8. Within(Pipe', Pipe)
  BY <1>5, <1>7 DEF s
<1> QED BY <1>2, <1>3, <1>8 DEF PipeStep

(* One new packet, or none.                                                 *)
LEMMA FreshOne ==
  ASSUME NEW p \in Packets, UpFits(p)', ~own_thread /\ Twice(p) => ~Released(p.id)
  PROVE  Fresh(<<p>>)
<1> DEFINE ps == <<p>>
<1>1. ps \in Seq(Packets) /\ DOMAIN ps = {1} /\ ps[1] = p
  OBVIOUS
<1> HIDE DEF ps
<1>2. Ordered(ps)
  BY <1>1 DEF Ordered
<1>3. \A q : In(ps, q) => q = p
  BY <1>1 DEF In
<1>4. Fresh(ps)
  BY <1>1, <1>2, <1>3 DEF Fresh
<1> QED BY <1>4 DEF ps

(* Queueing nothing queues nothing wrong.                                   *)
LEMMA FreshNone == Fresh(<<>>)
<1> DEFINE ps == <<>>
<1>1. ps \in Seq(Packets) /\ DOMAIN ps = {}
  OBVIOUS
<1> HIDE DEF ps
<1>2. Fresh(ps)
  BY <1>1 DEF Fresh, Ordered, In
<1> QED BY <1>2 DEF ps

(* A packet that was read.                                                  *)
LEMMA ReadsFit ==
  ASSUME FlowInv, NEW types, Reads(types)
  PROVE  /\ in_packet \in Packets /\ DownFits(in_packet) /\ in_packet.t \in types
         /\ down' \in Seq(Packets) /\ \A p : In(down', p) => In(down, p)
<1>1. down \in Seq(Packets) /\ down # <<>> /\ down' = Tail(down) /\ in_packet.t \in types
  BY DEF FlowInv, Reads
<1>2. /\ down' \in Seq(Packets) /\ in_packet \in Packets /\ In(down, in_packet)
      /\ \A p : In(down', p) => In(down, p)
  BY <1>1, InTail DEF in_packet
<1> QED BY <1>1, <1>2 DEF FlowInv

-----------------------------------------------------------------------------
(* The steps of the library.                                                *)

(* Steps that only move packets, or the loop's stage.                       *)
LEMMA MoveStep ==
  ASSUME ClientInv,
         UNCHANGED <<out_messages, in_messages, inflight_messages, last_mid, own_thread, outcome, inward>>,
         PipeStep, down' \in Seq(Packets), \A p : In(down', p) => In(down, p),
         peer' \in Peer, peer'.out = peer.out, peer'.stored = peer.stored, peer'.last_mid = peer.last_mid,
         pending' \in Seq(Pending), ~own_thread => pending' = <<>>,
         \A w : In(pending', w) => \E v : In(pending, v) /\ v.packet = w.packet
  PROVE  ClientInv' /\ Steady /\ InSteady
<1>1. ListInv' /\ Steady
  BY SameList DEF ClientInv, outcome
<1>2. /\ InSteady /\ arrived' \in Seq(Nat) /\ in_messages' \in Seq([id: Nat, mid: Nat])
      /\ \A m : In(in_messages', m) => m.id = m.mid
  BY SameIn DEF ClientInv, inward
<1>3. UNCHANGED <<sent, received, own_thread>>
  BY DEF inward, outcome
<1>4. ClientInv'
  BY <1>1, <1>2, <1>3, StepKept
<1> QED BY <1>1, <1>2, <1>4

(* send__publish looks at the socket: the packet of the application's       *)
(* thread goes on, or is dropped while its message stays in the list.       *)
LEMMA PublishCheckStep ==
  ASSUME ClientInv, PublishCheck
  PROVE  ClientInv'
<1>1. FlowInv /\ UNCHANGED <<net, peer, own_thread, out_packet>> /\ UNCHANGED <<up, down>>
  BY DEF ClientInv, PublishCheck, net
<1>2. PipeStep
  BY <1>1, PipeSame
<1>3. pending # <<>> /\ pending \in Seq(Pending) /\ own_thread
  BY DEF ClientInv, FlowInv, ExactInv, PublishCheck
<1>4. pending[1] \in Pending /\ In(pending, pending[1])
  <2>1. Head(pending) \in Pending /\ In(pending, Head(pending)) /\ Head(pending) = pending[1]
    BY <1>3, InTail
  <2> QED BY <2>1
<1> DEFINE w0 == [pending[1] EXCEPT !.at = "queue"]
<1>5. w0 \in Pending /\ w0.packet = pending[1].packet
  BY <1>4 DEF Pending
<1>6. pending' = IF sock THEN <<w0>> ELSE <<>>
  BY DEF PublishCheck
<1> HIDE DEF w0
<1>7. pending' \in Seq(Pending) /\ \A w : In(pending', w) => w = w0
  <2>1. CASE sock
    <3>1. pending' = <<w0>>
      BY <1>6, <2>1
    <3> QED BY <1>5, <3>1 DEF In
  <2>2. CASE ~sock
    <3>1. pending' = <<>>
      BY <1>6, <2>2
    <3> QED BY <3>1 DEF In
  <2> QED BY <2>1, <2>2
<1>8. \A w : In(pending', w) => \E v : In(pending, v) /\ v.packet = w.packet
  BY <1>4, <1>5, <1>7
<1>9. /\ down' \in Seq(Packets) /\ \A p : In(down', p) => In(down, p)
  BY <1>1 DEF FlowInv
<1>10. peer' \in Peer /\ peer' = peer
  BY <1>1 DEF ClientInv, InInv
<1> QED BY <1>2, <1>3, <1>7, <1>8, <1>9, <1>10, MoveStep DEF PublishCheck

(* The packet of the application's thread is queued.                        *)
LEMMA PublishSendStep ==
  ASSUME ClientInv, PublishSend
  PROVE  ClientInv'
<1>1. FlowInv /\ UNCHANGED <<net, peer, own_thread>> /\ UNCHANGED <<up, down>> /\ pending' = <<>>
  BY DEF ClientInv, PublishSend, net
<1>2. pending # <<>> /\ pending \in Seq(Pending) /\ own_thread
  BY DEF ClientInv, FlowInv, ExactInv, PublishSend
<1>3. pending[1] \in Pending /\ In(pending, pending[1])
  <2>1. Head(pending) \in Pending /\ In(pending, Head(pending)) /\ Head(pending) = pending[1]
    BY <1>2, InTail
  <2> QED BY <2>1
<1>4. ListInv' /\ Steady
  BY SameList DEF ClientInv, PublishSend, outcome
<1>5. /\ InSteady /\ arrived' \in Seq(Nat) /\ in_messages' \in Seq([id: Nat, mid: Nat])
      /\ \A m : In(in_messages', m) => m.id = m.mid
  BY SameIn DEF ClientInv, PublishSend, inward
<1>6. ASSUME NEW p, p = pending[1].packet PROVE Fresh(<<p>>)
  <2>1. p \in Packets /\ UpFits(p)
    BY <1>1, <1>3, <1>6 DEF FlowInv, Pending
  <2>2. UpFits(p)'
    BY <1>4, <1>5, <2>1, FitsStay
  <2> QED BY <1>2, <2>1, <2>2, FreshOne
<1>7. PipeStep
  <2>1. Fresh(<<pending[1].packet>>) /\ Queue(<<pending[1].packet>>)
    BY <1>6 DEF PublishSend
  <2> QED BY <1>1, <2>1, PipeQueued
<1>8. /\ pending' \in Seq(Pending) /\ \A w : ~In(pending', w)
  BY <1>1 DEF In
<1>9. /\ down' \in Seq(Packets) /\ \A p : In(down', p) => In(down, p)
  BY <1>1 DEF FlowInv
<1>10. peer' \in Peer /\ peer' = peer
  BY <1>1 DEF ClientInv, InInv
<1>11. UNCHANGED <<sent, received, own_thread>>
  BY DEF PublishSend, inward, outcome
<1> QED BY <1>1, <1>4, <1>5, <1>7, <1>8, <1>9, <1>10, <1>11, StepKept

(* mosquitto_publish.                                                       *)
LEMMA PublishStep ==
  ASSUME NoWrap, ClientInv, NEW qos \in OutQoS, MosquittoPublish(qos)
  PROVE  ClientInv'
<1> SUFFICES ASSUME NEW n, n = Len(accepted) + 1, NEW R, R = HasRoom(inflight_messages), NEW m,
                    m = [id |-> n, mid |-> n, qos |-> qos, state |-> IF R THEN WaitState(qos) ELSE "invalid"]
             PROVE  ClientInv'
  OBVIOUS
<1>1. ListInv /\ ListTyped /\ FlowInv /\ InInv /\ ExactInv /\ qos \in {1, 2} /\ n \in Nat /\ R \in BOOLEAN
  BY ClientAssumption DEF ClientInv, ListInv, ListTyped, HasRoom
<1>2. NextMid(last_mid) = n /\ Len(accepted) < MaxPublished
  BY <1>1, NewMid DEF MosquittoPublish
<1>3. /\ last_mid' = n /\ out_messages' = Append(out_messages, m)
      /\ inflight_messages' = inflight_messages + (IF R THEN 1 ELSE 0)
      /\ accepted' = Append(accepted, qos)
      /\ UNCHANGED <<in_messages, net, peer, own_thread, received, announced, inward>>
  BY <1>2 DEF MosquittoPublish
<1>4. IF own_thread
      THEN /\ pending' = IF R THEN <<[at |-> "check", packet |-> Publish(m)]>> ELSE <<>>
           /\ UNCHANGED out_packet
      ELSE /\ Queue(IF R /\ sock THEN <<Publish(m)>> ELSE <<>>)
           /\ UNCHANGED pending
  BY <1>2 DEF MosquittoPublish
<1>5. m.id = n /\ m.mid = n /\ m.qos = qos
  OBVIOUS
<1>6. /\ ListInv' /\ Steady /\ m.id \notin DOMAIN accepted /\ accepted'[m.id] = m.qos
      /\ R => Begun(m.id)'
  <2>1. UNCHANGED <<received, announced>> /\ Len(accepted) < MaxPublished
    BY <1>2, <1>3
  <2>2. m = [id |-> Len(accepted) + 1, mid |-> Len(accepted) + 1, qos |-> qos,
             state |-> IF R THEN WaitState(qos) ELSE "invalid"]
    OBVIOUS
  <2>3. /\ R \in BOOLEAN /\ (R <=> HasRoom(inflight_messages))
        /\ last_mid' = Len(accepted) + 1
        /\ inflight_messages' = inflight_messages + (IF R THEN 1 ELSE 0)
        /\ out_messages' = Append(out_messages, m) /\ accepted' = Append(accepted, qos)
    BY <1>1, <1>3
  <2> QED BY <1>1, <2>1, <2>2, <2>3, AcceptedList
<1>7. ASSUME NEW p, p = Publish(m), R
      PROVE  p \in Packets /\ UpFits(p)' /\ ~Released(p.id)
  <2>1. p.t = "PUBLISH" /\ p.mid = n /\ p.id = n /\ p.qos = qos /\ p \in Packets
    BY <1>1, <1>5, <1>7 DEF Publish, Packet, Packets, PacketTypes
  <2>2. Begun(p.id)' /\ p.qos = accepted'[p.id] /\ p.id \notin DOMAIN accepted
    <3>1. p.id = m.id
      BY <1>5, <2>1
    <3>2. Begun(m.id)' => Begun(p.id)'
      BY <3>1
    <3> QED BY <1>5, <1>6, <1>7, <2>1, <3>1, <3>2
  <2> QED BY <2>1, <2>2 DEF UpFits, Released, Past
<1>8. /\ InSteady /\ arrived' \in Seq(Nat) /\ in_messages' \in Seq([id: Nat, mid: Nat])
      /\ \A x : In(in_messages', x) => x.id = x.mid
  BY <1>1, <1>3, SameIn DEF inward
<1>9. UNCHANGED <<up, down>> /\ down' \in Seq(Packets) /\ \A p : In(down', p) => In(down, p)
  BY <1>1, <1>3 DEF FlowInv, net
<1>10. peer' = peer /\ peer' \in Peer /\ UNCHANGED <<sent, received, own_thread>>
  BY <1>1, <1>3 DEF InInv, inward
<1>11. CASE own_thread
  <2>1. PipeStep
    BY <1>1, <1>4, <1>9, <1>11, PipeSame
  <2>2. /\ pending' \in Seq(Pending)
        /\ \A w : In(pending', w) => UpFits(w.packet)'
    <3>1. CASE R
      <4>1. ASSUME NEW p, p = Publish(m)
            PROVE  /\ pending' = <<[at |-> "check", packet |-> p]>>
                   /\ [at |-> "check", packet |-> p] \in Pending /\ UpFits(p)'
        BY <1>4, <1>7, <1>11, <3>1, <4>1 DEF Pending
      <4>2. ASSUME NEW p, p = Publish(m)
            PROVE  pending' \in Seq(Pending) /\ \A w : In(pending', w) => UpFits(w.packet)'
        <5> DEFINE w0 == [at |-> "check", packet |-> p]
        <5>1. pending' = <<w0>> /\ w0 \in Pending /\ UpFits(p)' /\ w0.packet = p
          BY <4>1, <4>2
        <5> HIDE DEF w0
        <5>2. \A w : In(pending', w) => w = w0
          BY <5>1 DEF In
        <5>3. ASSUME NEW w, In(pending', w) PROVE UpFits(w.packet)'
          <6>1. w.packet = p
            BY <5>1, <5>2, <5>3
          <6> QED BY <5>1, <6>1
        <5> QED BY <5>1, <5>3
      <4> QED BY <4>2
    <3>2. CASE ~R
      <4>1. pending' = <<>>
        BY <1>4, <1>11, <3>2
      <4> QED BY <4>1 DEF In
    <3> QED BY <3>1, <3>2
  <2> QED BY <1>1, <1>6, <1>8, <1>9, <1>10, <1>11, <2>1, <2>2, StepKept
<1>12. CASE ~own_thread
  <2>1. PipeStep
    <3>1. CASE R /\ sock
      <4>1. ASSUME NEW p, p = Publish(m) PROVE Fresh(<<p>>)
        BY <1>7, <3>1, <4>1, FreshOne
      <4>2. Fresh(<<Publish(m)>>) /\ Queue(<<Publish(m)>>)
        BY <1>4, <1>12, <3>1, <4>1
      <4> QED BY <1>1, <1>9, <4>2, PipeQueued
    <3>2. CASE ~(R /\ sock)
      <4>1. Queue(<<>>)
        BY <1>4, <1>12, <3>2
      <4> QED BY <1>1, <1>9, <4>1, FreshNone, PipeQueued
    <3> QED BY <3>1, <3>2
  <2>2. pending' = pending /\ pending' \in Seq(Pending) /\ pending' = <<>>
    BY <1>1, <1>4, <1>12 DEF FlowInv, ExactInv
  <2>3. \A w : In(pending', w) => \E v : In(pending, v) /\ v.packet = w.packet
    BY <2>2
  <2> QED BY <1>1, <1>6, <1>8, <1>9, <1>10, <1>12, <2>1, <2>2, <2>3, StepKept
<1> QED BY <1>11, <1>12

(* A packet that was read: what the handlers have in common.                *)
LEMMA ReadKept ==
  ASSUME ClientInv, NEW types, Reads(types), ListInv', Steady, InSteady, PipeStep,
         arrived' \in Seq(Nat), in_messages' \in Seq([id: Nat, mid: Nat]),
         \A m : In(in_messages', m) => m.id = m.mid
  PROVE  ClientInv'
<1>1. FlowInv /\ InInv /\ ExactInv
  BY DEF ClientInv
<1>2. UNCHANGED <<pending, peer, own_thread, received, sent>>
  BY DEF Reads
<1>3. down' \in Seq(Packets) /\ \A p : In(down', p) => In(down, p)
  BY <1>1, ReadsFit
<1>4. /\ pending' = pending /\ pending' \in Seq(Pending) /\ (~own_thread => pending' = <<>>)
      /\ peer' = peer /\ peer' \in Peer
  BY <1>1, <1>2 DEF FlowInv, ExactInv, InInv
<1>5. \A w : In(pending', w) => \E v : In(pending, v) /\ v.packet = w.packet
  BY <1>4
<1> QED BY <1>2, <1>3, <1>4, <1>5, StepKept

(* An answer to the packet that was read.                                   *)
LEMMA AnswerFresh ==
  ASSUME NEW t \in PacketTypes \ {"PUBLISH"}, NEW b \in Nat,
         t = "PUBREL" => Took(b)' /\ Released(b)',
         t \in {"PUBACK", "PUBCOMP"} => Came(b)', t = "PUBREC" => Got(b)'
  PROVE  Fresh(<<Cmd(t, b)>>)
<1>1. ASSUME NEW p, p = Cmd(t, b) PROVE Fresh(<<p>>)
  <2>1. p \in Packets /\ p.t = t /\ p.mid = b
    BY <1>1 DEF Cmd, Packet, Packets
  <2>2. UpFits(p)'
    BY <2>1 DEF UpFits
  <2>3. ~Twice(p)
    BY <2>1 DEF Twice
  <2> QED BY <2>1, <2>2, <2>3, FreshOne
<1> QED BY <1>1

(* CONNACK: message__retry_check publishes again what is in flight.         *)
LEMMA ConnackStep ==
  ASSUME ClientInv, HandleConnack
  PROVE  ClientInv'
<1>1. /\ ListInv /\ FlowInv /\ InInv /\ Reads({"CONNACK"}) /\ up' = up
      /\ UNCHANGED <<out_messages, in_messages, inflight_messages, announced, arrived>>
      /\ UNCHANGED <<last_mid, accepted, received>> /\ Queue(RetryCheck(out_messages))
  BY DEF ClientInv, HandleConnack, Reads
<1>2. ListInv' /\ Steady
  BY <1>1, SameList
<1>3. /\ InSteady /\ arrived' \in Seq(Nat) /\ in_messages' \in Seq([id: Nat, mid: Nat])
      /\ \A m : In(in_messages', m) => m.id = m.mid
  BY <1>1, SameIn
<1> DEFINE s == RetryCheck(out_messages)
<1>4. s \in Seq(Packets) /\ \A k \in DOMAIN s : Starts(s[k]) \/ Releases(s[k])
  BY <1>1, RetryList
<1>5. Queue(s)
  BY <1>1
<1> HIDE DEF s
<1>6. \A b : Released(b)' <=> Released(b)
  BY <1>1 DEF Released, Past
<1>7. ASSUME NEW p, Starts(p) \/ Releases(p)
      PROVE  /\ UpFits(p)' /\ (Twice(p) => ~Released(p.id)) /\ (p.t = "PUBREL" => Released(p.mid))
  <2>1. CASE Starts(p)
    BY <2>1 DEF Starts, UpFits, Twice
  <2>2. CASE Releases(p)
    BY <1>6, <2>2 DEF Releases, UpFits, Twice
  <2> QED BY <1>7, <2>1, <2>2
<1>8. Ordered(s)
  BY <1>4, <1>7 DEF Ordered
<1>9. Fresh(s)
  BY <1>4, <1>7, <1>8 DEF Fresh, In
<1>10. PipeStep
  BY <1>1, <1>5, <1>9, PipeQueued
<1> QED BY <1>1, <1>2, <1>3, <1>10, ReadKept

(* PUBACK or PUBCOMP: the message leaves the list, and the one that is      *)
(* announced is one that the broker took and that was not announced before. *)
LEMMA PubackcompStep ==
  ASSUME ClientInv, HandlePubackcomp
  PROVE  /\ ClientInv'
         /\ \/ announced' = announced
            \/ \E b \in DOMAIN accepted : Took(b) /\ b \notin announced /\ announced' = announced \cup {b}
         /\ UNCHANGED <<accepted, received, own_thread>>
<1> DEFINE types == {"PUBACK", "PUBCOMP"}
           S == IndexOf(out_messages, in_packet.mid)
<1>1. /\ ListInv /\ FlowInv /\ InInv /\ Reads(types) /\ up' = up
      /\ UNCHANGED <<in_messages, arrived>> /\ UNCHANGED <<last_mid, accepted, received, own_thread>>
  BY DEF ClientInv, HandlePubackcomp, Reads
<1>2. in_packet \in Packets /\ DownFits(in_packet) /\ in_packet.t \in types
  <2> HIDE DEF types
  <2> QED BY <1>1, ReadsFit
<1>3. Took(in_packet.mid)
  BY <1>2 DEF DownFits
<1>4. /\ InSteady /\ arrived' \in Seq(Nat) /\ in_messages' \in Seq([id: Nat, mid: Nat])
      /\ \A m : In(in_messages', m) => m.id = m.mid
  BY <1>1, SameIn
<1> HIDE DEF types
<1>5. CASE S = {}
  <2>1. UNCHANGED <<out_messages, inflight_messages, out_packet, announced>>
    BY <1>5 DEF HandlePubackcomp
  <2>2. ListInv' /\ Steady
    BY <1>1, <2>1, SameList
  <2>3. PipeStep
    BY <1>1, <2>1, PipeSame
  <2> QED BY <1>1, <1>4, <2>1, <2>2, <2>3, ReadKept
<1>6. ASSUME NEW i \in DOMAIN out_messages, out_messages[i].mid = in_packet.mid
      PROVE  /\ ClientInv' /\ out_messages[i].id \in DOMAIN accepted /\ Took(out_messages[i].id)
             /\ out_messages[i].id \notin announced /\ announced' = announced \cup {out_messages[i].id}
  <2>1. /\ out_messages[i].id = in_packet.mid /\ out_messages[i].id \in DOMAIN accepted
        /\ out_messages[i].id \notin announced
    BY <1>1, <1>6 DEF ListInv, Listed
  <2>2. S = {i} /\ Min(S) = i
    BY <1>1, <2>1, OneAt
  <2>3. Removed(i) /\ announced' = announced \cup {out_messages[i].id}
    BY <2>2 DEF HandlePubackcomp
  <2>4. Took(out_messages[i].id)
    BY <1>3, <2>1
  <2>5. ~Waits(i)
    BY <1>1, <2>4 DEF ListInv, TookSent, Took, Begun, Past, Unsent, Waits
  <2>6. /\ ListInv' /\ Steady
        /\ \E ps \in Seq(Packets) : Queue(ps) /\ \A k \in DOMAIN ps : Starts(ps[k])
    BY <1>1, <2>3, <2>4, <2>5, RemovedList
  <2>7. PICK ps \in Seq(Packets) : Queue(ps) /\ \A k \in DOMAIN ps : Starts(ps[k])
    BY <2>6
  <2>8. ASSUME NEW p, Starts(p) PROVE UpFits(p)' /\ (Twice(p) => ~Released(p.id)) /\ p.t # "PUBREL"
    BY <2>8 DEF Starts, UpFits, Twice
  <2>9. Fresh(ps)
    BY <2>7, <2>8 DEF Fresh, Ordered, In
  <2>10. PipeStep
    BY <1>1, <2>7, <2>9, PipeQueued
  <2>11. ClientInv'
    BY <1>1, <1>4, <2>6, <2>10, ReadKept
  <2> QED BY <2>1, <2>3, <2>4, <2>11
<1>7. ASSUME S # {} PROVE \E i \in DOMAIN out_messages : out_messages[i].mid = in_packet.mid
  BY <1>7 DEF IndexOf
<1>8. CASE S # {}
  BY <1>1, <1>6, <1>7, <1>8
<1>9. S = {} => announced' = announced
  BY DEF HandlePubackcomp
<1> QED BY <1>1, <1>5, <1>8, <1>9

(* PUBREC: the message is released with a PUBREL.                           *)
LEMMA PubrecStep ==
  ASSUME ClientInv, HandlePubrec
  PROVE  ClientInv'
<1> DEFINE types == {"PUBREC"}
<1>1. /\ ListInv /\ FlowInv /\ InInv /\ Reads(types) /\ up' = up
      /\ UNCHANGED <<in_messages, arrived>> /\ UNCHANGED <<last_mid, accepted, received>>
      /\ UNCHANGED <<inflight_messages, announced>>
      /\ Queue(<<Cmd("PUBREL", in_packet.mid)>>)
  BY DEF ClientInv, HandlePubrec, Reads
<1>2. in_packet \in Packets /\ DownFits(in_packet) /\ in_packet.t \in types
  <2> HIDE DEF types
  <2> QED BY <1>1, ReadsFit
<1>3. ASSUME NEW b, b = in_packet.mid
      PROVE  Took(b) /\ b \in Nat /\ ListInv' /\ Steady /\ Took(b)' /\ Released(b)'
  <2>1. Took(b) /\ b \in Nat
    BY <1>2, <1>3 DEF DownFits, Packets
  <2>2. Begun(b)
    BY <1>1, <2>1 DEF ListInv, TookSent, Took
  <2>3. LET S == IndexOf(out_messages, b)
        IN  out_messages' = IF S = {} THEN out_messages
                            ELSE [out_messages EXCEPT ![Min(S)].state = "wait_for_pubcomp"]
    BY <1>3 DEF HandlePubrec
  <2>4. ListInv' /\ Steady /\ Released(b)'
    BY <1>1, <2>1, <2>2, <2>3, PubrecList
  <2> QED BY <2>1, <2>4 DEF Steady
<1>4. /\ InSteady /\ arrived' \in Seq(Nat) /\ in_messages' \in Seq([id: Nat, mid: Nat])
      /\ \A m : In(in_messages', m) => m.id = m.mid
  BY <1>1, SameIn
<1> HIDE DEF types
<1>5. ASSUME NEW b, b = in_packet.mid PROVE Fresh(<<Cmd("PUBREL", b)>>)
  <2> DEFINE t == "PUBREL"
  <2>1. /\ t \in PacketTypes \ {"PUBLISH"} /\ t = "PUBREL"
        /\ t \notin {"PUBACK", "PUBCOMP"} /\ t # "PUBREC"
    BY DEF PacketTypes
  <2>2. b \in Nat /\ Took(b)' /\ Released(b)'
    BY <1>3, <1>5
  <2> HIDE DEF t
  <2>3. Fresh(<<Cmd(t, b)>>)
    BY <2>1, <2>2, AnswerFresh
  <2> QED BY <2>3 DEF t
<1>6. PipeStep
  <2>1. Fresh(<<Cmd("PUBREL", in_packet.mid)>>)
    BY <1>5
  <2> QED BY <1>1, <2>1, PipeQueued
<1>7. ListInv' /\ Steady
  BY <1>3
<1> QED BY <1>1, <1>4, <1>6, <1>7, ReadKept

(* PUBLISH from the broker: the message reaches the application, or is kept *)
(* until it is released.                                                    *)
LEMMA HandlePublishStep ==
  ASSUME ClientInv, HandlePublish
  PROVE  ClientInv'
<1> DEFINE types == {"PUBLISH"}
           InMessage == [id: Nat, mid: Nat]
<1>1. /\ ListInv /\ FlowInv /\ InInv /\ Reads(types) /\ up' = up
      /\ UNCHANGED <<out_messages, inflight_messages, announced>> /\ UNCHANGED <<last_mid, accepted, received>>
  BY DEF ClientInv, HandlePublish, Reads
<1>2. in_packet \in Packets /\ DownFits(in_packet) /\ in_packet.t \in types
  <2> HIDE DEF types
  <2> QED BY <1>1, ReadsFit
<1>3. in_packet.t = "PUBLISH"
  BY <1>2
<1> HIDE DEF types
<1>4. ListInv' /\ Steady
  BY <1>1, SameList
<1>5. arrived \in Seq(Nat) /\ in_messages \in Seq(InMessage) /\ \A m : In(in_messages, m) => m.id = m.mid
  BY <1>1 DEF InInv
<1>6. ASSUME NEW b, b = in_packet.mid
      PROVE  /\ ClientInv'
  <2>1. in_packet.id = b /\ b \in Nat
    BY <1>2, <1>3, <1>6 DEF DownFits, Packets
  <2>2. CASE in_packet.qos = 1
    <3>1. Queue(<<Cmd("PUBACK", b)>>) /\ arrived' = Append(arrived, b) /\ UNCHANGED in_messages
      BY <1>6, <2>1, <2>2 DEF HandlePublish
    <3>2. arrived' \in Seq(Nat) /\ \A x : In(arrived', x) <=> In(arrived, x) \/ x = b
      <4>1. b \in Nat /\ arrived \in Seq(Nat) /\ arrived' = Append(arrived, b)
        BY <1>5, <2>1, <3>1
      <4>2. \A x : In(Append(arrived, b), x) <=> In(arrived, x) \/ x = b
        BY <4>1, InAppend
      <4>3. Append(arrived, b) \in Seq(Nat)
        BY <4>1, AppendProperties
      <4> QED BY <4>1, <4>2, <4>3
    <3>3. InSteady /\ Came(b)'
      BY <3>1, <3>2 DEF InSteady, Came, Got, In
    <3>4. Fresh(<<Cmd("PUBACK", b)>>)
      <4> DEFINE t == "PUBACK"
      <4>1. t \in PacketTypes \ {"PUBLISH"} /\ t # "PUBREL" /\ t # "PUBREC"
        BY DEF PacketTypes
      <4> HIDE DEF t
      <4>2. Fresh(<<Cmd(t, b)>>)
        BY <2>1, <3>3, <4>1, AnswerFresh
      <4> QED BY <4>2 DEF t
    <3>5. PipeStep
      BY <1>1, <3>1, <3>4, PipeQueued
    <3>6. in_messages' \in Seq(InMessage) /\ \A m : In(in_messages', m) => m.id = m.mid
      BY <1>5, <3>1
    <3> QED BY <1>1, <1>4, <3>2, <3>3, <3>5, <3>6, ReadKept
  <2>3. CASE in_packet.qos # 1
    <3> DEFINE x == [id |-> b, mid |-> b]
    <3>1. Queue(<<Cmd("PUBREC", b)>>) /\ in_messages' = Append(in_messages, x) /\ UNCHANGED arrived
      BY <1>6, <2>1, <2>3 DEF HandlePublish
    <3>2. x \in InMessage /\ x.id = b /\ x.mid = b
      BY <2>1
    <3> HIDE DEF x
    <3>3. in_messages' \in Seq(InMessage) /\ \A m : In(in_messages', m) <=> In(in_messages, m) \/ m = x
      <4> HIDE DEF InMessage
      <4> QED BY <1>5, <3>1, <3>2, InAppend, AppendProperties
    <3>4. InSteady /\ Got(b)'
      BY <3>1, <3>2, <3>3 DEF InSteady, Came, Got, In
    <3>5. Fresh(<<Cmd("PUBREC", b)>>)
      <4> DEFINE t == "PUBREC"
      <4>1. t \in PacketTypes \ {"PUBLISH"} /\ t # "PUBREL" /\ t \notin {"PUBACK", "PUBCOMP"}
        BY DEF PacketTypes
      <4> HIDE DEF t
      <4>2. Fresh(<<Cmd(t, b)>>)
        BY <2>1, <3>4, <4>1, AnswerFresh
      <4> QED BY <4>2 DEF t
    <3>6. PipeStep
      BY <1>1, <3>1, <3>5, PipeQueued
    <3>7. arrived' \in Seq(Nat) /\ \A m : In(in_messages', m) => m.id = m.mid
      BY <1>5, <3>1, <3>2, <3>3
    <3> QED BY <1>1, <1>4, <3>3, <3>4, <3>6, <3>7, ReadKept
  <2> QED BY <2>2, <2>3
<1> QED BY <1>6

(* PUBREL from the broker: a kept message reaches the application.          *)
LEMMA HandlePubrelStep ==
  ASSUME ClientInv, HandlePubrel
  PROVE  ClientInv'
<1> DEFINE types == {"PUBREL"}
           InMessage == [id: Nat, mid: Nat]
           S == IndexOf(in_messages, in_packet.mid)
<1>1. /\ ListInv /\ FlowInv /\ InInv /\ Reads(types) /\ up' = up
      /\ UNCHANGED <<out_messages, inflight_messages, announced>> /\ UNCHANGED <<last_mid, accepted, received>>
      /\ Queue(<<Cmd("PUBCOMP", in_packet.mid)>>)
  BY DEF ClientInv, HandlePubrel, Reads
<1>2. in_packet \in Packets /\ DownFits(in_packet) /\ in_packet.t \in types
  <2> HIDE DEF types
  <2> QED BY <1>1, ReadsFit
<1>3. Got(in_packet.mid)
  BY <1>2 DEF DownFits
<1> HIDE DEF types
<1>4. ListInv' /\ Steady
  BY <1>1, SameList
<1>5. arrived \in Seq(Nat) /\ in_messages \in Seq(InMessage) /\ \A m : In(in_messages, m) => m.id = m.mid
  BY <1>1 DEF InInv
<1>6. ASSUME InSteady, NEW b, b = in_packet.mid, Came(b)', arrived' \in Seq(Nat), in_messages' \in Seq(InMessage),
             \A m : In(in_messages', m) => m.id = m.mid
      PROVE  ClientInv'
  <2>1. b \in Nat /\ Queue(<<Cmd("PUBCOMP", b)>>)
    BY <1>1, <1>2, <1>6 DEF Packets
  <2>2. Fresh(<<Cmd("PUBCOMP", b)>>)
    <3> DEFINE t == "PUBCOMP"
    <3>1. t \in PacketTypes \ {"PUBLISH"} /\ t # "PUBREL" /\ t # "PUBREC"
      BY DEF PacketTypes
    <3> HIDE DEF t
    <3>2. Fresh(<<Cmd(t, b)>>)
      BY <1>6, <2>1, <3>1, AnswerFresh
    <3> QED BY <3>2 DEF t
  <2>3. PipeStep
    BY <1>1, <2>1, <2>2, PipeQueued
  <2> QED BY <1>1, <1>4, <1>6, <2>3, ReadKept
<1>7. CASE S = {}
  <2>1. UNCHANGED <<in_messages, arrived>>
    BY <1>7 DEF HandlePubrel
  <2>2. Came(in_packet.mid)
    BY <1>3, <1>5, <1>7 DEF Got, In, IndexOf
  <2>3. InSteady
    BY <1>1, <2>1, SameIn
  <2>4. ASSUME NEW b, b = in_packet.mid PROVE Came(b)'
    BY <2>2, <2>3, <2>4 DEF InSteady
  <2> QED BY <1>5, <1>6, <2>1, <2>3, <2>4
<1>8. CASE S # {}
  <2> DEFINE i == Min(S)
             n == Len(in_messages)
  <2>1. i \in S
    <3>1. n \in Nat /\ S \in SUBSET (1..n)
      BY <1>5 DEF IndexOf
    <3> HIDE DEF S, n
    <3> QED BY <1>8, <3>1, MinIn
  <2>2. i \in DOMAIN in_messages /\ in_messages[i].mid = in_packet.mid
    BY <2>1 DEF IndexOf
  <2>3. in_messages' = RemoveAt(in_messages, i) /\ arrived' = Append(arrived, in_messages[i].id)
    BY <1>8 DEF HandlePubrel
  <2> HIDE DEF i, S
  <2>4. /\ in_messages' \in Seq(InMessage)
        /\ \A m : In(in_messages', m) => In(in_messages, m)
        /\ \A m : In(in_messages, m) => In(in_messages', m) \/ m = in_messages[i]
    <3> HIDE DEF InMessage
    <3> QED BY <1>5, <2>2, <2>3, InRemoved
  <2>5. In(in_messages, in_messages[i]) /\ in_messages[i].id = in_packet.mid /\ in_packet.mid \in Nat
    <3>1. In(in_messages, in_messages[i])
      BY <2>2 DEF In
    <3> QED BY <1>2, <1>5, <2>2, <3>1 DEF Packets
  <2>6. arrived' \in Seq(Nat) /\ \A x : In(arrived', x) <=> In(arrived, x) \/ x = in_packet.mid
    <3> DEFINE b == in_packet.mid
    <3>1. b \in Nat /\ arrived' = Append(arrived, b)
      BY <2>3, <2>5
    <3> HIDE DEF b
    <3>2. arrived' \in Seq(Nat) /\ \A x : In(arrived', x) <=> In(arrived, x) \/ x = b
      BY <1>5, <3>1, InAppend, AppendProperties
    <3> QED BY <3>2 DEF b
  <2>7. InSteady
    <3>1. ASSUME NEW b, Came(b) PROVE Came(b)'
      BY <2>6, <3>1 DEF Came, In
    <3>2. ASSUME NEW b, NEW m, In(in_messages, m), m.id = b PROVE Got(b)'
      <4>1. CASE In(in_messages', m)
        BY <3>2, <4>1 DEF Got, In
      <4>2. CASE m = in_messages[i]
        BY <2>5, <2>6, <3>2, <4>2 DEF Got, Came, In
      <4> QED BY <2>4, <3>2, <4>1, <4>2
    <3>3. ASSUME NEW b, Came(b)' PROVE Got(b)'
      BY <3>3 DEF Got
    <3> QED BY <3>1, <3>2, <3>3 DEF InSteady, Got
  <2>8. ASSUME NEW b, b = in_packet.mid PROVE Came(b)'
    BY <2>6, <2>8 DEF Came, In
  <2>9. \A m : In(in_messages', m) => m.id = m.mid
    BY <1>5, <2>4
  <2> QED BY <1>6, <2>4, <2>6, <2>7, <2>8, <2>9
<1> QED BY <1>7, <1>8

(* The steps that read nothing.                                             *)
LEMMA WriteStep ==
  ASSUME ClientInv, Write
  PROVE  ClientInv'
<1>1. FlowInv /\ UNCHANGED <<down, pending, peer, own_thread>> /\ PipeStep
  <2>1. FlowInv
    BY DEF ClientInv
  <2> QED BY <2>1, PipeWritten DEF Write
<1>2. /\ down' \in Seq(Packets) /\ (\A p : In(down', p) => In(down, p)) /\ peer' = peer /\ peer' \in Peer
      /\ pending' = pending /\ pending' \in Seq(Pending) /\ (~own_thread => pending' = <<>>)
  BY <1>1 DEF ClientInv, FlowInv, InInv, ExactInv
<1>3. \A w : In(pending', w) => \E v : In(pending, v) /\ v.packet = w.packet
  BY <1>2
<1> QED BY <1>1, <1>2, <1>3, MoveStep DEF Write

(* The steps of the loop between two connections, but for the reset.        *)
LEMMA ConnectSteps ==
  ASSUME ClientInv, LoopError \/ DropPackets \/ SocketConnect \/ SocketFails \/ Lose
  PROVE  ClientInv'
<1>1. FlowInv /\ InInv /\ ExactInv
  BY DEF ClientInv
<1>2. /\ pending' = pending /\ peer' \in Peer /\ peer'.out = peer.out /\ peer'.stored = peer.stored
      /\ peer'.last_mid = peer.last_mid
  <2>1. CASE UNCHANGED <<pending, peer>>
    BY <1>1, <2>1 DEF InInv
  <2>2. CASE Lose
    BY <1>1, <2>2 DEF Lose, lib, InInv, Peer
  <2> QED BY <2>1, <2>2 DEF LoopError, DropPackets, SocketConnect, SocketFails
<1>3. pending' \in Seq(Pending) /\ (~own_thread => pending' = <<>>)
  BY <1>1, <1>2 DEF FlowInv, ExactInv
<1>4. \A w : In(pending', w) => \E v : In(pending, v) /\ v.packet = w.packet
  BY <1>2
<1>5. PipeStep
  <2>1. CASE UNCHANGED <<up, out_packet>>
    BY <1>1, <2>1, PipeSame
  <2>2. CASE DropPackets
    BY <1>1, <2>2, PipeDropped DEF DropPackets, net
  <2>3. CASE Lose
    BY <1>1, <2>3, PipeHangup DEF Lose, Hangup, lib
  <2> QED BY <2>1, <2>2, <2>3 DEF LoopError, SocketConnect, SocketFails, net
<1>6. down' \in Seq(Packets) /\ \A p : In(down', p) => In(down, p)
  <2>1. CASE down' = down
    BY <1>1, <2>1 DEF FlowInv
  <2>2. CASE Lose
    BY <2>2 DEF Lose, Hangup, In
  <2> QED BY <2>1, <2>2 DEF LoopError, DropPackets, SocketConnect, SocketFails, net
<1>7. UNCHANGED <<out_messages, in_messages, inflight_messages, last_mid, own_thread, outcome, inward>>
  BY DEF LoopError, DropPackets, SocketConnect, SocketFails, Lose, lib
<1> QED BY <1>2, <1>3, <1>4, <1>5, <1>6, <1>7, MoveStep

(* The CONNECT on a new connection.                                         *)
LEMMA SendConnectStep ==
  ASSUME ClientInv, SendConnect
  PROVE  ClientInv'
<1>1. FlowInv /\ InInv /\ ExactInv /\ UNCHANGED <<up, down, pending, peer>> /\ Queue(<<Cmd("CONNECT", 0)>>)
  BY DEF ClientInv, SendConnect, net
<1>2. Fresh(<<Cmd("CONNECT", 0)>>)
  <2> DEFINE t == "CONNECT"
             z == 0
  <2>1. /\ t \in PacketTypes \ {"PUBLISH"} /\ t # "PUBREL" /\ t # "PUBREC"
        /\ t \notin {"PUBACK", "PUBCOMP"} /\ z \in Nat
    BY DEF PacketTypes
  <2> HIDE DEF t, z
  <2>2. Fresh(<<Cmd(t, z)>>)
    BY <2>1, AnswerFresh
  <2> QED BY <2>2 DEF t, z
<1>3. PipeStep
  BY <1>1, <1>2, PipeQueued
<1>4. /\ down' \in Seq(Packets) /\ (\A p : In(down', p) => In(down, p)) /\ peer' = peer /\ peer' \in Peer
      /\ pending' = pending /\ pending' \in Seq(Pending) /\ (~own_thread => pending' = <<>>)
  BY <1>1 DEF FlowInv, InInv, ExactInv
<1>5. \A w : In(pending', w) => \E v : In(pending, v) /\ v.packet = w.packet
  BY <1>4
<1> QED BY <1>3, <1>4, <1>5, MoveStep DEF SendConnect

(* message__reconnect_reset: the states go back, and the window is counted  *)
(* again.                                                                   *)
LEMMA ReconnectResetStep ==
  ASSUME ClientInv, ReconnectReset
  PROVE  ClientInv'
<1>1. /\ ListInv /\ FlowInv /\ InInv /\ ExactInv /\ UNCHANGED <<up, down, out_packet, pending, peer, own_thread>>
      /\ UNCHANGED <<accepted, received, announced, last_mid, sent, in_messages, arrived>>
  BY DEF ClientInv, ReconnectReset, net, outcome, inward
<1>2. ListInv' /\ Steady
  BY <1>1, ResetList DEF ReconnectReset
<1>3. /\ InSteady /\ arrived' \in Seq(Nat) /\ in_messages' \in Seq([id: Nat, mid: Nat])
      /\ \A m : In(in_messages', m) => m.id = m.mid
  BY <1>1, SameIn
<1>4. PipeStep
  BY <1>1, PipeSame
<1>5. /\ down' \in Seq(Packets) /\ (\A p : In(down', p) => In(down, p)) /\ peer' = peer /\ peer' \in Peer
      /\ pending' = pending /\ pending' \in Seq(Pending) /\ (~own_thread => pending' = <<>>)
  BY <1>1 DEF FlowInv, InInv, ExactInv
<1>6. \A w : In(pending', w) => \E v : In(pending, v) /\ v.packet = w.packet
  BY <1>5
<1> QED BY <1>1, <1>2, <1>3, <1>4, <1>5, <1>6, StepKept

-----------------------------------------------------------------------------
(* The steps of the broker.                                                 *)

(* What is queued behind the packet that is read.                           *)
LEMMA PipeBehind ==
  ASSUME FlowInv, up # <<>>
  PROVE  /\ Head(up) \in Packets /\ UpFits(Head(up)) /\ In(Pipe, Head(up))
         /\ \A q : In(Tail(up) \o out_packet, q) =>
              In(Pipe, q) /\ (Ordered(Pipe) /\ Head(up).t = "PUBREL" /\ Twice(q) => Head(up).mid # q.id)
<1> DEFINE h == Head(up)
           s == <<Head(up)>>
           t == Tail(up) \o out_packet
           n == Len(t)
<1>1. up \in Seq(Packets) /\ out_packet \in Seq(Packets)
  BY DEF FlowInv
<1>2. h \in Packets /\ Tail(up) \in Seq(Packets) /\ In(up, h)
  BY <1>1, InTail
<1>3. s \in Seq(Packets) /\ t \in Seq(Packets) /\ Len(s) = 1 /\ s[1] = h
  BY <1>1, <1>2, ConcatProperties
<1>4. up = s \o Tail(up)
  BY <1>1, HeadTailProperties
<1>5. Pipe = s \o t
  <2> DEFINE u == Tail(up)
  <2>1. u \in Seq(Packets) /\ s \in Seq(Packets) /\ up = s \o u
    BY <1>2, <1>3, <1>4
  <2> HIDE DEF s, u
  <2>2. (s \o u) \o out_packet = s \o (u \o out_packet)
    BY <1>1, <2>1, ConcatAssociative
  <2> QED BY <2>1, <2>2 DEF Pipe, u
<1>6. In(Pipe, h) /\ UpFits(h)
  BY <1>1, <1>2, InConcat DEF Pipe, FlowInv
<1>7. n \in Nat /\ DOMAIN t = 1..n
  BY <1>3
<1> HIDE DEF h, s, t, n
<1>8. /\ s \o t \in Seq(Packets) /\ Len(s \o t) = 1 + n
      /\ \A k \in 1..(1 + n) : (s \o t)[k] = IF k <= 1 THEN s[k] ELSE t[k - 1]
  <2>1. /\ s \o t \in Seq(Packets) /\ Len(s \o t) = Len(s) + Len(t)
        /\ \A k \in 1..(Len(s) + Len(t)) : (s \o t)[k] = IF k <= Len(s) THEN s[k] ELSE t[k - Len(s)]
    BY <1>3, ConcatProperties
  <2> QED BY <1>3, <2>1 DEF n
<1>9. DOMAIN Pipe = 1..(1 + n) /\ Pipe[1] = h /\ \A k \in 1..n : Pipe[k + 1] = t[k]
  <2>1. DOMAIN (s \o t) = 1..(1 + n)
    BY <1>7, <1>8
  <2>2. (s \o t)[1] = h
    BY <1>3, <1>7, <1>8
  <2>3. ASSUME NEW k \in 1..n PROVE (s \o t)[k + 1] = t[k]
    <3>1. k + 1 \in 1..(1 + n) /\ ~(k + 1 <= 1) /\ (k + 1) - 1 = k
      BY <1>7
    <3> QED BY <1>8, <3>1
  <2> QED BY <1>5, <2>1, <2>2, <2>3
<1> HIDE DEF Pipe
<1>10. ASSUME NEW q, In(t, q)
       PROVE  In(Pipe, q) /\ (Ordered(Pipe) /\ h.t = "PUBREL" /\ Twice(q) => h.mid # q.id)
  <2>1. PICK k \in 1..n : t[k] = q
    BY <1>7, <1>10 DEF In
  <2>2. k + 1 \in DOMAIN Pipe /\ 1 \in DOMAIN Pipe /\ 1 < k + 1 /\ Pipe[k + 1] = q
    BY <1>7, <1>9, <2>1
  <2> QED BY <1>9, <2>2 DEF In, Ordered
<1> QED BY <1>2, <1>6, <1>10 DEF h, t

(* A new message of the broker.                                             *)
LEMMA PeerSendsStep ==
  ASSUME NoWrap, ClientInv, NEW qos \in InQoS, PeerSends(qos)
  PROVE  ClientInv' /\ UNCHANGED <<own_thread, outcome>>
<1> SUFFICES ASSUME NEW n, n = Len(sent) + 1, NEW m,
                    m = [id |-> n, mid |-> n, qos |-> qos, released |-> FALSE]
             PROVE  ClientInv' /\ UNCHANGED <<own_thread, outcome>>
  OBVIOUS
<1>1. ListInv /\ FlowInv /\ InInv /\ ExactInv /\ qos \in {1, 2} /\ n \in Nat /\ sent \in Seq({1, 2})
  BY ClientAssumption DEF ClientInv, InInv
<1>2. (peer.last_mid % PeerMids) + 1 = n
  <2> DEFINE k == Len(sent)
  <2>1. k \in Nat /\ peer.last_mid = k /\ k < MaxSent /\ MaxSent \in Nat /\ MaxSent <= PeerMids /\ PeerMids \in Nat \ {0}
    BY <1>1, ClientAssumption DEF InInv, PeerSends, NoWrap
  <2>2. n = k + 1
    OBVIOUS
  <2> HIDE DEF k
  <2>3. k < PeerMids
    BY <2>1
  <2>4. k % PeerMids = k
    BY <2>1, <2>3, NextMidIs
  <2> QED BY <2>1, <2>2, <2>4
<1>3. /\ peer' = [peer EXCEPT !.last_mid = n, !.out = Append(@, m)]
      /\ down' = Append(down, Forward(m)) /\ sent' = Append(sent, qos) /\ Len(sent) < MaxSent
      /\ UNCHANGED <<up, out_packet, pending, own_thread, in_messages, arrived>>
      /\ UNCHANGED <<out_messages, accepted, received, announced, last_mid, inflight_messages>>
  BY <1>2 DEF PeerSends, lib, outcome
<1>4. m \in OutMessage /\ m.id = n /\ m.mid = n /\ ~m.released
  BY <1>1 DEF OutMessage
<1>5. ListInv' /\ Steady
  BY <1>1, <1>3, SameList
<1>6. /\ InSteady /\ arrived' \in Seq(Nat) /\ in_messages' \in Seq([id: Nat, mid: Nat])
      /\ \A x : In(in_messages', x) => x.id = x.mid
  BY <1>1, <1>3, SameIn
<1>7. PipeStep
  BY <1>1, <1>3, PipeSame
<1>8. down' \in Seq(Packets) /\ \A p : In(down', p) => In(down, p) \/ DownFits(p)'
  <2>1. ASSUME NEW f, f = Forward(m) PROVE down' \in Seq(Packets) /\ \A p : In(down', p) => In(down, p) \/ DownFits(p)'
    <3>1. f.t = "PUBLISH" /\ f.mid = n /\ f.id = n /\ f \in Packets
      BY <1>1, <1>4, <2>1 DEF Forward, Packet, Packets, PacketTypes
    <3>2. DownFits(f)'
      BY <3>1 DEF DownFits
    <3>3. down \in Seq(Packets) /\ down' = Append(down, f)
      BY <1>1, <1>3, <2>1 DEF FlowInv
    <3>4. down' \in Seq(Packets) /\ \A p : In(down', p) <=> In(down, p) \/ p = f
      BY <3>1, <3>3, InAppend, AppendProperties
    <3>5. ASSUME NEW p, In(down', p) PROVE In(down, p) \/ DownFits(p)'
      <4>1. CASE p = f
        BY <3>2, <4>1
      <4>2. CASE p # f
        BY <3>4, <3>5, <4>2
      <4> QED BY <4>1, <4>2
    <3> QED BY <3>4, <3>5
  <2> QED BY <2>1
<1>9. /\ pending' = pending /\ pending' \in Seq(Pending) /\ (~own_thread => pending' = <<>>)
      /\ \A w : In(pending', w) => \E v : In(pending, v) /\ v.packet = w.packet
  BY <1>1, <1>3 DEF FlowInv, ExactInv
<1>10. FlowInv'
  BY <1>1, <1>5, <1>6, <1>7, <1>8, <1>9, FlowKept
<1>11. peer \in Peer /\ peer.out \in Seq(OutMessage)
  BY <1>1 DEF InInv, Peer
<1>12. /\ Append(peer.out, m) \in Seq(OutMessage)
       /\ \A x : In(Append(peer.out, m), x) <=> In(peer.out, x) \/ x = m
  <2> DEFINE s == peer.out
  <2>1. s \in Seq(OutMessage)
    BY <1>11
  <2> HIDE DEF s
  <2>2. ASSUME NEW y \in OutMessage PROVE \A x : In(Append(s, y), x) <=> In(s, x) \/ x = y
    BY <2>1, InAppend
  <2>3. Append(s, m) \in Seq(OutMessage)
    BY <1>4, <2>1, AppendProperties
  <2> QED BY <1>4, <2>2, <2>3 DEF s
<1>13. /\ peer' \in Peer /\ peer'.stored = peer.stored /\ peer'.last_mid = n
       /\ \A x : In(peer'.out, x) <=> In(peer.out, x) \/ x = m
  BY <1>1, <1>3, <1>11, <1>12 DEF Peer
<1>14. ExactInv'
  BY <1>1, <1>3, <1>5, <1>7, <1>9, <1>13, ExactKept
<1>15. /\ sent' \in Seq({1, 2}) /\ Len(sent') = n /\ DOMAIN sent = 1..(n - 1) /\ DOMAIN sent' = 1..n
  <2>1. sent' \in Seq({1, 2}) /\ Len(sent') = Len(sent) + 1
    BY <1>1, <1>3, AppendProperties
  <2> QED BY <1>1, <2>1
<1>16. \A b : (Came(b) => Came(b)') /\ (Got(b) => Got(b)') /\ (Took(b) => Took(b)')
  BY <1>5, <1>6 DEF Steady, InSteady
<1>17. ASSUME NEW x, In(peer'.out, x) PROVE x.mid = x.id /\ (x.released => Got(x.id)')
  <2>1. CASE x = m
    BY <1>4, <2>1
  <2>2. CASE In(peer.out, x)
    BY <1>1, <1>16, <2>2 DEF InInv
  <2> QED BY <1>13, <1>17, <2>1, <2>2
<1>18. ASSUME NEW b \in 1..n PROVE Came(b)' \/ \E x : In(peer'.out, x) /\ x.id = b
  <2>1. CASE b = n
    BY <1>4, <1>13, <2>1
  <2>2. CASE b # n
    <3>1. b \in DOMAIN sent
      BY <1>1, <1>15, <2>2
    <3> QED BY <1>1, <1>13, <1>16, <3>1 DEF InInv
  <2> QED BY <2>1, <2>2
<1>19. \A b \in peer'.stored : Took(b)'
  BY <1>1, <1>13, <1>16 DEF InInv
<1>20. n <= MaxSent
  BY <1>1, <1>3, ClientAssumption
<1>21. InInv'
  BY <1>6, <1>13, <1>15, <1>17, <1>18, <1>19, <1>20 DEF InInv, In
<1> QED BY <1>3, <1>5, <1>10, <1>14, <1>21 DEF ClientInv, outcome

(* The broker accepts a connection, and sends what it still holds.          *)
LEMMA PeerConnectStep ==
  ASSUME ClientInv, up # <<>>, up' = Tail(up), peer' = [peer EXCEPT !.connected = TRUE],
         down' = <<Cmd("CONNACK", 0)>> \o [i \in DOMAIN peer.out |-> Forward(peer.out[i])],
         received' = received, UNCHANGED <<lib, own_thread, accepted, announced, inward>>
  PROVE  ClientInv'
<1>1. ListInv /\ FlowInv /\ InInv /\ ExactInv
  BY DEF ClientInv
<1>2. UNCHANGED <<out_messages, in_messages, inflight_messages, last_mid, out_packet, pending, sent, arrived>>
  BY DEF lib, inward
<1>3. ListInv' /\ Steady
  BY <1>1, <1>2, SameList
<1>4. /\ InSteady /\ arrived' \in Seq(Nat) /\ in_messages' \in Seq([id: Nat, mid: Nat])
      /\ \A m : In(in_messages', m) => m.id = m.mid
  BY <1>1, <1>2, SameIn
<1>5. PipeStep
  BY <1>1, <1>2, PipeRead
<1>6. /\ peer' \in Peer /\ peer'.out = peer.out /\ peer'.stored = peer.stored
      /\ peer'.last_mid = peer.last_mid
  BY <1>1 DEF InInv, Peer
<1>7. /\ pending' = pending /\ pending' \in Seq(Pending) /\ (~own_thread => pending' = <<>>)
      /\ \A w : In(pending', w) => \E v : In(pending, v) /\ v.packet = w.packet
  BY <1>1, <1>2 DEF FlowInv, ExactInv
<1> DEFINE o == peer.out
           n == Len(o)
           a == <<Cmd("CONNACK", 0)>>
           s == [i \in DOMAIN o |-> Forward(o[i])]
<1>8. o \in Seq(OutMessage) /\ n \in Nat /\ DOMAIN o = 1..n
  BY <1>1 DEF InInv, Peer
<1>9. ASSUME NEW i \in 1..n, NEW f, f = Forward(o[i]) PROVE f \in Packets /\ DownFits(f)'
  <2>1. o[i] \in OutMessage /\ In(o, o[i])
    BY <1>8, ElementOfSeq DEF In
  <2>2. o[i].mid = o[i].id /\ (o[i].released => Got(o[i].id))
    BY <1>1, <2>1 DEF InInv
  <2>3. f.t \in {"PUBREL", "PUBLISH"} /\ f \in Packets
    BY <1>9, <2>1 DEF Forward, Cmd, Packet, Packets, PacketTypes, OutMessage
  <2>4. f.t = "PUBREL" => Got(f.mid)
    BY <1>9, <2>2 DEF Forward, Cmd, Packet
  <2>5. f.t = "PUBLISH" => f.id = f.mid
    BY <1>9, <2>2 DEF Forward, Cmd, Packet
  <2>6. DownFits(f)
    BY <2>3, <2>4, <2>5 DEF DownFits
  <2> QED BY <1>3, <1>4, <2>3, <2>6, FitsStay
<1>10. s \in Seq(Packets) /\ \A p : In(s, p) => DownFits(p)'
  <2>1. DOMAIN s = 1..n /\ s = [i \in 1..n |-> s[i]] /\ \A i \in 1..n : s[i] = Forward(o[i])
    BY <1>8
  <2> HIDE DEF s, o, n
  <2>2. s \in [1..n -> Packets]
    BY <1>9, <2>1
  <2>3. s \in Seq(Packets)
    BY <1>8, <2>1, <2>2, IsASeq
  <2>4. ASSUME NEW p, In(s, p) PROVE DownFits(p)'
    <3>1. PICK i \in 1..n : p = Forward(o[i])
      BY <2>1, <2>4 DEF In
    <3> QED BY <1>9, <3>1
  <2> QED BY <2>3, <2>4
<1>11. a \in Seq(Packets) /\ \A p : In(a, p) => DownFits(p)'
  <2> DEFINE c == Cmd("CONNACK", 0)
  <2>1. c \in Packets /\ c.t = "CONNACK"
    BY DEF Cmd, Packet, Packets, PacketTypes
  <2>2. a = <<c>>
    OBVIOUS
  <2> HIDE DEF c, a
  <2>3. a \in Seq(Packets) /\ \A p : In(a, p) => p = c
    BY <2>1, <2>2 DEF In
  <2>4. ASSUME NEW p, In(a, p) PROVE DownFits(p)'
    <3>1. p.t = "CONNACK"
      BY <2>1, <2>3, <2>4
    <3> QED BY <3>1 DEF DownFits
  <2> QED BY <2>3, <2>4
<1>12. down' = a \o s
  OBVIOUS
<1> HIDE DEF a, s, o, n
<1>13. down' \in Seq(Packets)
  BY <1>10, <1>11, <1>12, ConcatProperties
<1>14. \A p : In(down', p) <=> In(a, p) \/ In(s, p)
  <2>1. a \in Seq(Packets) /\ s \in Seq(Packets)
    BY <1>10, <1>11
  <2>2. \A p : In(a \o s, p) <=> In(a, p) \/ In(s, p)
    BY <2>1, InConcat
  <2> QED BY <1>12, <2>2
<1>15. \A p : In(down', p) => In(down, p) \/ DownFits(p)'
  BY <1>10, <1>11, <1>14
<1> QED BY <1>2, <1>3, <1>4, <1>5, <1>6, <1>7, <1>13, <1>15, StepKept

(* The broker ends a connection that does not follow the protocol.          *)
LEMMA PeerRefuseStep ==
  ASSUME ClientInv, Hangup, peer' = [peer EXCEPT !.connected = FALSE],
         received' = received, UNCHANGED <<lib, own_thread, accepted, announced, inward>>
  PROVE  ClientInv'
<1>1. FlowInv /\ InInv /\ ExactInv /\ UNCHANGED <<out_packet, pending>>
  BY DEF ClientInv, lib
<1>2. PipeStep
  BY <1>1, PipeHangup DEF Hangup
<1>3. /\ peer' \in Peer /\ peer'.out = peer.out /\ peer'.stored = peer.stored
      /\ peer'.last_mid = peer.last_mid
  BY <1>1 DEF InInv, Peer
<1>4. /\ pending' = pending /\ pending' \in Seq(Pending) /\ (~own_thread => pending' = <<>>)
      /\ \A w : In(pending', w) => \E v : In(pending, v) /\ v.packet = w.packet
  BY <1>1 DEF FlowInv, ExactInv
<1>5. down' \in Seq(Packets) /\ \A p : In(down', p) => In(down, p)
  BY DEF Hangup, In
<1>6. UNCHANGED <<out_messages, in_messages, inflight_messages, last_mid, own_thread, outcome, inward>>
  BY DEF lib, outcome
<1> QED BY <1>2, <1>3, <1>4, <1>5, <1>6, MoveStep

(* The broker lets go of a message when it has arrived.                     *)
LEMMA HeldIs ==
  ASSUME InInv, NEW p \in Packets, UpFits(p)
  PROVE  /\ Held(p) \in Seq(OutMessage)
         /\ \A m : In(Held(p), m) => m.mid = m.id /\ (m.released => Got(m.id))
         /\ \A m : In(peer.out, m) => Came(m.id) \/ \E x : In(Held(p), x) /\ x.id = m.id
<1> DEFINE o == peer.out
           n == Len(o)
<1>1. /\ o \in Seq(OutMessage) /\ n \in Nat /\ DOMAIN o = 1..n
      /\ \A m : In(o, m) => m.mid = m.id /\ (m.released => Got(m.id))
  BY DEF InInv, Peer
<1>2. CASE p.t \in {"PUBACK", "PUBCOMP"}
  <2> DEFINE S == IndexOf(o, p.mid)
             r == Cleared(o, p.mid)
  <2>1. Held(p) = r /\ Came(p.mid)
    BY <1>2 DEF Held, UpFits
  <2>2. CASE S = {}
    <3>1. r = o
      BY <2>2 DEF Cleared
    <3> HIDE DEF r, S
    <3> QED BY <1>1, <2>1, <3>1
  <2>3. CASE S # {}
    <3> DEFINE i == Min(S)
    <3>1. r = RemoveAt(o, i)
      BY <2>3 DEF Cleared
    <3>2. i \in S
      <4>1. S \in SUBSET (1..n)
        BY <1>1 DEF IndexOf
      <4> HIDE DEF S, o, n
      <4> QED BY <1>1, <2>3, <4>1, MinIn
    <3>3. i \in DOMAIN o /\ o[i].mid = p.mid
      BY <3>2 DEF IndexOf
    <3> HIDE DEF i, S, r, o, n
    <3>4. /\ r \in Seq(OutMessage) /\ (\A m : In(r, m) => In(o, m))
          /\ \A m : In(o, m) => In(r, m) \/ m = o[i]
      BY <1>1, <3>1, <3>3, InRemoved
    <3>5. o[i].id = p.mid
      BY <1>1, <3>3 DEF In
    <3> QED BY <1>1, <2>1, <3>4, <3>5 DEF o
  <2> QED BY <2>2, <2>3
<1>3. CASE p.t = "PUBREC"
  <2> DEFINE re(i) == [o[i] EXCEPT !.released = o[i].released \/ o[i].mid = p.mid]
             r == [i \in 1..n |-> re(i)]
  <2>1. Held(p) = r /\ Got(p.mid)
    BY <1>1, <1>3 DEF Held, UpFits
  <2>2. ASSUME NEW i \in 1..n
        PROVE  /\ o[i] \in OutMessage /\ In(o, o[i])
               /\ re(i) \in OutMessage /\ re(i).id = o[i].id /\ re(i).mid = o[i].mid
               /\ re(i).released <=> o[i].released \/ o[i].mid = p.mid
    <3>1. o[i] \in OutMessage /\ In(o, o[i])
      BY <1>1, ElementOfSeq DEF In
    <3> DEFINE y == o[i]
               b == y.released \/ y.mid = p.mid
    <3>2. y \in OutMessage /\ b \in BOOLEAN /\ re(i) = [y EXCEPT !.released = b]
      BY <3>1 DEF OutMessage
    <3> HIDE DEF y, b, re
    <3>3. re(i) \in OutMessage /\ re(i).id = y.id /\ re(i).mid = y.mid /\ re(i).released = b
      BY <3>2 DEF OutMessage
    <3> QED BY <3>1, <3>3 DEF y, b
  <2> HIDE DEF re
  <2>3. r \in Seq(OutMessage) /\ DOMAIN r = 1..n /\ \A i \in 1..n : r[i] = re(i)
    <3>1. r \in [1..n -> OutMessage]
      BY <2>2
    <3> QED BY <1>1, <3>1, IsASeq
  <2> HIDE DEF r, o, n
  <2>4. ASSUME NEW m, In(r, m) PROVE m.mid = m.id /\ (m.released => Got(m.id))
    <3>1. PICK i \in 1..n : m = re(i)
      BY <2>3, <2>4 DEF In
    <3>2. o[i].mid = o[i].id /\ (o[i].released => Got(o[i].id))
      BY <1>1, <2>2
    <3>3. m.id = o[i].id /\ m.mid = o[i].mid /\ (m.released <=> o[i].released \/ o[i].mid = p.mid)
      BY <2>2, <3>1
    <3>4. ASSUME m.released PROVE Got(m.id)
      <4>1. CASE o[i].released
        BY <3>2, <3>3, <4>1
      <4>2. CASE o[i].mid = p.mid
        BY <2>1, <3>2, <3>3, <4>2
      <4> QED BY <3>3, <3>4, <4>1, <4>2
    <3> QED BY <3>2, <3>3, <3>4
  <2>5. ASSUME NEW m, In(o, m) PROVE \E x : In(r, x) /\ x.id = m.id
    <3>1. PICK i \in 1..n : m = o[i]
      BY <1>1, <2>5 DEF In
    <3>2. In(r, re(i)) /\ re(i).id = m.id
      BY <2>2, <2>3, <3>1 DEF In
    <3> QED BY <3>2
  <2> QED BY <2>1, <2>3, <2>4, <2>5 DEF o
<1>4. CASE p.t \notin {"PUBACK", "PUBCOMP", "PUBREC"}
  <2>1. Held(p) = o
    BY <1>4 DEF Held
  <2> QED BY <1>1, <2>1
<1> QED BY <1>2, <1>3, <1>4

(* The broker takes a message, or an acknowledgement.  A message of QoS 2   *)
(* of the callbacks it takes once.                                          *)
LEMMA PeerTakeStep ==
  ASSUME ClientInv, up # <<>>, NEW p, p = Head(up), up' = Tail(up),
         received' = IF IsNew(p) THEN Append(received, p.id) ELSE received,
         peer' = [peer EXCEPT !.stored = Stored(p), !.out = Held(p)],
         down' = IF p.t \in {"PUBLISH", "PUBREC", "PUBREL"} THEN Append(down, Answer(p)) ELSE down,
         UNCHANGED <<lib, own_thread, accepted, announced, inward>>
  PROVE  /\ ClientInv'
         /\ \/ received' = received
            \/ \E b \in DOMAIN accepted :
                 /\ Begun(b) /\ received' = Append(received, b)
                 /\ ~own_thread /\ accepted[b] = 2 => ~Took(b)
<1>1. ListInv /\ FlowInv /\ InInv /\ ExactInv
  BY DEF ClientInv
<1>2. /\ UNCHANGED <<out_messages, in_messages, inflight_messages, last_mid, out_packet, pending, sent, arrived>>
      /\ UNCHANGED <<own_thread, accepted, announced>>
  BY DEF lib, inward
<1>3. p \in Packets /\ UpFits(p) /\ In(Pipe, p)
  BY <1>1, PipeBehind
<1>4. p.mid \in Nat /\ p.id \in Nat
  BY <1>3 DEF Packets
<1>5. ASSUME p.t = "PUBLISH"
      PROVE  /\ p.mid = p.id /\ p.qos = accepted[p.id] /\ Begun(p.id) /\ p.id \in DOMAIN accepted
             /\ p.qos \in {1, 2}
  <2>1. p.mid = p.id /\ p.qos = accepted[p.id] /\ Begun(p.id) /\ p.id \in DOMAIN accepted
    BY <1>3, <1>5 DEF UpFits, Begun, Past
  <2>2. accepted \in Seq({1, 2})
    BY <1>1 DEF ListInv, ListTyped
  <2> QED BY <2>1, <2>2, ElementOfSeq
<1>6. ListInv' /\ Steady /\ \A x : Took(x)' <=> Took(x) \/ (IsNew(p) /\ x = p.id)
  <2>1. CASE IsNew(p)
    <3>1. received' = Append(received, p.id) /\ Begun(p.id)
      BY <1>5, <2>1 DEF IsNew
    <3>2. UNCHANGED <<out_messages, accepted, announced, last_mid, inflight_messages>>
      BY <1>2
    <3>3. ListInv' /\ Steady /\ \A x : Took(x)' <=> Took(x) \/ x = p.id
      BY <1>1, <1>4, <3>1, <3>2, TakenList
    <3> QED BY <2>1, <3>3
  <2>2. CASE ~IsNew(p)
    <3>1. UNCHANGED <<out_messages, accepted, received, announced, last_mid, inflight_messages>>
      BY <1>2, <2>2
    <3>2. ListInv' /\ Steady
      BY <1>1, <3>1, SameList
    <3> QED BY <2>2, <3>1, <3>2 DEF Took
  <2> QED BY <2>1, <2>2
<1>7. /\ InSteady /\ arrived' \in Seq(Nat) /\ in_messages' \in Seq([id: Nat, mid: Nat])
      /\ \A m : In(in_messages', m) => m.id = m.mid
  BY <1>1, <1>2, SameIn
<1>8. PipeStep
  BY <1>1, <1>2, PipeRead
<1>9. /\ pending' = pending /\ pending' \in Seq(Pending) /\ (~own_thread => pending' = <<>>)
      /\ \A w : In(pending', w) => \E v : In(pending, v) /\ v.packet = w.packet
  BY <1>1, <1>2 DEF FlowInv, ExactInv
<1>10. p.t = "PUBLISH" => Took(p.mid)'
  <2>1. ASSUME p.t = "PUBLISH", ~IsNew(p) PROVE Took(p.mid)
    BY <1>1, <2>1 DEF IsNew, InInv
  <2> QED BY <1>5, <1>6, <2>1
<1>11. down' \in Seq(Packets) /\ \A q : In(down', q) => In(down, q) \/ DownFits(q)'
  <2>1. down \in Seq(Packets)
    BY <1>1 DEF FlowInv
  <2>2. CASE p.t \notin {"PUBLISH", "PUBREC", "PUBREL"}
    <3>1. down' = down
      BY <2>2
    <3> QED BY <2>1, <3>1
  <2>3. ASSUME p.t \in {"PUBLISH", "PUBREC", "PUBREL"}, NEW a, a = Answer(p)
        PROVE  down' \in Seq(Packets) /\ \A q : In(down', q) => In(down, q) \/ DownFits(q)'
    <3>1. a \in Packets /\ a.mid = p.mid
      BY <1>4, <2>3 DEF Answer, Cmd, Packet, Packets, PacketTypes
    <3>2. DownFits(a)'
      <4>1. CASE p.t = "PUBLISH"
        <5>1. a.t \in {"PUBACK", "PUBREC"}
          BY <2>3, <4>1 DEF Answer, Cmd, Packet
        <5>2. Took(a.mid)'
          BY <1>10, <3>1, <4>1
        <5> QED BY <5>1, <5>2 DEF DownFits
      <4>2. CASE p.t = "PUBREL"
        <5>1. a.t = "PUBCOMP"
          BY <2>3, <4>2 DEF Answer, Cmd, Packet
        <5>2. Took(a.mid)'
          BY <1>3, <1>6, <3>1, <4>2 DEF UpFits
        <5> QED BY <5>1, <5>2 DEF DownFits
      <4>3. CASE p.t = "PUBREC"
        <5>1. a.t = "PUBREL"
          BY <2>3, <4>3 DEF Answer, Cmd, Packet
        <5>2. Got(a.mid)'
          BY <1>3, <1>7, <3>1, <4>3 DEF UpFits, InSteady
        <5> QED BY <5>1, <5>2 DEF DownFits
      <4> QED BY <2>3, <4>1, <4>2, <4>3
    <3>3. down' = Append(down, a)
      BY <2>3
    <3>4. \A q : In(Append(down, a), q) <=> In(down, q) \/ q = a
      BY <2>1, <3>1, InAppend
    <3>5. Append(down, a) \in Seq(Packets)
      BY <2>1, <3>1, AppendProperties
    <3>6. ASSUME NEW q, In(down', q) PROVE In(down, q) \/ DownFits(q)'
      <4>1. CASE q = a
        BY <3>2, <4>1
      <4>2. CASE q # a
        BY <3>3, <3>4, <3>6, <4>2
      <4> QED BY <4>1, <4>2
    <3> QED BY <3>3, <3>5, <3>6
  <2> QED BY <2>2, <2>3
<1>12. FlowInv'
  BY <1>1, <1>6, <1>7, <1>8, <1>9, <1>11, FlowKept
<1>13. /\ Held(p) \in Seq(OutMessage)
       /\ \A m : In(Held(p), m) => m.mid = m.id /\ (m.released => Got(m.id))
       /\ \A m : In(peer.out, m) => Came(m.id) \/ \E x : In(Held(p), x) /\ x.id = m.id
  BY <1>1, <1>3, HeldIs
<1>14. /\ peer.stored \in SUBSET Nat /\ Stored(p) \in SUBSET Nat
       /\ \A b : b \in Stored(p) => b \in peer.stored \/ (p.t = "PUBLISH" /\ b = p.mid)
  BY <1>1, <1>4 DEF InInv, Peer, Stored
<1>15. /\ peer' \in Peer /\ peer'.stored = Stored(p) /\ peer'.out = Held(p)
       /\ peer'.last_mid = peer.last_mid
  <2> DEFINE S == Stored(p)
             H == Held(p)
  <2>1. /\ S \in SUBSET Nat /\ H \in Seq(OutMessage) /\ peer \in Peer
        /\ peer' = [peer EXCEPT !.stored = S, !.out = H]
    BY <1>1, <1>13, <1>14 DEF InInv
  <2> HIDE DEF S, H
  <2>2. peer' \in Peer /\ peer'.stored = S /\ peer'.out = H /\ peer'.last_mid = peer.last_mid
    BY <2>1 DEF Peer
  <2> QED BY <2>2 DEF S, H
<1>16. \A b : (Came(b) => Came(b)') /\ (Got(b) => Got(b)') /\ (Took(b) => Took(b)')
  BY <1>6, <1>7 DEF Steady, InSteady
<1>17. InInv'
  <2>1. \A m : In(peer'.out, m) => m.mid = m.id /\ (m.released => Got(m.id)')
    BY <1>13, <1>15, <1>16
  <2>2. ASSUME NEW b \in DOMAIN sent PROVE Came(b)' \/ \E m : In(peer'.out, m) /\ m.id = b
    <3>1. Came(b) \/ \E m : In(peer.out, m) /\ m.id = b
      BY <1>1 DEF InInv
    <3> QED BY <1>13, <1>15, <1>16, <3>1
  <2>3. ASSUME NEW b \in peer'.stored PROVE Took(b)'
    <3>1. b \in peer.stored \/ (p.t = "PUBLISH" /\ b = p.mid)
      BY <1>14, <1>15, <2>3
    <3>2. CASE b \in peer.stored
      BY <1>1, <1>16, <3>2 DEF InInv
    <3>3. CASE p.t = "PUBLISH" /\ b = p.mid
      BY <1>5, <1>6, <1>10, <3>3
    <3> QED BY <3>1, <3>2, <3>3
  <2>4. sent' = sent /\ sent \in Seq({1, 2}) /\ peer'.last_mid = Len(sent) /\ Len(sent) <= MaxSent
    BY <1>1, <1>2, <1>15 DEF InInv
  <2> QED BY <1>7, <1>15, <2>1, <2>2, <2>3, <2>4 DEF InInv, In
<1>18. ASSUME ~own_thread PROVE ExactInv'
  <2>1. /\ pending' = <<>> /\ Ordered(Pipe)
        /\ \A q : In(Pipe, q) /\ Twice(q) /\ Took(q.id) => q.id \in peer.stored
        /\ \A b \in DOMAIN accepted : accepted[b] = 2 /\ Took(b) /\ b \notin peer.stored => Released(b)
    BY <1>1, <1>9, <1>18 DEF ExactInv
  <2>2. Pipe' = Tail(up) \o out_packet
    BY <1>2 DEF Pipe
  <2>3. ASSUME NEW q, In(Pipe', q), Twice(q), Took(q.id)' PROVE q.id \in Stored(p)
    <3>1. In(Pipe, q) /\ (p.t = "PUBREL" => p.mid # q.id)
      BY <1>1, <2>1, <2>2, <2>3, PipeBehind
    <3>2. CASE Took(q.id)
      <4>1. q.id \in peer.stored
        BY <2>1, <2>3, <3>1, <3>2
      <4> QED BY <3>1, <4>1 DEF Stored
    <3>3. CASE IsNew(p) /\ q.id = p.id
      <4>1. p.t = "PUBLISH" /\ p.qos = accepted[p.id] /\ p.mid = p.id
        BY <1>5, <3>3 DEF IsNew
      <4>2. q.qos = accepted[q.id] /\ q.qos = 2
        BY <1>1, <2>3, <3>1 DEF FlowInv, UpFits, Twice
      <4> QED BY <3>3, <4>1, <4>2 DEF Stored
    <3> QED BY <1>6, <2>3, <3>2, <3>3
  <2>4. Ordered(Pipe')
    BY <1>1, <1>8, <1>18, <2>1, OrderKept
  <2>5. ASSUME NEW b \in DOMAIN accepted, accepted[b] = 2, Took(b)', b \notin Stored(p)
        PROVE  Released(b)'
    <3>1. CASE Took(b) /\ b \notin peer.stored
      BY <1>6, <2>1, <2>5, <3>1 DEF Steady
    <3>2. CASE Took(b) /\ b \in peer.stored
      <4>1. p.t = "PUBREL" /\ p.mid = b
        BY <2>5, <3>2 DEF Stored
      <4> QED BY <1>3, <1>6, <4>1 DEF UpFits, Steady
    <3>3. CASE IsNew(p) /\ b = p.id
      <4>1. p.t = "PUBLISH" /\ p.qos = 2 /\ p.mid = b
        BY <1>5, <2>5, <3>3 DEF IsNew
      <4> QED BY <2>5, <4>1 DEF Stored
    <3> QED BY <1>6, <2>5, <3>1, <3>2, <3>3
  <2>6. accepted' = accepted
    BY <1>2
  <2> QED BY <1>15, <2>1, <2>3, <2>4, <2>5, <2>6 DEF ExactInv, In
<1>19. ClientInv'
  <2>1. ExactInv'
    BY <1>2, <1>18 DEF ExactInv
  <2> QED BY <1>6, <1>12, <1>17, <2>1 DEF ClientInv
<1>20. ASSUME IsNew(p)
       PROVE  /\ p.id \in DOMAIN accepted /\ Begun(p.id) /\ received' = Append(received, p.id)
              /\ ~own_thread /\ accepted[p.id] = 2 => ~Took(p.id)
  <2>1. p.t = "PUBLISH"
    BY <1>20 DEF IsNew
  <2>2. ASSUME ~own_thread, accepted[p.id] = 2, Took(p.id) PROVE FALSE
    <3>1. p.qos = 2 /\ p.mid = p.id
      BY <1>5, <2>1, <2>2
    <3>2. p.id \in peer.stored
      BY <1>1, <1>3, <2>1, <2>2, <3>1 DEF ExactInv, Twice
    <3> QED BY <1>20, <3>1, <3>2 DEF IsNew
  <2> QED BY <1>5, <1>20, <2>1, <2>2
<1> QED BY <1>19, <1>20

(* The broker reads a packet: it takes at most one message, one that the    *)
(* library began to send, and one of QoS 2 only once while the application  *)
(* publishes in the callbacks.                                              *)
LEMMA PeerReadsStep ==
  ASSUME ClientInv, PeerReads
  PROVE  /\ ClientInv' /\ UNCHANGED <<own_thread, accepted, announced>>
         /\ \/ received' = received
            \/ \E b \in DOMAIN accepted :
                 /\ Begun(b) /\ received' = Append(received, b)
                 /\ ~own_thread /\ accepted[b] = 2 => ~Took(b)
<1> SUFFICES ASSUME NEW p, p = Head(up)
             PROVE  /\ ClientInv' /\ UNCHANGED <<own_thread, accepted, announced>>
                    /\ \/ received' = received
                       \/ \E b \in DOMAIN accepted :
                            /\ Begun(b) /\ received' = Append(received, b)
                            /\ ~own_thread /\ accepted[b] = 2 => ~Took(b)
  OBVIOUS
<1>1. up # <<>> /\ UNCHANGED <<lib, own_thread, accepted, announced, inward>>
  BY DEF PeerReads
<1>2. \/ /\ peer' = [peer EXCEPT !.connected = TRUE]
         /\ down' = <<Cmd("CONNACK", 0)>> \o [i \in DOMAIN peer.out |-> Forward(peer.out[i])]
         /\ up' = Tail(up) /\ received' = received
      \/ /\ received' = IF IsNew(p) THEN Append(received, p.id) ELSE received
         /\ peer' = [peer EXCEPT !.stored = Stored(p), !.out = Held(p)]
         /\ down' = IF p.t \in {"PUBLISH", "PUBREC", "PUBREL"} THEN Append(down, Answer(p)) ELSE down
         /\ up' = Tail(up)
      \/ /\ Hangup /\ peer' = [peer EXCEPT !.connected = FALSE] /\ received' = received
  BY Zenon DEF PeerReads
<1>3. CASE /\ peer' = [peer EXCEPT !.connected = TRUE]
           /\ down' = <<Cmd("CONNACK", 0)>> \o [i \in DOMAIN peer.out |-> Forward(peer.out[i])]
           /\ up' = Tail(up) /\ received' = received
  BY <1>1, <1>3, PeerConnectStep
<1>4. CASE /\ received' = IF IsNew(p) THEN Append(received, p.id) ELSE received
           /\ peer' = [peer EXCEPT !.stored = Stored(p), !.out = Held(p)]
           /\ down' = IF p.t \in {"PUBLISH", "PUBREC", "PUBREL"} THEN Append(down, Answer(p)) ELSE down
           /\ up' = Tail(up)
  BY <1>1, <1>4, PeerTakeStep
<1>5. CASE /\ Hangup /\ peer' = [peer EXCEPT !.connected = FALSE] /\ received' = received
  BY <1>1, <1>5, PeerRefuseStep
<1> QED BY <1>2, <1>3, <1>4, <1>5

-----------------------------------------------------------------------------
(* The invariant, and what a step does to the messages of the application.  *)

(* The invariant holds at the start.                                        *)
LEMMA ClientInit ==
  ASSUME Init
  PROVE  ClientInv
<1>1. /\ out_messages = <<>> /\ in_messages = <<>> /\ inflight_messages = 0 /\ last_mid = 0
      /\ out_packet = <<>> /\ pending = <<>> /\ up = <<>> /\ down = <<>> /\ peer = Nobody
      /\ accepted = <<>> /\ received = <<>> /\ announced = {} /\ sent = <<>> /\ arrived = <<>>
  BY DEF Init
<1>2. /\ \A S : <<>> \in Seq(S)
      /\ Len(<<>>) = 0 /\ DOMAIN <<>> = {}
  OBVIOUS
<1>3. MaxPublished \in Nat /\ MaxSent \in Nat /\ MaxInflight \in Nat
  BY ClientAssumption
<1>4. \A x : ~In(<<>>, x)
  BY <1>2 DEF In
<1>5. ListInv
  <2>1. Counted(0) = 0
    BY <1>3 DEF Counted
  <2>2. ListTyped /\ Windowed
    BY <1>1, <1>2, <1>3, <2>1 DEF ListTyped, Windowed
  <2>3. Listed /\ LastOnes /\ Gone /\ TookSent
    BY <1>1, <1>2 DEF Listed, LastOnes, Gone, TookSent
  <2> QED BY <2>2, <2>3 DEF ListInv
<1>6. Pipe = <<>>
  <2> DEFINE e == <<>>
  <2>1. e \in Seq(Packets) /\ up = e /\ out_packet = e
    BY <1>1
  <2>2. e \o e = e
    BY <2>1, ConcatEmptySeq
  <2> QED BY <2>1, <2>2 DEF Pipe
<1>7. FlowInv
  BY <1>1, <1>2, <1>4, <1>6 DEF FlowInv
<1>8. ExactInv
  BY <1>1, <1>2, <1>4, <1>6 DEF ExactInv, Ordered
<1>9. peer.stored = {} /\ peer.out = <<>> /\ peer.last_mid = 0 /\ peer \in Peer
  BY <1>1, <1>2 DEF Nobody, Peer
<1>10. InInv
  BY <1>1, <1>2, <1>3, <1>4, <1>9 DEF InInv
<1> QED BY <1>5, <1>7, <1>8, <1>10 DEF ClientInv

(* A message is accepted, taken by the broker, or announced, or none is.    *)
Outcome ==
  /\ own_thread' = own_thread
  /\ \/ UNCHANGED outcome
     \/ \E qos \in {1, 2} : accepted' = Append(accepted, qos) /\ UNCHANGED <<received, announced>>
     \/ \E b \in DOMAIN accepted :
          /\ Begun(b) /\ received' = Append(received, b) /\ UNCHANGED <<accepted, announced>>
          /\ ~own_thread /\ accepted[b] = 2 => ~Took(b)
     \/ \E b \in DOMAIN accepted :
          /\ Took(b) /\ b \notin announced /\ announced' = announced \cup {b}
          /\ UNCHANGED <<accepted, received>>

(* Every step keeps the invariant, and is a step or a stutter of Delivery.  *)
LEMMA ClientNext ==
  ASSUME NoWrap, ClientInv, [Next]_vars
  PROVE  ClientInv' /\ Outcome
<1>1. ASSUME NEW qos \in OutQoS, MosquittoPublish(qos) PROVE ClientInv' /\ Outcome
  <2>1. qos \in {1, 2} /\ accepted' = Append(accepted, qos) /\ UNCHANGED <<received, announced, own_thread>>
    BY <1>1, ClientAssumption DEF MosquittoPublish
  <2> QED BY <1>1, <2>1, PublishStep DEF Outcome
<1>2. CASE PublishCheck
  BY <1>2, PublishCheckStep DEF Outcome, PublishCheck
<1>3. CASE PublishSend
  BY <1>3, PublishSendStep DEF Outcome, PublishSend
<1>4. CASE HandleConnack
  BY <1>4, ConnackStep DEF Outcome, outcome, HandleConnack, Reads
<1>5. CASE HandlePubackcomp
  BY <1>5, PubackcompStep DEF Outcome, outcome
<1>6. CASE HandlePubrec
  BY <1>6, PubrecStep DEF Outcome, outcome, HandlePubrec, Reads
<1>7. CASE HandlePublish
  BY <1>7, HandlePublishStep DEF Outcome, outcome, HandlePublish, Reads
<1>8. CASE HandlePubrel
  BY <1>8, HandlePubrelStep DEF Outcome, outcome, HandlePubrel, Reads
<1>9. CASE Write
  BY <1>9, WriteStep DEF Outcome, Write
<1>10. CASE LoopError \/ DropPackets \/ SocketConnect \/ SocketFails \/ Lose
  <2>1. ClientInv'
    BY <1>10, ConnectSteps
  <2>2. UNCHANGED <<own_thread, outcome>>
    BY <1>10 DEF LoopError, DropPackets, SocketConnect, SocketFails, Lose
  <2> QED BY <2>1, <2>2 DEF Outcome
<1>11. CASE ReconnectReset
  BY <1>11, ReconnectResetStep DEF Outcome, ReconnectReset
<1>12. CASE SendConnect
  BY <1>12, SendConnectStep DEF Outcome, SendConnect
<1>13. CASE PeerReads
  BY <1>13, PeerReadsStep DEF Outcome, outcome
<1>14. ASSUME NEW qos \in InQoS, PeerSends(qos) PROVE ClientInv' /\ Outcome
  BY <1>14, PeerSendsStep DEF Outcome
<1>15. CASE UNCHANGED vars
  <2>1. /\ UNCHANGED <<out_messages, in_messages, inflight_messages, last_mid, own_thread, outcome, inward>>
        /\ UNCHANGED <<up, out_packet, down, pending, peer>>
    BY <1>15 DEF vars, lib, net
  <2>2. FlowInv /\ InInv /\ ExactInv
    BY DEF ClientInv
  <2>3. PipeStep
    BY <2>1, <2>2, PipeSame
  <2>4. /\ down' \in Seq(Packets) /\ (\A p : In(down', p) => In(down, p)) /\ peer' = peer /\ peer' \in Peer
        /\ pending' = pending /\ pending' \in Seq(Pending) /\ (~own_thread => pending' = <<>>)
    BY <2>1, <2>2 DEF FlowInv, InInv, ExactInv
  <2>5. \A w : In(pending', w) => \E v : In(pending, v) /\ v.packet = w.packet
    BY <2>4
  <2>6. ClientInv'
    BY <2>1, <2>3, <2>4, <2>5, MoveStep
  <2> QED BY <2>1, <2>6 DEF Outcome
<1> QED BY <1>1, <1>2, <1>3, <1>4, <1>5, <1>6, <1>7, <1>8, <1>9, <1>10, <1>11, <1>12, <1>13, <1>14,
           <1>15 DEF Next, LoopThread

-----------------------------------------------------------------------------
(* The theorems.                                                            *)

(* inflight_messages is the number of messages in flight, never more than   *)
(* max_inflight_messages, and a message only waits behind as many:          *)
(* mosquitto_publish, message__remove and message__reconnect_reset count    *)
(* alike, whatever connections are lost.                                    *)
THEOREM WindowHolds ==
  ASSUME NoWrap
  PROVE  Spec => []Window
<1>1. Init => ClientInv
  BY ClientInit
<1>2. ClientInv /\ [Next]_vars => ClientInv'
  BY ClientNext
<1>3. ClientInv => Window
  BY WindowedIsWindow DEF ClientInv, ListInv
<1> QED BY <1>1, <1>2, <1>3, PTL DEF Spec

(* The library implements Delivery: a message is announced only when the    *)
(* broker took it, once, and a QoS 2 message of the callbacks is taken      *)
(* once, over any number of lost connections and resent packets.            *)
THEOREM LibraryDelivers ==
  ASSUME NoWrap
  PROVE  Spec => ImplementsDelivery
<1>1. Init => ClientInv
  BY ClientInit
<1>2. ClientInv /\ [Next]_vars => ClientInv'
  BY ClientNext
<1>3. Init => Delivers!Init
  BY DEF Init, Delivers!Init
<1>4. ClientInv /\ [Next]_vars => [Delivers!Next]_(Delivers!dvars)
  <2> SUFFICES ASSUME ClientInv, [Next]_vars PROVE [Delivers!Next]_(Delivers!dvars)
    OBVIOUS
  <2>1. Outcome
    BY ClientNext
  <2>2. CASE UNCHANGED outcome
    BY <2>1, <2>2 DEF Outcome, outcome, Delivers!dvars
  <2>3. ASSUME NEW qos \in {1, 2}, accepted' = Append(accepted, qos), UNCHANGED <<received, announced>>
        PROVE  Delivers!Next
    <3>1. Delivers!Accept(qos)
      BY <2>1, <2>3 DEF Delivers!Accept, Outcome
    <3> QED BY <3>1 DEF Delivers!Next
  <2>4. ASSUME NEW b \in DOMAIN accepted, received' = Append(received, b), UNCHANGED <<accepted, announced>>,
               ~own_thread /\ accepted[b] = 2 => ~Took(b)
        PROVE  Delivers!Next
    <3>1. Delivers!Receive(b)
      BY <2>1, <2>4 DEF Delivers!Receive, Delivers!Has, Took, Outcome
    <3> QED BY <3>1 DEF Delivers!Next
  <2>5. ASSUME NEW b \in DOMAIN accepted, Took(b), b \notin announced, announced' = announced \cup {b},
               UNCHANGED <<accepted, received>>
        PROVE  Delivers!Next
    <3>1. Delivers!Announce(b)
      BY <2>1, <2>5 DEF Delivers!Announce, Delivers!Has, Took, Outcome
    <3> QED BY <3>1 DEF Delivers!Next
  <2> QED BY <2>1, <2>2, <2>3, <2>4, <2>5 DEF Outcome
<1> QED BY <1>1, <1>2, <1>3, <1>4, PTL DEF Spec, ImplementsDelivery, Delivers!Spec

(* With a window of one, the broker takes a message for the first time      *)
(* when it is the first of the list, and it has none that is later.         *)
LEMMA OrderStep ==
  ASSUME ClientInv, Outcome, InOrder
  PROVE  InOrder'
<1> SUFFICES ASSUME MaxInflight = 1,
                    NEW b \in DOMAIN accepted, Begun(b), received' = Append(received, b)
             PROVE  InOrder'
  BY DEF Outcome, outcome, InOrder
<1> DEFINE n == Len(received)
           L == Len(out_messages)
           k == Len(accepted)
<1>1. ListInv /\ out_messages \in Seq(Message) /\ accepted \in Seq({1, 2}) /\ received \in Seq(Nat)
  BY DEF ClientInv, ListInv, ListTyped
<1>2. n \in Nat /\ L \in Nat /\ k \in Nat /\ DOMAIN received = 1..n /\ DOMAIN out_messages = 1..L
      /\ DOMAIN accepted = 1..k
  BY <1>1
<1>3. \A i \in 1..n : received[i] \in Nat
  BY <1>1, <1>2, ElementOfSeq
<1>4. b \in Nat
  BY <1>2
<1>5. /\ DOMAIN received' = 1..(n + 1) /\ received'[n + 1] = b
      /\ \A i \in 1..n : received'[i] = received[i]
  <2>1. /\ Append(received, b) \in Seq(Nat) /\ Len(Append(received, b)) = Len(received) + 1
        /\ \A i \in 1..Len(received) : Append(received, b)[i] = received[i]
        /\ Append(received, b)[Len(received) + 1] = b
    BY <1>1, <1>4, AppendProperties
  <2> QED BY <1>2, <2>1
<1>6. \A i, j \in 1..n : i < j /\ received[j] < received[i] => \E x \in 1..(i - 1) : received[x] = received[j]
  BY <1>2 DEF InOrder
<1>7. ASSUME ~Took(b), NEW i \in 1..n PROVE ~(b < received[i])
  <2> DEFINE c == received[i]
  <2>1. PICK x \in 1..L : out_messages[x].id = b
    BY <1>1, <1>2, <1>7 DEF ListInv, Gone
  <2>2. x = 1
    <3>1. out_messages[x].state # "invalid"
      BY <1>2, <2>1 DEF Begun, Past, Unsent
    <3>2. ~(x > 1)
      BY <1>1, <1>2, <3>1 DEF ListInv, Windowed, Waits
    <3> QED BY <1>2, <3>2
  <2>3. \A y \in 1..L : out_messages[y].id = (k - L) + y
    BY <1>1, <1>2 DEF ListInv, LastOnes
  <2>4. Begun(c)
    BY <1>1, <1>2 DEF ListInv, TookSent
  <2>5. c \in 1..k
    BY <1>2, <2>4 DEF Begun, Past
  <2> HIDE DEF c, n, L, k
  <2>6. b = (k - L) + 1 /\ 1 \in 1..L
    BY <2>1, <2>2, <2>3
  <2>7. SUFFICES ASSUME b < c PROVE FALSE
    BY DEF c
  <2>8. c - (k - L) \in 1..L /\ c - (k - L) > 1 /\ (k - L) + (c - (k - L)) = c
    BY <1>2, <2>5, <2>6, <2>7
  <2>9. out_messages[c - (k - L)].id = c /\ out_messages[c - (k - L)].state = "invalid"
    BY <1>1, <1>2, <2>3, <2>8 DEF ListInv, Windowed, Waits
  <2> QED BY <1>2, <2>4, <2>8, <2>9 DEF Begun, Past, Unsent
<1> HIDE DEF n, L, k
<1>8. ASSUME NEW i \in 1..(n + 1), NEW j \in 1..(n + 1), i < j, received'[j] < received'[i]
      PROVE  \E x \in 1..(i - 1) : received'[x] = received'[j]
  <2>1. i \in 1..n /\ received'[i] = received[i]
    BY <1>2, <1>5, <1>8
  <2>2. CASE j \in 1..n
    <3>1. PICK x \in 1..(i - 1) : received[x] = received[j]
      BY <1>5, <1>6, <1>8, <2>1, <2>2
    <3>2. x \in 1..n
      BY <1>2, <2>1, <3>1
    <3> QED BY <1>5, <2>2, <3>1, <3>2
  <2>3. CASE j \notin 1..n
    <3>1. j = n + 1 /\ received'[j] = b /\ b < received[i]
      BY <1>2, <1>5, <1>8, <2>1, <2>3
    <3>2. Took(b)
      BY <1>7, <2>1, <3>1
    <3>3. PICK y \in 1..n : received[y] = b
      BY <1>2, <3>2 DEF Took
    <3>4. \E x \in 1..(i - 1) : received[x] = b
      <4>1. CASE y < i
        BY <1>2, <2>1, <3>3, <4>1
      <4>2. CASE i < y
        BY <1>6, <2>1, <3>1, <3>3, <4>2
      <4>3. CASE y = i
        BY <1>3, <1>4, <2>1, <3>1, <3>3, <4>3
      <4> QED BY <1>2, <2>1, <3>3, <4>1, <4>2, <4>3
    <3>5. PICK x \in 1..(i - 1) : received[x] = b
      BY <3>4
    <3>6. x \in 1..n
      BY <1>2, <2>1, <3>5
    <3> QED BY <1>5, <3>1, <3>5, <3>6
  <2> QED BY <2>2, <2>3
<1>9. ASSUME NEW i \in DOMAIN received', NEW j \in DOMAIN received', i < j, received'[j] < received'[i]
      PROVE  \E x \in 1..(i - 1) : received'[x] = received'[j]
  <2>1. i \in 1..(n + 1) /\ j \in 1..(n + 1)
    BY <1>5
  <2> QED BY <1>8, <1>9, <2>1
<1> QED BY <1>9 DEF InOrder

(* With a window of one the broker takes the messages in the order of the   *)
(* calls of mosquitto_publish, but for what it takes again.                 *)
THEOREM OrderIsKept ==
  ASSUME NoWrap
  PROVE  Spec => []InOrder
<1>1. Init => ClientInv /\ InOrder
  <2>1. Init => InOrder
    BY DEF Init, InOrder
  <2> QED BY <2>1, ClientInit
<1>2. ClientInv /\ InOrder /\ [Next]_vars => ClientInv' /\ InOrder'
  BY ClientNext, OrderStep
<1> QED BY <1>1, <1>2, PTL DEF Spec

(* A message of the broker that it does not hold any more was handed to the *)
(* application: in_messages is kept over connections for that.              *)
THEOREM NothingMissed ==
  ASSUME NoWrap
  PROVE  Spec => []Arrives
<1>1. Init => ClientInv
  BY ClientInit
<1>2. ClientInv /\ [Next]_vars => ClientInv'
  BY ClientNext
<1>3. ClientInv => Arrives
  <2> SUFFICES ASSUME ClientInv, NEW b \in DOMAIN sent
               PROVE  Copies(b) > 0 \/ \E i \in DOMAIN peer.out : peer.out[i].id = b
    BY DEF Arrives
  <2>1. Came(b) \/ \E m : In(peer.out, m) /\ m.id = b
    BY DEF ClientInv, InInv
  <2>2. CASE \E m : In(peer.out, m) /\ m.id = b
    BY <2>2 DEF In
  <2>3. CASE Came(b)
    <3> DEFINE A == {i \in DOMAIN arrived : arrived[i] = b}
               n == Len(arrived)
    <3>1. arrived \in Seq(Nat) /\ n \in Nat /\ DOMAIN arrived = 1..n
      BY DEF ClientInv, InInv
    <3>2. A # {} /\ A \in SUBSET (1..n)
      BY <2>3, <3>1 DEF Came, In
    <3> HIDE DEF A, n
    <3>3. IsFiniteSet(1..n)
      BY <3>1, FS_Interval
    <3>4. IsFiniteSet(A)
      BY <3>2, <3>3, FS_Subset
    <3>5. Cardinality(A) \in Nat /\ Cardinality(A) # 0
      BY <3>2, <3>4, FS_EmptySet, FS_CardinalityType
    <3>6. Cardinality(A) > 0
      BY <3>5
    <3> QED BY <3>6 DEF Copies, A
  <2> QED BY <2>1, <2>2, <2>3
<1> QED BY <1>1, <1>2, <1>3, PTL DEF Spec
=============================================================================
