---------------------------- MODULE BrokerProofs ----------------------------
(*****************************************************************************)
(* Theorems about module Broker.  The first part says what the functions of  *)
(* module MsgQueue return and what they do to messages and counters.  The    *)
(* second part takes the queues from a set R that these functions do not     *)
(* leave: one proof that no step of the broker leaves it then serves every   *)
(* property of single queues.  The third part follows messages through the   *)
(* steps: no session loses one, a publication of QoS 2 is routed once.       *)
(*****************************************************************************)
EXTENDS Broker, TLAPS, NaturalsInduction, WellFoundedInduction,
        SequenceTheorems, FiniteSetTheorems

-----------------------------------------------------------------------------
(* Recursion.  The induction principle of the library takes an operator; it *)
(* is used here in the form of a fact about sets of naturals.               *)

(* A set of naturals that has 0 and is closed under successor has them all. *)
LEMMA SetInduction ==
  ASSUME NEW T \in SUBSET Nat, 0 \in T, \A n \in T : n + 1 \in T
  PROVE  T = Nat
<1> SUFFICES ASSUME T # Nat PROVE FALSE
  OBVIOUS
<1> DEFINE B == Nat \ T
<1>1. B \subseteq Nat /\ B # {}
  OBVIOUS
<1>2. PICK x \in B : \A y \in B : ~(<<y, x>> \in OpToRel(<, Nat))
  <2> HIDE DEF B
  <2> QED BY <1>1, NatLessThanWellFounded, WFMin, Zenon
<1>3. \A y \in B : ~(y < x)
  BY <1>2 DEF OpToRel
<1>4. x # 0 /\ x - 1 \in Nat /\ x - 1 < x
  OBVIOUS
<1>5. x - 1 \in T
  BY <1>3, <1>4
<1> QED BY <1>5, <1>4

(* A non-empty set of naturals has a first element.                         *)
LEMMA FirstIn ==
  ASSUME NEW K \in SUBSET Nat, K # {}
  PROVE  (CHOOSE i \in K : \A j \in K : i <= j) \in K
<1>1. PICK x \in K : \A y \in K : ~(<<y, x>> \in OpToRel(<, Nat))
  BY NatLessThanWellFounded, WFMin, Zenon
<1>2. \A y \in K : ~(y < x)
  BY <1>1 DEF OpToRel
<1>3. \A y \in K : x <= y
  BY <1>2
<1> QED BY <1>3

(* The iteration of a step function from a value: what a recursive function *)
(* on 0..n denotes.                                                         *)
Iterates(n, S, x, st) ==
  {g \in [0..n -> S] : \A k \in 0..n : g[k] = IF k = 0 THEN x ELSE st[<<k, g[k - 1]>>]}

(* Every step function on a set has its iterates in that set.               *)
LEMMA IteratesExist ==
  ASSUME NEW S, NEW x \in S, NEW st \in [Nat \X S -> S]
  PROVE  \A n \in Nat : Iterates(n, S, x, st) # {}
<1> DEFINE T == {n \in Nat : Iterates(n, S, x, st) # {}}
<1>1. 0 \in T
  <2>1. [k \in 0..0 |-> x] \in Iterates(0, S, x, st)
    BY DEF Iterates
  <2> QED BY <2>1
<1>2. ASSUME NEW n \in T PROVE n + 1 \in T
  <2> n \in Nat
    OBVIOUS
  <2>1. PICK g \in Iterates(n, S, x, st) : TRUE
    OBVIOUS
  <2>2. g \in [0..n -> S] /\ \A k \in 0..n : g[k] = IF k = 0 THEN x ELSE st[<<k, g[k - 1]>>]
    BY <2>1 DEF Iterates
  <2> DEFINE h == [k \in 0..(n + 1) |-> IF k = n + 1 THEN st[<<k, g[n]>>] ELSE g[k]]
  <2>3. g[n] \in S
    BY <2>2
  <2>4. st[<<n + 1, g[n]>>] \in S
    BY <2>3
  <2>5. h \in [0..(n + 1) -> S]
    <3>1. \A k \in 0..(n + 1) : k # n + 1 => k \in 0..n
      OBVIOUS
    <3> QED BY <2>2, <2>4, <3>1
  <2>6. ASSUME NEW k \in 0..(n + 1) PROVE h[k] = IF k = 0 THEN x ELSE st[<<k, h[k - 1]>>]
    <3>1. CASE k = n + 1
      <4>1. k # 0 /\ k - 1 = n /\ n \in 0..(n + 1) /\ n # n + 1
        BY <3>1
      <4>2. h[n] = g[n]
        BY <4>1
      <4>3. h[k] = st[<<k, g[n]>>]
        BY <3>1
      <4> HIDE DEF h
      <4> QED BY <4>1, <4>2, <4>3
    <3>2. CASE k # n + 1
      <4>1. k \in 0..n /\ h[k] = g[k]
        BY <3>2
      <4>2. k # 0 => k - 1 \in 0..(n + 1) /\ k - 1 # n + 1
        BY <4>1
      <4>3. k # 0 => h[k - 1] = g[k - 1]
        BY <4>2
      <4>4. g[k] = IF k = 0 THEN x ELSE st[<<k, g[k - 1]>>]
        BY <2>2, <4>1
      <4> HIDE DEF h
      <4> QED BY <4>1, <4>3, <4>4
    <3> QED BY <3>1, <3>2
  <2>7. h \in Iterates(n + 1, S, x, st)
    <3> HIDE DEF h
    <3> QED BY <2>5, <2>6 DEF Iterates
  <2> QED BY <2>7
<1>3. T = Nat
  <2> HIDE DEF T
  <2>1. T \in SUBSET Nat
    BY DEF T
  <2> QED BY <1>1, <1>2, <2>1, SetInduction
<1> QED BY <1>3

-----------------------------------------------------------------------------
(* Keep.                                                                    *)

(* The recursive function of Keep is defined: it maps the length of each    *)
(* prefix of a sequence to what is kept of that prefix.                     *)
KeptBy(s, K, f) ==
  f = [i \in 0..Len(s) |->
         IF i = 0 THEN <<>>
         ELSE IF i \in K THEN Append(f[i - 1], s[i]) ELSE f[i - 1]]

(* One position of the walk that Keep makes over a list.                    *)
LEMMA KeptAt ==
  ASSUME NEW s, Len(s) \in Nat, NEW K, NEW f, KeptBy(s, K, f)
  PROVE  /\ \A i \in 0..Len(s) :
              f[i] = IF i = 0 THEN <<>>
                     ELSE IF i \in K THEN Append(f[i - 1], s[i]) ELSE f[i - 1]
         /\ f[0] = <<>>
         /\ \A n \in Nat : n + 1 \in 0..Len(s) =>
              f[n + 1] = IF n + 1 \in K THEN Append(f[n], s[n + 1]) ELSE f[n]
<1>1. ASSUME NEW i \in 0..Len(s)
      PROVE  f[i] = IF i = 0 THEN <<>>
                    ELSE IF i \in K THEN Append(f[i - 1], s[i]) ELSE f[i - 1]
  BY Zenon DEF KeptBy
<1>2. f[0] = <<>>
  BY <1>1
<1>3. ASSUME NEW n \in Nat, n + 1 \in 0..Len(s)
      PROVE  f[n + 1] = IF n + 1 \in K THEN Append(f[n], s[n + 1]) ELSE f[n]
  <2>1. n + 1 # 0 /\ (n + 1) - 1 = n
    OBVIOUS
  <2> QED BY <1>1, <1>3, <2>1
<1> QED BY <1>1, <1>2, <1>3

(* Keep is the last value of its walk, and the walk stays within sequences  *)
(* over the same set.                                                       *)
LEMMA KeepDefined ==
  ASSUME NEW S, NEW s \in Seq(S), NEW K
  PROVE  \E f \in [0..Len(s) -> Seq(S)] : KeptBy(s, K, f) /\ Keep(s, K) = f[Len(s)]
<1> DEFINE st == [x \in Nat \X Seq(S) |->
                    IF x[1] \in K /\ x[1] \in 1..Len(s) THEN Append(x[2], s[x[1]]) ELSE x[2]]
<1>1. st \in [Nat \X Seq(S) -> Seq(S)]
  <2>1. ASSUME NEW x \in Nat \X Seq(S) PROVE st[x] \in Seq(S)
    <3>1. x[2] \in Seq(S)
      OBVIOUS
    <3>2. CASE x[1] \in K /\ x[1] \in 1..Len(s)
      BY <3>1, <3>2
    <3> QED BY <3>1, <3>2
  <2> QED BY <2>1
<1>2. <<>> \in Seq(S) /\ Len(s) \in Nat
  OBVIOUS
<1>3. PICK g \in Iterates(Len(s), Seq(S), <<>>, st) : TRUE
  <2> HIDE DEF st
  <2> QED BY <1>1, <1>2, IteratesExist
<1>4. g \in [0..Len(s) -> Seq(S)]
  BY <1>3 DEF Iterates
<1>5. KeptBy(s, K, g)
  <2>1. ASSUME NEW i \in 0..Len(s)
        PROVE g[i] = IF i = 0 THEN <<>> ELSE IF i \in K THEN Append(g[i - 1], s[i]) ELSE g[i - 1]
    <3>1. g[i] = IF i = 0 THEN <<>> ELSE st[<<i, g[i - 1]>>]
      <4> HIDE DEF st
      <4> QED BY <1>3 DEF Iterates
    <3>2. CASE i = 0
      BY <3>1, <3>2
    <3>3. CASE i # 0
      <4>1. i \in Nat /\ i \in 1..Len(s) /\ g[i - 1] \in Seq(S)
        <5>1. i \in Nat /\ i \in 1..Len(s) /\ i - 1 \in 0..Len(s)
          BY <1>2, <3>3
        <5> QED BY ONLY <1>4, <5>1
      <4>2. st[<<i, g[i - 1]>>] = IF i \in K THEN Append(g[i - 1], s[i]) ELSE g[i - 1]
        BY <4>1
      <4> HIDE DEF st
      <4> QED BY <3>1, <3>3, <4>2
    <3> QED BY <3>2, <3>3
  <2> HIDE DEF st
  <2> QED BY <2>1, <1>4 DEF KeptBy
<1> DEFINE f == CHOOSE f : KeptBy(s, K, f)
<1>6. KeptBy(s, K, f)
  <2> HIDE DEF st
  <2> QED BY <1>5, Zenon
<1>7. \A i \in 0..Len(s) : f[i] = g[i]
  <2> DEFINE T == {n \in Nat : n \in 0..Len(s) => f[n] = g[n]}
  <2> HIDE DEF f, st
  <2> Len(s) \in Nat
    OBVIOUS
  <2>1. 0 \in T
    BY <1>5, <1>6, KeptAt
  <2>2. ASSUME NEW n \in T PROVE n + 1 \in T
    <3>1. SUFFICES ASSUME n + 1 \in 0..Len(s) PROVE f[n + 1] = g[n + 1]
      OBVIOUS
    <3>2. n \in 0..Len(s) /\ f[n] = g[n]
      BY <3>1
    <3>3. f[n + 1] = IF n + 1 \in K THEN Append(f[n], s[n + 1]) ELSE f[n]
      BY <1>6, <3>1, KeptAt
    <3>4. g[n + 1] = IF n + 1 \in K THEN Append(g[n], s[n + 1]) ELSE g[n]
      BY <1>5, <3>1, KeptAt
    <3> QED BY <3>2, <3>3, <3>4
  <2>3. T = Nat
    <3>1. T \in SUBSET Nat
      OBVIOUS
    <3> HIDE DEF T
    <3> QED BY <2>1, <2>2, <3>1, SetInduction
  <2> QED BY <2>3
<1>8. f = g
  <2>1. f = [i \in 0..Len(s) |-> f[i]]
    <3> HIDE DEF f
    <3> QED BY <1>6 DEF KeptBy
  <2>2. g = [i \in 0..Len(s) |-> g[i]]
    BY <1>4
  <2> HIDE DEF f
  <2> QED BY <1>7, <2>1, <2>2
<1>9. Keep(s, K) = f[Len(s)]
  BY DEF Keep, KeptBy
<1> HIDE DEF f, st
<1> QED BY <1>4, <1>5, <1>8, <1>9

(* What is kept of a sequence has elements of that sequence only.           *)
LEMMA KeepType ==
  ASSUME NEW S, NEW s \in Seq(S), NEW K
  PROVE  Keep(s, K) \in Seq(S)
<1>1. PICK f \in [0..Len(s) -> Seq(S)] : Keep(s, K) = f[Len(s)]
  BY KeepDefined
<1>2. Len(s) \in 0..Len(s)
  OBVIOUS
<1> QED BY <1>1, <1>2

(* Positions of a list are finitely many.                                   *)
LEMMA FiniteDomain ==
  ASSUME NEW S, NEW s \in Seq(S), NEW K \in SUBSET (DOMAIN s)
  PROVE  IsFiniteSet(K)
<1>1. DOMAIN s = 1..Len(s) /\ Len(s) \in Int /\ 1 \in Int
  OBVIOUS
<1>2. IsFiniteSet(DOMAIN s)
  BY <1>1, FS_Interval, Zenon
<1> QED BY <1>2, FS_Subset

-----------------------------------------------------------------------------
(* Counters.                                                                *)

(* The four counts of a list of messages are naturals.                      *)
LEMMA TallyType ==
  ASSUME NEW s \in Seq(ClientMsg)
  PROVE  /\ Tally(s) \in Tallies
         /\ Tally(s).count >= 0 /\ Tally(s).count12 >= 0
         /\ Tally(s).bytes >= 0 /\ Tally(s).bytes12 >= 0
<1> DEFINE Ones == {i \in DOMAIN s : s[i].qos > 0}
           Bytes(I) == {x \in I \X (1..MaxLen) : x[2] <= s[x[1]].store.len}
<1>1. IsFiniteSet(DOMAIN s)
  <2>1. DOMAIN s = 1..Len(s) /\ Len(s) \in Nat
    OBVIOUS
  <2> QED BY <2>1, FS_Interval
<1>2. IsFiniteSet(1..MaxLen)
  BY LimitsAssumption, FS_Interval
<1>3. ASSUME NEW I \in SUBSET DOMAIN s PROVE Cardinality(Bytes(I)) \in Nat
  <2>1. IsFiniteSet(I)
    BY <1>1, FS_Subset
  <2>2. IsFiniteSet(I \X (1..MaxLen))
    BY <2>1, <1>2, FS_Product
  <2>3. Bytes(I) \subseteq I \X (1..MaxLen)
    OBVIOUS
  <2>4. IsFiniteSet(Bytes(I))
    <3> HIDE DEF Bytes
    <3> QED BY <2>2, <2>3, FS_Subset
  <2> HIDE DEF Bytes
  <2> QED BY <2>4, FS_CardinalityType
<1>4. Cardinality(Ones) \in Nat
  <2>1. Ones \subseteq DOMAIN s
    OBVIOUS
  <2> HIDE DEF Ones
  <2> QED BY <2>1, <1>1, FS_Subset, FS_CardinalityType
<1>5. Tally(s) = [count |-> Len(s), count12 |-> Cardinality(Ones),
                  bytes |-> Cardinality(Bytes(DOMAIN s)), bytes12 |-> Cardinality(Bytes(Ones))]
  BY DEF Tally
<1>6. Cardinality(Bytes(DOMAIN s)) \in Nat /\ Cardinality(Bytes(Ones)) \in Nat
  <2>1. Ones \in SUBSET DOMAIN s /\ DOMAIN s \in SUBSET DOMAIN s
    OBVIOUS
  <2> HIDE DEF Ones, Bytes
  <2> QED BY <1>3, <2>1
<1>7. Len(s) \in Nat
  OBVIOUS
<1> HIDE DEF Ones, Bytes
<1> QED BY <1>4, <1>5, <1>6, <1>7 DEF Tallies

(* Counters added or subtracted field by field are counters.                *)
LEMMA PlusMinusType ==
  ASSUME NEW t \in Tallies, NEW u \in Tallies
  PROVE  /\ Plus(t, u) \in Tallies /\ Minus(t, u) \in Tallies
         /\ Plus(t, u).count12 = t.count12 + u.count12
         /\ Plus(t, u).bytes12 = t.bytes12 + u.bytes12
BY DEF Tallies, Plus, Minus

-----------------------------------------------------------------------------
(* The loop of Reset.                                                       *)

(* The queue and position that the loop over queued_msgs starts from, and   *)
(* the recursive function of its turns.                                     *)
ResetFirst(cq) ==
  [q |-> [cq EXCEPT !.inflight = Mapped(cq.inflight, ResetState),
                    !.tally    = Tally(Mapped(cq.inflight, ResetState))],
   p |-> 1]

Turns(cq) == Len(cq.queued) * (Len(cq.queued) + 1)

TurnBy(cq, f) ==
  f = [n \in 0..Turns(cq) |->
         IF n = 0 THEN ResetFirst(cq)
         ELSE IF f[n - 1].p > Len(f[n - 1].q.queued) THEN f[n - 1]
              ELSE ResetVisit(f[n - 1].q, f[n - 1].p)]

(* What holds of the start of the loop and is kept by every turn holds      *)
(* after every turn, and Reset is what the last one leaves.                 *)
LEMMA ResetTurns ==
  ASSUME NEW cq, Turns(cq) \in Nat, NEW R, ResetFirst(cq) \in R,
         \A r \in R : ~(r.p > Len(r.q.queued)) => ResetVisit(r.q, r.p) \in R
  PROVE  \E f \in [0..Turns(cq) -> R] :
           /\ Reset(cq) = f[Turns(cq)].q
           /\ \A n \in 0..Turns(cq) :
                f[n] = IF n = 0 THEN ResetFirst(cq)
                       ELSE IF f[n - 1].p > Len(f[n - 1].q.queued) THEN f[n - 1]
                            ELSE ResetVisit(f[n - 1].q, f[n - 1].p)
<1> DEFINE st == [x \in Nat \X R |-> IF x[2].p > Len(x[2].q.queued) THEN x[2]
                                     ELSE ResetVisit(x[2].q, x[2].p)]
           N  == Turns(cq)
<1>1. st \in [Nat \X R -> R]
  <2>1. ASSUME NEW x \in Nat \X R PROVE st[x] \in R
    OBVIOUS
  <2> QED BY <2>1
<1>2. PICK g \in Iterates(N, R, ResetFirst(cq), st) : TRUE
  <2> HIDE DEF st
  <2> QED BY <1>1, IteratesExist
<1>3. g \in [0..N -> R]
  BY <1>2 DEF Iterates
<1>4. TurnBy(cq, g)
  <2>1. ASSUME NEW n \in 0..N
        PROVE g[n] = IF n = 0 THEN ResetFirst(cq)
                     ELSE IF g[n - 1].p > Len(g[n - 1].q.queued) THEN g[n - 1]
                          ELSE ResetVisit(g[n - 1].q, g[n - 1].p)
    <3>1. g[n] = IF n = 0 THEN ResetFirst(cq) ELSE st[<<n, g[n - 1]>>]
      <4> HIDE DEF st
      <4> QED BY <1>2 DEF Iterates
    <3>2. CASE n = 0
      BY <3>1, <3>2
    <3>3. CASE n # 0
      <4>1. n \in Nat /\ g[n - 1] \in R
        BY <3>3, <1>3
      <4>2. st[<<n, g[n - 1]>>] = IF g[n - 1].p > Len(g[n - 1].q.queued) THEN g[n - 1]
                                  ELSE ResetVisit(g[n - 1].q, g[n - 1].p)
        BY <4>1
      <4> HIDE DEF st
      <4> QED BY <3>1, <3>3, <4>2
    <3> QED BY <3>2, <3>3
  <2>2. g = [n \in 0..N |-> g[n]]
    BY <1>3
  <2> HIDE DEF st
  <2> QED BY <2>1, <2>2 DEF TurnBy
<1> DEFINE f == CHOOSE f : TurnBy(cq, f)
<1>5. TurnBy(cq, f)
  <2> HIDE DEF st
  <2> QED BY <1>4, Zenon
<1>6. ASSUME NEW n \in 0..N
      PROVE f[n] = IF n = 0 THEN ResetFirst(cq)
                   ELSE IF f[n - 1].p > Len(f[n - 1].q.queued) THEN f[n - 1]
                        ELSE ResetVisit(f[n - 1].q, f[n - 1].p)
  <2> HIDE DEF f
  <2> QED BY <1>5, Zenon DEF TurnBy
<1> DEFINE T == {n \in Nat : n \in 0..N => f[n] \in R}
<1>7. T = Nat
  <2> HIDE DEF f, st
  <2>1. 0 \in T
    BY <1>6
  <2>2. ASSUME NEW n \in T PROVE n + 1 \in T
    <3>1. SUFFICES ASSUME n + 1 \in 0..N PROVE f[n + 1] \in R
      OBVIOUS
    <3>2. n + 1 # 0 /\ (n + 1) - 1 = n /\ n \in 0..N
      BY <3>1
    <3>3. f[n] \in R
      BY <3>2
    <3>4. f[n + 1] = IF f[n].p > Len(f[n].q.queued) THEN f[n] ELSE ResetVisit(f[n].q, f[n].p)
      BY <1>6, <3>1, <3>2
    <3> HIDE DEF T
    <3> QED BY <3>3, <3>4
  <2>3. T \in SUBSET Nat
    OBVIOUS
  <2> HIDE DEF T
  <2> QED BY <2>1, <2>2, <2>3, SetInduction
<1>8. f \in [0..N -> R]
  <2>1. \A n \in 0..N : f[n] \in R
    <3> HIDE DEF f, st
    <3> QED BY <1>7
  <2>2. f = [n \in 0..N |-> f[n]]
    <3> HIDE DEF f, st
    <3> QED BY <1>5 DEF TurnBy
  <2> HIDE DEF f, st, T
  <2> QED BY <2>1, <2>2
<1>9. Reset(cq) = f[N].q
  BY DEF Reset, TurnBy, ResetFirst, Turns
<1> HIDE DEF f, st, T
<1> QED BY <1>6, <1>8, <1>9

(* What holds of the start of the loop and is kept by every turn holds of   *)
(* its end.                                                                 *)
LEMMA ResetIn ==
  ASSUME NEW cq, Turns(cq) \in Nat, NEW R, ResetFirst(cq) \in R,
         \A r \in R : ~(r.p > Len(r.q.queued)) => ResetVisit(r.q, r.p) \in R
  PROVE  \E r \in R : Reset(cq) = r.q
<1>1. PICK f \in [0..Turns(cq) -> R] : Reset(cq) = f[Turns(cq)].q
  BY ResetTurns
<1> QED BY <1>1

-----------------------------------------------------------------------------
(* Queues with sound lists.                                                 *)

(* Without queue_qos0_messages only messages of QoS 1 and 2 are queued, in  *)
(* state queued; a message in flight is never in that state, and one for    *)
(* the client is in a state of its direction.  One from the client may be   *)
(* in any other, for the reset does not look at the direction.  What a      *)
(* write removes once it is sent has QoS 0.                                 *)
StatesFor(dir) == IF dir = "out" THEN OutStates ELSE OutStates \cup InStates

Acknowledged(m) == m.state = "publish_qos0" => m.qos = 0

InflightMsg == {m \in ClientMsg : /\ QueueQoS0 \/ m.state \in StatesFor(m.dir)
                                  /\ Acknowledged(m)}
QueuedMsg   == {m \in ClientMsg : /\ QueueQoS0 \/ (m.state = "queued" /\ m.qos > 0)
                                  /\ Acknowledged(m)}

SoundQueues == [inflight: Seq(InflightMsg), queued: Seq(QueuedMsg),
                tally: Tallies, last_mid: Nat]

(* A message in flight may be given any state of its direction.             *)
LEMMA SetState ==
  ASSUME NEW m \in ClientMsg, NEW st \in StatesFor(m.dir), st = "publish_qos0" => m.qos = 0
  PROVE  /\ [m EXCEPT !.state = st] \in InflightMsg
         /\ [m EXCEPT !.state = st].qos = m.qos
<1>1. st \in States
  BY DEF StatesFor, States
<1> QED BY <1>1 DEF ClientMsg, InflightMsg, Acknowledged

(* A state for the client is one of either direction, a state from the      *)
(* client one of its own, and neither is the queued one.                    *)
LEMMA StatesForAre ==
  /\ \A dir : OutStates \subseteq StatesFor(dir)
  /\ \A dir : dir # "out" => InStates \subseteq StatesFor(dir)
  /\ \A dir : "queued" \notin StatesFor(dir) /\ StatesFor(dir) \subseteq States
BY DEF StatesFor, OutStates, InStates, States

(* The state a message is published in is that of its QoS.                  *)
LEMMA PublishStateIs ==
  \A qos \in QoS : PublishState(qos) = "publish_qos0" => qos = 0
BY DEF QoS, PublishState

(* The states messages are given when they are published, started, sent and *)
(* reset.                                                                   *)
LEMMA MsgSteps ==
  /\ \A qos \in QoS : PublishState(qos) \in OutStates
  /\ \A m \in ClientMsg : Started(m) \in InflightMsg
  /\ \A m \in InflightMsg : AfterSend(m) \in InflightMsg /\ ResetState(m) \in InflightMsg
<1>1. \A qos \in QoS : PublishState(qos) \in OutStates
  BY DEF QoS, PublishState, OutStates
<1>2. ASSUME NEW m \in ClientMsg PROVE Started(m) \in InflightMsg
  <2>1. m.qos \in QoS /\ "wait_for_pubrel" \in InStates
    BY DEF ClientMsg, InStates
  <2>2. (IF m.dir = "out" THEN PublishState(m.qos) ELSE "wait_for_pubrel") \in StatesFor(m.dir)
    BY <1>1, <2>1, StatesForAre
  <2>3. (IF m.dir = "out" THEN PublishState(m.qos) ELSE "wait_for_pubrel") = "publish_qos0"
          => m.qos = 0
    BY <2>1, PublishStateIs
  <2> QED BY <2>2, <2>3, SetState DEF Started
<1>3. ASSUME NEW m \in InflightMsg PROVE AfterSend(m) \in InflightMsg
  <2>1. m \in ClientMsg
    BY DEF InflightMsg
  <2>2. {"wait_for_puback", "wait_for_pubrec", "wait_for_pubcomp"} \subseteq StatesFor(m.dir)
    BY StatesForAre DEF OutStates
  <2>3. CASE m.state \in {"send_pubrec", "resend_pubcomp"}
    <3>1. AfterSend(m) = [m EXCEPT !.state = "wait_for_pubrel"]
      BY <2>3 DEF AfterSend
    <3>2. CASE QueueQoS0
      <4>1. "wait_for_pubrel" \in States
        BY DEF States, InStates
      <4> QED BY <2>1, <3>1, <3>2, <4>1 DEF InflightMsg, ClientMsg, Acknowledged
    <3>3. CASE ~QueueQoS0
      <4>1. m.dir # "out"
        BY <2>3, <3>3 DEF InflightMsg, StatesFor, OutStates
      <4>2. "wait_for_pubrel" \in StatesFor(m.dir)
        BY <4>1, StatesForAre DEF InStates
      <4> QED BY <2>1, <3>1, <4>2, SetState
    <3> QED BY <3>2, <3>3
  <2>4. CASE m.state \notin {"send_pubrec", "resend_pubcomp"}
    BY <2>1, <2>2, <2>4, SetState DEF AfterSend
  <2> QED BY <2>3, <2>4
<1>4. ASSUME NEW m \in InflightMsg PROVE ResetState(m) \in InflightMsg
  <2>1. m \in ClientMsg /\ m.qos \in QoS
    BY DEF InflightMsg, ClientMsg
  <2>2. "resend_pubrel" \in StatesFor(m.dir) /\ PublishState(m.qos) \in StatesFor(m.dir)
    BY <1>1, <2>1, StatesForAre DEF OutStates
  <2>3. PublishState(m.qos) = "publish_qos0" => m.qos = 0
    BY <2>1, PublishStateIs
  <2> QED BY <2>1, <2>2, <2>3, SetState DEF ResetState
<1> QED BY <1>1, <1>2, <1>3, <1>4

(* The parts of a sound queue.                                              *)
LEMMA SoundParts ==
  ASSUME NEW cq \in SoundQueues
  PROVE  /\ cq.inflight \in Seq(InflightMsg) /\ cq.queued \in Seq(QueuedMsg)
         /\ cq.inflight \in Seq(ClientMsg) /\ cq.queued \in Seq(ClientMsg)
         /\ cq.tally \in Tallies /\ cq.last_mid \in Nat
         /\ Len(cq.inflight) \in Nat /\ Len(cq.queued) \in Nat
         /\ cq \in Queues
<1>1. InflightMsg \subseteq ClientMsg /\ QueuedMsg \subseteq ClientMsg
  BY DEF InflightMsg, QueuedMsg
<1>2. cq.inflight \in Seq(InflightMsg) /\ cq.queued \in Seq(QueuedMsg)
  BY DEF SoundQueues
<1>3. cq.inflight \in Seq(ClientMsg) /\ cq.queued \in Seq(ClientMsg)
  BY <1>1, <1>2
<1>4. cq.tally \in Tallies /\ cq.last_mid \in Nat /\ cq \in Queues
  BY <1>3 DEF SoundQueues, Queues
<1> QED BY <1>2, <1>3, <1>4

-----------------------------------------------------------------------------
(* The functions of database.c on sound queues.                             *)

(* What a loop moves from the queue is there.                               *)
LEMMA MovesType ==
  ASSUME NEW cq, Len(cq.queued) \in Nat, NEW index \in Nat
  PROVE  Moves(cq, index) \in 0..Len(cq.queued)
BY LimitsAssumption DEF Moves, Least

(* db__message_dequeue_first, called for the first k queued messages,       *)
(* leaves sound lists: each moved message leaves the queued state.          *)
LEMMA DequeueSound ==
  ASSUME NEW cq \in SoundQueues, NEW k \in 0..Len(cq.queued)
  PROVE  Dequeue(cq, k) \in SoundQueues
<1> DEFINE head == SubSeq(cq.queued, 1, k)
           tail == SubSeq(cq.queued, k + 1, Len(cq.queued))
<1>1. cq.inflight \in Seq(InflightMsg) /\ cq.queued \in Seq(QueuedMsg) /\ Len(cq.queued) \in Nat
  BY SoundParts
<1>2. head \in Seq(QueuedMsg) /\ tail \in Seq(QueuedMsg)
  BY <1>1, SubSeqProperties
<1>3. Mapped(head, Started) \in Seq(InflightMsg)
  <2>1. \A i \in DOMAIN head : Started(head[i]) \in InflightMsg
    <3>1. \A i \in DOMAIN head : head[i] \in QueuedMsg
      <4> HIDE DEF head
      <4> QED BY <1>2
    <3>2. QueuedMsg \subseteq ClientMsg
      BY DEF QueuedMsg
    <3> HIDE DEF head
    <3> QED BY <3>1, <3>2, MsgSteps
  <2>2. DOMAIN head = 1..Len(head) /\ Len(head) \in Nat
    <3> HIDE DEF head
    <3> QED BY <1>2
  <2> HIDE DEF head
  <2> QED BY <2>1, <2>2 DEF Mapped
<1>4. cq.inflight \o Mapped(head, Started) \in Seq(InflightMsg)
  BY <1>1, <1>3
<1>5. Dequeue(cq, k) = [cq EXCEPT !.inflight = cq.inflight \o Mapped(head, Started),
                                  !.queued = tail]
  BY DEF Dequeue, SoundQueues
<1> HIDE DEF head, tail
<1> QED BY <1>2, <1>4, <1>5 DEF SoundQueues

(* The last of the messages it moves ends the list of those in flight, in   *)
(* its own direction.                                                       *)
LEMMA LastMoved ==
  ASSUME NEW cq \in SoundQueues, NEW j \in 1..Len(cq.queued)
  PROVE  LET r == Dequeue(cq, j)
         IN  r.inflight[Len(r.inflight)].dir = cq.queued[j].dir
<1> DEFINE head == SubSeq(cq.queued, 1, j)
           t    == Mapped(head, Started)
           r    == Dequeue(cq, j)
<1>1. /\ cq.inflight \in Seq(ClientMsg) /\ cq.queued \in Seq(ClientMsg)
      /\ Len(cq.queued) \in Nat /\ Len(cq.inflight) \in Nat
  BY SoundParts
<1>2. /\ head \in Seq(ClientMsg) /\ Len(head) = j /\ DOMAIN head = 1..j
      /\ head[j] = cq.queued[j]
  BY <1>1, SubSeqProperties
<1> HIDE DEF head
<1>3. t = [i \in 1..j |-> Started(head[i])]
  BY <1>2 DEF Mapped
<1>4. t \in Seq(ClientMsg) /\ Len(t) = j /\ t[j] = Started(cq.queued[j])
  <2>1. \A i \in 1..j : Started(head[i]) \in ClientMsg
    <3>1. \A i \in 1..j : head[i] \in ClientMsg
      BY <1>2
    <3> QED BY <3>1, MsgSteps DEF InflightMsg
  <2> QED BY <1>2, <1>3, <2>1
<1> HIDE DEF t
<1>5. r.inflight = cq.inflight \o t
  BY DEF Dequeue, SoundQueues, t, head
<1> HIDE DEF r
<1>6. r.inflight[Len(r.inflight)] = t[j]
  <2> DEFINE s == cq.inflight
  <2>1. s \in Seq(ClientMsg) /\ t \in Seq(ClientMsg) /\ Len(t) = j /\ j \in Nat \ {0}
    BY <1>1, <1>4
  <2> HIDE DEF s
  <2>2. Len(s \o t) = Len(s) + j /\ (s \o t)[Len(s) + j] = t[j]
    BY <2>1
  <2> QED BY <1>5, <2>2 DEF s
<1>7. r.inflight[Len(r.inflight)] = Started(cq.queued[j])
  BY <1>4, <1>6
<1>8. Started(cq.queued[j]).dir = cq.queued[j].dir
  <2>1. cq.queued[j] \in ClientMsg
    BY <1>1
  <2> QED BY <2>1 DEF Started, ClientMsg
<1> QED BY <1>7, <1>8 DEF r

(* db__message_remove touches inflight_msgs and the counters only.          *)
LEMMA RemoveSound ==
  ASSUME NEW cq \in SoundQueues, NEW K
  PROVE  /\ Remove(cq, K) \in SoundQueues
         /\ Remove(cq, K).queued = cq.queued
         /\ Remove(cq, K).tally = Minus(cq.tally, Tally(Keep(cq.inflight, K)))
<1> DEFINE s == Keep(cq.inflight, DOMAIN cq.inflight \ K)
           t == Minus(cq.tally, Tally(Keep(cq.inflight, K)))
<1>1. s \in Seq(InflightMsg)
  BY SoundParts, KeepType
<1>2. t \in Tallies
  <2>1. Keep(cq.inflight, K) \in Seq(ClientMsg)
    BY SoundParts, KeepType
  <2> QED BY <2>1, SoundParts, TallyType, PlusMinusType
<1>3. Remove(cq, K) = [cq EXCEPT !.inflight = s, !.tally = t]
  BY DEF Remove, SoundQueues
<1> HIDE DEF s, t
<1>4. Remove(cq, K) \in SoundQueues
  BY <1>1, <1>2, <1>3 DEF SoundQueues
<1>5. Remove(cq, K).queued = cq.queued /\ Remove(cq, K).tally = t
  BY <1>3 DEF SoundQueues
<1> QED BY <1>4, <1>5 DEF t

(* Giving one message in flight a state of its direction.                   *)
LEMMA StateAtSound ==
  ASSUME NEW cq \in SoundQueues, NEW i, NEW st,
         i \in DOMAIN cq.inflight => st \in StatesFor(cq.inflight[i].dir), st # "publish_qos0"
  PROVE  [cq EXCEPT !.inflight[i].state = st] \in SoundQueues
<1> DEFINE s == [cq.inflight EXCEPT ![i].state = st]
<1>1. cq.inflight \in Seq(InflightMsg) /\ InflightMsg \subseteq ClientMsg
  BY SoundParts DEF InflightMsg
<1>2. s \in Seq(InflightMsg)
  <2>1. CASE i \in DOMAIN cq.inflight
    <3>1. cq.inflight[i] \in ClientMsg
      BY <1>1, <2>1
    <3>2. [cq.inflight[i] EXCEPT !.state = st] \in InflightMsg
      BY <2>1, <3>1, SetState
    <3>3. s = [cq.inflight EXCEPT ![i] = [cq.inflight[i] EXCEPT !.state = st]]
      OBVIOUS
    <3> HIDE DEF s
    <3> QED BY <1>1, <2>1, <3>2, <3>3
  <2>2. CASE i \notin DOMAIN cq.inflight
    <3>1. s = cq.inflight
      BY <1>1, <2>2
    <3> QED BY <1>1, <3>1
  <2> QED BY <2>1, <2>2
<1>3. [cq EXCEPT !.inflight[i].state = st] = [cq EXCEPT !.inflight = s]
  BY DEF SoundQueues
<1> HIDE DEF s
<1> QED BY <1>2, <1>3 DEF SoundQueues

(* db__message_update leaves sound lists.                                   *)
LEMMA UpdateSound ==
  ASSUME NEW cq \in SoundQueues, NEW mid, NEW dir, NEW st \in OutStates,
         st # "publish_qos0"
  PROVE  Update(cq, mid, dir, st) \in SoundQueues
BY StateAtSound, StatesForAre DEF Update

(* db__message_delete leaves sound lists and moves no more messages than    *)
(* the queue has.                                                           *)
LEMMA DeleteSound ==
  ASSUME NEW cq \in SoundQueues, NEW mid, NEW dir
  PROVE  /\ DeleteMoves(cq, mid, dir) \in 0..Len(cq.queued)
         /\ Delete(cq, mid, dir) \in SoundQueues
<1> DEFINE r == Remove(cq, Matching(cq.inflight, mid, dir))
<1>1. r \in SoundQueues /\ r.queued = cq.queued
  BY RemoveSound
<1>2. Len(r.queued) \in Nat /\ Len(r.inflight) \in Nat
  BY <1>1, SoundParts
<1>3. DeleteMoves(cq, mid, dir) \in 0..Len(r.queued)
  <2> HIDE DEF r
  <2>1. Moves(r, Len(r.inflight)) \in 0..Len(r.queued)
    BY <1>2, MovesType
  <2> QED BY <2>1 DEF DeleteMoves, r
<1>4. Delete(cq, mid, dir) = Dequeue(r, DeleteMoves(cq, mid, dir))
  BY DEF Delete
<1> HIDE DEF r
<1> QED BY <1>1, <1>3, <1>4, DequeueSound

(* db__message_release leaves sound lists and moves no more messages than   *)
(* the queue has.                                                           *)
LEMMA ReleaseSound ==
  ASSUME NEW cq \in SoundQueues, NEW mid
  PROVE  /\ ReleaseMoves(cq) \in 0..Len(cq.queued)
         /\ Release(cq, mid) \in SoundQueues
<1> DEFINE r == Remove(cq, Matching(cq.inflight, mid, "in"))
<1>1. r \in SoundQueues /\ r.queued = cq.queued
  BY RemoveSound
<1>2. ReleaseMoves(cq) \in 0..Len(cq.queued)
  BY SoundParts, MovesType DEF ReleaseMoves
<1>3. Release(cq, mid) = Dequeue(r, ReleaseMoves(cq))
  BY DEF Release
<1> HIDE DEF r
<1> QED BY <1>1, <1>2, <1>3, DequeueSound

(* The walk of db__message_write over inflight_msgs leaves sound lists,     *)
(* whichever of the sends were made.                                        *)
LEMMA SendAllSound ==
  ASSUME NEW cq \in SoundQueues, NEW P
  PROVE  /\ SendAll(cq, P) \in SoundQueues
         /\ SendAll(cq, P).queued = cq.queued
<1> DEFINE r == Remove(cq, SentQoS0(cq, P))
           s == [i \in DOMAIN cq.inflight |-> IF i \in P THEN AfterSend(cq.inflight[i])
                                                         ELSE cq.inflight[i]]
           k == Keep(s, DOMAIN s \ SentQoS0(cq, P))
<1>1. r \in SoundQueues /\ r.queued = cq.queued
  BY RemoveSound
<1>2. s \in Seq(InflightMsg)
  <2>1. cq.inflight \in Seq(InflightMsg)
    BY SoundParts
  <2>2. \A i \in DOMAIN cq.inflight : s[i] \in InflightMsg
    BY <2>1, MsgSteps
  <2>3. DOMAIN cq.inflight = 1..Len(cq.inflight) /\ Len(cq.inflight) \in Nat
    BY <2>1
  <2>4. s = [i \in 1..Len(cq.inflight) |-> s[i]]
    BY <2>3
  <2> HIDE DEF s
  <2> QED BY <2>2, <2>3, <2>4
<1>3. k \in Seq(InflightMsg)
  <2> HIDE DEF s
  <2> QED BY <1>2, KeepType
<1>4. SendAll(cq, P) = [r EXCEPT !.inflight = k]
  BY DEF SendAll
<1> HIDE DEF r, s, k
<1> QED BY <1>1, <1>3, <1>4 DEF SoundQueues

(* db__message_write leaves sound lists, when it ends and when one of its   *)
(* sends fails; the last of the messages it had moved is then one from the  *)
(* client.                                                                  *)
LEMMA WriteSound ==
  ASSUME NEW cq \in SoundQueues
  PROVE  /\ WriteMoves(cq) \in 0..Len(cq.queued)
         /\ Write(cq) \in SoundQueues
         /\ \A i : WriteFailsAt(cq, i) \in SoundQueues
         /\ \A j \in 1..WriteMoves(cq) :
              cq.queued[j].dir = "in" => WriteFailsAtPubrec(cq, j) \in SoundQueues
<1>1. WriteMoves(cq) \in 0..Len(cq.queued)
  BY SoundParts, MovesType DEF WriteMoves
<1>2. SendAll(cq, Pending(cq)) \in SoundQueues /\ SendAll(cq, Pending(cq)).queued = cq.queued
  BY SendAllSound
<1>3. \A j \in 0..WriteMoves(cq) : Dequeue(SendAll(cq, Pending(cq)), j) \in SoundQueues
  BY <1>1, <1>2, DequeueSound, SoundParts
<1>4. Write(cq) \in SoundQueues
  BY <1>1, <1>3 DEF Write
<1>5. ASSUME NEW i PROVE WriteFailsAt(cq, i) \in SoundQueues
  BY SendAllSound DEF WriteFailsAt
<1>6. ASSUME NEW j \in 1..WriteMoves(cq), cq.queued[j].dir = "in"
      PROVE  WriteFailsAtPubrec(cq, j) \in SoundQueues
  <2> DEFINE u == SendAll(cq, Pending(cq))
             r == Dequeue(u, j)
  <2>1. r \in SoundQueues
    BY <1>1, <1>3
  <2>2. r.inflight[Len(r.inflight)].dir = "in"
    BY <1>1, <1>2, <1>6, LastMoved
  <2>3. "send_pubrec" \in StatesFor("in")
    BY StatesForAre DEF InStates
  <2> HIDE DEF r
  <2>4. [r EXCEPT !.inflight[Len(r.inflight)].state = "send_pubrec"] \in SoundQueues
    BY <2>1, <2>2, <2>3, StateAtSound
  <2> QED BY <2>4 DEF WriteFailsAtPubrec, r
<1> QED BY <1>1, <1>4, <1>5, <1>6

(* What db__message_insert may decide.                                      *)
LEMMA InsertStateType ==
  ASSUME NEW cq, NEW online \in BOOLEAN, NEW dir \in {"in", "out"}, NEW qos \in QoS
  PROVE  \/ InsertState(cq, online, dir, qos) = "dropped"
         \/ InsertState(cq, online, dir, qos) = "queued" /\ (QueueQoS0 \/ qos > 0)
         \/ InsertState(cq, online, dir, qos) \in StatesFor(dir)
<1>1. "wait_for_pubrel" \in StatesFor("in")
  BY StatesForAre DEF InStates
<1>2. PublishState(qos) \in StatesFor(dir)
  BY MsgSteps, StatesForAre
<1>3. qos = 0 => ReadyForFlight(cq.tally, qos)
  BY DEF ReadyForFlight
<1> QED BY <1>1, <1>2, <1>3 DEF InsertState, QoS

(* db__message_insert leaves sound lists: with queue_qos0_messages off what *)
(* it queues has QoS 1 or 2.                                                *)
LEMMA InsertSound ==
  ASSUME NEW cq \in SoundQueues, NEW online \in BOOLEAN, NEW s \in Stored, NEW mid \in Nat,
         NEW dir \in {"in", "out"}, NEW qos \in QoS
  PROVE  Insert(cq, online, s, mid, dir, qos) \in SoundQueues
<1> DEFINE st == InsertState(cq, online, dir, qos)
           m  == [store |-> s, mid |-> mid, dir |-> dir, state |-> st, qos |-> qos]
           t  == Plus(cq.tally, Tally(<<m>>))
<1>1. \/ st = "dropped"
      \/ st = "queued" /\ (QueueQoS0 \/ qos > 0)
      \/ st \in StatesFor(dir)
  BY InsertStateType
<1>2. CASE st = "dropped"
  BY <1>2 DEF Insert
<1>3. CASE st # "dropped"
  <2> HIDE DEF st
  <2>1. m \in ClientMsg
    <3>1. st \in States
      BY <1>1, <1>3, StatesForAre DEF States
    <3> QED BY <3>1 DEF ClientMsg
  <2>2. t \in Tallies
    <3>1. <<m>> \in Seq(ClientMsg)
      BY <2>1
    <3> HIDE DEF m
    <3> QED BY <3>1, SoundParts, TallyType, PlusMinusType
  <2>3. cq.inflight \in Seq(InflightMsg) /\ cq.queued \in Seq(QueuedMsg)
    BY SoundParts
  <2>4. CASE st = "queued"
    <3>1. m \in QueuedMsg
      BY <1>1, <2>1, <2>4, StatesForAre DEF QueuedMsg, Acknowledged
    <3>2. Append(cq.queued, m) \in Seq(QueuedMsg)
      <4> HIDE DEF m
      <4> QED BY <2>3, <3>1
    <3>3. Insert(cq, online, s, mid, dir, qos)
            = [cq EXCEPT !.queued = Append(cq.queued, m), !.tally = t]
      BY <2>4 DEF Insert, SoundQueues, st
    <3> HIDE DEF m, t
    <3> QED BY <2>2, <3>2, <3>3 DEF SoundQueues
  <2>5. CASE st # "queued"
    <3>1. m \in InflightMsg
      <4>1. st = "publish_qos0" => qos = 0
        BY PublishStateIs DEF st, InsertState
      <4> QED BY <1>1, <1>3, <2>1, <2>5, <4>1 DEF InflightMsg, Acknowledged
    <3>2. Append(cq.inflight, m) \in Seq(InflightMsg)
      <4> HIDE DEF m
      <4> QED BY <2>3, <3>1
    <3>3. Insert(cq, online, s, mid, dir, qos)
            = [cq EXCEPT !.inflight = Append(cq.inflight, m), !.tally = t]
      BY <1>3, <2>5 DEF Insert, SoundQueues, st
    <3> HIDE DEF m, t
    <3> QED BY <2>2, <3>2, <3>3 DEF SoundQueues
  <2> QED BY <2>4, <2>5
<1> QED BY <1>2, <1>3

-----------------------------------------------------------------------------
(* The reset at reconnection.                                               *)

(* When the loop over the queue is past its head, the window is full: the   *)
(* counters never go down, so the message it gives a publish state is the   *)
(* one it moves.                                                            *)
Resets ==
  {r \in [q: SoundQueues, p: Nat \ {0}] :
     QueueQoS0 \/ (r.p > 1 => ~ReadyForFlight(r.q.tally, 1))}

(* A window with room for a message when more is counted had room before:   *)
(* db__ready_for_flight compares counters that only grow.                   *)
LEMMA ReadyShrinks ==
  ASSUME NEW t \in Tallies, NEW s \in Seq(ClientMsg), NEW qos \in QoS \ {0},
         ReadyForFlight(Plus(t, Tally(s)), qos)
  PROVE  ReadyForFlight(t, 1)
<1>1. Tally(s) \in Tallies /\ Tally(s).count12 >= 0 /\ Tally(s).bytes12 >= 0
  BY TallyType
<1> DEFINE u == Tally(s)
<1> HIDE DEF u
<1>2. /\ u \in Tallies /\ u.count12 >= 0 /\ u.bytes12 >= 0
      /\ ReadyForFlight(Plus(t, u), qos)
  BY <1>1 DEF u
<1>3. /\ Plus(t, u).count12 = t.count12 + u.count12
      /\ Plus(t, u).bytes12 = t.bytes12 + u.bytes12
  BY <1>2, PlusMinusType
<1>4. t.count12 \in Int /\ t.bytes12 \in Int /\ u.count12 \in Int /\ u.bytes12 \in Int
  BY <1>2 DEF Tallies
<1> QED BY <1>2, <1>3, <1>4, LimitsAssumption DEF ReadyForFlight, QoS

(* One turn of the loop of db__message_reconnect_reset over queued_msgs:    *)
(* while the loop is past the head the window is full, so the message it    *)
(* makes ready is the one it moves.                                         *)
LEMMA ResetVisitSound ==
  ASSUME NEW r \in Resets, ~(r.p > Len(r.q.queued))
  PROVE  ResetVisit(r.q, r.p) \in Resets
<1> DEFINE cq == r.q
           p  == r.p
           m  == cq.queued[p]
           t  == Plus(cq.tally, Tally(<<m>>))
           s  == [cq.queued EXCEPT ![p].state = PublishState(m.qos)]
<1>1. /\ cq \in SoundQueues /\ p \in Nat \ {0} /\ p \in 1..Len(cq.queued)
      /\ QueueQoS0 \/ (p > 1 => ~ReadyForFlight(cq.tally, 1))
  <2>1. r.q \in SoundQueues /\ r.p \in Nat \ {0}
    BY DEF Resets
  <2>2. Len(r.q.queued) \in Nat
    BY <2>1, SoundParts
  <2> QED BY <2>1, <2>2 DEF Resets
<1>2. r = [q |-> cq, p |-> p]
  BY DEF Resets
<1> HIDE DEF cq, p
<1>3. /\ cq.inflight \in Seq(InflightMsg) /\ cq.queued \in Seq(QueuedMsg)
      /\ cq.tally \in Tallies
  BY <1>1, SoundParts
<1>4. m \in QueuedMsg /\ m \in ClientMsg /\ m.qos \in QoS
  BY <1>1, <1>3 DEF QueuedMsg, ClientMsg
<1> DEFINE n == [m EXCEPT !.state = PublishState(m.qos)]
<1>5. n \in InflightMsg
  <2>1. PublishState(m.qos) \in StatesFor(m.dir)
    BY <1>4, MsgSteps, StatesForAre
  <2> QED BY <1>4, <2>1, PublishStateIs, SetState
<1>6. s = [cq.queued EXCEPT ![p] = n]
  OBVIOUS
<1>7. <<m>> \in Seq(ClientMsg)
  BY <1>4
<1>8. t \in Tallies
  <2> HIDE DEF m
  <2> QED BY <1>3, <1>7, TallyType, PlusMinusType
<1>9. ReadyForFlight(t, m.qos) /\ ~QueueQoS0 => p = 1 /\ ReadyForFlight(t, 1)
  <2>1. SUFFICES ASSUME ReadyForFlight(t, m.qos), ~QueueQoS0 PROVE p = 1 /\ ReadyForFlight(t, 1)
    OBVIOUS
  <2>2. m.qos \in QoS \ {0}
    BY <1>4, <2>1 DEF QueuedMsg, QoS
  <2>3. ReadyForFlight(cq.tally, 1)
    <3> HIDE DEF m
    <3> QED BY <1>3, <1>7, <2>1, <2>2, ReadyShrinks
  <2>4. ReadyForFlight(t, 1)
    <3> HIDE DEF t
    <3> QED BY <2>1, <2>2 DEF ReadyForFlight, QoS
  <2> QED BY <1>1, <2>1, <2>3, <2>4
<1>10. ~ReadyForFlight(t, m.qos) => QueueQoS0 \/ ~ReadyForFlight(t, 1)
  <2> HIDE DEF t
  <2> QED BY <1>4 DEF ReadyForFlight, QueuedMsg, QoS
<1>11. CASE ReadyForFlight(t, m.qos)
  <2> HIDE DEF n, m
  <2>1. s # <<>> /\ Len(s) = Len(cq.queued) /\ DOMAIN s = 1..Len(cq.queued)
    BY <1>1, <1>3, <1>6
  <2>2. Head(s) \in InflightMsg
    <3>1. Head(s) = IF p = 1 THEN n ELSE cq.queued[1]
      BY <1>1, <1>3, <1>6, <2>1
    <3>2. QueueQoS0 => cq.queued[1] \in InflightMsg
      BY <1>1, <1>3 DEF QueuedMsg, InflightMsg
    <3> HIDE DEF s
    <3> QED BY <1>5, <1>9, <1>11, <3>1, <3>2
  <2>3. Tail(s) \in Seq(QueuedMsg)
    <3>1. CASE p = 1
      <4>1. Tail(s) = Tail(cq.queued)
        BY <1>1, <1>3, <1>6, <2>1, <3>1
      <4>2. cq.queued # <<>>
        BY <1>1, <1>3
      <4> HIDE DEF s
      <4> QED BY <1>3, <4>1, <4>2, HeadTailProperties
    <3>2. CASE p # 1
      <4>1. QueueQoS0
        BY <1>9, <1>11, <3>2
      <4>2. InflightMsg = QueuedMsg
        BY <4>1 DEF InflightMsg, QueuedMsg
      <4>3. s \in Seq(QueuedMsg)
        BY <1>1, <1>3, <1>5, <1>6, <4>2
      <4> HIDE DEF s
      <4> QED BY <2>1, <4>3
    <3> QED BY <3>1, <3>2
  <2> DEFINE z == [cq EXCEPT !.inflight = Append(cq.inflight, Head(s)), !.queued = Tail(s), !.tally = t]
  <2>4. z \in SoundQueues
    <3>1. Append(cq.inflight, Head(s)) \in Seq(InflightMsg)
      <4> HIDE DEF s
      <4> QED BY <1>3, <2>2
    <3> HIDE DEF s, t
    <3> QED BY <1>1, <1>8, <2>3, <3>1 DEF SoundQueues
  <2>5. ResetVisit(r.q, r.p) = [q |-> z, p |-> 1]
    <3>1. z = [cq EXCEPT !.inflight = Append(@, Head(s)), !.queued = Tail(s), !.tally = t]
      BY <1>1 DEF SoundQueues
    <3> QED BY <1>11, <3>1 DEF ResetVisit, cq, p, m
  <2> HIDE DEF z
  <2> QED BY <2>4, <2>5 DEF Resets
<1>12. CASE ~ReadyForFlight(t, m.qos)
  <2> DEFINE z == [cq EXCEPT !.tally = t]
  <2>1. z \in SoundQueues /\ z.tally = t
    <3> HIDE DEF t
    <3> QED BY <1>1, <1>8 DEF SoundQueues
  <2>2. ResetVisit(r.q, r.p) = [q |-> z, p |-> p + 1]
    BY <1>12 DEF ResetVisit, cq, p
  <2> HIDE DEF z, t
  <2>3. QueueQoS0 \/ ~ReadyForFlight(t, 1)
    BY <1>10, <1>12
  <2>4. p + 1 \in Nat \ {0}
    BY <1>1
  <2> QED BY <2>1, <2>2, <2>3, <2>4 DEF Resets
<1> HIDE DEF t, m
<1> QED BY <1>11, <1>12

(* db__message_reconnect_reset leaves sound lists.                          *)
LEMMA ResetSound ==
  ASSUME NEW cq \in SoundQueues
  PROVE  Reset(cq) \in SoundQueues
<1> DEFINE s == Mapped(cq.inflight, ResetState)
<1>1. s \in Seq(InflightMsg)
  <2>1. cq.inflight \in Seq(InflightMsg)
    BY SoundParts
  <2>2. \A i \in DOMAIN cq.inflight : ResetState(cq.inflight[i]) \in InflightMsg
    BY <2>1, MsgSteps
  <2>3. DOMAIN cq.inflight = 1..Len(cq.inflight) /\ Len(cq.inflight) \in Nat
    BY <2>1
  <2>4. s = [i \in 1..Len(cq.inflight) |-> ResetState(cq.inflight[i])]
    BY <2>3 DEF Mapped
  <2> HIDE DEF s
  <2> QED BY <2>2, <2>3, <2>4
<1>2. Tally(s) \in Tallies
  <2>1. s \in Seq(ClientMsg)
    <3> HIDE DEF s
    <3> QED BY <1>1 DEF InflightMsg
  <2> HIDE DEF s
  <2> QED BY <2>1, TallyType
<1>3. ResetFirst(cq) \in Resets
  <2> HIDE DEF s
  <2>1. [cq EXCEPT !.inflight = s, !.tally = Tally(s)] \in SoundQueues
    BY <1>1, <1>2 DEF SoundQueues
  <2>2. ResetFirst(cq) = [q |-> [cq EXCEPT !.inflight = s, !.tally = Tally(s)], p |-> 1]
    BY DEF ResetFirst, s
  <2> QED BY <2>1, <2>2 DEF Resets
<1>4. Turns(cq) \in Nat
  BY SoundParts DEF Turns
<1>5. PICK r \in Resets : Reset(cq) = r.q
  <2>1. \A r \in Resets : ~(r.p > Len(r.q.queued)) => ResetVisit(r.q, r.p) \in Resets
    BY ResetVisitSound
  <2> QED BY <1>3, <1>4, <2>1, ResetIn
<1> QED BY <1>5 DEF Resets

-----------------------------------------------------------------------------
(* Sets of queues that the functions of database.c do not leave, as the     *)
(* handlers call them.  Stable: a queue is made empty and gets messages for *)
(* the client.  Fills: handle__publish inserts a message from the client    *)
(* under the identifier the client gave it, and only when                   *)
(* db__message_store_find has not found that identifier in either list.     *)
(* Serves: the rest.                                                        *)

Stable(R) ==
  /\ R \subseteq Queues /\ EmptyQueue \in R
  /\ \A cq \in R :
       /\ \A n \in Nat : [cq EXCEPT !.last_mid = n] \in R
       /\ \A online \in BOOLEAN, s \in Stored, mid \in Nat, qos \in QoS :
            Insert(cq, online, s, mid, "out", qos) \in R

Fills(R) ==
  \A cq \in R, s \in Stored, mid \in Nat :
    mid = s.source_mid /\ StoreFind(cq, mid) = {} => Insert(cq, TRUE, s, mid, "in", 2) \in R

Serves(R) ==
  \A cq \in R :
    /\ \A mid \in Nat : /\ Delete(cq, mid, "out") \in R
                        /\ Release(cq, mid) \in R
                        /\ Update(cq, mid, "out", "wait_for_pubcomp") \in R
    /\ Write(cq) \in R /\ Reset(cq) \in R
    /\ \A i \in Nat : WriteFailsAt(cq, i) \in R
    /\ \A j \in 1..WriteMoves(cq) :
         cq.queued[j].dir = "in" => WriteFailsAtPubrec(cq, j) \in R

Closed(R) == Stable(R) /\ Fills(R) /\ Serves(R)

(* No function of database.c leaves the sound queues.                       *)
LEMMA SoundClosed == Closed(SoundQueues)
<1>1. SoundQueues \subseteq Queues
  BY SoundParts
<1>2. EmptyQueue \in SoundQueues
  <2>1. NoTally \in Tallies
    BY DEF NoTally, Tallies
  <2>2. <<>> \in Seq(InflightMsg) /\ <<>> \in Seq(QueuedMsg)
    OBVIOUS
  <2> QED BY <2>1, <2>2 DEF EmptyQueue, SoundQueues
<1>3. ASSUME NEW cq \in SoundQueues
      PROVE  /\ \A n \in Nat : [cq EXCEPT !.last_mid = n] \in SoundQueues
             /\ \A mid \in Nat : /\ Delete(cq, mid, "out") \in SoundQueues
                                 /\ Release(cq, mid) \in SoundQueues
                                 /\ Update(cq, mid, "out", "wait_for_pubcomp") \in SoundQueues
             /\ Write(cq) \in SoundQueues /\ Reset(cq) \in SoundQueues
             /\ \A i \in Nat : WriteFailsAt(cq, i) \in SoundQueues
             /\ \A j \in 1..WriteMoves(cq) :
                  cq.queued[j].dir = "in" => WriteFailsAtPubrec(cq, j) \in SoundQueues
  <2>1. \A n \in Nat : [cq EXCEPT !.last_mid = n] \in SoundQueues
    BY DEF SoundQueues
  <2>2. "wait_for_pubcomp" \in OutStates
    BY DEF OutStates
  <2>3. \A mid \in Nat : Update(cq, mid, "out", "wait_for_pubcomp") \in SoundQueues
    BY <2>2, UpdateSound
  <2>4. \A mid \in Nat : Delete(cq, mid, "out") \in SoundQueues /\ Release(cq, mid) \in SoundQueues
    BY DeleteSound, ReleaseSound
  <2> QED BY <2>1, <2>3, <2>4, WriteSound, ResetSound
<1>11. Stable(SoundQueues)
  <2>1. ASSUME NEW cq \in SoundQueues, NEW online \in BOOLEAN, NEW s \in Stored,
               NEW mid \in Nat, NEW qos \in QoS
        PROVE  Insert(cq, online, s, mid, "out", qos) \in SoundQueues
    BY InsertSound
  <2> QED BY <1>1, <1>2, <1>3, <2>1 DEF Stable
<1>12. Fills(SoundQueues)
  <2>1. ASSUME NEW cq \in SoundQueues, NEW s \in Stored, NEW mid \in Nat,
               mid = s.source_mid, StoreFind(cq, mid) = {}
        PROVE  Insert(cq, TRUE, s, mid, "in", 2) \in SoundQueues
    <3>1. \A online \in BOOLEAN, dir \in {"in", "out"}, qos \in QoS :
            Insert(cq, online, s, mid, dir, qos) \in SoundQueues
      BY <2>1, InsertSound
    <3>2. TRUE \in BOOLEAN /\ "in" \in {"in", "out"} /\ 2 \in QoS
      BY DEF QoS
    <3> QED BY <3>1, <3>2, Zenon
  <2> QED BY <2>1 DEF Fills
<1>13. Serves(SoundQueues)
  BY <1>3 DEF Serves
<1> QED BY <1>11, <1>12, <1>13 DEF Closed

-----------------------------------------------------------------------------
(* What the loops over the queue move and send.                             *)

(* The loops that move queued messages never move more than there are.      *)
LEMMA QueueMoves ==
  ASSUME NEW cq \in Queues
  PROVE  /\ \A mid, dir : DeleteMoves(cq, mid, dir) \in 0..Len(cq.queued)
         /\ ReleaseMoves(cq) \in 0..Len(cq.queued)
         /\ WriteMoves(cq) \in 0..Len(cq.queued)
<1>1. /\ cq.inflight \in Seq(ClientMsg) /\ Len(cq.queued) \in Nat
      /\ Len(cq.inflight) \in Nat
  BY DEF Queues
<1>2. ASSUME NEW mid, NEW dir PROVE DeleteMoves(cq, mid, dir) \in 0..Len(cq.queued)
  <2> DEFINE K == Matching(cq.inflight, mid, dir)
             r == Remove(cq, K)
             s == Keep(cq.inflight, DOMAIN cq.inflight \ K)
  <2>1. s \in Seq(ClientMsg)
    BY <1>1, KeepType
  <2>2. r.inflight = s /\ r.queued = cq.queued
    <3> HIDE DEF K
    <3> QED BY DEF Remove, Queues
  <2> HIDE DEF r, s
  <2>3. Moves(r, Len(r.inflight)) \in 0..Len(r.queued)
    <3>1. Len(r.queued) \in Nat /\ Len(r.inflight) \in Nat
      BY <1>1, <2>1, <2>2
    <3> QED BY ONLY <3>1, MovesType
  <2> QED BY <2>2, <2>3 DEF DeleteMoves, r
<1>3. ReleaseMoves(cq) \in 0..Len(cq.queued) /\ WriteMoves(cq) \in 0..Len(cq.queued)
  BY <1>1, MovesType DEF ReleaseMoves, WriteMoves
<1> QED BY <1>2, <1>3

(* The identifiers whose PUBREC those loops send.                           *)
LEMMA PubrecsType ==
  ASSUME NEW cq \in Queues, NEW k \in 0..Len(cq.queued)
  PROVE  DequeuePubrecs(cq, k) \in Seq(Nat)
<1> DEFINE head == SubSeq(cq.queued, 1, k)
           ins  == Keep(head, {i \in DOMAIN head : head[i].dir = "in"})
<1>1. cq.queued \in Seq(ClientMsg) /\ Len(cq.queued) \in Nat
  BY DEF Queues
<1>2. head \in Seq(ClientMsg)
  BY <1>1, SubSeqProperties
<1>3. ins \in Seq(ClientMsg)
  <2> HIDE DEF head
  <2> QED BY <1>2, KeepType
<1>4. DequeuePubrecs(cq, k) = [i \in DOMAIN ins |-> ins[i].mid]
  BY DEF DequeuePubrecs
<1> HIDE DEF ins
<1>5. DOMAIN ins = 1..Len(ins) /\ Len(ins) \in Nat
  BY <1>3
<1>6. \A i \in 1..Len(ins) : ins[i].mid \in Nat
  <2>1. \A i \in 1..Len(ins) : ins[i] \in ClientMsg
    BY <1>3
  <2>2. \A m \in ClientMsg : m.mid \in Nat
    BY DEF ClientMsg
  <2> QED BY <2>1, <2>2
<1> QED BY <1>4, <1>5, <1>6

-----------------------------------------------------------------------------
(* What the functions of database.c do to the messages of a context apart   *)
(* from their states: which leave the lists, which are added, and that the  *)
(* four counters follow them.  A count of messages is a function on lists   *)
(* that adds up over their elements; what holds of those is proved once and *)
(* used for the counters, for references and for identifiers.               *)

-----------------------------------------------------------------------------
(* Functions that add up over the elements of a list.                       *)

Additive(F, S) ==
  /\ F \in [Seq(S) -> Int] /\ F[<<>>] = 0
  /\ \A s \in Seq(S), x \in S : F[Append(s, x)] = F[s] + F[<<x>>]

(* A list is built up from its prefixes.                                    *)
LEMMA Prefixes ==
  ASSUME NEW S, NEW s \in Seq(S)
  PROVE  /\ SubSeq(s, 1, 0) = <<>> /\ SubSeq(s, 1, Len(s)) = s
         /\ \A n \in 0..Len(s) : SubSeq(s, 1, n) \in Seq(S)
         /\ \A n \in 0..(Len(s) - 1) : /\ s[n + 1] \in S
                                       /\ SubSeq(s, 1, n + 1) = Append(SubSeq(s, 1, n), s[n + 1])
<1>1. Len(s) \in Nat /\ \A i \in 1..Len(s) : s[i] \in S
  OBVIOUS
<1>2. SubSeq(s, 1, 0) = <<>> /\ SubSeq(s, 1, Len(s)) = s
  BY SubSeqEmpty, SubSeqFull
<1>3. \A n \in 0..Len(s) : SubSeq(s, 1, n) \in Seq(S)
  BY <1>1, SubSeqProperties
<1>4. ASSUME NEW n \in 0..(Len(s) - 1)
      PROVE  /\ s[n + 1] \in S
             /\ SubSeq(s, 1, n + 1) = Append(SubSeq(s, 1, n), s[n + 1])
  <2>1. 1 \in 1..Len(s) /\ n + 1 \in 1..Len(s) /\ (n + 1) - 1 = n /\ n \in 0..Len(s)
    BY <1>1
  <2>2. SubSeq(s, 1, n + 1) = SubSeq(s, 1, n) \o <<s[n + 1]>>
    BY <2>1, SubSeqRecursiveSecond
  <2>3. s[n + 1] \in S /\ SubSeq(s, 1, n) \in Seq(S)
    BY <1>1, <1>3, <2>1
  <2> QED BY <2>2, <2>3, AppendIsConcat
<1> QED BY <1>2, <1>3, <1>4

(* What is kept of one stretch of a list is that part of it.                *)
LEMMA KeepStretch ==
  ASSUME NEW S, NEW s \in Seq(S), NEW hi \in 0..Len(s), NEW lo \in 0..hi
  PROVE  Keep(s, (lo + 1)..hi) = SubSeq(s, lo + 1, hi)
<1> DEFINE K == (lo + 1)..hi
           top(n) == IF n < hi THEN n ELSE hi
           u(n) == SubSeq(s, lo + 1, top(n))
<1>1. Len(s) \in Nat /\ lo \in Nat /\ hi \in Nat /\ lo <= hi /\ hi <= Len(s)
  OBVIOUS
<1>2. PICK f \in [0..Len(s) -> Seq(S)] : KeptBy(s, K, f) /\ Keep(s, K) = f[Len(s)]
  BY KeepDefined
<1>k. /\ f[0] = <<>>
      /\ \A n \in Nat : n + 1 \in 0..Len(s) =>
           f[n + 1] = IF n + 1 \in K THEN Append(f[n], s[n + 1]) ELSE f[n]
  <2> HIDE DEF K
  <2> QED BY ONLY <1>1, <1>2, KeptAt
<1> DEFINE V == {n \in Nat : n \in 0..Len(s) => f[n] = u(n)}
<1>3. 0 \in V
  <2>1. f[0] = <<>>
    BY <1>k
  <2>2. top(0) = 0 /\ lo + 1 \in Int /\ 0 < lo + 1
    BY <1>1
  <2>3. u(0) = <<>>
    <3> HIDE DEF top
    <3> QED BY <2>2, SubSeqEmpty
  <2> QED BY <2>1, <2>3
<1>4. ASSUME NEW n \in V PROVE n + 1 \in V
  <2>1. SUFFICES ASSUME n + 1 \in 0..Len(s) PROVE f[n + 1] = u(n + 1)
    OBVIOUS
  <2>2. n \in Nat /\ n \in 0..Len(s) /\ f[n] = u(n)
    BY <1>1, <2>1
  <2>3. f[n + 1] = IF n + 1 \in K THEN Append(f[n], s[n + 1]) ELSE f[n]
    BY <1>k, <2>1, <2>2
  <2> HIDE DEF u, V
  <2>4. CASE n + 1 \in K
    <3>1. top(n) = n /\ top(n + 1) = n + 1 /\ lo + 1 \in 1..Len(s) /\ n + 1 \in (lo + 1)..Len(s)
      BY <1>1, <2>2, <2>1, <2>4
    <3>2. SubSeq(s, lo + 1, n + 1) = SubSeq(s, lo + 1, (n + 1) - 1) \o <<s[n + 1]>>
      BY <3>1, SubSeqRecursiveSecond
    <3>3. (n + 1) - 1 = n
      BY <2>2
    <3>4. u(n + 1) = SubSeq(s, lo + 1, n + 1) /\ u(n) = SubSeq(s, lo + 1, n)
      BY <3>1 DEF u
    <3>5. u(n) \in Seq(S) /\ s[n + 1] \in S
      BY <2>1, <2>2
    <3>6. u(n + 1) = u(n) \o <<s[n + 1]>>
      BY <3>2, <3>3, <3>4
    <3> QED BY <2>2, <2>3, <2>4, <3>5, <3>6, AppendIsConcat
  <2>5. CASE n + 1 \notin K
    <3>1. CASE n + 1 > hi
      <4>1. top(n) = hi /\ top(n + 1) = hi
        BY <1>1, <2>2, <3>1
      <4> QED BY <2>2, <2>3, <2>5, <4>1 DEF u
    <3>2. CASE n + 1 <= lo
      <4>1. top(n) < lo + 1 /\ top(n + 1) < lo + 1 /\ top(n) \in Int /\ top(n + 1) \in Int /\ lo + 1 \in Int
        BY <1>1, <2>2, <3>2
      <4> HIDE DEF top
      <4>2. u(n) = <<>> /\ u(n + 1) = <<>>
        BY <4>1, SubSeqEmpty DEF u
      <4> QED BY <2>2, <2>3, <2>5, <4>2
    <3>3. n + 1 > hi \/ n + 1 <= lo
      BY <1>1, <2>2, <2>5
    <3> QED BY <3>1, <3>2, <3>3
  <2> QED BY <2>4, <2>5
<1>5. V = Nat
  <2>1. V \in SUBSET Nat
    OBVIOUS
  <2> HIDE DEF V
  <2> QED BY <1>3, <1>4, <2>1, SetInduction
<1>6. f[Len(s)] = u(Len(s))
  BY <1>1, <1>5
<1>7. top(Len(s)) = hi
  BY <1>1
<1> HIDE DEF top
<1> QED BY <1>2, <1>6, <1>7

(* A walk that keeps the elements of the one or of the other part of a list *)
(* gives that part back.                                                    *)
LEMMA KeepParts ==
  ASSUME NEW S, NEW a \in Seq(S), NEW b \in Seq(S), NEW K \in SUBSET (DOMAIN (a \o b)),
         \A i \in DOMAIN (a \o b) : i \in K <=> i > Len(a)
  PROVE  Keep(a \o b, K) = b /\ Keep(a \o b, DOMAIN (a \o b) \ K) = a
<1> DEFINE s == a \o b
           l == Len(a)
           h == Len(b)
<1>1. l \in Nat /\ h \in Nat /\ s \in Seq(S) /\ Len(s) = l + h /\ DOMAIN s = 1..(l + h)
  OBVIOUS
<1>2. K = (l + 1)..(l + h) /\ DOMAIN s \ K = (0 + 1)..l
  <2>1. \A i \in 1..(l + h) : i \in K <=> i > l
    BY <1>1
  <2>2. K \subseteq 1..(l + h)
    BY <1>1
  <2> HIDE DEF l, h, s
  <2>3. K = (l + 1)..(l + h)
    <3>1. ASSUME NEW i PROVE i \in K <=> i \in (l + 1)..(l + h)
      <4>1. i \in (l + 1)..(l + h) <=> i \in 1..(l + h) /\ i > l
        BY <1>1
      <4> QED BY <2>1, <2>2, <4>1
    <3> QED BY <3>1
  <2>4. DOMAIN s \ K = (0 + 1)..l
    BY <1>1, <2>1
  <2> QED BY <2>3, <2>4
<1>3. SubSeq(s, 0 + 1, l) = a
  <2>1. CASE l = 0
    <3>1. a = <<>> /\ SubSeq(s, 1, 0) = <<>>
      BY <2>1, SubSeqEmpty
    <3> QED BY <2>1, <3>1
  <2>2. CASE l # 0
    <3>1. 1 \in 1..l /\ l \in 1..l
      BY <1>1, <2>2
    <3>2. SubSeq(s, 1, l) = SubSeq(a, 1, l)
      BY <3>1, SubSeqOfConcat1
    <3> QED BY <3>2, SubSeqFull
  <2> QED BY <2>1, <2>2
<1>4. SubSeq(s, l + 1, l + h) = b
  <2>1. CASE h = 0
    <3>1. b = <<>>
      BY <2>1
    <3>2. l + 1 \in Int /\ l + h \in Int /\ l + h < l + 1
      BY <1>1, <2>1
    <3> HIDE DEF s, l, h
    <3> QED BY <3>1, <3>2, SubSeqEmpty
  <2>2. CASE h # 0
    <3>1. l + 1 \in (l + 1)..(l + h) /\ l + h \in (l + 1)..(l + h) /\ (l + 1) - l = 1 /\ (l + h) - l = h
      BY <1>1, <2>2
    <3>2. SubSeq(s, l + 1, l + h) = SubSeq(b, (l + 1) - l, (l + h) - l)
      BY <3>1, SubSeqOfConcat2
    <3>3. SubSeq(s, l + 1, l + h) = SubSeq(b, 1, h)
      BY <3>1, <3>2, Zenon
    <3> QED BY <3>3, SubSeqFull
  <2> QED BY <2>1, <2>2
<1>5. l \in 0..Len(s) /\ 0 \in 0..l /\ l + h \in 0..Len(s) /\ l \in 0..(l + h)
  BY <1>1
<1> HIDE DEF s, l, h
<1>6. Keep(s, K) = SubSeq(s, l + 1, l + h)
  BY <1>1, <1>2, <1>5, KeepStretch
<1>7. Keep(s, DOMAIN s \ K) = SubSeq(s, 0 + 1, l)
  BY <1>1, <1>2, <1>5, KeepStretch
<1> QED BY <1>3, <1>4, <1>6, <1>7 DEF s

(* A sum over two lists in a row is the sum of the sums.                    *)
LEMMA AddConcat ==
  ASSUME NEW S, NEW F, Additive(F, S), NEW s \in Seq(S), NEW t \in Seq(S)
  PROVE  F[s \o t] = F[s] + F[t]
<1> DEFINE u(n) == SubSeq(t, 1, n)
           T == {n \in Nat : n \in 0..Len(t) => F[s \o u(n)] = F[s] + F[u(n)]}
<1>1. F[s] \in Int /\ Len(t) \in Nat
  BY DEF Additive
<1>2. 0 \in T
  <2>1. u(0) = <<>> /\ s \o <<>> = s
    BY Prefixes, ConcatEmptySeq
  <2>2. F[s \o u(0)] = F[s] + F[u(0)]
    <3>1. F[<<>>] = 0
      BY DEF Additive
    <3>2. F[s \o u(0)] = F[s] /\ F[u(0)] = F[<<>>]
      BY <2>1, Zenon
    <3> HIDE DEF u
    <3> QED BY <1>1, <3>1, <3>2
  <2> QED BY <2>2
<1>3. ASSUME NEW n \in T PROVE n + 1 \in T
  <2>1. SUFFICES ASSUME n + 1 \in 0..Len(t) PROVE F[s \o u(n + 1)] = F[s] + F[u(n + 1)]
    OBVIOUS
  <2>2. n \in 0..Len(t) /\ n \in 0..(Len(t) - 1) /\ F[s \o u(n)] = F[s] + F[u(n)]
    BY <1>1, <2>1
  <2>3. /\ u(n) \in Seq(S) /\ t[n + 1] \in S
        /\ u(n + 1) = Append(u(n), t[n + 1])
    BY <2>2, Prefixes
  <2> HIDE DEF u, T
  <2>4. s \o u(n + 1) = Append(s \o u(n), t[n + 1]) /\ s \o u(n) \in Seq(S)
    <3>1. u(n + 1) = u(n) \o <<t[n + 1]>>
      BY <2>3, AppendIsConcat
    <3>2. s \o u(n) \in Seq(S) /\ <<t[n + 1]>> \in Seq(S)
      BY <2>3
    <3>3. s \o (u(n) \o <<t[n + 1]>>) = (s \o u(n)) \o <<t[n + 1]>>
      BY <2>3, <3>2, ConcatAssociative
    <3> QED BY <2>3, <3>1, <3>2, <3>3, AppendIsConcat
  <2>5. /\ F[u(n + 1)] = F[u(n)] + F[<<t[n + 1]>>]
        /\ F[s \o u(n + 1)] = F[s \o u(n)] + F[<<t[n + 1]>>]
    BY <2>3, <2>4 DEF Additive
  <2>6. F[u(n)] \in Int /\ F[<<t[n + 1]>>] \in Int
    <3>1. <<t[n + 1]>> \in Seq(S)
      BY <2>3
    <3> QED BY <2>3, <3>1 DEF Additive
  <2> QED BY <1>1, <2>2, <2>5, <2>6
<1>4. T = Nat
  <2>1. T \in SUBSET Nat
    OBVIOUS
  <2> HIDE DEF T
  <2> QED BY <1>2, <1>3, <2>1, SetInduction
<1>5. Len(t) \in T /\ Len(t) \in 0..Len(t) /\ u(Len(t)) = t
  BY <1>1, <1>4, Prefixes
<1> QED BY <1>5

(* What a walk over a list keeps and what it removes add up to the list.    *)
LEMMA AddKeep ==
  ASSUME NEW S, NEW F, Additive(F, S), NEW s \in Seq(S), NEW K
  PROVE  F[Keep(s, K)] + F[Keep(s, DOMAIN s \ K)] = F[s]
<1> DEFINE R == DOMAIN s \ K
           u(n) == SubSeq(s, 1, n)
<1>1. Len(s) \in Nat /\ DOMAIN s = 1..Len(s)
  OBVIOUS
<1>2. PICK f \in [0..Len(s) -> Seq(S)] : KeptBy(s, K, f) /\ Keep(s, K) = f[Len(s)]
  BY KeepDefined
<1>3. PICK g \in [0..Len(s) -> Seq(S)] : KeptBy(s, R, g) /\ Keep(s, R) = g[Len(s)]
  BY KeepDefined
<1> DEFINE T == {n \in Nat : n \in 0..Len(s) => F[f[n]] + F[g[n]] = F[u(n)]}
<1>4. 0 \in T
  <2>1. f[0] = <<>> /\ g[0] = <<>> /\ u(0) = <<>>
    BY <1>1, <1>2, <1>3, KeptAt, Prefixes
  <2>2. F[<<>>] = 0 /\ 0 + 0 = 0
    BY DEF Additive
  <2>3. F[f[0]] + F[g[0]] = F[u(0)]
    <3> HIDE DEF u
    <3> QED BY <2>1, <2>2
  <2> QED BY <2>3
<1>5. ASSUME NEW n \in T PROVE n + 1 \in T
  <2>1. SUFFICES ASSUME n + 1 \in 0..Len(s) PROVE F[f[n + 1]] + F[g[n + 1]] = F[u(n + 1)]
    OBVIOUS
  <2>2. n \in Nat /\ n \in 0..Len(s) /\ n \in 0..(Len(s) - 1) /\ F[f[n]] + F[g[n]] = F[u(n)]
    BY <1>1, <2>1
  <2>3. u(n) \in Seq(S) /\ s[n + 1] \in S /\ u(n + 1) = Append(u(n), s[n + 1])
    BY <2>2, Prefixes
  <2>4. /\ f[n + 1] = IF n + 1 \in K THEN Append(f[n], s[n + 1]) ELSE f[n]
        /\ g[n + 1] = IF n + 1 \in R THEN Append(g[n], s[n + 1]) ELSE g[n]
        /\ n + 1 \in R <=> n + 1 \notin K
    BY <1>1, <1>2, <1>3, <2>1, <2>2, KeptAt
  <2>5. f[n] \in Seq(S) /\ g[n] \in Seq(S) /\ <<s[n + 1]>> \in Seq(S)
    BY <2>2, <2>3
  <2> HIDE DEF u, T, R
  <2>6. /\ F[Append(f[n], s[n + 1])] = F[f[n]] + F[<<s[n + 1]>>]
        /\ F[Append(g[n], s[n + 1])] = F[g[n]] + F[<<s[n + 1]>>]
        /\ F[u(n + 1)] = F[u(n)] + F[<<s[n + 1]>>]
    BY <2>3, <2>5 DEF Additive
  <2>7. F[f[n]] \in Int /\ F[g[n]] \in Int /\ F[<<s[n + 1]>>] \in Int
    BY <2>5 DEF Additive
  <2> QED BY <2>2, <2>4, <2>6, <2>7
<1>6. T = Nat
  <2>1. T \in SUBSET Nat
    OBVIOUS
  <2> HIDE DEF T
  <2> QED BY <1>4, <1>5, <2>1, SetInduction
<1>7. Len(s) \in T /\ Len(s) \in 0..Len(s) /\ u(Len(s)) = s
  BY <1>1, <1>6, Prefixes
<1> HIDE DEF R
<1> QED BY <1>2, <1>3, <1>7 DEF R

(* Lists of the same length whose elements count the same count the same.   *)
LEMMA AddSame ==
  ASSUME NEW S, NEW F, Additive(F, S), NEW s \in Seq(S), NEW t \in Seq(S),
         Len(s) = Len(t), \A i \in 1..Len(s) : F[<<s[i]>>] = F[<<t[i]>>]
  PROVE  F[s] = F[t]
<1> DEFINE u(n) == SubSeq(s, 1, n)
           v(n) == SubSeq(t, 1, n)
           T == {n \in Nat : n \in 0..Len(s) => F[u(n)] = F[v(n)]}
<1>1. Len(s) \in Nat
  OBVIOUS
<1>6. \A a \in Seq(S), x \in S : F[Append(a, x)] = F[a] + F[<<x>>]
  BY DEF Additive
<1>2. 0 \in T
  <2>1. u(0) = <<>> /\ v(0) = <<>>
    BY Prefixes
  <2> QED BY <2>1
<1>3. ASSUME NEW n \in T PROVE n + 1 \in T
  <2>1. SUFFICES ASSUME n + 1 \in 0..Len(s) PROVE F[u(n + 1)] = F[v(n + 1)]
    OBVIOUS
  <2>2. n \in 0..Len(s) /\ n \in 0..(Len(s) - 1) /\ n + 1 \in 1..Len(s) /\ F[u(n)] = F[v(n)]
    BY <1>1, <2>1
  <2>3. /\ u(n) \in Seq(S) /\ s[n + 1] \in S /\ u(n + 1) = Append(u(n), s[n + 1])
        /\ v(n) \in Seq(S) /\ t[n + 1] \in S /\ v(n + 1) = Append(v(n), t[n + 1])
    BY <2>2, Prefixes
  <2> HIDE DEF u, v, T
  <2>4. F[u(n + 1)] = F[u(n)] + F[<<s[n + 1]>>]
    BY <1>6, <2>3
  <2>6. F[v(n + 1)] = F[v(n)] + F[<<t[n + 1]>>]
    BY <1>6, <2>3
  <2>5. F[<<s[n + 1]>>] = F[<<t[n + 1]>>]
    BY <2>2
  <2> QED BY <2>2, <2>4, <2>5, <2>6
<1>4. T = Nat
  <2>1. T \in SUBSET Nat
    OBVIOUS
  <2> HIDE DEF T
  <2> QED BY <1>2, <1>3, <2>1, SetInduction
<1>5. Len(s) \in T /\ Len(s) \in 0..Len(s) /\ u(Len(s)) = s /\ v(Len(s)) = t
  BY <1>1, <1>4, Prefixes
<1> QED BY <1>5

(* So do what a walk keeps of such lists at the same positions.             *)
LEMMA KeepSame ==
  ASSUME NEW S, NEW F, Additive(F, S), NEW s \in Seq(S), NEW t \in Seq(S),
         Len(s) = Len(t), \A i \in 1..Len(s) : F[<<s[i]>>] = F[<<t[i]>>], NEW K
  PROVE  F[Keep(s, K)] = F[Keep(t, K)]
<1>1. Len(s) \in Nat /\ Len(t) \in Nat
  OBVIOUS
<1>2. PICK f \in [0..Len(s) -> Seq(S)] : KeptBy(s, K, f) /\ Keep(s, K) = f[Len(s)]
  BY KeepDefined
<1>3. PICK g \in [0..Len(t) -> Seq(S)] : KeptBy(t, K, g) /\ Keep(t, K) = g[Len(t)]
  BY KeepDefined
<1>4. /\ f[0] = <<>>
      /\ \A n \in Nat : n + 1 \in 0..Len(s) =>
           f[n + 1] = IF n + 1 \in K THEN Append(f[n], s[n + 1]) ELSE f[n]
  BY ONLY <1>1, <1>2, KeptAt
<1>5. /\ g[0] = <<>>
      /\ \A n \in Nat : n + 1 \in 0..Len(t) =>
           g[n + 1] = IF n + 1 \in K THEN Append(g[n], t[n + 1]) ELSE g[n]
  BY ONLY <1>1, <1>3, KeptAt
<1> DEFINE T == {n \in Nat : n \in 0..Len(s) => F[f[n]] = F[g[n]]}
<1>6. 0 \in T
  <2>1. f[0] = g[0]
    BY <1>4, <1>5
  <2> QED BY <2>1
<1>7. ASSUME NEW n \in T PROVE n + 1 \in T
  <2>1. SUFFICES ASSUME n + 1 \in 0..Len(s) PROVE F[f[n + 1]] = F[g[n + 1]]
    OBVIOUS
  <2>2. /\ n \in Nat /\ n \in 0..Len(s) /\ n + 1 \in 1..Len(s) /\ n + 1 \in 0..Len(t)
        /\ F[f[n]] = F[g[n]]
    BY <1>1, <2>1
  <2> HIDE DEF T
  <2>3. f[n + 1] = IF n + 1 \in K THEN Append(f[n], s[n + 1]) ELSE f[n]
    BY <1>4, <2>1, <2>2
  <2>4. g[n + 1] = IF n + 1 \in K THEN Append(g[n], t[n + 1]) ELSE g[n]
    BY <1>5, <2>2
  <2>5. f[n] \in Seq(S) /\ g[n] \in Seq(S) /\ s[n + 1] \in S /\ t[n + 1] \in S
    BY <2>2
  <2>6. F[Append(f[n], s[n + 1])] = F[f[n]] + F[<<s[n + 1]>>]
    BY <2>5 DEF Additive
  <2>7. F[Append(g[n], t[n + 1])] = F[g[n]] + F[<<t[n + 1]>>]
    BY <2>5 DEF Additive
  <2>8. F[<<s[n + 1]>>] = F[<<t[n + 1]>>]
    BY <2>2
  <2> QED BY <2>2, <2>3, <2>4, <2>6, <2>7, <2>8
<1>8. T = Nat
  <2>1. T \in SUBSET Nat
    OBVIOUS
  <2> HIDE DEF T
  <2> QED BY <1>6, <1>7, <2>1, SetInduction
<1>9. Len(s) \in T /\ Len(s) \in 0..Len(s)
  BY <1>1, <1>8
<1> QED BY <1>2, <1>3, <1>9

(* How many elements of a list are in a set.                                *)
Counts(S, A) == [s \in Seq(S) |-> Cardinality({i \in DOMAIN s : s[i] \in A})]

(* Counting the elements that are in a set is such a sum, and never more    *)
(* than the length.                                                         *)
LEMMA CountsAdditive ==
  ASSUME NEW S, NEW A
  PROVE  /\ Additive(Counts(S, A), S)
         /\ \A s \in Seq(S) : Counts(S, A)[s] \in Nat /\ Counts(S, A)[s] <= Len(s)
         /\ \A x \in S : Counts(S, A)[<<x>>] = IF x \in A THEN 1 ELSE 0
<1> DEFINE P(s) == {i \in DOMAIN s : s[i] \in A}
           F == Counts(S, A)
<1>1. ASSUME NEW s \in Seq(S) PROVE F[s] = Cardinality(P(s))
  BY DEF Counts
<1>2. ASSUME NEW s \in Seq(S)
      PROVE  IsFiniteSet(P(s)) /\ Cardinality(P(s)) \in Nat /\ Cardinality(P(s)) <= Len(s)
  <2>1. DOMAIN s = 1..Len(s) /\ Len(s) \in Nat
    OBVIOUS
  <2>2. IsFiniteSet(1..Len(s)) /\ Cardinality(1..Len(s)) = Len(s)
    BY <2>1, FS_Interval
  <2>3. P(s) \in SUBSET (1..Len(s))
    BY <2>1
  <2> HIDE DEF P
  <2> QED BY <2>2, <2>3, FS_Subset, FS_CardinalityType
<1>3. F \in [Seq(S) -> Int]
  BY <1>2 DEF Counts
<1>4. F[<<>>] = 0
  <2>1. P(<<>>) = {} /\ <<>> \in Seq(S)
    OBVIOUS
  <2> HIDE DEF P, F
  <2> QED BY <1>1, <2>1, FS_EmptySet
<1>5. ASSUME NEW s \in Seq(S), NEW x \in S
      PROVE  F[Append(s, x)] = F[s] + (IF x \in A THEN 1 ELSE 0)
  <2>1. /\ Len(s) \in Nat /\ DOMAIN s = 1..Len(s)
        /\ Append(s, x) \in Seq(S) /\ DOMAIN Append(s, x) = 1..(Len(s) + 1)
        /\ \A i \in 1..Len(s) : Append(s, x)[i] = s[i]
        /\ Append(s, x)[Len(s) + 1] = x
    BY AppendProperties
  <2>2. P(Append(s, x)) = IF x \in A THEN P(s) \cup {Len(s) + 1} ELSE P(s)
    BY <2>1
  <2>3. Len(s) + 1 \notin P(s)
    BY <2>1
  <2> HIDE DEF P, F
  <2>4. Cardinality(P(s) \cup {Len(s) + 1}) = Cardinality(P(s)) + 1
    BY <1>2, <2>3, FS_AddElement
  <2>5. F[Append(s, x)] = Cardinality(P(Append(s, x))) /\ F[s] = Cardinality(P(s))
    BY <1>1, <2>1
  <2>6. Cardinality(P(s)) \in Nat
    BY <1>2
  <2>7. CASE x \in A
    BY <2>2, <2>4, <2>5, <2>7
  <2>8. CASE x \notin A
    BY <2>2, <2>5, <2>6, <2>8
  <2> QED BY <2>7, <2>8
<1>6. ASSUME NEW x \in S PROVE F[<<x>>] = IF x \in A THEN 1 ELSE 0
  <2>1. Append(<<>>, x) = <<x>> /\ <<>> \in Seq(S)
    OBVIOUS
  <2>2. F[Append(<<>>, x)] = F[<<>>] + (IF x \in A THEN 1 ELSE 0)
    BY <1>5, <2>1
  <2> HIDE DEF F
  <2>3. F[<<x>>] = F[<<>>] + (IF x \in A THEN 1 ELSE 0)
    BY <2>1, <2>2, Zenon
  <2> QED BY <1>4, <2>3
<1> HIDE DEF F, P
<1>7. Additive(F, S)
  BY <1>3, <1>4, <1>5, <1>6 DEF Additive
<1> QED BY <1>1, <1>2, <1>6, <1>7 DEF F

(* What a walk keeps of a list has as many elements of a set as there are   *)
(* at the positions it keeps.                                               *)
LEMMA KeepCounts ==
  ASSUME NEW S, NEW A, NEW s \in Seq(S), NEW K \in SUBSET (DOMAIN s)
  PROVE  Counts(S, A)[Keep(s, K)] = Cardinality({i \in K : s[i] \in A})
<1> DEFINE F == Counts(S, A)
           P(n) == {i \in K : i <= n /\ s[i] \in A}
<1>1. Len(s) \in Nat /\ DOMAIN s = 1..Len(s)
  OBVIOUS
<1>2. PICK f \in [0..Len(s) -> Seq(S)] : KeptBy(s, K, f) /\ Keep(s, K) = f[Len(s)]
  BY KeepDefined
<1>3. Additive(F, S) /\ \A x \in S : F[<<x>>] = IF x \in A THEN 1 ELSE 0
  BY CountsAdditive
<1>4. IsFiniteSet(K)
  BY FiniteDomain
<1>5. ASSUME NEW n PROVE IsFiniteSet(P(n)) /\ Cardinality(P(n)) \in Nat
  <2>1. P(n) \subseteq K
    OBVIOUS
  <2> HIDE DEF P
  <2> QED BY <1>4, <2>1, FS_Subset, FS_CardinalityType
<1> DEFINE T == {n \in Nat : n \in 0..Len(s) => F[f[n]] = Cardinality(P(n))}
<1>6. 0 \in T
  <2>1. P(0) = {}
    BY <1>1
  <2>2. f[0] = <<>>
    BY <1>1, <1>2, KeptAt
  <2>3. F[<<>>] = 0
    BY <1>3 DEF Additive
  <2> HIDE DEF F, P
  <2> QED BY <2>1, <2>2, <2>3, FS_EmptySet
<1>7. ASSUME NEW n \in T PROVE n + 1 \in T
  <2> n \in Nat /\ n + 1 \in Nat
    OBVIOUS
  <2>1. SUFFICES ASSUME n + 1 \in 0..Len(s) PROVE F[f[n + 1]] = Cardinality(P(n + 1))
    <3> HIDE DEF F, P
    <3> QED OBVIOUS
  <2>2. n \in 0..Len(s) /\ n + 1 \in 1..Len(s) /\ F[f[n]] = Cardinality(P(n))
    BY <1>1, <2>1
  <2>3. f[n + 1] = IF n + 1 \in K THEN Append(f[n], s[n + 1]) ELSE f[n]
    BY <1>1, <1>2, <2>1, KeptAt
  <2>4. f[n] \in Seq(S) /\ s[n + 1] \in S
    BY <2>2
  <2>5. F[Append(f[n], s[n + 1])] = F[f[n]] + (IF s[n + 1] \in A THEN 1 ELSE 0)
    <3> HIDE DEF F
    <3> QED BY <1>3, <2>4 DEF Additive
  <2>6. CASE n + 1 \in K /\ s[n + 1] \in A
    <3>1. P(n + 1) = P(n) \cup {n + 1} /\ n + 1 \notin P(n)
      BY <1>1, <2>6
    <3> HIDE DEF P, F
    <3>2. Cardinality(P(n + 1)) = Cardinality(P(n)) + 1
      BY <1>5, <3>1, FS_AddElement
    <3> QED BY <2>2, <2>3, <2>5, <2>6, <3>2
  <2>7. CASE ~(n + 1 \in K /\ s[n + 1] \in A)
    <3>1. P(n + 1) = P(n)
      BY <1>1, <2>7
    <3> HIDE DEF P, F
    <3>2. F[f[n + 1]] = F[f[n]]
      BY <1>5, <2>2, <2>3, <2>5, <2>7
    <3> QED BY <2>2, <3>1, <3>2
  <2> QED BY <2>6, <2>7
<1>8. T = Nat
  <2>1. T \in SUBSET Nat
    OBVIOUS
  <2> HIDE DEF T
  <2> QED BY <1>6, <1>7, <2>1, SetInduction
<1>9. F[f[Len(s)]] = Cardinality(P(Len(s)))
  <2> HIDE DEF F, P
  <2>1. Len(s) \in T
    BY <1>1, <1>8
  <2>2. Len(s) \in 0..Len(s)
    BY <1>1
  <2> QED BY <2>1, <2>2
<1>10. P(Len(s)) = {i \in K : s[i] \in A}
  BY <1>1
<1> QED BY <1>2, <1>9, <1>10

-----------------------------------------------------------------------------
(* The four counters add up over the messages of a list.                    *)

Counters == {"count", "count12", "bytes", "bytes12"}

CounterOf(f) == [s \in Seq(ClientMsg) |-> Tally(s)[f]]

(* The bytes of the messages at the positions I: the pairs of a position    *)
(* and of a place in the payload there.                                     *)
BytesAt(s, I) == {x \in I \X (1..MaxLen) : x[2] <= s[x[1]].store.len}

(* The bytes of the messages at some positions are a number.                *)
LEMMA BytesType ==
  ASSUME NEW s \in Seq(ClientMsg), NEW I \in SUBSET (DOMAIN s)
  PROVE  IsFiniteSet(BytesAt(s, I)) /\ Cardinality(BytesAt(s, I)) \in Nat
<1>1. IsFiniteSet(I)
  BY FiniteDomain
<1>2. IsFiniteSet(1..MaxLen)
  BY LimitsAssumption, FS_Interval
<1>3. IsFiniteSet(I \X (1..MaxLen))
  BY <1>1, <1>2, FS_Product
<1>4. BytesAt(s, I) \in SUBSET (I \X (1..MaxLen))
  BY DEF BytesAt
<1> QED BY <1>3, <1>4, FS_Subset, FS_CardinalityType

(* One more message has as many bytes as its payload is long.               *)
LEMMA BytesAppend ==
  ASSUME NEW s \in Seq(ClientMsg), NEW m \in ClientMsg, NEW I \in SUBSET (DOMAIN s)
  PROVE  /\ BytesAt(Append(s, m), I) = BytesAt(s, I)
         /\ Cardinality(BytesAt(Append(s, m), I \cup {Len(s) + 1}))
              = Cardinality(BytesAt(s, I)) + m.store.len
<1> DEFINE n == Len(s) + 1
           a == Append(s, m)
           l == m.store.len
           B == {n} \X (1..l)
<1>1. /\ Len(s) \in Nat /\ DOMAIN s = 1..Len(s) /\ a \in Seq(ClientMsg)
      /\ DOMAIN a = 1..n /\ a[n] = m /\ \A i \in 1..Len(s) : a[i] = s[i]
  BY AppendProperties
<1>2. l \in 0..MaxLen /\ MaxLen \in Nat
  BY LimitsAssumption DEF ClientMsg, Stored
<1>3. BytesAt(a, I) = BytesAt(s, I)
  <2> HIDE DEF a
  <2> QED BY <1>1 DEF BytesAt
<1>4. BytesAt(a, I \cup {n}) = BytesAt(s, I) \cup B
  <2>1. BytesAt(a, I \cup {n}) = BytesAt(a, I) \cup BytesAt(a, {n})
    BY DEF BytesAt
  <2>2. BytesAt(a, {n}) = B
    <3>1. BytesAt(a, {n}) = {x \in {n} \X (1..MaxLen) : x[2] <= l}
      BY <1>1 DEF BytesAt
    <3>2. 1..l = {j \in 1..MaxLen : j <= l}
      BY <1>2
    <3> HIDE DEF a, n, l
    <3> QED BY <3>1, <3>2
  <2> QED BY <1>3, <2>1, <2>2
<1>5. BytesAt(s, I) \cap B = {}
  BY <1>1 DEF BytesAt
<1>6. IsFiniteSet(B) /\ Cardinality(B) = l
  <2>1. IsFiniteSet({n}) /\ Cardinality({n}) = 1
    BY FS_Singleton
  <2> HIDE DEF n, l
  <2>2. l \in Int /\ 1 \in Int /\ (1 > l => l = 0)
    BY <1>2
  <2>3. IsFiniteSet(1..l) /\ Cardinality(1..l) = l
    BY <2>2, FS_Interval
  <2>4. IsFiniteSet({n} \X (1..l))
        /\ Cardinality({n} \X (1..l)) = Cardinality({n}) * Cardinality(1..l)
    BY ONLY <2>1, <2>3, FS_Product, Zenon
  <2>5. IsFiniteSet(B) /\ Cardinality(B) = 1 * l
    BY <2>1, <2>3, <2>4
  <2> QED BY <2>2, <2>5
<1> DEFINE C == BytesAt(s, I)
<1>7. IsFiniteSet(C) /\ Cardinality(C) \in Nat
  BY BytesType
<1> HIDE DEF B, C, l
<1>8. Cardinality(C \cup B) = Cardinality(C) + l
  <2>1. Cardinality(C \cup B) = Cardinality(C) + Cardinality(B) - Cardinality(C \cap B)
    BY <1>6, <1>7, FS_Union
  <2>2. Cardinality(C \cap B) = 0
    BY <1>5, FS_EmptySet DEF C
  <2> QED BY <1>2, <1>6, <1>7, <2>1, <2>2
<1> QED BY <1>3, <1>4, <1>8 DEF a, n, l, C

(* What one more message adds to the counters.                              *)
LEMMA TallyAppend ==
  ASSUME NEW s \in Seq(ClientMsg), NEW m \in ClientMsg
  PROVE  /\ Tally(Append(s, m)).count = Tally(s).count + 1
         /\ Tally(Append(s, m)).count12 = Tally(s).count12 + (IF m.qos > 0 THEN 1 ELSE 0)
         /\ Tally(Append(s, m)).bytes = Tally(s).bytes + m.store.len
         /\ Tally(Append(s, m)).bytes12
              = Tally(s).bytes12 + (IF m.qos > 0 THEN m.store.len ELSE 0)
<1> DEFINE a == Append(s, m)
           n == Len(s) + 1
           Ones(t) == {i \in DOMAIN t : t[i].qos > 0}
<1>1. /\ Len(s) \in Nat /\ DOMAIN s = 1..Len(s) /\ a \in Seq(ClientMsg) /\ Len(a) = n
      /\ DOMAIN a = 1..n /\ a[n] = m /\ \A i \in 1..Len(s) : a[i] = s[i]
  BY AppendProperties
<1>2. \A t : Tally(t) = [count |-> Len(t), count12 |-> Cardinality(Ones(t)),
                         bytes |-> Cardinality(BytesAt(t, DOMAIN t)),
                         bytes12 |-> Cardinality(BytesAt(t, Ones(t)))]
  BY DEF Tally, BytesAt
<1>3. Ones(a) = IF m.qos > 0 THEN Ones(s) \cup {n} ELSE Ones(s)
  <2> HIDE DEF a
  <2> QED BY <1>1
<1>4. DOMAIN a = DOMAIN s \cup {n} /\ n \notin Ones(s)
  BY <1>1
<1>5. IsFiniteSet(Ones(s)) /\ Cardinality(Ones(s)) \in Nat /\ Ones(s) \in SUBSET (DOMAIN s)
  <2>1. Ones(s) \in SUBSET (DOMAIN s)
    OBVIOUS
  <2> HIDE DEF Ones
  <2> QED BY <2>1, FiniteDomain, FS_CardinalityType
<1> HIDE DEF Ones
<1>6. Cardinality(Ones(s) \cup {n}) = Cardinality(Ones(s)) + 1
  BY <1>4, <1>5, FS_AddElement
<1>7. /\ BytesAt(a, Ones(s)) = BytesAt(s, Ones(s))
      /\ Cardinality(BytesAt(a, Ones(s) \cup {n})) = Cardinality(BytesAt(s, Ones(s))) + m.store.len
      /\ Cardinality(BytesAt(a, DOMAIN s \cup {n})) = Cardinality(BytesAt(s, DOMAIN s)) + m.store.len
  BY <1>5, BytesAppend
<1>8. Cardinality(BytesAt(s, Ones(s))) \in Nat
  BY <1>5, BytesType
<1> HIDE DEF a, n
<1>9. Tally(a).count = Tally(s).count + 1
  BY <1>1, <1>2 DEF n
<1>10. Tally(a).count12 = Tally(s).count12 + (IF m.qos > 0 THEN 1 ELSE 0)
  <2>1. CASE m.qos > 0
    BY <1>2, <1>3, <1>6, <2>1
  <2>2. CASE ~(m.qos > 0)
    BY <1>2, <1>3, <1>5, <2>2
  <2> QED BY <2>1, <2>2
<1>11. Tally(a).bytes = Tally(s).bytes + m.store.len
  BY <1>2, <1>4, <1>7
<1>12. Tally(a).bytes12 = Tally(s).bytes12 + (IF m.qos > 0 THEN m.store.len ELSE 0)
  <2>1. CASE m.qos > 0
    BY <1>2, <1>3, <1>7, <2>1
  <2>2. CASE ~(m.qos > 0)
    BY <1>2, <1>3, <1>7, <1>8, <2>2
  <2> QED BY <2>1, <2>2
<1> QED BY <1>9, <1>10, <1>11, <1>12 DEF a

(* Nothing is counted in an empty list.                                     *)
LEMMA TallyEmpty == Tally(<<>>) = NoTally
<1> DEFINE Ones == {i \in DOMAIN <<>> : <<>>[i].qos > 0}
<1>1. Ones = {} /\ BytesAt(<<>>, Ones) = {} /\ BytesAt(<<>>, DOMAIN <<>>) = {}
  BY DEF BytesAt
<1>2. Tally(<<>>) = [count |-> Len(<<>>), count12 |-> Cardinality(Ones),
                     bytes |-> Cardinality(BytesAt(<<>>, DOMAIN <<>>)),
                     bytes12 |-> Cardinality(BytesAt(<<>>, Ones))]
  BY DEF Tally, BytesAt
<1> HIDE DEF Ones
<1> QED BY <1>1, <1>2, FS_EmptySet DEF NoTally

-----------------------------------------------------------------------------
(* Counts that do not look at the state of a message.                       *)

Twins(m, n) == /\ m \in ClientMsg /\ n \in ClientMsg
               /\ m.store = n.store /\ m.mid = n.mid /\ m.dir = n.dir /\ m.qos = n.qos

StateFree(F) == /\ Additive(F, ClientMsg)
                /\ \A m, n \in ClientMsg : Twins(m, n) => F[<<m>>] = F[<<n>>]

(* The counters are such counts.                                            *)
LEMMA CountersStateFree ==
  ASSUME NEW f \in Counters
  PROVE  /\ StateFree(CounterOf(f))
         /\ \A s \in Seq(ClientMsg) : CounterOf(f)[s] = Tally(s)[f] /\ CounterOf(f)[s] \in Nat
<1> DEFINE F == CounterOf(f)
<1>1. ASSUME NEW s \in Seq(ClientMsg) PROVE F[s] = Tally(s)[f] /\ F[s] \in Nat
  <2>1. F[s] = Tally(s)[f]
    BY DEF CounterOf
  <2>2. Tally(s)[f] \in Nat
    BY TallyType DEF Tallies, Counters
  <2> QED BY <2>1, <2>2
<1>2. F \in [Seq(ClientMsg) -> Int]
  <2>1. F = [s \in Seq(ClientMsg) |-> F[s]]
    BY DEF CounterOf
  <2> HIDE DEF F
  <2> QED BY <1>1, <2>1
<1>3. F[<<>>] = 0
  <2>1. <<>> \in Seq(ClientMsg) /\ NoTally[f] = 0
    BY DEF NoTally, Counters
  <2> HIDE DEF F
  <2> QED BY <1>1, <2>1, TallyEmpty
<1> DEFINE More(m) == CASE f = "count"   -> 1
                        [] f = "count12" -> IF m.qos > 0 THEN 1 ELSE 0
                        [] f = "bytes"   -> m.store.len
                        [] f = "bytes12" -> IF m.qos > 0 THEN m.store.len ELSE 0
<1>4. ASSUME NEW s \in Seq(ClientMsg), NEW m \in ClientMsg
      PROVE  F[Append(s, m)] = F[s] + More(m)
  <2>1. Append(s, m) \in Seq(ClientMsg)
    OBVIOUS
  <2>2. F[Append(s, m)] = Tally(Append(s, m))[f] /\ F[s] = Tally(s)[f]
    BY <1>1, <2>1
  <2>3. CASE f = "count"
    BY <2>2, <2>3, TallyAppend
  <2>4. CASE f = "count12"
    BY <2>2, <2>4, TallyAppend
  <2>5. CASE f = "bytes"
    BY <2>2, <2>5, TallyAppend
  <2>6. CASE f = "bytes12"
    BY <2>2, <2>6, TallyAppend
  <2> HIDE DEF F, More
  <2> QED BY <2>3, <2>4, <2>5, <2>6 DEF Counters
<1>5. ASSUME NEW m \in ClientMsg PROVE F[<<m>>] = More(m)
  <2>1. <<>> \in Seq(ClientMsg) /\ Append(<<>>, m) = <<m>>
    OBVIOUS
  <2>2. F[<<m>>] = F[<<>>] + More(m)
    <3> HIDE DEF F, More
    <3>1. F[Append(<<>>, m)] = F[<<>>] + More(m)
      BY <1>4, <2>1
    <3> QED BY <2>1, <3>1, Zenon
  <2>3. More(m) \in Int
    BY DEF ClientMsg, Stored, Counters
  <2> HIDE DEF F, More
  <2> QED BY <1>3, <2>2, <2>3
<1>6. \A m, n \in ClientMsg : Twins(m, n) => More(m) = More(n)
  BY DEF Twins
<1> HIDE DEF F, More
<1>7. Additive(F, ClientMsg)
  BY <1>2, <1>3, <1>4, <1>5 DEF Additive
<1> QED BY <1>1, <1>5, <1>6, <1>7 DEF StateFree, F

(* What starting, sending and resetting a message does to it is a change of *)
(* its state.                                                               *)
LEMMA StepsTwins ==
  /\ \A m \in ClientMsg : Twins(m, m)
  /\ \A m \in ClientMsg, st \in States : Twins([m EXCEPT !.state = st], m)
  /\ \A m \in ClientMsg : Twins(Started(m), m) /\ Twins(AfterSend(m), m) /\ Twins(ResetState(m), m)
<1>1. ASSUME NEW m \in ClientMsg, NEW st \in States PROVE Twins([m EXCEPT !.state = st], m)
  BY DEF Twins, ClientMsg
<1>2. ASSUME NEW m \in ClientMsg PROVE Twins(m, m)
  BY DEF Twins
<1>3. ASSUME NEW m \in ClientMsg
      PROVE  Twins(Started(m), m) /\ Twins(AfterSend(m), m) /\ Twins(ResetState(m), m)
  <2>1. PublishState(m.qos) \in States
    BY MsgSteps DEF ClientMsg, States
  <2>2. {"wait_for_pubrel", "wait_for_puback", "wait_for_pubrec", "wait_for_pubcomp",
         "resend_pubrel"} \subseteq States
    BY DEF States, OutStates, InStates
  <2>3. Twins(Started(m), m)
    BY <1>1, <2>1, <2>2 DEF Started
  <2>4. Twins(AfterSend(m), m)
    BY <1>1, <1>2, <2>1, <2>2 DEF AfterSend
  <2>5. Twins(ResetState(m), m)
    BY <1>1, <1>2, <2>1, <2>2 DEF ResetState
  <2> QED BY <2>3, <2>4, <2>5
<1> QED BY <1>1, <1>2, <1>3

(* Lists of twins count the same, and so does what a walk keeps of them.    *)
LEMMA TwinLists ==
  ASSUME NEW F, StateFree(F), NEW s \in Seq(ClientMsg), NEW t \in Seq(ClientMsg),
         Len(s) = Len(t), \A i \in 1..Len(s) : Twins(s[i], t[i])
  PROVE  F[s] = F[t] /\ \A K : F[Keep(s, K)] = F[Keep(t, K)]
<1>1. \A i \in 1..Len(s) : s[i] \in ClientMsg /\ t[i] \in ClientMsg
  OBVIOUS
<1>2. \A i \in 1..Len(s) : F[<<s[i]>>] = F[<<t[i]>>]
  BY <1>1 DEF StateFree
<1>3. Additive(F, ClientMsg)
  BY DEF StateFree
<1> QED BY <1>2, <1>3, AddSame, KeepSame

(* What such a count says of both lists of a context.                       *)
Total(F, cq) == F[cq.inflight] + F[cq.queued]

(* A sum over both lists of a context is the sum over one list behind the   *)
(* other.                                                                   *)
LEMMA TotalType ==
  ASSUME NEW F, StateFree(F), NEW cq \in SoundQueues
  PROVE  /\ F[cq.inflight] \in Int /\ F[cq.queued] \in Int /\ Total(F, cq) \in Int
         /\ Total(F, cq) = F[cq.inflight \o cq.queued]
<1>1. cq.inflight \in Seq(ClientMsg) /\ cq.queued \in Seq(ClientMsg)
  BY SoundParts
<1>2. Additive(F, ClientMsg)
  BY DEF StateFree
<1>3. F[cq.inflight] \in Int /\ F[cq.queued] \in Int
  BY <1>1, <1>2 DEF Additive
<1>4. F[cq.inflight \o cq.queued] = F[cq.inflight] + F[cq.queued]
  BY <1>1, <1>2, AddConcat
<1> QED BY <1>3, <1>4 DEF Total

-----------------------------------------------------------------------------
(* The functions of database.c and the messages of a context.               *)

(* Moving queued messages into flight changes their states only.            *)
LEMMA DequeueTotal ==
  ASSUME NEW F, StateFree(F), NEW cq \in SoundQueues, NEW k \in 0..Len(cq.queued)
  PROVE  /\ Total(F, Dequeue(cq, k)) = Total(F, cq)
         /\ Dequeue(cq, k).tally = cq.tally
         /\ Len(Dequeue(cq, k).inflight) = Len(cq.inflight) + k
         /\ k = 0 => Dequeue(cq, k).inflight = cq.inflight
<1> DEFINE a == SubSeq(cq.queued, 1, k)
           b == SubSeq(cq.queued, k + 1, Len(cq.queued))
           t == Mapped(a, Started)
<1>1. /\ cq.inflight \in Seq(ClientMsg) /\ cq.queued \in Seq(ClientMsg)
      /\ Len(cq.queued) \in Nat /\ Len(cq.inflight) \in Nat
  BY SoundParts
<1>2. /\ a \in Seq(ClientMsg) /\ b \in Seq(ClientMsg) /\ Len(a) = k
      /\ a \o b = cq.queued
  <2>1. a \in Seq(ClientMsg) /\ b \in Seq(ClientMsg) /\ Len(a) = k
    BY <1>1, SubSeqProperties
  <2>2. a \o b = SubSeq(cq.queued, 1, Len(cq.queued))
    <3>1. 1 \in 1..(Len(cq.queued) + 1) /\ k \in (1 - 1)..Len(cq.queued)
          /\ Len(cq.queued) \in k..Len(cq.queued)
      BY <1>1
    <3> QED BY <1>1, <3>1, ConcatAdjacentSubSeq
  <2> QED BY <1>1, <2>1, <2>2, SubSeqFull
<1> HIDE DEF a, b
<1>3. t \in Seq(ClientMsg) /\ Len(t) = k /\ \A i \in 1..Len(t) : Twins(t[i], a[i])
  <2>1. t = [i \in 1..k |-> Started(a[i])]
    BY <1>2 DEF Mapped
  <2>2. \A i \in 1..k : a[i] \in ClientMsg
    BY <1>2
  <2>3. \A i \in 1..k : Twins(Started(a[i]), a[i])
    BY <2>2, StepsTwins
  <2>4. \A i \in 1..k : Started(a[i]) \in ClientMsg
    BY <2>3 DEF Twins
  <2> HIDE DEF t
  <2>5. t \in Seq(ClientMsg) /\ Len(t) = k
    BY <2>1, <2>4
  <2> QED BY <2>1, <2>3, <2>5
<1>4. Dequeue(cq, k).inflight = cq.inflight \o t /\ Dequeue(cq, k).queued = b
      /\ Dequeue(cq, k).tally = cq.tally
  BY DEF Dequeue, SoundQueues, a, b
<1> HIDE DEF t
<1>5. Additive(F, ClientMsg)
  BY DEF StateFree
<1>6. F[t] = F[a]
  BY <1>2, <1>3, TwinLists
<1>7. F[cq.inflight \o t] = F[cq.inflight] + F[t] /\ F[cq.queued] = F[a] + F[b]
  <2>1. F[cq.inflight \o t] = F[cq.inflight] + F[t]
    BY <1>1, <1>3, <1>5, AddConcat
  <2>2. F[a \o b] = F[a] + F[b]
    BY <1>2, <1>5, AddConcat
  <2> QED BY <1>2, <2>1, <2>2
<1>8. F[cq.inflight] \in Int /\ F[a] \in Int /\ F[b] \in Int
  BY <1>1, <1>2, <1>5 DEF Additive
<1>9. Total(F, Dequeue(cq, k)) = Total(F, cq)
  BY <1>4, <1>6, <1>7, <1>8 DEF Total
<1>10. Len(cq.inflight \o t) = Len(cq.inflight) + k
  BY <1>1, <1>3, ConcatProperties
<1>11. k = 0 => cq.inflight \o t = cq.inflight
  <2>1. k = 0 => t = <<>>
    BY <1>3
  <2> QED BY <1>1, <2>1, ConcatEmptySeq
<1> QED BY <1>4, <1>9, <1>10, <1>11

(* Removing messages from those in flight.                                  *)
LEMMA RemoveTotal ==
  ASSUME NEW F, StateFree(F), NEW cq \in SoundQueues, NEW K
  PROVE  /\ F[Remove(cq, K).inflight] = F[cq.inflight] - F[Keep(cq.inflight, K)]
         /\ Total(F, Remove(cq, K)) = Total(F, cq) - F[Keep(cq.inflight, K)]
         /\ F[Keep(cq.inflight, K)] \in Int
<1> DEFINE a == Keep(cq.inflight, K)
           b == Keep(cq.inflight, DOMAIN cq.inflight \ K)
<1>1. cq.inflight \in Seq(ClientMsg) /\ cq.queued \in Seq(ClientMsg)
  BY SoundParts
<1>2. Additive(F, ClientMsg)
  BY DEF StateFree
<1>3. a \in Seq(ClientMsg) /\ b \in Seq(ClientMsg)
  BY <1>1, KeepType
<1>4. F[a] + F[b] = F[cq.inflight]
  BY <1>1, <1>2, AddKeep
<1>5. Remove(cq, K).inflight = b /\ Remove(cq, K).queued = cq.queued
  BY DEF Remove, SoundQueues
<1> HIDE DEF a, b
<1>6. F[a] \in Int /\ F[b] \in Int /\ F[cq.queued] \in Int
  BY <1>1, <1>2, <1>3 DEF Additive
<1> QED BY <1>4, <1>5, <1>6 DEF Total, a

(* The walk of db__message_write removes what it sends of QoS 0; the rest   *)
(* it gives other states.                                                   *)
LEMMA SendAllTotal ==
  ASSUME NEW F, StateFree(F), NEW cq \in SoundQueues, NEW P
  PROVE  LET K == SentQoS0(cq, P)
         IN  /\ F[SendAll(cq, P).inflight] = F[cq.inflight] - F[Keep(cq.inflight, K)]
             /\ Total(F, SendAll(cq, P)) = Total(F, cq) - F[Keep(cq.inflight, K)]
             /\ SendAll(cq, P).tally = Minus(cq.tally, Tally(Keep(cq.inflight, K)))
<1> DEFINE K == SentQoS0(cq, P)
           r == Remove(cq, K)
           s == [i \in DOMAIN cq.inflight |-> IF i \in P THEN AfterSend(cq.inflight[i])
                                                         ELSE cq.inflight[i]]
           R == DOMAIN cq.inflight \ K
<1>1. cq.inflight \in Seq(ClientMsg) /\ DOMAIN cq.inflight = 1..Len(cq.inflight)
      /\ Len(cq.inflight) \in Nat
  BY SoundParts
<1>2. s \in Seq(ClientMsg) /\ Len(s) = Len(cq.inflight)
      /\ \A i \in 1..Len(s) : Twins(s[i], cq.inflight[i])
  <2>1. s = [i \in 1..Len(cq.inflight) |-> s[i]]
    BY <1>1
  <2>2. \A i \in 1..Len(cq.inflight) : Twins(s[i], cq.inflight[i])
    <3>1. \A i \in 1..Len(cq.inflight) : cq.inflight[i] \in ClientMsg
      BY <1>1
    <3> QED BY <1>1, <3>1, StepsTwins
  <2> HIDE DEF s
  <2>3. \A i \in 1..Len(cq.inflight) : s[i] \in ClientMsg
    BY <2>2 DEF Twins
  <2>4. s \in Seq(ClientMsg) /\ Len(s) = Len(cq.inflight)
    BY <1>1, <2>1, <2>3
  <2> QED BY <2>2, <2>4
<1>3. SendAll(cq, P) = [r EXCEPT !.inflight = Keep(s, DOMAIN s \ K)]
  BY DEF SendAll
<1>4. DOMAIN s = DOMAIN cq.inflight
  OBVIOUS
<1> HIDE DEF s, K
<1>5. F[Keep(s, R)] = F[Keep(cq.inflight, R)]
  BY <1>1, <1>2, TwinLists
<1>6. r \in SoundQueues /\ r.queued = cq.queued
      /\ r.tally = Minus(cq.tally, Tally(Keep(cq.inflight, K)))
  BY RemoveSound
<1>7. r.inflight = Keep(cq.inflight, R)
  BY DEF Remove, SoundQueues
<1> HIDE DEF R
<1>8. /\ SendAll(cq, P).inflight = Keep(s, R) /\ SendAll(cq, P).queued = r.queued
      /\ SendAll(cq, P).tally = r.tally
  <2> HIDE DEF r
  <2> QED BY <1>3, <1>4, <1>6 DEF SoundQueues, R
<1>9. /\ F[r.inflight] = F[cq.inflight] - F[Keep(cq.inflight, K)]
      /\ Total(F, r) = Total(F, cq) - F[Keep(cq.inflight, K)]
  BY RemoveTotal
<1>10. F[SendAll(cq, P).inflight] = F[r.inflight]
  BY <1>5, <1>7, <1>8
<1>11. Total(F, SendAll(cq, P)) = Total(F, r)
  BY <1>8, <1>10 DEF Total
<1> QED BY <1>6, <1>8, <1>9, <1>10, <1>11 DEF K

(* Giving one message in flight a state.                                    *)
StateAt(cq, i, st) == [cq EXCEPT !.inflight[i].state = st]

(* Setting the state of a message in flight changes no sum that does not    *)
(* look at states, and no counter.                                          *)
LEMMA StateAtTotal ==
  ASSUME NEW F, StateFree(F), NEW cq \in SoundQueues, NEW i, NEW st \in States
  PROVE  LET r == StateAt(cq, i, st)
         IN  /\ F[r.inflight] = F[cq.inflight] /\ Total(F, r) = Total(F, cq)
             /\ r.tally = cq.tally /\ Len(r.inflight) = Len(cq.inflight)
<1> DEFINE s == [cq.inflight EXCEPT ![i].state = st]
           r == StateAt(cq, i, st)
<1>1. cq.inflight \in Seq(ClientMsg) /\ DOMAIN cq.inflight = 1..Len(cq.inflight)
  BY SoundParts
<1>2. F[s] = F[cq.inflight] /\ Len(s) = Len(cq.inflight)
  <2>1. CASE i \in DOMAIN cq.inflight
    <3> DEFINE m == [cq.inflight[i] EXCEPT !.state = st]
    <3>1. cq.inflight[i] \in ClientMsg /\ i \in 1..Len(cq.inflight)
      BY <1>1, <2>1
    <3>2. Twins(m, cq.inflight[i])
      BY <3>1, StepsTwins
    <3>3. s = [cq.inflight EXCEPT ![i] = m] /\ m \in ClientMsg
      BY <3>2 DEF Twins
    <3> HIDE DEF s, m
    <3>4. /\ s \in Seq(ClientMsg) /\ Len(s) = Len(cq.inflight)
          /\ \A j \in 1..Len(cq.inflight) : s[j] = IF j = i THEN m ELSE cq.inflight[j]
      BY <1>1, <3>1, <3>3, ExceptSeq
    <3>5. \A j \in 1..Len(s) : Twins(s[j], cq.inflight[j])
      <4>1. \A j \in 1..Len(s) : cq.inflight[j] \in ClientMsg
        BY <1>1, <3>4
      <4> QED BY <3>2, <3>4, <4>1, StepsTwins
    <3> QED BY <1>1, <3>4, <3>5, TwinLists
  <2>2. CASE i \notin DOMAIN cq.inflight
    <3>1. s = cq.inflight
      BY <1>1, <2>2
    <3> QED BY <3>1
  <2> QED BY <2>1, <2>2
<1>3. r.inflight = s /\ r.queued = cq.queued /\ r.tally = cq.tally
  BY DEF SoundQueues, StateAt
<1> HIDE DEF r, s
<1> QED BY <1>2, <1>3 DEF Total, r

(* db__message_update keeps every message.                                  *)
LEMMA UpdateTotal ==
  ASSUME NEW F, StateFree(F), NEW cq \in SoundQueues, NEW mid, NEW dir, NEW st \in States
  PROVE  /\ F[Update(cq, mid, dir, st).inflight] = F[cq.inflight]
         /\ Total(F, Update(cq, mid, dir, st)) = Total(F, cq)
         /\ Update(cq, mid, dir, st).tally = cq.tally
<1> DEFINE K == Matching(cq.inflight, mid, dir)
           i == CHOOSE i \in K : \A j \in K : i <= j
<1>1. Update(cq, mid, dir, st) = IF K = {} THEN cq ELSE StateAt(cq, i, st)
  BY DEF Update, StateAt
<1> HIDE DEF i, K
<1>2. CASE K = {}
  BY <1>1, <1>2
<1>3. CASE K # {}
  BY <1>1, <1>3, StateAtTotal
<1> QED BY <1>2, <1>3

(* The length of a list is one of its counters, and fewer messages are      *)
(* fewer by each of them.                                                   *)
LEMMA Shrinks ==
  ASSUME NEW cq \in SoundQueues, NEW u \in SoundQueues, NEW K,
         \A F : StateFree(F) => F[u.inflight] = F[cq.inflight] - F[Keep(cq.inflight, K)]
  PROVE  /\ Len(u.inflight) <= Len(cq.inflight)
         /\ CounterOf("count12")[u.inflight] <= CounterOf("count12")[cq.inflight]
<1>1. /\ cq.inflight \in Seq(ClientMsg) /\ u.inflight \in Seq(ClientMsg)
      /\ Keep(cq.inflight, K) \in Seq(ClientMsg)
  BY SoundParts, KeepType
<1>2. ASSUME NEW f \in Counters PROVE CounterOf(f)[u.inflight] <= CounterOf(f)[cq.inflight]
  <2> DEFINE F == CounterOf(f)
  <2>1. /\ F[u.inflight] \in Nat /\ F[cq.inflight] \in Nat /\ F[Keep(cq.inflight, K)] \in Nat
        /\ StateFree(F)
    BY <1>1, CountersStateFree
  <2> HIDE DEF F
  <2>2. F[u.inflight] = F[cq.inflight] - F[Keep(cq.inflight, K)]
    BY <2>1
  <2>3. F[u.inflight] <= F[cq.inflight]
    BY <2>1, <2>2
  <2> QED BY <2>3 DEF F
<1>3. "count" \in Counters /\ "count12" \in Counters
  BY DEF Counters
<1>4. ASSUME NEW s \in Seq(ClientMsg) PROVE CounterOf("count")[s] = Len(s)
  BY DEF CounterOf, Tally
<1>5. /\ CounterOf("count")[u.inflight] = Len(u.inflight)
      /\ CounterOf("count")[cq.inflight] = Len(cq.inflight)
  BY <1>1, <1>4
<1>6. CounterOf("count")[u.inflight] <= CounterOf("count")[cq.inflight]
  BY <1>2, <1>3
<1> QED BY <1>2, <1>3, <1>5, <1>6

(* A window that was kept is kept.                                          *)
WindowKept(cq, r) ==
  MaxInflight # 0 => \/ Len(r.inflight) <= MaxInflight
                     \/ CounterOf("count12")[r.inflight] <= CounterOf("count12")[cq.inflight]

(* The loops over the queue stop at the window, for they count at least the *)
(* messages that are in flight.                                             *)
LEMMA MovesWindow ==
  ASSUME NEW cq \in SoundQueues, NEW u \in SoundQueues, NEW x, NEW index \in Nat,
         x.queued = u.queued, Len(u.inflight) <= index, NEW k \in 0..Moves(x, index),
         CounterOf("count12")[u.inflight] <= CounterOf("count12")[cq.inflight]
  PROVE  k \in 0..Len(u.queued) /\ WindowKept(cq, Dequeue(u, k))
<1>1. Len(u.queued) \in Nat /\ Len(u.inflight) \in Nat
  BY SoundParts
<1>2. Moves(x, index) \in 0..Len(u.queued)
  BY <1>1, MovesType
<1>3. k \in 0..Len(u.queued)
  BY <1>1, <1>2
<1>4. "count" \in Counters
  BY DEF Counters
<1>5. /\ Len(Dequeue(u, k).inflight) = Len(u.inflight) + k
      /\ k = 0 => Dequeue(u, k).inflight = u.inflight
  BY <1>3, <1>4, CountersStateFree, DequeueTotal
<1>6. MaxInflight # 0 => k = 0 \/ index + k <= MaxInflight
  BY <1>1, <1>2, LimitsAssumption DEF Moves, Least
<1>7. CASE k = 0
  BY <1>3, <1>5, <1>7 DEF WindowKept
<1>8. CASE k # 0
  <2>1. MaxInflight # 0 => Len(u.inflight) + k <= MaxInflight
    BY <1>1, <1>3, <1>6, <1>8, LimitsAssumption
  <2> QED BY <1>3, <1>5, <2>1 DEF WindowKept
<1> QED BY <1>7, <1>8

(* What a walk over the messages in flight that removes those at the        *)
(* positions K leaves, whatever it then moves from the queue.               *)
Leaves(cq, r, K) ==
  /\ \A F : StateFree(F) => Total(F, r) = Total(F, cq) - F[Keep(cq.inflight, K)]
  /\ r.tally = Minus(cq.tally, Tally(Keep(cq.inflight, K)))
  /\ WindowKept(cq, r)

(* A walk, and a move of messages up to the window.                         *)
LEMMA WalkAndMove ==
  ASSUME NEW cq \in SoundQueues, NEW u \in SoundQueues, NEW K, NEW x, NEW index \in Nat,
         x.queued = u.queued, Len(u.inflight) <= index, NEW k \in 0..Moves(x, index),
         \A F : StateFree(F) => /\ F[u.inflight] = F[cq.inflight] - F[Keep(cq.inflight, K)]
                                /\ Total(F, u) = Total(F, cq) - F[Keep(cq.inflight, K)],
         u.tally = Minus(cq.tally, Tally(Keep(cq.inflight, K)))
  PROVE  Leaves(cq, Dequeue(u, k), K)
<1>1. CounterOf("count12")[u.inflight] <= CounterOf("count12")[cq.inflight]
  BY Shrinks
<1>2. k \in 0..Len(u.queued) /\ WindowKept(cq, Dequeue(u, k))
  BY <1>1, MovesWindow
<1>3. \A F : StateFree(F) => Total(F, Dequeue(u, k)) = Total(F, u)
  BY <1>2, DequeueTotal
<1>4. Dequeue(u, k).tally = u.tally
  <2>1. "count" \in Counters
    BY DEF Counters
  <2> QED BY <1>2, <2>1, CountersStateFree, DequeueTotal
<1> QED BY <1>2, <1>3, <1>4 DEF Leaves

(* db__message_delete and db__message_release.                              *)
LEMMA DeleteLeaves ==
  ASSUME NEW cq \in SoundQueues, NEW mid, NEW dir
  PROVE  Leaves(cq, Delete(cq, mid, dir), Matching(cq.inflight, mid, dir))
<1> DEFINE K == Matching(cq.inflight, mid, dir)
           u == Remove(cq, K)
           k == DeleteMoves(cq, mid, dir)
<1>1. u \in SoundQueues /\ Len(u.inflight) \in Nat /\ Len(u.queued) \in Nat
  BY RemoveSound, SoundParts
<1>2. k = Moves(u, Len(u.inflight)) /\ Delete(cq, mid, dir) = Dequeue(u, k)
  BY DEF DeleteMoves, Delete
<1>3. u.tally = Minus(cq.tally, Tally(Keep(cq.inflight, K)))
  BY RemoveSound
<1>4. \A F : StateFree(F) => /\ F[u.inflight] = F[cq.inflight] - F[Keep(cq.inflight, K)]
                             /\ Total(F, u) = Total(F, cq) - F[Keep(cq.inflight, K)]
  BY RemoveTotal
<1> HIDE DEF K, u, k
<1>5. k \in 0..Moves(u, Len(u.inflight)) /\ Len(u.inflight) <= Len(u.inflight)
  BY <1>1, <1>2, MovesType
<1> QED BY <1>1, <1>2, <1>3, <1>4, <1>5, WalkAndMove DEF K

(* db__message_release removes the messages from the client under the       *)
(* identifier, whatever it then moves from the queue.                       *)
LEMMA ReleaseLeaves ==
  ASSUME NEW cq \in SoundQueues, NEW mid
  PROVE  Leaves(cq, Release(cq, mid), Matching(cq.inflight, mid, "in"))
<1> DEFINE K == Matching(cq.inflight, mid, "in")
           u == Remove(cq, K)
           k == ReleaseMoves(cq)
<1>1. u \in SoundQueues /\ u.queued = cq.queued /\ Len(cq.queued) \in Nat
      /\ Len(cq.inflight) \in Nat
  BY RemoveSound, SoundParts
<1>2. k = Moves(cq, Len(cq.inflight)) /\ Release(cq, mid) = Dequeue(u, k)
  BY DEF ReleaseMoves, Release
<1>3. u.tally = Minus(cq.tally, Tally(Keep(cq.inflight, K)))
  BY RemoveSound
<1>4. \A F : StateFree(F) => /\ F[u.inflight] = F[cq.inflight] - F[Keep(cq.inflight, K)]
                             /\ Total(F, u) = Total(F, cq) - F[Keep(cq.inflight, K)]
  BY RemoveTotal
<1> HIDE DEF K, u, k
<1>5. k \in 0..Moves(cq, Len(cq.inflight)) /\ Len(u.inflight) <= Len(cq.inflight)
  <2>1. Moves(cq, Len(cq.inflight)) \in 0..Len(cq.queued)
    BY <1>1, MovesType
  <2>2. Len(u.inflight) <= Len(cq.inflight)
    BY <1>1, <1>4, Shrinks
  <2> QED BY <1>1, <1>2, <2>1, <2>2
<1> QED BY <1>1, <1>2, <1>3, <1>4, <1>5, WalkAndMove DEF K

(* db__message_write, when it ends and when one of its sends fails.         *)
LEMMA WriteLeaves ==
  ASSUME NEW cq \in SoundQueues
  PROVE  /\ Leaves(cq, Write(cq), SentQoS0(cq, Pending(cq)))
         /\ \A i : Leaves(cq, WriteFailsAt(cq, i), SentQoS0(cq, {j \in Pending(cq) : j < i}))
         /\ \A j \in 1..WriteMoves(cq) : cq.queued[j].dir = "in" =>
              Leaves(cq, WriteFailsAtPubrec(cq, j), SentQoS0(cq, Pending(cq)))
<1>1. ASSUME NEW P, NEW u, u = SendAll(cq, P)
      PROVE  /\ u \in SoundQueues /\ u.queued = cq.queued /\ Len(u.inflight) <= Len(cq.inflight)
             /\ u.tally = Minus(cq.tally, Tally(Keep(cq.inflight, SentQoS0(cq, P))))
             /\ \A F : StateFree(F) =>
                  /\ F[u.inflight] = F[cq.inflight] - F[Keep(cq.inflight, SentQoS0(cq, P))]
                  /\ Total(F, u) = Total(F, cq) - F[Keep(cq.inflight, SentQoS0(cq, P))]
             /\ Leaves(cq, u, SentQoS0(cq, P))
  <2> DEFINE K == SentQoS0(cq, P)
  <2>1. u \in SoundQueues /\ u.queued = cq.queued
    BY <1>1, SendAllSound
  <2>2. \A F : StateFree(F) => /\ F[u.inflight] = F[cq.inflight] - F[Keep(cq.inflight, K)]
                               /\ Total(F, u) = Total(F, cq) - F[Keep(cq.inflight, K)]
    BY <1>1, SendAllTotal
  <2>3. u.tally = Minus(cq.tally, Tally(Keep(cq.inflight, K)))
    <3>1. "count" \in Counters
      BY DEF Counters
    <3> QED BY <1>1, <3>1, CountersStateFree, SendAllTotal
  <2> HIDE DEF K
  <2>4. /\ Len(u.inflight) <= Len(cq.inflight)
        /\ CounterOf("count12")[u.inflight] <= CounterOf("count12")[cq.inflight]
    BY <2>1, <2>2, Shrinks
  <2> QED BY <2>1, <2>2, <2>3, <2>4 DEF Leaves, WindowKept, K
<1> DEFINE u == SendAll(cq, Pending(cq))
           K == SentQoS0(cq, Pending(cq))
<1>2. Len(cq.inflight) \in Nat /\ Len(cq.queued) \in Nat
  BY SoundParts
<1>3. WriteMoves(cq) = Moves(cq, Len(cq.inflight)) /\ WriteMoves(cq) \in 0..Len(cq.queued)
  BY <1>2, MovesType DEF WriteMoves
<1>4. ASSUME NEW k \in 0..WriteMoves(cq) PROVE Leaves(cq, Dequeue(u, k), K)
  <2>1. /\ u \in SoundQueues /\ u.queued = cq.queued /\ Len(u.inflight) <= Len(cq.inflight)
        /\ u.tally = Minus(cq.tally, Tally(Keep(cq.inflight, K)))
        /\ \A F : StateFree(F) =>
             /\ F[u.inflight] = F[cq.inflight] - F[Keep(cq.inflight, K)]
             /\ Total(F, u) = Total(F, cq) - F[Keep(cq.inflight, K)]
    BY <1>1
  <2> HIDE DEF u, K
  <2>2. k \in 0..Moves(cq, Len(cq.inflight))
    BY <1>3
  <2> QED BY <1>2, <2>1, <2>2, WalkAndMove
<1>5. Leaves(cq, Write(cq), K)
  <2>1. WriteMoves(cq) \in 0..WriteMoves(cq)
    BY <1>3
  <2> QED BY <1>4, <2>1 DEF Write
<1>6. ASSUME NEW i PROVE Leaves(cq, WriteFailsAt(cq, i), SentQoS0(cq, {j \in Pending(cq) : j < i}))
  BY <1>1 DEF WriteFailsAt
<1>7. ASSUME NEW j \in 1..WriteMoves(cq)
      PROVE  Leaves(cq, WriteFailsAtPubrec(cq, j), K)
  <2> DEFINE r == Dequeue(u, j)
             n == Len(r.inflight)
             z == StateAt(r, n, "send_pubrec")
  <2>1. j \in 0..WriteMoves(cq) /\ j \in 0..Len(u.queued)
    BY <1>1, <1>3
  <2>2. Leaves(cq, r, K)
    BY <1>4, <2>1
  <2>3. r \in SoundQueues
    BY <1>1, <2>1, DequeueSound
  <2>4. "send_pubrec" \in States /\ "count12" \in Counters
    BY DEF States, InStates, Counters
  <2> HIDE DEF r, n, K, u
  <2>5. \A F : StateFree(F) => F[z.inflight] = F[r.inflight] /\ Total(F, z) = Total(F, r)
    BY <2>3, <2>4, StateAtTotal
  <2>6. z.tally = r.tally /\ Len(z.inflight) = Len(r.inflight) /\ StateFree(CounterOf("count12"))
    BY <2>3, <2>4, CountersStateFree, StateAtTotal
  <2>7. WriteFailsAtPubrec(cq, j) = z
    BY DEF WriteFailsAtPubrec, StateAt, r, n, u
  <2> HIDE DEF z
  <2> QED BY <2>2, <2>5, <2>6, <2>7 DEF Leaves, WindowKept
<1> QED BY <1>5, <1>6, <1>7

(* db__message_insert adds one message, or nothing.                         *)
NewMsg(s, mid, dir, qos) ==
  [store |-> s, mid |-> mid, dir |-> dir, state |-> "queued", qos |-> qos]

(* db__message_insert: a dropped message changes nothing, and any other is  *)
(* added once to its list and to the counters.                              *)
LEMMA InsertTotal ==
  ASSUME NEW F, StateFree(F), NEW cq \in SoundQueues, NEW online \in BOOLEAN, NEW s \in Stored,
         NEW mid \in Nat, NEW dir \in {"in", "out"}, NEW qos \in QoS,
         NEW r, r = Insert(cq, online, s, mid, dir, qos)
  PROVE  LET m  == NewMsg(s, mid, dir, qos)
             st == InsertState(cq, online, dir, qos)
         IN  /\ m \in ClientMsg
             /\ st = "dropped" => r = cq
             /\ st # "dropped" => /\ Total(F, r) = Total(F, cq) + F[<<m>>]
                                  /\ r.tally = Plus(cq.tally, Tally(<<m>>))
                                  /\ F[r.inflight] = F[cq.inflight]
                                       + (IF st = "queued" THEN 0 ELSE F[<<m>>])
<1> DEFINE st == InsertState(cq, online, dir, qos)
           m  == NewMsg(s, mid, dir, qos)
           n  == [store |-> s, mid |-> mid, dir |-> dir, state |-> st, qos |-> qos]
           t  == Plus(cq.tally, Tally(<<n>>))
<1>1. /\ cq.inflight \in Seq(ClientMsg) /\ cq.queued \in Seq(ClientMsg)
      /\ Additive(F, ClientMsg)
  BY SoundParts DEF StateFree
<1>2. F[cq.inflight] \in Int /\ F[cq.queued] \in Int
  BY <1>1 DEF Additive
<1>3. m \in ClientMsg
  BY DEF NewMsg, ClientMsg, States
<1>4. CASE st = "dropped"
  BY <1>3, <1>4 DEF Insert
<1>5. CASE st # "dropped"
  <2> HIDE DEF st
  <2>1. st \in States
    BY <1>5, InsertStateType, StatesForAre DEF st, States
  <2>2. n \in ClientMsg /\ Twins(n, m)
    BY <2>1 DEF NewMsg, ClientMsg, States, Twins
  <2> HIDE DEF n, m
  <2>3. F[<<n>>] = F[<<m>>] /\ Tally(<<n>>) = Tally(<<m>>)
    <3>1. F[<<n>>] = F[<<m>>]
      BY <1>3, <2>2 DEF StateFree
    <3>2. Tally(<<n>>) = Tally(<<m>>)
      <4>1. <<n>> \in Seq(ClientMsg) /\ <<m>> \in Seq(ClientMsg)
        BY <1>3, <2>2
      <4>2. \A f \in Counters : CounterOf(f)[<<n>>] = CounterOf(f)[<<m>>]
        BY <1>3, <2>2, CountersStateFree DEF StateFree
      <4>3. \A f \in Counters : Tally(<<n>>)[f] = Tally(<<m>>)[f]
        BY <4>1, <4>2, CountersStateFree
      <4>4. Tally(<<n>>) \in Tallies /\ Tally(<<m>>) \in Tallies
        BY <4>1, TallyType
      <4> QED BY <4>3, <4>4 DEF Tallies, Counters
    <3> QED BY <3>1, <3>2
  <2>4. F[<<n>>] \in Int
    <3>1. <<n>> \in Seq(ClientMsg)
      BY <2>2
    <3> QED BY <1>1, <3>1 DEF Additive
  <2>5. CASE st = "queued"
    <3>1. r = [cq EXCEPT !.queued = Append(cq.queued, n), !.tally = t]
      BY <2>5 DEF Insert, SoundQueues, st, n
    <3>2. /\ r.inflight = cq.inflight /\ r.queued = Append(cq.queued, n)
          /\ r.tally = Plus(cq.tally, Tally(<<n>>))
      BY <3>1 DEF SoundQueues
    <3>3. F[Append(cq.queued, n)] = F[cq.queued] + F[<<n>>]
      BY <1>1, <2>2 DEF Additive
    <3>4. Total(F, r) = Total(F, cq) + F[<<n>>]
      BY <1>2, <2>4, <3>2, <3>3 DEF Total
    <3> QED BY <1>2, <1>3, <1>5, <2>3, <2>5, <3>2, <3>4 DEF st, m
  <2>6. CASE st # "queued"
    <3>1. r = [cq EXCEPT !.inflight = Append(cq.inflight, n), !.tally = t]
      BY <1>5, <2>6 DEF Insert, SoundQueues, st, n
    <3>2. /\ r.inflight = Append(cq.inflight, n) /\ r.queued = cq.queued
          /\ r.tally = Plus(cq.tally, Tally(<<n>>))
      BY <3>1 DEF SoundQueues
    <3>3. F[Append(cq.inflight, n)] = F[cq.inflight] + F[<<n>>]
      BY <1>1, <2>2 DEF Additive
    <3>4. Total(F, r) = Total(F, cq) + F[<<n>>]
      BY <1>2, <2>4, <3>2, <3>3 DEF Total
    <3> QED BY <1>3, <1>5, <2>3, <2>6, <3>2, <3>3, <3>4 DEF st, m
  <2> QED BY <2>5, <2>6
<1> QED BY <1>4, <1>5

-----------------------------------------------------------------------------
(* The loop of db__message_reconnect_reset.                                 *)

(* What one turn does: the message it visits is counted, and the head of    *)
(* the queue is moved if there is room.  Where only messages of QoS 1 and 2 *)
(* are queued there is room only while the loop is at the head.             *)
LEMMA ResetVisitIs ==
  ASSUME NEW r \in Resets, ~(r.p > Len(r.q.queued)), NEW v, v = ResetVisit(r.q, r.p),
         NEW m, m = r.q.queued[r.p]
  PROVE  \E s \in Seq(ClientMsg) :
           /\ Len(s) = Len(r.q.queued) /\ s # <<>>
           /\ \A i \in 1..Len(s) : Twins(s[i], r.q.queued[i])
           /\ r.p \in 1..Len(r.q.queued) /\ m \in ClientMsg
           /\ v.q.tally = Plus(r.q.tally, Tally(<<m>>))
           /\ \/ /\ ReadyForFlight(Plus(r.q.tally, Tally(<<m>>)), m.qos)
                 /\ QueueQoS0 \/ r.p = 1
                 /\ v.p = 1 /\ v.q.inflight = Append(r.q.inflight, Head(s))
                 /\ v.q.queued = Tail(s)
              \/ /\ v.p = r.p + 1 /\ v.q.inflight = r.q.inflight
                 /\ v.q.queued = r.q.queued
<1> DEFINE cq == r.q
           p  == r.p
           n  == [m EXCEPT !.state = PublishState(m.qos)]
           t  == Plus(cq.tally, Tally(<<m>>))
           s  == [cq.queued EXCEPT ![p] = n]
<1>1. /\ cq \in SoundQueues /\ cq.queued \in Seq(QueuedMsg) /\ cq.queued \in Seq(ClientMsg)
      /\ cq.tally \in Tallies
      /\ QueueQoS0 \/ (p > 1 => ~ReadyForFlight(cq.tally, 1))
  BY SoundParts DEF Resets
<1>2. p \in 1..Len(cq.queued)
  BY <1>1 DEF Resets
<1>3. m \in QueuedMsg /\ m \in ClientMsg
  BY <1>1, <1>2
<1>4. Twins(n, m)
  <2>1. PublishState(m.qos) \in States
    BY <1>3, MsgSteps DEF ClientMsg, States
  <2> QED BY <1>3, <2>1, StepsTwins
<1>5. v = IF ReadyForFlight(t, m.qos)
          THEN [q |-> [cq EXCEPT !.inflight = Append(@, Head(s)), !.queued = Tail(s), !.tally = t],
                p |-> 1]
          ELSE [q |-> [cq EXCEPT !.tally = t], p |-> p + 1]
  BY DEF ResetVisit
<1>6. ReadyForFlight(t, m.qos) => QueueQoS0 \/ p = 1
  <2>1. SUFFICES ASSUME ReadyForFlight(t, m.qos), ~QueueQoS0 PROVE p = 1
    OBVIOUS
  <2>2. m.qos \in QoS \ {0} /\ <<m>> \in Seq(ClientMsg)
    BY <1>3, <2>1 DEF QueuedMsg, ClientMsg, QoS
  <2>3. ReadyForFlight(cq.tally, 1)
    BY <1>1, <2>1, <2>2, ReadyShrinks
  <2> QED BY <1>1, <1>2, <2>1, <2>3
<1> HIDE DEF t, cq, p, n
<1>7. /\ s \in Seq(ClientMsg) /\ Len(s) = Len(cq.queued) /\ s # <<>>
      /\ \A i \in 1..Len(s) : Twins(s[i], cq.queued[i])
  <2>1. n \in ClientMsg
    BY <1>4 DEF Twins
  <2>2. /\ s \in Seq(ClientMsg) /\ Len(s) = Len(cq.queued)
        /\ \A i \in 1..Len(cq.queued) : s[i] = IF i = p THEN n ELSE cq.queued[i]
    BY <1>1, <1>2, <2>1, ExceptSeq
  <2> HIDE DEF s
  <2>3. s # <<>>
    BY <1>2, <2>2
  <2>4. \A i \in 1..Len(s) : Twins(s[i], cq.queued[i])
    <3>1. \A i \in 1..Len(s) : cq.queued[i] \in ClientMsg
      BY <1>1, <2>2
    <3>2. m = cq.queued[p]
      BY DEF cq, p
    <3> QED BY <1>4, <2>2, <3>1, <3>2, StepsTwins
  <2> QED BY <2>2, <2>3, <2>4
<1> HIDE DEF s
<1>8. v.q.tally = t
  BY <1>1, <1>5 DEF SoundQueues
<1>9. CASE ReadyForFlight(t, m.qos)
  <2>1. v.p = 1 /\ v.q.inflight = Append(cq.inflight, Head(s)) /\ v.q.queued = Tail(s)
    <3> DEFINE a == Append(cq.inflight, Head(s))
               b == Tail(s)
    <3>1. v = [q |-> [cq EXCEPT !.inflight = Append(@, Head(s)), !.queued = b, !.tally = t], p |-> 1]
      BY <1>5, <1>9
    <3>2. [cq EXCEPT !.inflight = a, !.queued = b, !.tally = t]
            = [cq EXCEPT !.inflight = Append(@, Head(s)), !.queued = b, !.tally = t]
      BY <1>1 DEF SoundQueues
    <3> HIDE DEF a, b
    <3>3. v = [q |-> [cq EXCEPT !.inflight = a, !.queued = b, !.tally = t], p |-> 1]
      BY <3>1, <3>2
    <3> DEFINE z == [cq EXCEPT !.inflight = a, !.queued = b, !.tally = t]
    <3>4. z.inflight = a /\ z.queued = b
      BY <1>1 DEF SoundQueues
    <3>5. v.p = 1 /\ v.q = z
      BY <3>3
    <3> HIDE DEF z
    <3>6. v.p = 1 /\ v.q.inflight = a /\ v.q.queued = b
      BY <3>4, <3>5
    <3> QED BY <3>6 DEF a, b
  <2> QED BY <1>2, <1>3, <1>6, <1>7, <1>8, <1>9, <2>1 DEF t, cq, p
<1>10. CASE ~ReadyForFlight(t, m.qos)
  <2>1. v.p = p + 1 /\ v.q.inflight = cq.inflight /\ v.q.queued = cq.queued
    BY <1>1, <1>5, <1>10 DEF SoundQueues
  <2> QED BY <1>2, <1>3, <1>7, <1>8, <2>1 DEF t, cq, p
<1> QED BY <1>9, <1>10

(* The messages of QoS 1 and 2 that are in flight.                          *)
Window(s) == CounterOf("count12")[s]

(* What the loop keeps: no message is lost or added, and where only QoS 1   *)
(* and 2 are queued the counters say what is in flight and what the loop    *)
(* has visited since it last began at the head, and the window is kept.     *)
ResetKeeps(cq) ==
  {r \in Resets :
     /\ r.p <= Len(r.q.queued) + 1
     /\ \A F : StateFree(F) => Total(F, r.q) = Total(F, cq)
     /\ QueueQoS0 \/ \A f \in Counters :
          r.q.tally[f] = CounterOf(f)[r.q.inflight] + CounterOf(f)[SubSeq(r.q.queued, 1, r.p - 1)]
     /\ \/ QueueQoS0 \/ MaxInflight = 0 \/ Window(r.q.inflight) <= Window(cq.inflight)
        \/ Window(r.q.inflight) <= MaxInflight}

(* The loop starts with the messages in flight counted.                     *)
LEMMA ResetFirstKeeps ==
  ASSUME NEW cq \in SoundQueues
  PROVE  ResetFirst(cq) \in ResetKeeps(cq)
<1> DEFINE s == Mapped(cq.inflight, ResetState)
           z == [cq EXCEPT !.inflight = s, !.tally = Tally(s)]
<1>1. /\ cq.inflight \in Seq(ClientMsg) /\ cq.queued \in Seq(ClientMsg)
      /\ cq.inflight \in Seq(InflightMsg) /\ Len(cq.queued) \in Nat
      /\ DOMAIN cq.inflight = 1..Len(cq.inflight) /\ Len(cq.inflight) \in Nat
  BY SoundParts
<1>2. s = [i \in 1..Len(cq.inflight) |-> ResetState(cq.inflight[i])]
  BY <1>1 DEF Mapped
<1>3. /\ s \in Seq(InflightMsg) /\ s \in Seq(ClientMsg) /\ Len(s) = Len(cq.inflight)
      /\ \A i \in 1..Len(s) : Twins(s[i], cq.inflight[i])
  <2>1. \A i \in 1..Len(cq.inflight) : cq.inflight[i] \in InflightMsg /\ cq.inflight[i] \in ClientMsg
    BY <1>1
  <2>2. \A i \in 1..Len(cq.inflight) : /\ ResetState(cq.inflight[i]) \in InflightMsg
                                       /\ Twins(ResetState(cq.inflight[i]), cq.inflight[i])
    BY <2>1, MsgSteps, StepsTwins
  <2>3. InflightMsg \subseteq ClientMsg
    BY DEF InflightMsg
  <2> HIDE DEF s
  <2>4. s \in Seq(InflightMsg) /\ Len(s) = Len(cq.inflight)
    BY <1>1, <1>2, <2>2
  <2> QED BY <1>2, <2>2, <2>3, <2>4
<1> HIDE DEF s
<1>4. Tally(s) \in Tallies
  BY <1>3, TallyType
<1>5. z \in SoundQueues /\ z.inflight = s /\ z.queued = cq.queued /\ z.tally = Tally(s)
  BY <1>3, <1>4 DEF SoundQueues
<1>6. ResetFirst(cq) = [q |-> z, p |-> 1]
  BY DEF ResetFirst, s
<1> HIDE DEF z
<1>7. \A F : StateFree(F) => F[s] = F[cq.inflight]
  BY <1>1, <1>3, TwinLists
<1>8. \A F : StateFree(F) => Total(F, z) = Total(F, cq)
  BY <1>5, <1>7 DEF Total
<1>9. ASSUME NEW f \in Counters
      PROVE  z.tally[f] = CounterOf(f)[z.inflight] + CounterOf(f)[SubSeq(z.queued, 1, 0)]
  <2>1. CounterOf(f)[s] = Tally(s)[f] /\ CounterOf(f)[s] \in Nat /\ StateFree(CounterOf(f))
    BY <1>3, CountersStateFree
  <2>2. CounterOf(f)[<<>>] = 0 /\ SubSeq(z.queued, 1, 0) = <<>>
    <3>1. CounterOf(f)[<<>>] = 0
      BY <2>1 DEF StateFree, Additive
    <3>2. z.queued \in Seq(ClientMsg)
      BY <1>1, <1>5
    <3>3. SubSeq(z.queued, 1, 0) = <<>>
      BY <3>2, Prefixes
    <3> QED BY <3>1, <3>3
  <2>3. /\ z.tally[f] = CounterOf(f)[s] /\ CounterOf(f)[z.inflight] = CounterOf(f)[s]
        /\ CounterOf(f)[SubSeq(z.queued, 1, 0)] = 0
    BY <1>5, <2>1, <2>2, Zenon
  <2> QED BY <2>1, <2>3
<1>10. Window(z.inflight) <= Window(cq.inflight)
  <2>1. "count12" \in Counters
    BY DEF Counters
  <2>2. /\ CounterOf("count12")[s] = CounterOf("count12")[cq.inflight]
        /\ CounterOf("count12")[s] \in Nat
    BY <1>3, <1>7, <2>1, CountersStateFree
  <2> QED BY <1>5, <2>2 DEF Window
<1>11. [q |-> z, p |-> 1] \in Resets
  BY <1>5 DEF Resets
<1>12. 1 <= Len(z.queued) + 1 /\ 1 - 1 = 0
  BY <1>1, <1>5
<1> QED BY <1>6, <1>8, <1>9, <1>10, <1>11, <1>12 DEF ResetKeeps

(* The first element of a list counts as one and the rest of it.            *)
LEMMA AddHead ==
  ASSUME NEW S, NEW F, Additive(F, S), NEW s \in Seq(S), s # <<>>
  PROVE  /\ Head(s) = s[1] /\ Head(s) \in S /\ Tail(s) \in Seq(S) /\ <<Head(s)>> \in Seq(S)
         /\ F[s] = F[<<Head(s)>>] + F[Tail(s)]
<1>1. /\ Head(s) = s[1] /\ Head(s) \in S /\ Tail(s) \in Seq(S) /\ <<Head(s)>> \in Seq(S)
      /\ Len(Tail(s)) = Len(s) - 1 /\ Len(s) \in Nat \ {0}
      /\ \A i \in 1..Len(Tail(s)) : Tail(s)[i] = s[i + 1]
  BY HeadTailProperties
<1> DEFINE h == Head(s)
           r == Tail(s)
<1>2. <<h>> \o r \in Seq(S) /\ Len(<<h>> \o r) = Len(s)
  BY <1>1, ConcatProperties
<1>3. ASSUME NEW i \in 1..Len(s) PROVE (<<h>> \o r)[i] = s[i]
  <2>1. i \in 1..(Len(<<h>>) + Len(r)) /\ Len(<<h>>) = 1 /\ <<h>>[1] = s[1]
    BY <1>1
  <2>2. (<<h>> \o r)[i] = IF i <= 1 THEN <<h>>[i] ELSE r[i - 1]
    BY <1>1, <2>1, ConcatProperties
  <2>3. i > 1 => i - 1 \in 1..Len(r) /\ r[i - 1] = s[(i - 1) + 1] /\ (i - 1) + 1 = i
    BY <1>1
  <2> QED BY <2>1, <2>2, <2>3
<1>4. <<h>> \o r = s
  BY <1>2, <1>3, SeqEqual
<1>5. F[<<h>> \o r] = F[<<h>>] + F[r]
  <2>1. \A a \in Seq(S), b \in Seq(S) : F[a \o b] = F[a] + F[b]
    BY AddConcat
  <2> QED BY <1>1, <2>1
<1> QED BY <1>1, <1>4, <1>5

(* The counters are added and subtracted one by one.                        *)
LEMMA PlusAt ==
  ASSUME NEW t \in Tallies, NEW u \in Tallies, NEW f \in Counters
  PROVE  /\ Plus(t, u)[f] = t[f] + u[f] /\ Minus(t, u)[f] = t[f] - u[f]
         /\ t[f] \in Int /\ u[f] \in Int
<1>1. f \in DOMAIN t /\ t[f] \in Int /\ u[f] \in Int
  BY DEF Tallies, Counters
<1> QED BY <1>1 DEF Plus, Minus

(* A visit of the loop moves a message from one list to the other or none,  *)
(* counts it once, and moves it only into a window that has room for it.    *)
LEMMA ResetVisitKeeps ==
  ASSUME NEW cq \in SoundQueues, NEW r \in ResetKeeps(cq), ~(r.p > Len(r.q.queued))
  PROVE  ResetVisit(r.q, r.p) \in ResetKeeps(cq)
<1> DEFINE v == ResetVisit(r.q, r.p)
           m == r.q.queued[r.p]
           t == Plus(r.q.tally, Tally(<<m>>))
<1>1. /\ r \in Resets /\ r.q \in SoundQueues /\ r.p \in Nat \ {0}
      /\ r.p <= Len(r.q.queued) + 1
  BY DEF ResetKeeps, Resets
<1>2. v \in Resets /\ v.q \in SoundQueues /\ v.p \in Nat \ {0}
  BY <1>1, ResetVisitSound DEF Resets
<1>3. PICK s \in Seq(ClientMsg) :
        /\ Len(s) = Len(r.q.queued) /\ s # <<>>
        /\ \A i \in 1..Len(s) : Twins(s[i], r.q.queued[i])
        /\ r.p \in 1..Len(r.q.queued) /\ m \in ClientMsg
        /\ v.q.tally = t
        /\ \/ /\ ReadyForFlight(t, m.qos)
              /\ QueueQoS0 \/ r.p = 1
              /\ v.p = 1 /\ v.q.inflight = Append(r.q.inflight, Head(s))
              /\ v.q.queued = Tail(s)
           \/ /\ v.p = r.p + 1 /\ v.q.inflight = r.q.inflight
              /\ v.q.queued = r.q.queued
  BY <1>1, ResetVisitIs
<1> HIDE DEF v
<1>4. /\ r.q.inflight \in Seq(ClientMsg) /\ r.q.queued \in Seq(ClientMsg)
      /\ Len(r.q.queued) \in Nat /\ r.q.tally \in Tallies
      /\ v.q.queued \in Seq(ClientMsg)
      /\ m \in QueuedMsg
  <2>1. r.q.queued \in Seq(QueuedMsg)
    BY <1>1, SoundParts
  <2> QED BY <1>1, <1>2, <1>3, <2>1, SoundParts
<1>5. <<m>> \in Seq(ClientMsg) /\ Tally(<<m>>) \in Tallies
  <2> HIDE DEF m
  <2>1. <<m>> \in Seq(ClientMsg)
    BY <1>3
  <2> QED BY <2>1, TallyType
<1>6. ASSUME NEW F, StateFree(F)
      PROVE  /\ F[Append(r.q.inflight, Head(s))] = F[r.q.inflight] + F[<<Head(s)>>]
             /\ F[r.q.queued] = F[<<Head(s)>>] + F[Tail(s)]
             /\ F[r.q.inflight] \in Int /\ F[<<Head(s)>>] \in Int /\ F[Tail(s)] \in Int
             /\ r.p = 1 => F[<<Head(s)>>] = F[<<m>>]
  <2>1. Additive(F, ClientMsg)
    BY <1>6 DEF StateFree
  <2>2. /\ Head(s) = s[1] /\ Head(s) \in ClientMsg /\ Tail(s) \in Seq(ClientMsg)
        /\ <<Head(s)>> \in Seq(ClientMsg) /\ F[s] = F[<<Head(s)>>] + F[Tail(s)]
    BY <1>3, <2>1, AddHead
  <2>3. F[s] = F[r.q.queued]
    BY <1>3, <1>4, <1>6, TwinLists
  <2>4. r.p = 1 => F[<<Head(s)>>] = F[<<m>>]
    <3>1. r.p = 1 => Twins(s[1], m)
      BY <1>3
    <3>2. r.p = 1 => F[<<s[1]>>] = F[<<m>>]
      BY <1>3, <1>6, <2>2, <3>1 DEF StateFree
    <3> QED BY <2>2, <3>2
  <2> QED BY <1>4, <2>1, <2>2, <2>3, <2>4 DEF Additive
<1>7. ASSUME NEW F, StateFree(F) PROVE Total(F, v.q) = Total(F, cq)
  <2>1. Total(F, r.q) = Total(F, cq)
    BY <1>7 DEF ResetKeeps
  <2>2. Total(F, v.q) = Total(F, r.q)
    <3>1. CASE v.q.inflight = r.q.inflight /\ v.q.queued = r.q.queued
      BY <3>1 DEF Total
    <3>2. CASE v.q.inflight = Append(r.q.inflight, Head(s)) /\ v.q.queued = Tail(s)
      <4>1. Total(F, v.q) = F[Append(r.q.inflight, Head(s))] + F[Tail(s)]
        BY <3>2 DEF Total
      <4>2. Total(F, r.q) = F[r.q.inflight] + F[r.q.queued]
        BY DEF Total
      <4> QED BY <1>6, <1>7, <4>1, <4>2
    <3> QED BY <1>3, <3>1, <3>2
  <2> QED BY <2>1, <2>2
<1>8. ASSUME ~QueueQoS0, NEW f \in Counters
      PROVE  /\ v.q.tally[f] = CounterOf(f)[v.q.inflight]
                                 + CounterOf(f)[SubSeq(v.q.queued, 1, v.p - 1)]
             /\ v.p = 1 => v.q.tally[f] = CounterOf(f)[v.q.inflight]
  <2> DEFINE C == CounterOf(f)
  <2>1. StateFree(C) /\ Additive(C, ClientMsg) /\ C[<<m>>] = Tally(<<m>>)[f] /\ C[<<>>] = 0
    BY <1>5, CountersStateFree DEF StateFree, Additive
  <2>2. r.q.tally[f] = C[r.q.inflight] + C[SubSeq(r.q.queued, 1, r.p - 1)]
    BY <1>8 DEF ResetKeeps
  <2>3. t[f] = r.q.tally[f] + C[<<m>>] /\ r.q.tally[f] \in Int /\ C[<<m>>] \in Int
    BY <1>4, <1>5, <2>1, PlusAt
  <2>4. v.q.tally[f] = t[f]
    BY <1>3
  <2> HIDE DEF t
  <2>5. CASE /\ r.p = 1 /\ v.p = 1 /\ v.q.inflight = Append(r.q.inflight, Head(s))
             /\ v.q.queued = Tail(s)
    <3>1. C[Append(r.q.inflight, Head(s))] = C[r.q.inflight] + C[<<m>>] /\ C[r.q.inflight] \in Int
      <4> HIDE DEF C, m
      <4> QED BY <1>6, <2>1, <2>5
    <3>2. SubSeq(r.q.queued, 1, 0) = <<>> /\ SubSeq(v.q.queued, 1, 0) = <<>>
      BY <1>4, Prefixes
    <3>3. r.p - 1 = 0 /\ v.p - 1 = 0
      BY <2>5
    <3>4. C[SubSeq(r.q.queued, 1, r.p - 1)] = 0 /\ C[SubSeq(v.q.queued, 1, v.p - 1)] = 0
      BY <2>1, <3>2, <3>3
    <3>5. C[v.q.inflight] = C[r.q.inflight] + C[<<m>>]
      BY <2>5, <3>1
    <3> DEFINE new == v.q.tally[f]
               old == r.q.tally[f]
               fl  == C[r.q.inflight]
               one == C[<<m>>]
               pre == C[SubSeq(v.q.queued, 1, v.p - 1)]
               fl2 == C[v.q.inflight]
    <3>6. old = fl + 0 /\ new = old + one /\ fl2 = fl + one /\ pre = 0
          /\ fl \in Int /\ one \in Int /\ old \in Int
      BY <2>2, <2>3, <2>4, <3>1, <3>4, <3>5
    <3> HIDE DEF new, old, fl, one, pre, fl2
    <3>7. new = fl2 + pre /\ new = fl2
      BY <3>6
    <3> QED BY <3>7 DEF new, fl2, pre
  <2>6. CASE /\ v.p = r.p + 1 /\ v.q.inflight = r.q.inflight /\ v.q.queued = r.q.queued
    <3>1. r.p - 1 \in 0..(Len(r.q.queued) - 1) /\ (r.p - 1) + 1 = r.p /\ v.p - 1 = r.p
      BY <1>1, <1>3, <1>4, <2>6
    <3>2. SubSeq(r.q.queued, 1, r.p) = Append(SubSeq(r.q.queued, 1, r.p - 1), m)
      BY <1>4, <3>1, Prefixes
    <3>3. SubSeq(r.q.queued, 1, r.p - 1) \in Seq(ClientMsg)
      BY <1>4, <3>1, Prefixes
    <3> DEFINE a == SubSeq(r.q.queued, 1, r.p - 1)
    <3>4. C[Append(a, m)] = C[a] + C[<<m>>] /\ C[a] \in Int /\ C[r.q.inflight] \in Int
      <4> HIDE DEF C, m, a
      <4>1. a \in Seq(ClientMsg) /\ m \in ClientMsg
        BY <1>3, <3>3 DEF a, m
      <4> QED BY <1>4, <2>1, <4>1 DEF Additive
    <3>5. C[SubSeq(v.q.queued, 1, v.p - 1)] = C[a] + C[<<m>>]
      BY <2>6, <3>1, <3>2, <3>4
    <3>6. v.p # 1 /\ C[v.q.inflight] = C[r.q.inflight]
      BY <1>1, <2>6
    <3>7. r.q.tally[f] = C[r.q.inflight] + C[a]
      BY <2>2
    <3> DEFINE new == v.q.tally[f]
               old == r.q.tally[f]
               fl  == C[r.q.inflight]
               one == C[<<m>>]
               was == C[a]
               pre == C[SubSeq(v.q.queued, 1, v.p - 1)]
               fl2 == C[v.q.inflight]
    <3>8. old = fl + was /\ new = old + one /\ fl2 = fl /\ pre = was + one
          /\ fl \in Int /\ one \in Int /\ was \in Int
      BY <2>3, <2>4, <3>4, <3>5, <3>6, <3>7
    <3> HIDE DEF new, old, fl, one, pre, fl2, was
    <3>9. new = fl2 + pre
      BY <3>8
    <3> QED BY <3>6, <3>9 DEF new, fl2, pre
  <2> QED BY <1>3, <1>8, <2>5, <2>6
<1>9. \/ QueueQoS0 \/ MaxInflight = 0 \/ Window(v.q.inflight) <= Window(cq.inflight)
      \/ Window(v.q.inflight) <= MaxInflight
  <2>1. SUFFICES ASSUME ~QueueQoS0, MaxInflight # 0
                 PROVE  \/ Window(v.q.inflight) <= Window(cq.inflight)
                        \/ Window(v.q.inflight) <= MaxInflight
    OBVIOUS
  <2>2. CASE v.q.inflight = r.q.inflight
    BY <2>1, <2>2 DEF ResetKeeps
  <2>3. CASE ReadyForFlight(t, m.qos) /\ v.p = 1
    <3>1. "count12" \in Counters
      BY DEF Counters
    <3>2. m.qos > 0 /\ m.qos # 0
      BY <1>4, <2>1 DEF QueuedMsg, ClientMsg, QoS
    <3>3. t.count12 < MaxInflight
      BY <2>1, <2>3, <3>2 DEF ReadyForFlight
    <3>4. v.q.tally = t
      BY <1>3
    <3> HIDE DEF t
    <3>5. t.count12 = CounterOf("count12")[v.q.inflight]
      BY <1>8, <2>1, <2>3, <3>1, <3>4
    <3>6. CounterOf("count12")[v.q.inflight] \in Nat
      BY <1>2, <3>1, SoundParts, CountersStateFree
    <3> QED BY <3>3, <3>5, <3>6, LimitsAssumption DEF Window
  <2> QED BY <1>3, <2>2, <2>3
<1>10. v.p <= Len(v.q.queued) + 1
  <2>1. CASE v.p = 1
    BY <1>4, <2>1
  <2>2. CASE v.p = r.p + 1 /\ v.q.queued = r.q.queued
    BY <1>3, <1>4, <2>2
  <2> QED BY <1>3, <2>1, <2>2
<1> QED BY <1>2, <1>7, <1>8, <1>9, <1>10 DEF ResetKeeps, v

(* The reset loses no message, whatever the limits of the window.           *)
LEMMA ResetTotal ==
  ASSUME NEW cq \in SoundQueues
  PROVE  \A F : StateFree(F) => Total(F, Reset(cq)) = Total(F, cq)
<1>1. Turns(cq) \in Nat
  BY SoundParts DEF Turns
<1>2. \A r \in ResetKeeps(cq) : ~(r.p > Len(r.q.queued)) => ResetVisit(r.q, r.p) \in ResetKeeps(cq)
  BY ResetVisitKeeps
<1>3. \E r \in ResetKeeps(cq) : Reset(cq) = r.q
  BY <1>1, <1>2, ResetFirstKeeps, ResetIn
<1> QED BY <1>3 DEF ResetKeeps

(* Where only QoS 1 and 2 are queued, the loop has moved the head or gone   *)
(* on by one with every turn: it has come to the end after as many turns as *)
(* messages were queued.                                                    *)
LEMMA ResetEnds ==
  ASSUME ~QueueQoS0, NEW cq \in SoundQueues
  PROVE  \E r \in ResetKeeps(cq) : Reset(cq) = r.q /\ r.p = Len(r.q.queued) + 1
<1> DEFINE L == Len(cq.queued)
           N == Turns(cq)
           R == ResetKeeps(cq)
<1>1. L \in Nat /\ N \in Nat /\ N = L * (L + 1)
  BY SoundParts DEF Turns
<1>2. \A r \in R : ~(r.p > Len(r.q.queued)) => ResetVisit(r.q, r.p) \in R
  BY ResetVisitKeeps
<1>3. PICK f \in [0..N -> R] :
        /\ Reset(cq) = f[N].q
        /\ \A n \in 0..N : f[n] = IF n = 0 THEN ResetFirst(cq)
                                  ELSE IF f[n - 1].p > Len(f[n - 1].q.queued) THEN f[n - 1]
                                       ELSE ResetVisit(f[n - 1].q, f[n - 1].p)
  BY <1>1, <1>2, ResetFirstKeeps, ResetTurns
<1> HIDE DEF N, R
<1>4. ASSUME NEW r \in R
      PROVE  /\ r \in Resets /\ r.p \in Nat \ {0} /\ Len(r.q.queued) \in Nat
             /\ r.p <= Len(r.q.queued) + 1
  <2>1. r \in Resets /\ r.q \in SoundQueues /\ r.p \in Nat \ {0} /\ r.p <= Len(r.q.queued) + 1
    BY DEF R, ResetKeeps, Resets
  <2> QED BY <2>1, SoundParts
<1> DEFINE Done(r) == r.p > Len(r.q.queued)
           T == {n \in Nat : n \in 0..N => \/ Done(f[n])
                                           \/ n = (L - Len(f[n].q.queued)) + (f[n].p - 1)}
<1>5. 0 \in T
  <2>1. f[0] = ResetFirst(cq)
    BY <1>1, <1>3
  <2>2. ResetFirst(cq).p = 1 /\ ResetFirst(cq).q.queued = cq.queued
    BY DEF ResetFirst, SoundQueues
  <2>3. 0 = (L - Len(f[0].q.queued)) + (f[0].p - 1)
    BY <1>1, <2>1, <2>2
  <2> QED BY <2>3
<1>6. ASSUME NEW n \in T PROVE n + 1 \in T
  <2> n \in Nat /\ n + 1 \in Nat
    OBVIOUS
  <2>1. SUFFICES ASSUME n + 1 \in 0..N
                 PROVE  \/ Done(f[n + 1])
                        \/ n + 1 = (L - Len(f[n + 1].q.queued)) + (f[n + 1].p - 1)
    <3> HIDE DEF L, Done
    <3> QED OBVIOUS
  <2> DEFINE r == f[n]
             v == f[n + 1]
  <2>2. n \in 0..N /\ r \in R /\ v \in R /\ (n + 1) - 1 = n /\ n + 1 # 0
    BY <1>1, <1>3, <2>1
  <2>3. v = IF Done(r) THEN r ELSE ResetVisit(r.q, r.p)
    BY <1>3, <2>1, <2>2
  <2>4. Done(r) \/ n = (L - Len(r.q.queued)) + (r.p - 1)
    BY <2>2
  <2>5. r \in Resets /\ Len(r.q.queued) \in Nat /\ r.p \in Nat
    BY <1>4, <2>2
  <2> HIDE DEF v, r, T, L
  <2>6. CASE Done(r)
    <3>1. Done(v)
      BY <2>3, <2>6
    <3> QED BY <3>1 DEF v
  <2>7. CASE ~Done(r)
    <3>1. v = ResetVisit(r.q, r.p)
      BY <2>3, <2>7
    <3>2. \/ v.p = 1 /\ r.p = 1 /\ Len(v.q.queued) = Len(r.q.queued) - 1
          \/ v.p = r.p + 1 /\ v.q.queued = r.q.queued
      <4> DEFINE m == r.q.queued[r.p]
      <4>1. \E s \in Seq(ClientMsg) :
              /\ Len(s) = Len(r.q.queued) /\ s # <<>>
              /\ \/ v.p = 1 /\ r.p = 1 /\ v.q.queued = Tail(s)
                 \/ v.p = r.p + 1 /\ v.q.queued = r.q.queued
        BY <2>5, <2>7, <3>1, ResetVisitIs
      <4>2. \A s \in Seq(ClientMsg) : s # <<>> => Len(Tail(s)) = Len(s) - 1
        BY HeadTailProperties
      <4> QED BY <4>1, <4>2
    <3>3. n = (L - Len(r.q.queued)) + (r.p - 1)
      BY <2>4, <2>7
    <3>4. n + 1 = (L - Len(v.q.queued)) + (v.p - 1)
      <4> DEFINE a == Len(r.q.queued)
                 b == Len(v.q.queued)
      <4>1. /\ a \in Nat /\ L \in Nat /\ n = (L - a) + (r.p - 1) /\ r.p \in Nat
            /\ \/ v.p = 1 /\ r.p = 1 /\ b = a - 1
               \/ v.p = r.p + 1 /\ b = a
        BY <1>1, <2>5, <3>2, <3>3
      <4> DEFINE x == r.p
                 y == v.p
      <4>3. /\ a \in Nat /\ L \in Nat /\ n = (L - a) + (x - 1) /\ x \in Nat
            /\ \/ y = 1 /\ x = 1 /\ b = a - 1
               \/ y = x + 1 /\ b = a
        BY <4>1
      <4> HIDE DEF a, b, x, y
      <4>2. n + 1 = (L - b) + (y - 1)
        BY <4>3
      <4> QED BY <4>2 DEF b, y
    <3> QED BY <3>4 DEF v
  <2> QED BY <2>6, <2>7
<1>7. N \in T
  <2>1. T \in SUBSET Nat
    OBVIOUS
  <2> HIDE DEF T
  <2> QED BY <1>1, <1>5, <1>6, <2>1, SetInduction
<1>8. N \in 0..N /\ f[N] \in R
  BY <1>1, <1>3
<1>9. f[N].p = Len(f[N].q.queued) + 1
  <2> DEFINE l == Len(f[N].q.queued)
             p == f[N].p
  <2>1. l \in Nat /\ p \in Nat \ {0} /\ p <= l + 1
    BY <1>4, <1>8
  <2>2. p > l \/ N = (L - l) + (p - 1)
    BY <1>7, <1>8
  <2> HIDE DEF l, p, L
  <2>3. L # 0 => N >= L
    <3>1. CASE L = 0
      BY <3>1
    <3>2. CASE L # 0
      <4>1. \A x, y \in Nat : y >= 1 => x * y >= x
        OBVIOUS
      <4> QED BY <1>1, <4>1
    <3> QED BY <3>1, <3>2
  <2>4. L = 0 => N = 0
    BY <1>1
  <2>5. p > l
    BY <1>1, <2>1, <2>2, <2>3, <2>4
  <2>6. p = l + 1
    BY <2>1, <2>5
  <2> QED BY <2>6 DEF l, p
<1> QED BY <1>3, <1>8, <1>9 DEF R

(* The counters the reset builds up anew are those of the lists it leaves,  *)
(* and it keeps the window.                                                 *)
LEMMA ResetExact ==
  ASSUME ~QueueQoS0, NEW cq \in SoundQueues
  PROVE  /\ \A f \in Counters : Reset(cq).tally[f] = Total(CounterOf(f), Reset(cq))
         /\ \/ MaxInflight = 0 \/ Window(Reset(cq).inflight) <= Window(cq.inflight)
            \/ Window(Reset(cq).inflight) <= MaxInflight
<1>1. PICK r \in ResetKeeps(cq) : Reset(cq) = r.q /\ r.p = Len(r.q.queued) + 1
  BY ResetEnds
<1>2. r.q.queued \in Seq(ClientMsg) /\ Len(r.q.queued) \in Nat
  BY SoundParts DEF ResetKeeps, Resets
<1>3. r.p - 1 = Len(r.q.queued) /\ SubSeq(r.q.queued, 1, Len(r.q.queued)) = r.q.queued
  BY <1>1, <1>2, Prefixes
<1> QED BY <1>1, <1>3 DEF ResetKeeps, Total

-----------------------------------------------------------------------------
(* Queues whose counters are right and whose lists keep their limits.       *)

(* The messages of QoS 1 and 2 of a queue.                                  *)
Load(cq) == Total(CounterOf("count12"), cq)

ExactQueues ==
  {cq \in SoundQueues :
     /\ \A f \in Counters : cq.tally[f] = Total(CounterOf(f), cq)
     /\ MaxInflight # 0 => Window(cq.inflight) <= MaxInflight
     /\ MaxInflight # 0 /\ MaxQueued # 0 => Load(cq) <= MaxInflight + MaxQueued}

(* The window and the load of a queue are numbers.                          *)
LEMMA LoadType ==
  ASSUME NEW cq \in SoundQueues
  PROVE  /\ Window(cq.inflight) \in Nat /\ Load(cq) \in Nat
         /\ Window(cq.inflight) <= Load(cq) /\ Window(cq.inflight) <= Len(cq.inflight)
         /\ Load(cq) = Window(cq.inflight) + Window(cq.queued) /\ Window(cq.queued) \in Nat
<1> DEFINE C == CounterOf("count12")
<1>1. "count12" \in Counters
  BY DEF Counters
<1>2. cq.inflight \in Seq(ClientMsg) /\ cq.queued \in Seq(ClientMsg)
  BY SoundParts
<1>3. C[cq.inflight] \in Nat /\ C[cq.queued] \in Nat /\ C[cq.inflight] = Tally(cq.inflight).count12
  BY <1>1, <1>2, CountersStateFree
<1>4. Tally(cq.inflight).count12 <= Len(cq.inflight)
  <2> DEFINE s == cq.inflight
             Ones == {i \in DOMAIN s : s[i].qos > 0}
  <2>1. Ones \subseteq 1..Len(s) /\ Len(s) \in Nat
    BY <1>2
  <2>2. IsFiniteSet(1..Len(s)) /\ Cardinality(1..Len(s)) = Len(s)
    BY <2>1, FS_Interval
  <2>3. Cardinality(Ones) <= Len(s)
    <3> HIDE DEF Ones
    <3> QED BY <2>1, <2>2, FS_Subset
  <2> QED BY <2>3 DEF Tally
<1> HIDE DEF C
<1>5. Window(cq.inflight) = C[cq.inflight] /\ Window(cq.queued) = C[cq.queued]
      /\ Load(cq) = C[cq.inflight] + C[cq.queued]
  BY DEF Window, Load, Total, C
<1> DEFINE a == C[cq.inflight]
           b == C[cq.queued]
<1> HIDE DEF a, b
<1>6. a \in Nat /\ b \in Nat => a + b \in Nat /\ a <= a + b
  OBVIOUS
<1>7. a \in Nat /\ b \in Nat /\ Window(cq.inflight) = a /\ Window(cq.queued) = b /\ Load(cq) = a + b
  BY <1>3, <1>5 DEF a, b
<1>8. a <= Len(cq.inflight)
  BY <1>3, <1>4 DEF a
<1> QED BY <1>6, <1>7, <1>8

(* A walk over the messages in flight, with what it then moves, keeps the   *)
(* counters exact and the limits: it removes messages, subtracts what they  *)
(* counted, and stops at the window.                                        *)
LEMMA LeavesExact ==
  ASSUME NEW cq \in ExactQueues, NEW r \in SoundQueues, NEW K, Leaves(cq, r, K)
  PROVE  r \in ExactQueues
<1>1. cq \in SoundQueues /\ cq.inflight \in Seq(ClientMsg)
  BY SoundParts DEF ExactQueues
<1>2. Keep(cq.inflight, K) \in Seq(ClientMsg)
  BY <1>1, KeepType
<1>3. cq.tally \in Tallies /\ Tally(Keep(cq.inflight, K)) \in Tallies
  BY <1>1, <1>2, TallyType, SoundParts
<1>4. ASSUME NEW f \in Counters
      PROVE  /\ r.tally[f] = Total(CounterOf(f), r)
             /\ Total(CounterOf(f), r) <= Total(CounterOf(f), cq)
  <2> DEFINE C == CounterOf(f)
             g == Tally(Keep(cq.inflight, K))[f]
  <2>1. StateFree(C) /\ C[Keep(cq.inflight, K)] = g /\ g \in Nat
    BY <1>2, CountersStateFree
  <2>2. Total(C, r) = Total(C, cq) - C[Keep(cq.inflight, K)]
    BY <2>1 DEF Leaves
  <2>3. cq.tally[f] = Total(C, cq)
    BY DEF ExactQueues
  <2>4. r.tally[f] = cq.tally[f] - g /\ cq.tally[f] \in Int
    BY <1>3, PlusAt DEF Leaves
  <2> DEFINE x == Total(C, cq)
             y == Total(C, r)
             u == r.tally[f]
  <2>5. y = x - g /\ u = x - g /\ x \in Int /\ g \in Nat
    BY <2>1, <2>2, <2>3, <2>4
  <2> HIDE DEF x, y, u, g
  <2>6. u = y /\ y <= x
    BY <2>5
  <2> QED BY <2>6 DEF x, y, u
<1>5. "count12" \in Counters
  BY DEF Counters
<1>6. /\ Window(r.inflight) <= Len(r.inflight) /\ Window(r.inflight) \in Nat /\ Load(r) \in Nat
      /\ Window(cq.inflight) \in Nat /\ Load(cq) \in Nat /\ Len(r.inflight) \in Nat
  BY <1>1, LoadType, SoundParts
<1>7. MaxInflight # 0 => Window(r.inflight) <= MaxInflight
  <2>1. SUFFICES ASSUME MaxInflight # 0 PROVE Window(r.inflight) <= MaxInflight
    OBVIOUS
  <2>2. Window(cq.inflight) <= MaxInflight
    BY <2>1 DEF ExactQueues
  <2>3. Len(r.inflight) <= MaxInflight \/ Window(r.inflight) <= Window(cq.inflight)
    BY <2>1 DEF Leaves, WindowKept, Window
  <2> QED BY <1>6, <2>2, <2>3, LimitsAssumption
<1>8. MaxInflight # 0 /\ MaxQueued # 0 => Load(r) <= MaxInflight + MaxQueued
  <2>1. Load(r) <= Load(cq)
    BY <1>4, <1>5 DEF Load
  <2>2. MaxInflight # 0 /\ MaxQueued # 0 => Load(cq) <= MaxInflight + MaxQueued
    BY DEF ExactQueues
  <2> QED BY <1>6, <2>1, <2>2, LimitsAssumption
<1> QED BY <1>4, <1>7, <1>8 DEF ExactQueues

(* A queue with the same messages and counters is as exact as another.      *)
LEMMA SameExact ==
  ASSUME NEW cq \in ExactQueues, NEW r \in SoundQueues, r.tally = cq.tally,
         \A F : StateFree(F) => F[r.inflight] = F[cq.inflight] /\ Total(F, r) = Total(F, cq)
  PROVE  r \in ExactQueues
<1>1. \A f \in Counters : StateFree(CounterOf(f))
  BY CountersStateFree
<1>2. \A f \in Counters : /\ CounterOf(f)[r.inflight] = CounterOf(f)[cq.inflight]
                          /\ Total(CounterOf(f), r) = Total(CounterOf(f), cq)
  BY <1>1
<1>3. "count12" \in Counters
  BY DEF Counters
<1> QED BY <1>2, <1>3 DEF ExactQueues, Window, Load

(* What db__message_insert has checked of the counters.                     *)
LEMMA InsertChecks ==
  ASSUME NEW cq, NEW online \in BOOLEAN, NEW dir \in {"in", "out"}, NEW qos \in QoS,
         NEW st, st = InsertState(cq, online, dir, qos), st # "dropped"
  PROVE  /\ st = "queued" => ReadyForQueue(cq.tally, qos, online) /\ (QueueQoS0 \/ qos > 0)
         /\ st # "queued" => online /\ ReadyForFlight(cq.tally, qos)
<1>1. PublishState(qos) # "queued" /\ PublishState(qos) # "dropped"
  BY DEF PublishState, QoS
<1>2. qos = 0 => ReadyForFlight(cq.tally, qos)
  BY DEF ReadyForFlight
<1> QED BY <1>1, <1>2 DEF InsertState, QoS

(* db__message_insert counts the message it adds, and what it has checked   *)
(* of the counters is enough for the limits.                                *)
LEMMA InsertExact ==
  ASSUME ~QueueQoS0, NEW cq \in ExactQueues, NEW online \in BOOLEAN, NEW s \in Stored,
         NEW mid \in Nat, NEW dir \in {"in", "out"}, NEW qos \in QoS
  PROVE  Insert(cq, online, s, mid, dir, qos) \in ExactQueues
<1> DEFINE r  == Insert(cq, online, s, mid, dir, qos)
           m  == NewMsg(s, mid, dir, qos)
           st == InsertState(cq, online, dir, qos)
<1>1. cq \in SoundQueues /\ r \in SoundQueues
  BY InsertSound DEF ExactQueues
<1>2. ASSUME NEW F, StateFree(F)
      PROVE  /\ m \in ClientMsg
             /\ st = "dropped" => r = cq
             /\ st # "dropped" => /\ Total(F, r) = Total(F, cq) + F[<<m>>]
                                  /\ r.tally = Plus(cq.tally, Tally(<<m>>))
                                  /\ F[r.inflight] = F[cq.inflight]
                                       + (IF st = "queued" THEN 0 ELSE F[<<m>>])
  <2> HIDE DEF r
  <2>1. r = Insert(cq, online, s, mid, dir, qos)
    BY DEF r
  <2>2. /\ cq \in SoundQueues /\ online \in BOOLEAN /\ s \in Stored
        /\ mid \in Nat /\ dir \in {"in", "out"} /\ qos \in QoS
    BY <1>1
  <2> QED BY ONLY <1>2, <2>1, <2>2, InsertTotal, SMTT(60)
<1>3. "count12" \in Counters
  BY DEF Counters
<1>4. m \in ClientMsg /\ m.qos = qos /\ (st = "dropped" => r = cq)
  BY <1>2, <1>3, CountersStateFree DEF NewMsg
<1> HIDE DEF r, m
<1>5. CASE st = "dropped"
  BY <1>4, <1>5 DEF r
<1>6. CASE st # "dropped"
  <2>1. <<m>> \in Seq(ClientMsg) /\ Tally(<<m>>) \in Tallies
    <3>1. <<m>> \in Seq(ClientMsg)
      BY <1>4
    <3> QED BY <3>1, TallyType
  <2>2. cq.tally \in Tallies
    BY <1>1, SoundParts
  <2>3. ASSUME NEW f \in Counters PROVE r.tally[f] = Total(CounterOf(f), r)
    <3> DEFINE C == CounterOf(f)
               x == Total(C, cq)
               y == Total(C, r)
               g == C[<<m>>]
               u == r.tally[f]
    <3>1. StateFree(C) /\ g = Tally(<<m>>)[f]
      BY <2>1, CountersStateFree
    <3>2. y = x + g
      BY <1>2, <1>6, <3>1
    <3>3. cq.tally[f] = x
      BY DEF ExactQueues
    <3>4. u = cq.tally[f] + Tally(<<m>>)[f]
      <4>1. r.tally = Plus(cq.tally, Tally(<<m>>))
        BY <1>2, <1>6, <3>1
      <4> QED BY <2>1, <2>2, <4>1, PlusAt
    <3> HIDE DEF x, y, g, u, C
    <3>5. u = y
      BY <3>1, <3>2, <3>3, <3>4
    <3> QED BY <3>5 DEF u, y, C
  <2> DEFINE one == CounterOf("count12")[<<m>>]
             l   == Load(cq)
             w   == Window(cq.inflight)
             l2  == Load(r)
             w2  == Window(r.inflight)
             n   == cq.tally.count12
  <2>4. one = IF qos > 0 THEN 1 ELSE 0
    <3>1. Append(<<>>, m) = <<m>> /\ <<>> \in Seq(ClientMsg)
      OBVIOUS
    <3>2. Tally(<<m>>).count12 = Tally(<<>>).count12 + (IF m.qos > 0 THEN 1 ELSE 0)
      BY <1>4, <3>1, TallyAppend
    <3>3. one = Tally(<<m>>).count12
      BY <1>3, <2>1, CountersStateFree
    <3> QED BY <1>4, <3>2, <3>3, TallyEmpty DEF NoTally
  <2>5. l2 = l + one /\ w2 = w + (IF st = "queued" THEN 0 ELSE one)
    <3>1. StateFree(CounterOf("count12"))
      BY <1>3, CountersStateFree
    <3> QED BY <1>2, <1>6, <3>1 DEF Load, Window
  <2>6. l \in Nat /\ w \in Nat /\ w <= l /\ n = l
    BY <1>1, <1>3, LoadType DEF ExactQueues, Load
  <2>7. /\ st = "queued" => ReadyForQueue(cq.tally, qos, online) /\ qos > 0
        /\ st # "queued" => online /\ ReadyForFlight(cq.tally, qos)
    BY <1>6, InsertChecks
  <2>8. /\ st = "queued" /\ MaxQueued # 0 => n - (IF online THEN MaxInflight ELSE 0) < MaxQueued
        /\ st # "queued" /\ qos > 0 /\ MaxInflight # 0 => n < MaxInflight
    BY <2>7 DEF ReadyForQueue, ReadyForFlight, QoS
  <2>9. /\ MaxInflight # 0 => w <= MaxInflight
        /\ MaxInflight # 0 /\ MaxQueued # 0 => l <= MaxInflight + MaxQueued
    BY DEF ExactQueues
  <2> HIDE DEF one, l, w, l2, w2, n, st
  <2>10. MaxInflight # 0 => w2 <= MaxInflight
    BY <2>4, <2>5, <2>6, <2>8, <2>9, LimitsAssumption
  <2>11. MaxInflight # 0 /\ MaxQueued # 0 => l2 <= MaxInflight + MaxQueued
    <3>1. SUFFICES ASSUME MaxInflight # 0, MaxQueued # 0 PROVE l2 <= MaxInflight + MaxQueued
      OBVIOUS
    <3>2. CASE st = "queued"
      BY <2>4, <2>5, <2>6, <2>8, <3>1, <3>2, LimitsAssumption
    <3>3. CASE st # "queued"
      BY <2>4, <2>5, <2>6, <2>8, <2>9, <3>1, <3>3, LimitsAssumption
    <3> QED BY <3>2, <3>3
  <2> QED BY <1>1, <2>3, <2>10, <2>11 DEF ExactQueues, w2, l2, r
<1> QED BY <1>5, <1>6

(* No function of database.c leaves the exact queues: flow control decides  *)
(* by what the lists really hold, and keeps both limits.                    *)
LEMMA ExactClosed ==
  ASSUME ~QueueQoS0
  PROVE  Closed(ExactQueues)
<1>1. ExactQueues \subseteq SoundQueues /\ SoundQueues \subseteq Queues
  BY SoundClosed DEF ExactQueues, Closed, Stable
<1>2. EmptyQueue \in ExactQueues
  <2>1. EmptyQueue \in SoundQueues
    BY SoundClosed DEF Closed, Stable, Fills, Serves
  <2>2. /\ EmptyQueue.inflight = <<>> /\ EmptyQueue.queued = <<>>
        /\ EmptyQueue.tally = NoTally
    BY DEF EmptyQueue
  <2>3. ASSUME NEW f \in Counters
        PROVE  CounterOf(f)[<<>>] = 0 /\ NoTally[f] = 0
    <3>1. CounterOf(f)[<<>>] = 0
      BY CountersStateFree DEF StateFree, Additive
    <3> QED BY <3>1 DEF NoTally, Counters
  <2>4. \A f \in Counters : Total(CounterOf(f), EmptyQueue) = 0
    BY <2>2, <2>3 DEF Total
  <2>5. Window(EmptyQueue.inflight) = 0 /\ Load(EmptyQueue) = 0
    BY <2>2, <2>3, <2>4 DEF Window, Load, Counters
  <2> QED BY <2>1, <2>2, <2>3, <2>4, <2>5, LimitsAssumption DEF ExactQueues
<1>3. ASSUME NEW cq \in ExactQueues, NEW n \in Nat
      PROVE  [cq EXCEPT !.last_mid = n] \in ExactQueues
  <2> DEFINE r == [cq EXCEPT !.last_mid = n]
  <2>1. cq \in SoundQueues
    BY <1>1
  <2>2. /\ r \in SoundQueues /\ r.inflight = cq.inflight /\ r.queued = cq.queued
        /\ r.tally = cq.tally
    BY <2>1 DEF SoundQueues
  <2> HIDE DEF r
  <2>3. \A F : F[r.inflight] = F[cq.inflight] /\ Total(F, r) = Total(F, cq)
    BY <2>2 DEF Total
  <2>4. r \in ExactQueues
    BY <2>2, <2>3, SameExact
  <2> QED BY <2>4 DEF r
<1>4. ASSUME NEW cq \in ExactQueues, NEW mid \in Nat
      PROVE  /\ Delete(cq, mid, "out") \in ExactQueues
             /\ Release(cq, mid) \in ExactQueues
             /\ Update(cq, mid, "out", "wait_for_pubcomp") \in ExactQueues
  <2>1. cq \in SoundQueues
    BY <1>1
  <2>2. /\ Delete(cq, mid, "out") \in SoundQueues /\ Release(cq, mid) \in SoundQueues
        /\ Update(cq, mid, "out", "wait_for_pubcomp") \in SoundQueues
    BY <2>1, SoundClosed DEF Closed, Stable, Fills, Serves
  <2>3. "wait_for_pubcomp" \in States
    BY DEF States, OutStates
  <2>4. Update(cq, mid, "out", "wait_for_pubcomp") \in ExactQueues
    <3> DEFINE r == Update(cq, mid, "out", "wait_for_pubcomp")
    <3>1. \A F : StateFree(F) => /\ F[r.inflight] = F[cq.inflight] /\ Total(F, r) = Total(F, cq)
                                 /\ r.tally = cq.tally
      BY <2>1, <2>3, UpdateTotal
    <3>2. StateFree(CounterOf("count"))
      BY CountersStateFree DEF Counters
    <3>3. r \in SoundQueues
      BY <2>2
    <3> HIDE DEF r
    <3>4. r.tally = cq.tally
      BY <3>1, <3>2
    <3>5. r \in ExactQueues
      BY <3>1, <3>3, <3>4, SameExact
    <3> QED BY <3>5 DEF r
  <2>5. Delete(cq, mid, "out") \in ExactQueues /\ Release(cq, mid) \in ExactQueues
    BY <2>1, <2>2, DeleteLeaves, ReleaseLeaves, LeavesExact
  <2> QED BY <2>4, <2>5
<1>5. ASSUME NEW cq \in ExactQueues
      PROVE  /\ Write(cq) \in ExactQueues
             /\ \A i \in Nat : WriteFailsAt(cq, i) \in ExactQueues
             /\ \A j \in 1..WriteMoves(cq) :
                  cq.queued[j].dir = "in" => WriteFailsAtPubrec(cq, j) \in ExactQueues
  <2>1. cq \in SoundQueues
    BY <1>1
  <2>2. /\ Write(cq) \in SoundQueues
        /\ \A i \in Nat : WriteFailsAt(cq, i) \in SoundQueues
        /\ \A j \in 1..WriteMoves(cq) :
             cq.queued[j].dir = "in" => WriteFailsAtPubrec(cq, j) \in SoundQueues
    BY <2>1, SoundClosed DEF Closed, Stable, Fills, Serves
  <2> QED BY <2>1, <2>2, WriteLeaves, LeavesExact
<1>6. ASSUME NEW cq \in ExactQueues PROVE Reset(cq) \in ExactQueues
  <2> DEFINE r == Reset(cq)
  <2>1. cq \in SoundQueues /\ r \in SoundQueues
    BY <1>1, ResetSound
  <2>2. /\ \A f \in Counters : r.tally[f] = Total(CounterOf(f), r)
        /\ \/ MaxInflight = 0 \/ Window(r.inflight) <= Window(cq.inflight)
           \/ Window(r.inflight) <= MaxInflight
    BY <2>1, ResetExact
  <2>3. Load(r) = Load(cq)
    <3>1. StateFree(CounterOf("count12"))
      BY CountersStateFree DEF Counters
    <3> QED BY <2>1, <3>1, ResetTotal DEF Load
  <2>4. Window(r.inflight) \in Nat /\ Window(cq.inflight) \in Nat
    BY <2>1, LoadType
  <2> HIDE DEF r
  <2>5. r \in ExactQueues
    BY <2>1, <2>2, <2>3, <2>4, LimitsAssumption DEF ExactQueues
  <2> QED BY <2>5 DEF r
<1>11. Stable(ExactQueues)
  <2>1. ASSUME NEW cq \in ExactQueues, NEW online \in BOOLEAN, NEW s \in Stored,
               NEW mid \in Nat, NEW qos \in QoS
        PROVE  Insert(cq, online, s, mid, "out", qos) \in ExactQueues
    BY InsertExact
  <2> QED BY <1>1, <1>2, <1>3, <1>5, <2>1 DEF Stable
<1>12. Fills(ExactQueues)
  <2>1. ASSUME NEW cq \in ExactQueues, NEW s \in Stored, NEW mid \in Nat,
               mid = s.source_mid, StoreFind(cq, mid) = {}
        PROVE  Insert(cq, TRUE, s, mid, "in", 2) \in ExactQueues
    <3>1. \A online \in BOOLEAN, dir \in {"in", "out"}, qos \in QoS :
            Insert(cq, online, s, mid, dir, qos) \in ExactQueues
      BY <2>1, InsertExact
    <3>2. TRUE \in BOOLEAN /\ "in" \in {"in", "out"} /\ 2 \in QoS
      BY DEF QoS
    <3> QED BY <3>1, <3>2, Zenon
  <2> QED BY <2>1 DEF Fills
<1>13. Serves(ExactQueues)
  BY <1>3, <1>4, <1>5, <1>6 DEF Serves
<1> QED BY <1>11, <1>12, <1>13 DEF Closed

-----------------------------------------------------------------------------
(* Queues where an identifier of the client names one message.              *)

(* No element is counted where the count is zero, and no two where it is    *)
(* one.                                                                     *)
LEMMA FewCounted ==
  ASSUME NEW S, NEW A, NEW s \in Seq(S)
  PROVE  /\ Counts(S, A)[s] = 0 <=> \A i \in DOMAIN s : s[i] \notin A
         /\ Counts(S, A)[s] <= 1 =>
              \A i, j \in DOMAIN s : s[i] \in A /\ s[j] \in A => i = j
<1> DEFINE P == {i \in DOMAIN s : s[i] \in A}
<1>1. Counts(S, A)[s] = Cardinality(P)
  BY DEF Counts
<1>2. IsFiniteSet(P) /\ Cardinality(P) \in Nat
  <2>1. DOMAIN s = 1..Len(s) /\ Len(s) \in Nat
    OBVIOUS
  <2>2. IsFiniteSet(1..Len(s))
    BY <2>1, FS_Interval
  <2>3. P \in SUBSET (1..Len(s))
    BY <2>1
  <2> HIDE DEF P
  <2> QED BY <2>2, <2>3, FS_Subset, FS_CardinalityType
<1>3. Cardinality(P) = 0 <=> P = {}
  <2> HIDE DEF P
  <2> QED BY <1>2, FS_EmptySet
<1>4. ASSUME Cardinality(P) <= 1, NEW i \in P, NEW j \in P PROVE i = j
  <2> HIDE DEF P
  <2>1. IsFiniteSet(P \ {i}) /\ Cardinality(P \ {i}) = Cardinality(P) - 1
    BY <1>2, FS_RemoveElement
  <2>2. Cardinality(P \ {i}) \in Nat
    BY <2>1, FS_CardinalityType
  <2>3. Cardinality(P \ {i}) = 0
    BY <1>2, <1>4, <2>1, <2>2
  <2>4. P \ {i} = {}
    BY <2>1, <2>3, FS_EmptySet
  <2> QED BY <2>4
<1> QED BY <1>1, <1>3, <1>4

(* The messages from the client under an identifier, and those that are not *)
(* stored under the identifier they are listed by.                          *)
Ins(mid) == {m \in ClientMsg : m.dir = "in" /\ m.mid = mid}
Strays   == {m \in ClientMsg : m.dir = "in" /\ m.mid # m.store.source_mid}

InCount(mid) == Counts(ClientMsg, Ins(mid))
StrayCount   == Counts(ClientMsg, Strays)

UniqueQueues == {cq \in SoundQueues : /\ Total(StrayCount, cq) = 0
                                      /\ \A mid \in Nat : Total(InCount(mid), cq) <= 1}

(* Both are counts that do not look at the state of a message.              *)
LEMMA InCountsStateFree ==
  /\ StateFree(StrayCount) /\ \A mid : StateFree(InCount(mid))
  /\ \A s \in Seq(ClientMsg) : StrayCount[s] \in Nat /\ \A mid : InCount(mid)[s] \in Nat
  /\ \A m \in ClientMsg : /\ m.dir = "out" => StrayCount[<<m>>] = 0
                          /\ m.mid = m.store.source_mid => StrayCount[<<m>>] = 0
  /\ \A m \in ClientMsg : \A mid : InCount(mid)[<<m>>] = IF m.dir = "in" /\ m.mid = mid THEN 1 ELSE 0
<1>1. ASSUME NEW A, \A m, n \in ClientMsg : Twins(m, n) => (m \in A <=> n \in A)
      PROVE  /\ StateFree(Counts(ClientMsg, A))
             /\ \A s \in Seq(ClientMsg) : Counts(ClientMsg, A)[s] \in Nat
             /\ \A m \in ClientMsg : Counts(ClientMsg, A)[<<m>>] = IF m \in A THEN 1 ELSE 0
  <2>1. \A m \in ClientMsg : Counts(ClientMsg, A)[<<m>>] = IF m \in A THEN 1 ELSE 0
    BY CountsAdditive
  <2>2. \A m, n \in ClientMsg : Twins(m, n) => Counts(ClientMsg, A)[<<m>>] = Counts(ClientMsg, A)[<<n>>]
    BY <1>1, <2>1
  <2> QED BY <2>1, <2>2, CountsAdditive DEF StateFree
<1>2. \A m, n \in ClientMsg : Twins(m, n) => (m \in Strays <=> n \in Strays)
  BY DEF Twins, Strays
<1>3. \A mid : \A m, n \in ClientMsg : Twins(m, n) => (m \in Ins(mid) <=> n \in Ins(mid))
  BY DEF Twins, Ins
<1>4. /\ StateFree(StrayCount) /\ \A s \in Seq(ClientMsg) : StrayCount[s] \in Nat
      /\ \A m \in ClientMsg : StrayCount[<<m>>] = IF m \in Strays THEN 1 ELSE 0
  BY <1>1, <1>2 DEF StrayCount
<1>5. ASSUME NEW mid
      PROVE  /\ StateFree(InCount(mid)) /\ \A s \in Seq(ClientMsg) : InCount(mid)[s] \in Nat
             /\ \A m \in ClientMsg : InCount(mid)[<<m>>] = IF m \in Ins(mid) THEN 1 ELSE 0
  BY <1>1, <1>3 DEF InCount
<1> QED BY <1>4, <1>5 DEF Strays, Ins

(* Removing messages and moving the others keeps the identifiers unique.    *)
LEMMA FewerUnique ==
  ASSUME NEW cq \in UniqueQueues, NEW r \in SoundQueues,
         Total(StrayCount, r) <= Total(StrayCount, cq),
         \A mid \in Nat : Total(InCount(mid), r) <= Total(InCount(mid), cq)
  PROVE  r \in UniqueQueues
<1>1. cq \in SoundQueues
  BY DEF UniqueQueues
<1>2. /\ r.inflight \in Seq(ClientMsg) /\ r.queued \in Seq(ClientMsg)
      /\ cq.inflight \in Seq(ClientMsg) /\ cq.queued \in Seq(ClientMsg)
  BY <1>1, SoundParts
<1>3. Total(StrayCount, r) \in Nat
  BY <1>2, InCountsStateFree DEF Total
<1>4. Total(StrayCount, r) = 0
  BY <1>3 DEF UniqueQueues
<1>5. ASSUME NEW mid \in Nat PROVE Total(InCount(mid), r) <= 1
  <2> DEFINE x == Total(InCount(mid), r)
             y == Total(InCount(mid), cq)
  <2>1. x \in Nat /\ y \in Nat
    <3>1. /\ InCount(mid)[r.inflight] \in Nat /\ InCount(mid)[r.queued] \in Nat
          /\ InCount(mid)[cq.inflight] \in Nat /\ InCount(mid)[cq.queued] \in Nat
      BY <1>2, InCountsStateFree
    <3> QED BY <3>1 DEF Total
  <2>2. x <= y /\ y <= 1
    BY DEF UniqueQueues
  <2> HIDE DEF x, y
  <2>3. x <= 1
    BY <2>1, <2>2
  <2> QED BY <2>3 DEF x
<1> QED BY <1>4, <1>5 DEF UniqueQueues

(* db__message_insert is given messages for the client, or ones from it     *)
(* whose identifier db__message_store_find has not found.                   *)
LEMMA InsertUnique ==
  ASSUME NEW cq \in UniqueQueues, NEW online \in BOOLEAN, NEW s \in Stored,
         NEW mid \in Nat, NEW dir \in {"in", "out"}, NEW qos \in QoS,
         dir = "out" \/ (mid = s.source_mid /\ StoreFind(cq, mid) = {})
  PROVE  Insert(cq, online, s, mid, dir, qos) \in UniqueQueues
<1> DEFINE r  == Insert(cq, online, s, mid, dir, qos)
           m  == NewMsg(s, mid, dir, qos)
<1>1. cq \in SoundQueues /\ r \in SoundQueues
  BY InsertSound DEF UniqueQueues
<1>2. m \in ClientMsg /\ m.dir = dir /\ m.mid = mid /\ m.store = s
  BY DEF NewMsg, ClientMsg, States
<1> HIDE DEF r
<1>3. ASSUME NEW F, StateFree(F)
      PROVE  Total(F, r) = Total(F, cq) \/ Total(F, r) = Total(F, cq) + F[<<m>>]
  <2>1. r = Insert(cq, online, s, mid, dir, qos)
    BY DEF r
  <2> QED BY <1>1, <1>3, <2>1, InsertTotal
<1> HIDE DEF m
<1>4. cq.inflight \in Seq(ClientMsg) /\ cq.queued \in Seq(ClientMsg)
  BY <1>1, SoundParts
<1>5. Total(StrayCount, cq) = 0 /\ StrayCount[<<m>>] = 0
  BY <1>2, InCountsStateFree DEF UniqueQueues
<1>6. Total(StrayCount, r) = 0
  BY <1>3, <1>5, InCountsStateFree
<1>7. ASSUME NEW n \in Nat PROVE Total(InCount(n), r) <= 1
  <2> DEFINE C == InCount(n)
  <2>1. StateFree(C) /\ C[cq.inflight] \in Nat /\ C[cq.queued] \in Nat
    BY <1>4, InCountsStateFree
  <2>2. Total(C, cq) <= 1
    BY DEF UniqueQueues
  <2>3. C[<<m>>] = 0 \/ (C[<<m>>] = 1 /\ dir = "in" /\ mid = n)
    BY <1>2, InCountsStateFree
  <2>4. ASSUME dir = "in", mid = n PROVE Total(C, cq) = 0
    <3>1. StrayCount[cq.inflight] = 0 /\ StrayCount[cq.queued] = 0
      <4>1. StrayCount[cq.inflight] \in Nat /\ StrayCount[cq.queued] \in Nat
        BY <1>4, InCountsStateFree
      <4>2. StrayCount[cq.inflight] + StrayCount[cq.queued] = 0
        BY <1>5 DEF Total
      <4> DEFINE a == StrayCount[cq.inflight]
                 b == StrayCount[cq.queued]
      <4>3. a \in Nat /\ b \in Nat /\ a + b = 0
        BY <4>1, <4>2
      <4> HIDE DEF a, b
      <4>4. a = 0 /\ b = 0
        BY <4>3
      <4> QED BY <4>4 DEF a, b
    <3>2. StoreFind(cq, n) = {}
      BY <2>4
    <3>3. ASSUME NEW i \in DOMAIN cq.inflight PROVE cq.inflight[i] \notin Ins(n)
      <4>1. cq.inflight[i] \notin Strays
        BY <1>4, <3>1, <3>3, FewCounted DEF StrayCount
      <4>2. ~(cq.inflight[i].dir = "in" /\ cq.inflight[i].store.source_mid = n)
        BY <3>2, <3>3 DEF StoreFind
      <4> QED BY <4>1, <4>2 DEF Ins, Strays
    <3>4. ASSUME NEW i \in DOMAIN cq.queued PROVE cq.queued[i] \notin Ins(n)
      <4>1. cq.queued[i] \notin Strays
        BY <1>4, <3>1, <3>4, FewCounted DEF StrayCount
      <4>2. ~(cq.queued[i].dir = "in" /\ cq.queued[i].store.source_mid = n)
        BY <3>2, <3>4 DEF StoreFind
      <4> QED BY <4>1, <4>2 DEF Ins, Strays
    <3>5. C[cq.inflight] = 0 /\ C[cq.queued] = 0
      BY <1>4, <3>3, <3>4, FewCounted DEF InCount
    <3> QED BY <3>5 DEF Total
  <2>5. Total(C, r) = Total(C, cq) \/ Total(C, r) = Total(C, cq) + C[<<m>>]
    BY <1>3, <2>1
  <2>6. Total(C, cq) \in Nat
    BY <2>1 DEF Total
  <2> HIDE DEF C
  <2>7. Total(C, r) <= 1
    BY <2>2, <2>3, <2>4, <2>5, <2>6
  <2> QED BY <2>7 DEF C
<1> QED BY <1>1, <1>6, <1>7 DEF UniqueQueues, r

(* No function of database.c leaves the queues with unique identifiers, as  *)
(* the handlers call them.                                                  *)
LEMMA UniqueClosed == Closed(UniqueQueues)
<1>1. UniqueQueues \subseteq SoundQueues /\ SoundQueues \subseteq Queues
  BY SoundClosed DEF UniqueQueues, Closed, Stable
<1>2. EmptyQueue \in UniqueQueues
  <2>1. EmptyQueue \in SoundQueues
    BY SoundClosed DEF Closed, Stable, Fills, Serves
  <2>2. EmptyQueue.inflight = <<>> /\ EmptyQueue.queued = <<>>
    BY DEF EmptyQueue
  <2>3. StrayCount[<<>>] = 0 /\ \A mid : InCount(mid)[<<>>] = 0
    BY InCountsStateFree DEF StateFree, Additive
  <2> QED BY <2>1, <2>2, <2>3 DEF UniqueQueues, Total
<1>3. ASSUME NEW cq \in UniqueQueues, NEW r \in SoundQueues,
             \A F : StateFree(F) => Total(F, r) = Total(F, cq)
      PROVE  r \in UniqueQueues
  <2>1. /\ Total(StrayCount, r) = Total(StrayCount, cq)
        /\ \A mid \in Nat : Total(InCount(mid), r) = Total(InCount(mid), cq)
    BY <1>3, InCountsStateFree
  <2> QED BY <2>1 DEF UniqueQueues
<1>4. ASSUME NEW cq \in UniqueQueues, NEW r \in SoundQueues, NEW K, Leaves(cq, r, K)
      PROVE  r \in UniqueQueues
  <2>1. cq \in SoundQueues /\ cq.inflight \in Seq(ClientMsg)
    BY <1>1, SoundParts
  <2>2. Keep(cq.inflight, K) \in Seq(ClientMsg)
    BY <2>1, KeepType
  <2>3. ASSUME NEW F, StateFree(F), F[Keep(cq.inflight, K)] \in Nat
        PROVE  Total(F, r) <= Total(F, cq)
    <3>1. Total(F, r) = Total(F, cq) - F[Keep(cq.inflight, K)]
      BY <1>4, <2>3 DEF Leaves
    <3>2. Total(F, cq) \in Int
      BY <2>1, <2>3, TotalType
    <3> QED BY <2>3, <3>1, <3>2
  <2>4. /\ Total(StrayCount, r) <= Total(StrayCount, cq)
        /\ \A mid \in Nat : Total(InCount(mid), r) <= Total(InCount(mid), cq)
    BY <2>2, <2>3, InCountsStateFree
  <2> QED BY <2>4, FewerUnique
<1>5. ASSUME NEW cq \in UniqueQueues, NEW n \in Nat
      PROVE  [cq EXCEPT !.last_mid = n] \in UniqueQueues
  <2> DEFINE r == [cq EXCEPT !.last_mid = n]
  <2>1. cq \in SoundQueues
    BY <1>1
  <2>2. r \in SoundQueues /\ r.inflight = cq.inflight /\ r.queued = cq.queued
    BY <2>1 DEF SoundQueues
  <2> HIDE DEF r
  <2>3. \A F : Total(F, r) = Total(F, cq)
    BY <2>2 DEF Total
  <2>4. r \in UniqueQueues
    BY <1>3, <2>2, <2>3
  <2> QED BY <2>4 DEF r
<1>6. ASSUME NEW cq \in UniqueQueues, NEW mid \in Nat
      PROVE  /\ Delete(cq, mid, "out") \in UniqueQueues
             /\ Release(cq, mid) \in UniqueQueues
             /\ Update(cq, mid, "out", "wait_for_pubcomp") \in UniqueQueues
  <2>1. cq \in SoundQueues
    BY <1>1
  <2>2. /\ Delete(cq, mid, "out") \in SoundQueues /\ Release(cq, mid) \in SoundQueues
        /\ Update(cq, mid, "out", "wait_for_pubcomp") \in SoundQueues
    BY <2>1, SoundClosed DEF Closed, Stable, Fills, Serves
  <2>3. Update(cq, mid, "out", "wait_for_pubcomp") \in UniqueQueues
    <3> DEFINE r == Update(cq, mid, "out", "wait_for_pubcomp")
    <3>1. "wait_for_pubcomp" \in States
      BY DEF States, OutStates
    <3>2. r \in SoundQueues /\ \A F : StateFree(F) => Total(F, r) = Total(F, cq)
      BY <2>1, <2>2, <3>1, UpdateTotal
    <3> HIDE DEF r
    <3>3. r \in UniqueQueues
      BY <1>3, <3>2
    <3> QED BY <3>3 DEF r
  <2>4. Delete(cq, mid, "out") \in UniqueQueues /\ Release(cq, mid) \in UniqueQueues
    BY <1>4, <2>1, <2>2, DeleteLeaves, ReleaseLeaves
  <2> QED BY <2>3, <2>4
<1>7. ASSUME NEW cq \in UniqueQueues
      PROVE  /\ Write(cq) \in UniqueQueues
             /\ \A i \in Nat : WriteFailsAt(cq, i) \in UniqueQueues
             /\ \A j \in 1..WriteMoves(cq) :
                  cq.queued[j].dir = "in" => WriteFailsAtPubrec(cq, j) \in UniqueQueues
  <2>1. cq \in SoundQueues
    BY <1>1
  <2>2. /\ Write(cq) \in SoundQueues
        /\ \A i \in Nat : WriteFailsAt(cq, i) \in SoundQueues
        /\ \A j \in 1..WriteMoves(cq) :
             cq.queued[j].dir = "in" => WriteFailsAtPubrec(cq, j) \in SoundQueues
    BY <2>1, SoundClosed DEF Closed, Stable, Fills, Serves
  <2> QED BY <1>4, <2>1, <2>2, WriteLeaves
<1>8. ASSUME NEW cq \in UniqueQueues PROVE Reset(cq) \in UniqueQueues
  <2>1. cq \in SoundQueues
    BY <1>1
  <2>2. Reset(cq) \in SoundQueues /\ \A F : StateFree(F) => Total(F, Reset(cq)) = Total(F, cq)
    BY <2>1, ResetSound, ResetTotal
  <2> DEFINE r == Reset(cq)
  <2>3. r \in SoundQueues /\ \A F : StateFree(F) => Total(F, r) = Total(F, cq)
    BY <2>2
  <2> HIDE DEF r
  <2>4. r \in UniqueQueues
    BY <1>3, <2>3
  <2> QED BY <2>4 DEF r
<1>11. Stable(UniqueQueues)
  <2>1. ASSUME NEW cq \in UniqueQueues, NEW online \in BOOLEAN, NEW s \in Stored,
               NEW mid \in Nat, NEW qos \in QoS
        PROVE  Insert(cq, online, s, mid, "out", qos) \in UniqueQueues
    BY InsertUnique
  <2> QED BY <1>1, <1>2, <1>5, <2>1 DEF Stable
<1>12. Fills(UniqueQueues)
  <2>1. ASSUME NEW cq \in UniqueQueues, NEW s \in Stored, NEW mid \in Nat,
               mid = s.source_mid, StoreFind(cq, mid) = {}
        PROVE  Insert(cq, TRUE, s, mid, "in", 2) \in UniqueQueues
    <3>1. \A online \in BOOLEAN, dir \in {"in", "out"}, qos \in QoS :
            Insert(cq, online, s, mid, dir, qos) \in UniqueQueues
      BY <2>1, InsertUnique
    <3>2. TRUE \in BOOLEAN /\ "in" \in {"in", "out"} /\ 2 \in QoS
      BY DEF QoS
    <3> QED BY <3>1, <3>2, Zenon
  <2> QED BY <2>1 DEF Fills
<1>13. Serves(UniqueQueues)
  BY <1>5, <1>6, <1>7, <1>8 DEF Serves
<1> QED BY <1>11, <1>12, <1>13 DEF Closed

-----------------------------------------------------------------------------
(* The types of what handlers compute.                                      *)

Worlds(R) ==
  {w \in [q: [Clients -> R], msg_store: UNION {[D -> Int] : D \in SUBSET Nat},
          last_db_id: Nat, retained: SUBSET Stored, disused: Seq(Stored)] :
     DOMAIN w.msg_store \subseteq 1..w.last_db_id}

StoreTyped ==
  /\ last_db_id \in Nat /\ DOMAIN msg_store \subseteq 1..last_db_id
  /\ msg_store \in [DOMAIN msg_store -> Int]
  /\ retained \subseteq Stored /\ disused \in Seq(Stored)

SessionTyped ==
  /\ conn \in [Clients -> {"none", "online", "offline"}]
  /\ clean \in [Clients -> BOOLEAN] /\ will \in [Clients -> BOOLEAN]
  /\ leaf \in [Clients -> QoS \cup {NoLeaf}]

LoopTyped == served \subseteq Clients /\ phase \in {"poll", "write"}

PeerTyped ==
  /\ wire \in [Clients -> Seq(Packets)]
  /\ client \in [Clients -> [pub: [ClientMids -> Publication], rcvd: SUBSET Nat]]
  /\ budget \in [connects: Nat, subscribes: Nat]

HistoryTyped ==
  /\ pubs \in 0..MaxPubs
  /\ routed \in [1..MaxPubs -> Nat] /\ completed \subseteq 1..MaxPubs
  /\ delivered \in [Clients -> [1..MaxPubs -> Nat]]

Typed(R) == /\ q \in [Clients -> R] /\ StoreTyped /\ SessionTyped /\ LoopTyped
            /\ PeerTyped /\ HistoryTyped

(* With every queue allowed, Typed is the type invariant.                   *)
LEMMA TypedQueues == Typed(Queues) <=> TypeOK
BY DEF Typed, StoreTyped, SessionTyped, LoopTyped, PeerTyped, HistoryTyped, TypeOK

(* The variables of a typed state as a record.                              *)
LEMMA WorldType ==
  ASSUME NEW R, q \in [Clients -> R], StoreTyped
  PROVE  World \in Worlds(R)
<1>1. DOMAIN msg_store \in SUBSET Nat
  BY DEF StoreTyped
<1>2. msg_store \in UNION {[D -> Int] : D \in SUBSET Nat}
  BY <1>1 DEF StoreTyped
<1> QED BY <1>2 DEF World, Worlds, StoreTyped

(* What the fields of such a record are.                                    *)
LEMMA WorldParts ==
  ASSUME NEW R, NEW w \in Worlds(R)
  PROVE  /\ w.q \in [Clients -> R]
         /\ w.last_db_id \in Nat /\ DOMAIN w.msg_store \subseteq 1..w.last_db_id
         /\ w.msg_store \in [DOMAIN w.msg_store -> Int]
         /\ w.retained \subseteq Stored /\ w.disused \in Seq(Stored)
<1>1. PICK D \in SUBSET Nat : w.msg_store \in [D -> Int]
  BY DEF Worlds
<1>2. w.msg_store \in [DOMAIN w.msg_store -> Int]
  BY <1>1
<1> QED BY <1>2 DEF Worlds

(* Assigning such a record to the variables keeps their types.              *)
LEMMA BecomeTyped ==
  ASSUME NEW R, NEW w \in Worlds(R), Become(w)
  PROVE  q' \in [Clients -> R] /\ StoreTyped'
BY WorldParts DEF Become, StoreTyped

(* Dereferencing frees messages and gives the others an integer count.      *)
LEMMA DerefType ==
  ASSUME NEW refs, refs \in [DOMAIN refs -> Int], NEW s, NEW K, IsFiniteSet(K)
  PROVE  /\ Deref(refs, s, K) \in [DOMAIN Deref(refs, s, K) -> Int]
         /\ DOMAIN Deref(refs, s, K) \subseteq DOMAIN refs
<1> DEFINE n(id) == Cardinality({i \in K : s[i].id = id})
           D == {id \in DOMAIN refs : n(id) = 0 \/ refs[id] # n(id)}
<1>1. ASSUME NEW id PROVE n(id) \in Nat
  <2>1. {i \in K : s[i].id = id} \subseteq K
    OBVIOUS
  <2> QED BY <2>1, FS_Subset, FS_CardinalityType
<1>2. D \subseteq DOMAIN refs
  OBVIOUS
<1>3. Deref(refs, s, K) = [id \in D |-> refs[id] - n(id)]
  BY DEF Deref
<1> HIDE DEF n, D
<1>4. \A id \in D : refs[id] - n(id) \in Int
  BY <1>1, <1>2
<1> QED BY <1>2, <1>3, <1>4

(* db__message_store adds the next identifier to the store.                 *)
LEMMA StoreMsgType ==
  ASSUME NEW R, NEW w \in Worlds(R), NEW s, s.id = w.last_db_id + 1
  PROVE  StoreMsg(w, s) \in Worlds(R)
<1> DEFINE D    == DOMAIN w.msg_store \cup {s.id}
           refs == [id \in D |-> IF id = s.id THEN 0 ELSE w.msg_store[id]]
<1>1. /\ w.last_db_id \in Nat /\ DOMAIN w.msg_store \subseteq 1..w.last_db_id
      /\ w.msg_store \in [DOMAIN w.msg_store -> Int]
  BY WorldParts
<1>2. D \subseteq 1..s.id /\ s.id \in Nat
  BY <1>1
<1>3. refs \in [D -> Int]
  BY <1>1
<1>4. refs \in UNION {[E -> Int] : E \in SUBSET Nat} /\ DOMAIN refs = D
  <2>1. D \in SUBSET Nat
    BY <1>2
  <2> HIDE DEF D
  <2> QED BY <1>3, <2>1
<1>5. StoreMsg(w, s) = [w EXCEPT !.msg_store = refs, !.last_db_id = s.id]
  BY DEF StoreMsg, Worlds
<1> HIDE DEF D, refs
<1> QED BY <1>2, <1>4, <1>5 DEF Worlds

(* The message it adds has the next identifier.                             *)
LEMMA FreshType ==
  ASSUME NEW R, NEW w \in Worlds(R), NEW body \in Nat, NEW mid \in Nat, NEW qos \in QoS,
         NEW len \in 0..MaxLen, NEW retain \in BOOLEAN, NEW topic \in BOOLEAN
  PROVE  /\ Fresh(w, body, mid, qos, len, retain, topic) \in Stored
         /\ Fresh(w, body, mid, qos, len, retain, topic).id = w.last_db_id + 1
BY WorldParts DEF Fresh, Stored

(* The QoS a subscriber gets is one of the three.                           *)
LEMMA OutQoSType ==
  ASSUME NEW qos \in QoS, NEW sub_qos \in QoS
  PROVE  OutQoS(qos, sub_qos) \in QoS
BY DEF OutQoS, Least

(* subs__process changes the queue of a subscriber by an insert only.       *)
LEMMA OfferType ==
  ASSUME NEW R, Stable(R), NEW cq \in R, NEW online \in BOOLEAN, NEW s \in Stored, NEW qos \in QoS
  PROVE  Offer(cq, online, s, qos) \in R
<1> DEFINE mid == IF qos = 0 THEN 0 ELSE NextMid(cq.last_mid)
           lm  == IF qos = 0 THEN cq.last_mid ELSE mid
<1>1. cq \in Queues /\ cq.last_mid \in Nat
  BY DEF Stable, Queues
<1>2. mid \in Nat /\ lm \in Nat
  BY <1>1 DEF NextMid
<1>3. Offer(cq, online, s, qos)
        = Insert([cq EXCEPT !.last_mid = lm], online, s, mid, "out", qos)
  BY <1>1 DEF Offer, Queues
<1> HIDE DEF mid, lm
<1>4. [cq EXCEPT !.last_mid = lm] \in R
  BY <1>2 DEF Stable
<1> QED BY <1>2, <1>3, <1>4 DEF Stable

(* Messages for a client are no messages from it.                           *)
LEMMA OfferMatching ==
  ASSUME NEW cq \in SoundQueues, NEW online \in BOOLEAN, NEW s \in Stored, NEW qos \in QoS, NEW mid
  PROVE  Matching(Offer(cq, online, s, qos).inflight, mid, "in") = Matching(cq.inflight, mid, "in")
<1> DEFINE i == IF qos = 0 THEN 0 ELSE NextMid(cq.last_mid)
           u == [cq EXCEPT !.last_mid = IF qos = 0 THEN @ ELSE i]
           st == InsertState(u, online, "out", qos)
           m  == [store |-> s, mid |-> i, dir |-> "out", state |-> st, qos |-> qos]
           r == Offer(cq, online, s, qos)
           a == cq.inflight
<1>1. u.inflight = a /\ a \in Seq(ClientMsg)
  BY SoundParts DEF SoundQueues
<1>2. r.inflight = a \/ r.inflight = Append(a, m)
  <2>1. r = Insert(u, online, s, i, "out", qos)
    BY DEF Offer
  <2>2. \/ r = u
        \/ r.inflight = u.inflight
        \/ r.inflight = Append(u.inflight, m)
    <3>1. CASE st = "dropped"
      BY <2>1, <3>1 DEF Insert
    <3>2. CASE st = "queued"
      BY <2>1, <3>2 DEF Insert, SoundQueues
    <3>3. CASE st # "dropped" /\ st # "queued"
      BY <2>1, <3>3 DEF Insert, SoundQueues
    <3> QED BY <3>1, <3>2, <3>3
  <2> QED BY <1>1, <2>2
<1> HIDE DEF u, r, a
<1>3. CASE r.inflight = Append(a, m)
  <2> DEFINE b == Append(a, m)
  <2>1. /\ DOMAIN a = 1..Len(a) /\ DOMAIN b = 1..(Len(a) + 1) /\ Len(a) \in Nat
        /\ b[Len(a) + 1] = m /\ \A j \in 1..Len(a) : b[j] = a[j]
    <3> HIDE DEF m
    <3> QED BY <1>1
  <2>2. m.dir # "in"
    OBVIOUS
  <2> HIDE DEF b, m
  <2>3. Matching(b, mid, "in") = Matching(a, mid, "in")
    BY <2>1, <2>2 DEF Matching
  <2> QED BY <1>3, <2>3 DEF a, b, r
<1> QED BY <1>2, <1>3 DEF a, r

(* sub__messages_queue changes queues of subscribers, the retained message  *)
(* and counts.                                                              *)
LEMMA RouteType ==
  ASSUME NEW R, Stable(R), SessionTyped, NEW w \in Worlds(R), NEW s \in Stored,
         NEW qos \in QoS, NEW skip
  PROVE  Route(w, s, qos, skip) \in Worlds(R)
<1> DEFINE to     == {c \in Clients \ skip : leaf[c] # NoLeaf}
           took   == {c \in to : Takes(w.q[c], Online(c), OutQoS(qos, leaf[c]))}
           stays  == s.retain /\ s.len > 0
           n      == 1 + Cardinality(took) + (IF stays THEN 1 ELSE 0)
           refs   == [w.msg_store EXCEPT ![s.id] = @ + 1 + Cardinality(took) + (IF stays THEN 1 ELSE 0)]
           refs2  == IF s.retain /\ w.retained # {}
                     THEN Deref(refs, <<CHOOSE r \in w.retained : TRUE>>, {1}) ELSE refs
           qs     == [c \in Clients |->
                        IF c \in to THEN Offer(w.q[c], Online(c), s, OutQoS(qos, leaf[c]))
                                    ELSE w.q[c]]
           ret    == IF stays THEN {s} ELSE IF s.retain THEN {} ELSE w.retained
           refs3  == Deref(refs2, <<s>>, {1})
<1>1. /\ w.q \in [Clients -> R] /\ DOMAIN w.msg_store \subseteq 1..w.last_db_id
      /\ w.msg_store \in [DOMAIN w.msg_store -> Int] /\ w.retained \subseteq Stored
  BY WorldParts
<1>2. qs \in [Clients -> R]
  <2>1. ASSUME NEW c \in Clients, leaf[c] # NoLeaf
        PROVE  Offer(w.q[c], Online(c), s, OutQoS(qos, leaf[c])) \in R
    <3>1. leaf[c] \in QoS /\ Online(c) \in BOOLEAN /\ w.q[c] \in R
      BY <1>1, <2>1 DEF SessionTyped, Online
    <3> QED BY <3>1, OfferType, OutQoSType
  <2> QED BY <1>1, <2>1
<1>3. Cardinality(took) \in Nat
  <2>1. took \subseteq Clients /\ IsFiniteSet(Clients)
    BY BrokerAssumption
  <2> HIDE DEF took
  <2> QED BY <2>1, FS_Subset, FS_CardinalityType
<1>4. refs \in [DOMAIN refs -> Int] /\ DOMAIN refs = DOMAIN w.msg_store
  <2> DEFINE k == Cardinality(took)
             b == IF stays THEN 1 ELSE 0
             v == w.msg_store[s.id] + 1 + k + b
  <2>1. refs = [w.msg_store EXCEPT ![s.id] = v]
    OBVIOUS
  <2>2. s.id \in DOMAIN w.msg_store => v \in Int
    <3>1. b \in Nat /\ k \in Nat
      BY <1>3
    <3> HIDE DEF b, k
    <3> QED BY <1>1, <3>1
  <2> HIDE DEF refs, v
  <2> QED BY <1>1, <2>1, <2>2
<1>5. IsFiniteSet({1})
  BY FS_Singleton
<1>6. refs2 \in [DOMAIN refs2 -> Int] /\ DOMAIN refs2 \subseteq DOMAIN refs
  <2> HIDE DEF refs
  <2> QED BY <1>4, <1>5, DerefType
<1>7. refs3 \in [DOMAIN refs3 -> Int] /\ DOMAIN refs3 \subseteq DOMAIN refs2
  <2> HIDE DEF refs2
  <2> QED BY <1>5, <1>6, DerefType
<1>8. ret \in SUBSET Stored
  BY <1>1
<1>9. Route(w, s, qos, skip) = [w EXCEPT !.q = qs, !.retained = ret, !.msg_store = refs3]
  BY DEF Route, Worlds
<1> HIDE DEF qs, ret, refs, refs2, refs3
<1>10. DOMAIN refs3 \subseteq 1..w.last_db_id
  BY <1>1, <1>4, <1>6, <1>7
<1>11. refs3 \in UNION {[D -> Int] : D \in SUBSET Nat}
  <2>1. DOMAIN refs3 \in SUBSET Nat
    BY <1>10, WorldParts
  <2> QED BY <1>7, <2>1
<1> QED BY <1>2, <1>8, <1>9, <1>10, <1>11 DEF Worlds

(* What is routed is nothing from the client it is routed to.               *)
LEMMA RouteMatching ==
  ASSUME SessionTyped, NEW w \in Worlds(SoundQueues), NEW s \in Stored, NEW qos \in QoS,
         NEW skip, NEW c \in Clients, NEW mid
  PROVE  Matching(Route(w, s, qos, skip).q[c].inflight, mid, "in")
           = Matching(w.q[c].inflight, mid, "in")
<1> DEFINE r  == Route(w, s, qos, skip)
           to == {x \in Clients \ skip : leaf[x] # NoLeaf}
           o  == OutQoS(qos, leaf[c])
           on == Online(c)
           cq == w.q[c]
<1>1. r.q = [x \in Clients |->
               IF x \in to THEN Offer(w.q[x], Online(x), s, OutQoS(qos, leaf[x])) ELSE w.q[x]]
  BY DEF Route, Worlds
<1>2. cq \in SoundQueues
  BY WorldParts
<1>3. CASE c \in to
  <2>1. leaf[c] \in QoS
    BY <1>3 DEF SessionTyped
  <2>2. o \in QoS /\ on \in BOOLEAN
    BY <2>1, OutQoSType DEF Online
  <2>3. r.q[c] = Offer(cq, on, s, o)
    BY <1>1, <1>3
  <2> HIDE DEF o, on, r, cq
  <2>4. Matching(Offer(cq, on, s, o).inflight, mid, "in") = Matching(cq.inflight, mid, "in")
    BY <1>2, <2>2, OfferMatching
  <2>5. Matching(r.q[c].inflight, mid, "in") = Matching(cq.inflight, mid, "in")
    BY <2>3, <2>4
  <2> QED BY <2>5 DEF r, cq
<1>4. CASE c \notin to
  <2>1. r.q[c] = w.q[c]
    BY <1>1, <1>4
  <2> QED BY <2>1
<1> QED BY <1>3, <1>4

(* context__send_will is the routing of a new message.                      *)
LEMMA SendWillType ==
  ASSUME NEW R, Stable(R), SessionTyped, NEW w \in Worlds(R), NEW c, NEW skip
  PROVE  SendWill(w, c, skip) \in Worlds(R)
<1> DEFINE s == Fresh(w, 0, 0, WillQoS, WillLen, WillRetain, TRUE)
<1>1. s \in Stored /\ s.id = w.last_db_id + 1
  <2>1. WillQoS \in QoS /\ WillLen \in 0..MaxLen /\ WillRetain \in BOOLEAN /\ 0 \in Nat
    BY BrokerAssumption, LimitsAssumption
  <2> QED BY <2>1, WorldParts DEF Fresh, Stored
<1> HIDE DEF s
<1>2. StoreMsg(w, s) \in Worlds(R)
  BY <1>1, StoreMsgType
<1>3. Route(StoreMsg(w, s), s, WillQoS, skip) \in Worlds(R)
  BY <1>1, <1>2, RouteType, BrokerAssumption
<1> QED BY <1>3 DEF SendWill, s

(* A will does not reach the context that is skipped.                       *)
LEMMA SkipKeeps ==
  ASSUME NEW w \in Worlds(SoundQueues), NEW c \in Clients
  PROVE  SendWill(w, c, {c}).q[c] = w.q[c]
<1> DEFINE s == Fresh(w, 0, 0, WillQoS, WillLen, WillRetain, TRUE)
           u == StoreMsg(w, s)
<1>1. u.q = w.q
  BY DEF StoreMsg, Worlds
<1>2. u = [u EXCEPT !.q = u.q] /\ "q" \in DOMAIN u
  BY DEF StoreMsg, Worlds
<1> HIDE DEF s, u
<1>3. Route(u, s, WillQoS, {c}).q[c] = u.q[c]
  BY <1>2 DEF Route
<1>4. SendWill(w, c, {c}) = IF will[c] THEN Route(u, s, WillQoS, {c}) ELSE w
  BY DEF SendWill, u, s
<1> QED BY <1>1, <1>3, <1>4

(* The stored messages that a list refers to.                               *)
LEMMA StoresOfType ==
  ASSUME NEW s \in Seq(ClientMsg)
  PROVE  StoresOf(s) \in Seq(Stored)
<1>1. \A i \in 1..Len(s) : s[i].store \in Stored
  <2>1. \A i \in 1..Len(s) : s[i] \in ClientMsg
    OBVIOUS
  <2>2. \A m \in ClientMsg : m.store \in Stored
    BY DEF ClientMsg
  <2> QED BY <2>1, <2>2
<1>2. DOMAIN s = 1..Len(s) /\ Len(s) \in Nat
  OBVIOUS
<1> QED BY <1>1, <1>2 DEF StoresOf

(* context__add_to_disused keeps the messages of both lists to be freed.    *)
LEMMA DiscardType ==
  ASSUME NEW R, Stable(R), NEW w \in Worlds(R), NEW c \in Clients
  PROVE  Discard(w, c) \in Worlds(R)
<1>1. w.q \in [Clients -> R] /\ w.disused \in Seq(Stored)
  BY WorldParts
<1>2. w.q[c] \in Queues /\ EmptyQueue \in R
  BY <1>1 DEF Stable
<1>3. w.q[c].inflight \in Seq(ClientMsg) /\ w.q[c].queued \in Seq(ClientMsg)
  BY <1>2 DEF Queues
<1> DEFINE d  == w.disused \o StoresOf(w.q[c].inflight) \o StoresOf(w.q[c].queued)
           qs == [w.q EXCEPT ![c] = EmptyQueue]
<1>4. d \in Seq(Stored)
  <2>1. StoresOf(w.q[c].inflight) \in Seq(Stored) /\ StoresOf(w.q[c].queued) \in Seq(Stored)
    BY <1>3, StoresOfType
  <2> QED BY <1>1, <2>1
<1>5. qs \in [Clients -> R]
  BY <1>1, <1>2
<1>6. Discard(w, c) = [w EXCEPT !.disused = d, !.q = qs]
  BY DEF Discard, Worlds
<1> HIDE DEF d, qs
<1> QED BY <1>4, <1>5, <1>6 DEF Worlds

(* do_disconnect keeps the types, for a clean session and for a durable     *)
(* one.                                                                     *)
LEMMA DisconnectedTyped ==
  ASSUME NEW R, Stable(R), SessionTyped, NEW w \in Worlds(R), NEW c \in Clients,
         Disconnected(w, c)
  PROVE  q' \in [Clients -> R] /\ StoreTyped' /\ SessionTyped'
<1>1. (IF clean[c] THEN Discard(w, c) ELSE w) \in Worlds(R)
  BY DiscardType
<1>2. q' \in [Clients -> R] /\ StoreTyped'
  BY <1>1, BecomeTyped DEF Disconnected
<1>3. SessionTyped'
  BY DEF Disconnected, SessionTyped
<1> QED BY <1>2, <1>3

(* Replacing one queue of the record.                                       *)
LEMMA WorldQueue ==
  ASSUME NEW R, NEW w \in Worlds(R), NEW c \in Clients, NEW cq \in R
  PROVE  [w EXCEPT !.q[c] = cq] \in Worlds(R)
<1> DEFINE qs == [w.q EXCEPT ![c] = cq]
<1>1. qs \in [Clients -> R]
  BY WorldParts
<1>2. [w EXCEPT !.q[c] = cq] = [w EXCEPT !.q = qs]
  BY DEF Worlds
<1> HIDE DEF qs
<1> QED BY <1>1, <1>2 DEF Worlds

(* Replacing the counts of the record where no message is added.            *)
LEMMA WorldRefs ==
  ASSUME NEW R, NEW w \in Worlds(R), NEW refs,
         refs \in [DOMAIN refs -> Int], DOMAIN refs \subseteq DOMAIN w.msg_store
  PROVE  [w EXCEPT !.msg_store = refs] \in Worlds(R)
<1>1. w.last_db_id \in Nat /\ DOMAIN w.msg_store \subseteq 1..w.last_db_id
  BY WorldParts
<1>2. refs \in UNION {[D -> Int] : D \in SUBSET Nat} /\ DOMAIN refs \subseteq 1..w.last_db_id
  <2>1. DOMAIN refs \in SUBSET Nat
    BY <1>1
  <2> QED BY <1>1, <2>1
<1> QED BY <1>2 DEF Worlds

(* db__msg_store_deref for some messages of a list.                         *)
LEMMA DerefMsgsType ==
  ASSUME NEW refs, refs \in [DOMAIN refs -> Int], NEW s \in Seq(ClientMsg),
         NEW K \in SUBSET (DOMAIN s)
  PROVE  /\ DerefMsgs(refs, s, K) \in [DOMAIN DerefMsgs(refs, s, K) -> Int]
         /\ DOMAIN DerefMsgs(refs, s, K) \subseteq DOMAIN refs
<1>1. IsFiniteSet(K)
  BY FiniteDomain
<1> QED BY <1>1, DerefType DEF DerefMsgs

(* The parts of the queue of one client.                                    *)
LEMMA QueueAt ==
  ASSUME NEW R, Stable(R), NEW qs \in [Clients -> R], NEW c \in Clients
  PROVE  /\ qs[c] \in R /\ qs[c] \in Queues
         /\ qs[c].inflight \in Seq(ClientMsg) /\ qs[c].queued \in Seq(ClientMsg)
         /\ Len(qs[c].inflight) \in Nat /\ Len(qs[c].queued) \in Nat
         /\ qs[c].last_mid \in Nat
<1>1. qs[c] \in R /\ qs[c] \in Queues
  BY DEF Stable
<1>2. /\ qs[c].inflight \in Seq(ClientMsg) /\ qs[c].queued \in Seq(ClientMsg)
      /\ qs[c].last_mid \in Nat
  BY <1>1 DEF Queues
<1> QED BY <1>1, <1>2

-----------------------------------------------------------------------------
(* The types of packets and of clients.                                     *)

(* An acknowledgement is a packet.                                          *)
LEMMA AckType ==
  ASSUME NEW type \in {"pubrec", "pubrel", "pubcomp"}, NEW mid \in Nat
  PROVE  Ack(type, mid) \in Packets
BY DEF Ack, Packets, QoS

(* So are the PUBRECs of a list of identifiers.                             *)
LEMMA AcksType ==
  ASSUME NEW mids \in Seq(Nat)
  PROVE  Acks("pubrec", mids) \in Seq(Packets)
<1>1. DOMAIN mids = 1..Len(mids) /\ Len(mids) \in Nat
  OBVIOUS
<1>2. \A i \in 1..Len(mids) : Ack("pubrec", mids[i]) \in Packets
  BY AckType
<1> QED BY <1>1, <1>2 DEF Acks

(* So is what db__message_write sends for the messages in flight.           *)
LEMMA PacketsAtType ==
  ASSUME NEW cq \in Queues, NEW P
  PROVE  PacketsAt(cq, P) \in Seq(Packets)
<1> DEFINE s == Keep(cq.inflight, P)
<1>1. s \in Seq(ClientMsg)
  BY KeepType DEF Queues
<1>2. ASSUME NEW m \in ClientMsg PROVE PacketOf(m) \in Packets
  <2>1. m.mid \in Nat /\ m.qos \in QoS /\ m.store.body \in Nat
    BY DEF ClientMsg, Stored
  <2>2. [type |-> "publish", qos |-> m.qos, mid |-> m.mid, body |-> m.store.body] \in Packets
    BY <2>1 DEF Packets
  <2> QED BY <2>1, <2>2, AckType DEF PacketOf
<1> HIDE DEF s
<1>3. DOMAIN s = 1..Len(s) /\ Len(s) \in Nat /\ \A i \in 1..Len(s) : s[i] \in ClientMsg
  BY <1>1
<1>4. PacketsAt(cq, P) = [i \in 1..Len(s) |-> PacketOf(s[i])]
  BY <1>3 DEF PacketsAt, Mapped, s
<1> QED BY <1>2, <1>3, <1>4

ClientStates == [pub: [ClientMids -> Publication], rcvd: SUBSET Nat]

(* A client that starts a session.                                          *)
LEMMA NewClientType == NewClient \in ClientStates
<1>1. Idle \in Publication
  BY BrokerAssumption, LimitsAssumption DEF Idle, Publication, Phases
<1> QED BY <1>1 DEF NewClient, ClientStates

(* A client that resumes one.                                               *)
LEMMA ResumedType ==
  ASSUME NEW cl \in ClientStates
  PROVE  Resumed(cl) \in ClientStates
<1> DEFINE pb == [m \in ClientMids |-> [cl.pub[m] EXCEPT !.phase = Again(cl.pub[m].phase)]]
<1>1. \A ph \in Phases : Again(ph) \in Phases
  BY DEF Phases, Again
<1>2. ASSUME NEW m \in ClientMids
      PROVE  [cl.pub[m] EXCEPT !.phase = Again(cl.pub[m].phase)] \in Publication
  <2>1. cl.pub[m] \in Publication
    BY DEF ClientStates
  <2>2. Again(cl.pub[m].phase) \in Phases
    BY <1>1, <2>1 DEF Publication
  <2> QED BY <2>1, <2>2 DEF Publication
<1>3. pb \in [ClientMids -> Publication]
  BY <1>2
<1>4. Resumed(cl) = [cl EXCEPT !.pub = pb]
  BY DEF Resumed
<1> HIDE DEF pb
<1> QED BY <1>3, <1>4 DEF ClientStates

(* A publication of a client put in another phase.                          *)
LEMMA PhaseType ==
  ASSUME PeerTyped, NEW c \in Clients, NEW mid, NEW ph \in Phases
  PROVE  [client EXCEPT ![c].pub[mid].phase = ph] \in [Clients -> ClientStates]
<1>1. client \in [Clients -> ClientStates]
  BY DEF PeerTyped, ClientStates
<1>2. client[c] \in ClientStates /\ client[c].pub \in [ClientMids -> Publication]
  BY <1>1 DEF ClientStates
<1> DEFINE pb == [client[c].pub EXCEPT ![mid].phase = ph]
<1>3. pb \in [ClientMids -> Publication]
  <2>1. CASE mid \in ClientMids
    <3>1. client[c].pub[mid] \in Publication
      BY <1>2, <2>1
    <3>2. [client[c].pub[mid] EXCEPT !.phase = ph] \in Publication
      BY <3>1 DEF Publication
    <3> QED BY <1>2, <3>2
  <2>2. CASE mid \notin ClientMids
    <3>1. pb = client[c].pub
      BY <1>2, <2>2
    <3> QED BY <1>2, <3>1
  <2> QED BY <2>1, <2>2
<1>4. [client EXCEPT ![c].pub[mid].phase = ph] = [client EXCEPT ![c] = [client[c] EXCEPT !.pub = pb]]
  OBVIOUS
<1>5. [client[c] EXCEPT !.pub = pb] \in ClientStates
  <2> HIDE DEF pb
  <2> QED BY <1>2, <1>3 DEF ClientStates
<1> HIDE DEF pb
<1> QED BY <1>1, <1>4, <1>5

(* PeerTyped with the states of clients named.                              *)
LEMMA PeerIs == PeerTyped <=> /\ wire \in [Clients -> Seq(Packets)]
                              /\ client \in [Clients -> ClientStates]
                              /\ budget \in [connects: Nat, subscribes: Nat]
BY DEF PeerTyped, ClientStates

-----------------------------------------------------------------------------
(* The actions, with what they share.                                       *)

(* Steps that only change counts of stored messages, or free some.          *)
LEMMA ListTyped ==
  ASSUME StoreTyped, msg_store' \in [DOMAIN msg_store' -> Int],
         DOMAIN msg_store' \subseteq DOMAIN msg_store,
         UNCHANGED <<last_db_id, retained, disused>>
  PROVE  StoreTyped'
BY DEF StoreTyped

(* Serving a socket.                                                        *)
LEMMA EventTyped ==
  ASSUME LoopTyped, NEW c \in Clients, Event(c)
  PROVE  LoopTyped' /\ Online(c)
BY DEF LoopTyped, Event

(* handle__connect: the new context gets an empty queue, the identifiers of *)
(* the old one, or its reset lists.                                         *)
LEMMA ConnectTyped ==
  ASSUME NEW R, Stable(R), Serves(R), Typed(R), NEW c \in Clients, Connect(c)
  PROVE  Typed(R)'
<1> USE DEF Typed
<1>1. PICK cs \in Cleans, wl \in Wills :
        LET found == conn[c] # "none"
            moved == found /\ ~cs /\ ~clean[c]
            world == SendWill(World, c, IF moved THEN {c} ELSE {})
            empty == q[c].inflight = <<>> /\ q[c].queued = <<>>
        IN  /\ phase = "poll" /\ budget.connects < MaxConnects
            /\ Become(IF ~moved THEN Discard(world, c)
                      ELSE IF empty THEN [world EXCEPT !.q[c] = [EmptyQueue EXCEPT !.last_mid = q[c].last_mid]]
                      ELSE [world EXCEPT !.q[c] = Reset(@)])
            /\ conn' = [conn EXCEPT ![c] = "online"]
            /\ clean' = [clean EXCEPT ![c] = cs]
            /\ leaf' = IF moved THEN leaf ELSE [leaf EXCEPT ![c] = NoLeaf]
            /\ will' = [will EXCEPT ![c] = wl]
            /\ served' = served \cup {c}
            /\ wire' = [wire EXCEPT ![c] = <<>>]
            /\ client' = [client EXCEPT ![c] = IF found /\ ~cs THEN Resumed(@) ELSE NewClient]
            /\ budget' = [budget EXCEPT !.connects = @ + 1]
            /\ UNCHANGED <<phase, history>>
  BY DEF Connect
<1> DEFINE moved == conn[c] # "none" /\ ~cs /\ ~clean[c]
           world == SendWill(World, c, IF moved THEN {c} ELSE {})
           fresh == [EmptyQueue EXCEPT !.last_mid = q[c].last_mid]
<1>2. cs \in BOOLEAN /\ wl \in BOOLEAN
  BY BrokerAssumption
<1>3. world \in Worlds(R)
  BY WorldType, SendWillType
<1>4. q' \in [Clients -> R] /\ StoreTyped'
  <2> HIDE DEF world
  <2>1. Discard(world, c) \in Worlds(R)
    BY <1>3, DiscardType
  <2>2. [world EXCEPT !.q[c] = fresh] \in Worlds(R)
    <3>1. fresh \in R
      BY QueueAt DEF Stable, Serves
    <3> HIDE DEF fresh
    <3> QED BY <1>3, <3>1, WorldQueue
  <2>3. [world EXCEPT !.q[c] = Reset(world.q[c])] \in Worlds(R)
    <3>1. world.q[c] \in R
      BY <1>3, WorldParts
    <3>2. Reset(world.q[c]) \in R
      BY <3>1 DEF Stable, Serves
    <3> QED BY <1>3, <3>2, WorldQueue
  <2>4. \E w \in Worlds(R) : Become(w)
    BY <1>1, <2>1, <2>2, <2>3 DEF world
  <2> QED BY <2>4, BecomeTyped
<1>5. SessionTyped'
  BY <1>1, <1>2 DEF SessionTyped
<1>6. LoopTyped'
  BY <1>1 DEF LoopTyped
<1>7. PeerTyped'
  <2>1. client[c] \in ClientStates
    BY PeerIs
  <2>2. client' \in [Clients -> ClientStates]
    BY <1>1, <2>1, PeerIs, ResumedType, NewClientType
  <2>3. wire' \in [Clients -> Seq(Packets)]
    BY <1>1 DEF PeerTyped
  <2>4. budget' \in [connects: Nat, subscribes: Nat]
    <3>1. budget' = [budget EXCEPT !.connects = @ + 1]
      BY <1>1
    <3> QED BY <3>1 DEF PeerTyped
  <2> QED BY <2>2, <2>3, <2>4 DEF PeerTyped, ClientStates
<1>8. HistoryTyped'
  BY <1>1 DEF HistoryTyped, history
<1> QED BY <1>4, <1>5, <1>6, <1>7, <1>8

(* handle__disconnect, a connection that is lost and a session that         *)
(* expires.                                                                 *)
LEMMA LeaveTyped ==
  ASSUME NEW R, Stable(R), Serves(R), Typed(R), NEW c \in Clients,
         Disconnect(c) \/ ConnectionLost(c) \/ Expire(c)
  PROVE  Typed(R)'
<1> USE DEF Typed
<1>1. World \in Worlds(R)
  BY WorldType
<1>2. SendWill(World, c, {}) \in Worlds(R)
  BY <1>1, SendWillType
<1>3. CASE Disconnect(c) \/ ConnectionLost(c)
  <2>1. q' \in [Clients -> R] /\ StoreTyped' /\ SessionTyped'
    BY <1>1, <1>2, <1>3, DisconnectedTyped DEF Disconnect, ConnectionLost
  <2>2. LoopTyped'
    BY <1>3, EventTyped DEF Disconnect, ConnectionLost
  <2>3. PeerTyped' /\ HistoryTyped'
    BY <1>3 DEF Disconnect, ConnectionLost, PeerTyped, HistoryTyped, history
  <2> QED BY <2>1, <2>2, <2>3
<1>4. CASE Expire(c)
  <2>1. Discard(World, c) \in Worlds(R)
    BY <1>1, DiscardType
  <2>2. q' \in [Clients -> R] /\ StoreTyped'
    BY <1>4, <2>1, BecomeTyped DEF Expire
  <2>3. SessionTyped' /\ LoopTyped' /\ PeerTyped' /\ HistoryTyped'
    BY <1>4 DEF Expire, SessionTyped, LoopTyped, PeerTyped, HistoryTyped, history
  <2> QED BY <2>2, <2>3
<1> QED BY <1>3, <1>4

(* handle__subscribe with the retained message, and handle__unsubscribe.    *)
LEMMA SubscribeTyped ==
  ASSUME NEW R, Stable(R), Serves(R), Typed(R), NEW c \in Clients, Subscribe(c) \/ Unsubscribe(c)
  PROVE  Typed(R)'
<1> USE DEF Typed
<1>1. CASE Subscribe(c)
  <2> DEFINE r == CHOOSE r \in retained : TRUE
  <2>1. PICK qos \in SubQoS :
          /\ Event(c)
          /\ leaf' = [leaf EXCEPT ![c] = qos]
          /\ IF retained = {} THEN UNCHANGED <<q, msg_store>>
             ELSE /\ q' = [q EXCEPT ![c] = Offer(@, TRUE, r, OutQoS(r.qos, qos))]
                  /\ msg_store' = IF Takes(q[c], TRUE, OutQoS(r.qos, qos))
                                  THEN [msg_store EXCEPT ![r.id] = @ + 1] ELSE msg_store
          /\ budget' = [budget EXCEPT !.subscribes = @ + 1]
          /\ UNCHANGED <<conn, clean, will, last_db_id, retained, disused, wire, client, history>>
    BY <1>1 DEF Subscribe
  <2>2. qos \in QoS
    BY BrokerAssumption
  <2>3. q' \in [Clients -> R] /\ StoreTyped'
    <3>1. CASE retained = {}
      BY <2>1, <3>1 DEF StoreTyped
    <3>2. CASE retained # {}
      <4>1. r \in Stored /\ r.qos \in QoS
        BY <3>2 DEF StoreTyped, Stored
      <4> HIDE DEF r
      <4>2. Offer(q[c], TRUE, r, OutQoS(r.qos, qos)) \in R
        BY <2>2, <4>1, OutQoSType, OfferType
      <4>3. q' \in [Clients -> R]
        BY <2>1, <3>2, <4>2
      <4>4. msg_store' \in [DOMAIN msg_store' -> Int] /\ DOMAIN msg_store' = DOMAIN msg_store
        <5>1. msg_store' \in {[msg_store EXCEPT ![r.id] = @ + 1], msg_store}
          BY <2>1, <3>2
        <5> QED BY <5>1 DEF StoreTyped
      <4> QED BY <2>1, <4>3, <4>4, ListTyped
    <3> QED BY <3>1, <3>2
  <2>4. SessionTyped'
    BY <2>1, <2>2 DEF SessionTyped
  <2>5. LoopTyped'
    BY <2>1, EventTyped
  <2>6. PeerTyped' /\ HistoryTyped'
    BY <2>1 DEF PeerTyped, HistoryTyped, history
  <2> QED BY <2>3, <2>4, <2>5, <2>6
<1>2. CASE Unsubscribe(c)
  <2>1. LoopTyped'
    BY <1>2, EventTyped DEF Unsubscribe
  <2>2. q' \in [Clients -> R] /\ StoreTyped' /\ SessionTyped' /\ PeerTyped' /\ HistoryTyped'
    BY <1>2 DEF Unsubscribe, StoreTyped, store, SessionTyped, PeerTyped, HistoryTyped, history
  <2> QED BY <2>1, <2>2
<1> QED BY <1>1, <1>2

(* handle__publish for QoS 0 and 1.                                         *)
LEMMA PublishTyped ==
  ASSUME NEW R, Stable(R), Serves(R), Typed(R), NEW c \in Clients, Publish(c)
  PROVE  Typed(R)'
<1> USE DEF Typed
<1>1. PICK qos \in PubQoS \cap {0, 1}, len \in Lens, rt \in Retains :
        LET s == Fresh(World, 0, 0, qos, len, rt, TRUE)
        IN  /\ Event(c) /\ c \in Publishers /\ pubs < MaxPubs
            /\ Become(Route(StoreMsg(World, s), s, qos, {}))
            /\ pubs' = pubs + 1
            /\ UNCHANGED <<session, wire, client, budget, routed, completed, delivered>>
  BY DEF Publish
<1> DEFINE s == Fresh(World, 0, 0, qos, len, rt, TRUE)
<1>2. World \in Worlds(R)
  BY WorldType
<1>3. s \in Stored /\ s.id = World.last_db_id + 1
  <2>1. qos \in QoS /\ len \in 0..MaxLen /\ rt \in BOOLEAN
    BY BrokerAssumption
  <2> QED BY <1>2, <2>1, FreshType
<1>4. Become(Route(StoreMsg(World, s), s, qos, {}))
  BY <1>1
<1> HIDE DEF s
<1>5. Route(StoreMsg(World, s), s, qos, {}) \in Worlds(R)
  <2>1. StoreMsg(World, s) \in Worlds(R)
    BY <1>2, <1>3, StoreMsgType
  <2> QED BY <1>3, <2>1, RouteType, BrokerAssumption
<1>6. q' \in [Clients -> R] /\ StoreTyped'
  BY <1>4, <1>5, BecomeTyped
<1>7. LoopTyped'
  BY <1>1, EventTyped
<1>8. SessionTyped' /\ PeerTyped'
  BY <1>1 DEF SessionTyped, PeerTyped, session
<1>9. HistoryTyped'
  BY <1>1, BrokerAssumption DEF HistoryTyped
<1> QED BY <1>6, <1>7, <1>8, <1>9

-----------------------------------------------------------------------------
(* The handshakes of QoS 1 and 2.                                           *)

(* What a client may publish is a publication within the bound.             *)
LEMMA SendableType ==
  ASSUME PeerTyped, HistoryTyped, NEW c \in Clients, NEW mid \in ClientMids,
         NEW p \in Sendable(c, mid)
  PROVE  /\ p \in Publication
         /\ (IF p.body > pubs THEN p.body ELSE pubs) \in 0..MaxPubs
<1>1. client[c].pub[mid] \in Publication
  <2>1. client[c] \in ClientStates
    BY PeerIs
  <2> QED BY <2>1 DEF ClientStates
<1>2. "wait_pubrec" \in Phases
  BY DEF Phases
<1>3. p \in Publication
  <2>1. CASE client[c].pub[mid].phase = "publish"
    <3>1. p = [client[c].pub[mid] EXCEPT !.phase = "wait_pubrec"]
      BY <2>1 DEF Sendable
    <3> QED BY <1>1, <1>2, <3>1 DEF Publication
  <2>2. CASE client[c].pub[mid].phase # "publish"
    <3>1. /\ pubs < MaxPubs
          /\ p \in [phase: {"wait_pubrec"}, body: {pubs + 1}, len: Lens, retain: Retains, denied: Denials]
      BY <2>2 DEF Sendable
    <3>2. pubs + 1 \in 0..MaxPubs
      BY <3>1, BrokerAssumption DEF HistoryTyped
    <3> QED BY <1>2, <3>1, <3>2, BrokerAssumption DEF Publication
  <2> QED BY <2>1, <2>2
<1> QED BY <1>3, BrokerAssumption DEF Publication, HistoryTyped

(* handle__publish for QoS 2: found, stored, dropped or denied.             *)
LEMMA PublishQoS2Typed ==
  ASSUME NEW R, Stable(R), Fills(R), Typed(R), NEW c \in Clients, NEW mid \in ClientMids,
         PublishQoS2(c, mid)
  PROVE  Typed(R)'
<1> USE DEF Typed
<1>1. PICK p \in Sendable(c, mid) :
    LET dup   == StoreFind(q[c], mid) # {}
        s     == IF p.denied THEN Fresh(World, p.body, mid, 2, 0, FALSE, FALSE)
                             ELSE Fresh(World, p.body, mid, 2, p.len, p.retain, TRUE)
        st    == InsertState(q[c], TRUE, "in", 2)
        new   == StoreMsg(World, s)
        added == [new EXCEPT !.q[c] = Insert(@, TRUE, s, mid, "in", 2),
                             !.msg_store[s.id] = IF st = "dropped" THEN 0 ELSE 1]
    IN  /\ Event(c) /\ c \in Publishers /\ 2 \in PubQoS
        /\ client' = [client EXCEPT ![c].pub[mid] = p]
        /\ IF ~dup /\ p.denied /\ st # "wait_for_pubrel"
           THEN Disconnected(SendWill(added, c, {}), c)
           ELSE Become(IF dup THEN World ELSE added) /\ UNCHANGED session
        /\ wire' = IF dup \/ st = "wait_for_pubrel"
                   THEN [wire EXCEPT ![c] = Append(@, Ack("pubrec", mid))] ELSE wire
        /\ pubs' = IF p.body > pubs THEN p.body ELSE pubs
        /\ UNCHANGED <<budget, routed, completed, delivered>>
  BY DEF PublishQoS2
<1> DEFINE dup   == StoreFind(q[c], mid) # {}
           s     == IF p.denied THEN Fresh(World, p.body, mid, 2, 0, FALSE, FALSE)
                                ELSE Fresh(World, p.body, mid, 2, p.len, p.retain, TRUE)
           st    == InsertState(q[c], TRUE, "in", 2)
           new   == StoreMsg(World, s)
           n     == IF st = "dropped" THEN 0 ELSE 1
           refs  == [new.msg_store EXCEPT ![s.id] = n]
           cq    == Insert(new.q[c], TRUE, s, mid, "in", 2)
           added == [new EXCEPT !.q[c] = Insert(@, TRUE, s, mid, "in", 2),
                                !.msg_store[s.id] = IF st = "dropped" THEN 0 ELSE 1]
<1>2. World \in Worlds(R)
  BY WorldType
<1>3. p \in Publication /\ (IF p.body > pubs THEN p.body ELSE pubs) \in 0..MaxPubs
  BY SendableType
<1>4. mid \in Nat
  BY BrokerAssumption, LimitsAssumption
<1>5. s \in Stored /\ s.id = World.last_db_id + 1 /\ s.source_mid = mid
  <2>1. World.last_db_id \in Nat
    BY <1>2, WorldParts
  <2>2. p.body \in Nat /\ p.len \in 0..MaxLen /\ p.retain \in BOOLEAN /\ 0 \in 0..MaxLen /\ 2 \in QoS
    BY <1>3, LimitsAssumption DEF Publication, QoS
  <2> QED BY <1>4, <2>1, <2>2 DEF Fresh, Stored
<1>6. ASSUME ~dup PROVE added \in Worlds(R)
  <2> HIDE DEF s, st
  <2>1. new \in Worlds(R)
    BY <1>2, <1>5, StoreMsgType
  <2>2. new.q[c] \in R
    BY <2>1, WorldParts
  <2>3. cq \in R
    <3>1. 2 \in QoS
      BY DEF QoS
    <3>2. StoreFind(new.q[c], mid) = {}
      BY <1>6 DEF StoreMsg, World
    <3> HIDE DEF new
    <3> QED BY <1>4, <1>5, <2>2, <3>1, <3>2 DEF Stable, Fills
  <2>4. refs \in [DOMAIN refs -> Int] /\ DOMAIN refs = DOMAIN new.msg_store
    <3>1. n \in Int
      OBVIOUS
    <3> HIDE DEF new, n
    <3> QED BY <2>1, <3>1, WorldParts
  <2>5. added = [[new EXCEPT !.q[c] = cq] EXCEPT !.msg_store = refs]
    <3> HIDE DEF new
    <3> QED BY <2>1 DEF Worlds
  <2> HIDE DEF new, cq, refs, added
  <2>6. [new EXCEPT !.q[c] = cq] \in Worlds(R)
    BY <2>1, <2>3, WorldQueue
  <2>7. [new EXCEPT !.q[c] = cq].msg_store = new.msg_store
    BY <2>1 DEF Worlds
  <2> QED BY <2>4, <2>5, <2>6, <2>7, WorldRefs
<1>7. /\ Event(c)
      /\ client' = [client EXCEPT ![c].pub[mid] = p]
      /\ \/ ~dup /\ Disconnected(SendWill(added, c, {}), c)
         \/ Become(IF dup THEN World ELSE added) /\ UNCHANGED session
      /\ wire' \in {[wire EXCEPT ![c] = Append(@, Ack("pubrec", mid))], wire}
      /\ pubs' = IF p.body > pubs THEN p.body ELSE pubs
      /\ UNCHANGED <<budget, routed, completed, delivered>>
  BY <1>1
<1> HIDE DEF added, dup
<1>8. q' \in [Clients -> R] /\ StoreTyped' /\ SessionTyped'
  <2>1. CASE ~dup /\ Disconnected(SendWill(added, c, {}), c)
    BY <1>6, <2>1, SendWillType, DisconnectedTyped
  <2>2. CASE Become(IF dup THEN World ELSE added) /\ UNCHANGED session
    <3>1. SessionTyped'
      BY <2>2 DEF SessionTyped, session
    <3> QED BY <1>2, <1>6, <2>2, <3>1, BecomeTyped
  <2> QED BY <1>7, <2>1, <2>2
<1>9. LoopTyped'
  BY <1>7, EventTyped
<1>10. PeerTyped'
  <2>1. Ack("pubrec", mid) \in Packets
    BY <1>4, AckType
  <2>2. wire' \in [Clients -> Seq(Packets)]
    <3>1. wire \in [Clients -> Seq(Packets)] /\ wire[c] \in Seq(Packets)
      BY DEF PeerTyped
    <3>2. Append(wire[c], Ack("pubrec", mid)) \in Seq(Packets)
      BY <2>1, <3>1
    <3> QED BY <1>7, <3>1, <3>2
  <2>3. client' \in [Clients -> ClientStates]
    <3>1. client[c] \in ClientStates
      BY PeerIs
    <3>2. [client[c] EXCEPT !.pub[mid] = p] \in ClientStates
      BY <1>3, <3>1 DEF ClientStates
    <3>3. client' = [client EXCEPT ![c] = [client[c] EXCEPT !.pub[mid] = p]]
      BY <1>7
    <3> QED BY <3>2, <3>3, PeerIs
  <2> QED BY <1>7, <2>2, <2>3 DEF PeerTyped, ClientStates
<1>11. HistoryTyped'
  BY <1>3, <1>7 DEF HistoryTyped
<1> QED BY <1>8, <1>9, <1>10, <1>11

(* handle__pubrel: the routing, the removal and what then goes into flight. *)
LEMMA PubrelTyped ==
  ASSUME NEW R, Stable(R), Serves(R), Typed(R), NEW c \in Clients, NEW mid \in Nat,
         NEW read \in Seq(Packets), Pubrel(c, mid, read)
  PROVE  /\ q' \in [Clients -> R] /\ StoreTyped'
         /\ wire' \in [Clients -> Seq(Packets)]
         /\ routed' \in [1..MaxPubs -> Nat]
<1> USE DEF Typed
<1> DEFINE K   == Matching(q[c].inflight, mid, "in")
           hit == q[c].inflight[CHOOSE i \in K : \A j \in K : i <= j].store
           w   == IF K # {} /\ hit.topic THEN Route(World, hit, hit.qos, {}) ELSE World
           k   == ReleaseMoves(w.q[c])
           refs == DerefMsgs(w.msg_store, w.q[c].inflight, K)
           cq  == Release(w.q[c], mid)
<1>1. World \in Worlds(R) /\ World.q = q
  BY WorldType DEF World
<1>2. /\ q[c].inflight \in Seq(ClientMsg) /\ K \subseteq DOMAIN q[c].inflight
      /\ IsFiniteSet(K)
  <2>1. q[c].inflight \in Seq(ClientMsg)
    BY QueueAt
  <2>2. K \in SUBSET (DOMAIN q[c].inflight)
    BY DEF Matching
  <2> HIDE DEF K
  <2> QED BY <2>1, <2>2, FiniteDomain
<1>3. K # {} => hit \in Stored /\ hit.qos \in QoS
  <2>1. SUFFICES ASSUME K # {} PROVE hit \in Stored
    BY DEF Stored
  <2> DEFINE f == CHOOSE i \in K : \A j \in K : i <= j
  <2>2. K \in SUBSET Nat
    BY <1>2
  <2>3. f \in K
    <3> HIDE DEF K
    <3> QED BY <2>1, <2>2, FirstIn
  <2> HIDE DEF f, K
  <2>4. q[c].inflight[f] \in ClientMsg
    BY <1>2, <2>3
  <2> QED BY <2>4 DEF ClientMsg, f
<1> HIDE DEF K, hit
<1>4. w \in Worlds(R)
  <2>1. K # {} => Route(World, hit, hit.qos, {}) \in Worlds(R)
    BY <1>1, <1>3, RouteType
  <2> QED BY <1>1, <2>1
<1>5. /\ Become([w EXCEPT !.q[c] = Release(@, mid),
                          !.msg_store = DerefMsgs(@, w.q[c].inflight, K)])
      /\ routed' = IF K # {} /\ hit.topic THEN [routed EXCEPT ![hit.body] = @ + 1] ELSE routed
      /\ wire' = [wire EXCEPT ![c] = read \o Acks("pubrec", DequeuePubrecs(w.q[c], k))
                                          \o <<Ack("pubcomp", mid)>>]
  BY DEF Pubrel, K, hit
<1> HIDE DEF w
<1>6. /\ w.q[c] \in R /\ w.q[c] \in Queues
      /\ w.msg_store \in [DOMAIN w.msg_store -> Int]
  BY <1>4, WorldParts, QueueAt
<1>7. cq \in R
  BY <1>6 DEF Stable, Serves
<1>8. refs \in [DOMAIN refs -> Int] /\ DOMAIN refs \subseteq DOMAIN w.msg_store
  BY <1>2, <1>6, DerefType DEF DerefMsgs
<1>9. q' \in [Clients -> R] /\ StoreTyped'
  <2> DEFINE u == [w EXCEPT !.q[c] = cq]
  <2>1. Become([u EXCEPT !.msg_store = refs])
    <3>1. [u EXCEPT !.msg_store = refs]
            = [w EXCEPT !.q[c] = Release(@, mid), !.msg_store = DerefMsgs(@, w.q[c].inflight, K)]
      BY <1>4 DEF Worlds
    <3> HIDE DEF u, cq, refs
    <3> QED BY <1>5, <3>1
  <2> HIDE DEF cq, refs
  <2>2. u \in Worlds(R) /\ u.msg_store = w.msg_store
    <3>1. u \in Worlds(R)
      BY <1>4, <1>7, WorldQueue
    <3> QED BY <1>4, <3>1 DEF Worlds
  <2> HIDE DEF u
  <2>3. [u EXCEPT !.msg_store = refs] \in Worlds(R)
    BY <1>8, <2>2, WorldRefs
  <2> QED BY <2>1, <2>3, BecomeTyped
<1>10. wire' \in [Clients -> Seq(Packets)]
  <2>1. DequeuePubrecs(w.q[c], k) \in Seq(Nat)
    BY <1>6, QueueMoves, PubrecsType
  <2>2. Acks("pubrec", DequeuePubrecs(w.q[c], k)) \in Seq(Packets)
    BY <2>1, AcksType
  <2>3. Ack("pubcomp", mid) \in Packets
    BY AckType
  <2>4. read \o Acks("pubrec", DequeuePubrecs(w.q[c], k)) \o <<Ack("pubcomp", mid)>> \in Seq(Packets)
    BY <2>2, <2>3
  <2> HIDE DEF k
  <2> QED BY <1>5, <2>4 DEF PeerTyped
<1>11. routed' \in [1..MaxPubs -> Nat]
  <2>1. routed' = routed \/ routed' = [routed EXCEPT ![hit.body] = @ + 1]
    BY <1>5
  <2> QED BY <2>1 DEF HistoryTyped
<1> QED BY <1>9, <1>10, <1>11

(* A PUBREL that is sent again.                                             *)
LEMMA ResendPubrelTyped ==
  ASSUME NEW R, Stable(R), Serves(R), Typed(R), NEW c \in Clients, NEW mid \in ClientMids,
         ResendPubrel(c, mid)
  PROVE  Typed(R)'
<1> USE DEF Typed
<1>1. mid \in Nat /\ wire[c] \in Seq(Packets) /\ Pubrel(c, mid, wire[c])
  BY BrokerAssumption, LimitsAssumption DEF PeerTyped, ResendPubrel
<1>2. /\ q' \in [Clients -> R] /\ StoreTyped'
      /\ wire' \in [Clients -> Seq(Packets)] /\ routed' \in [1..MaxPubs -> Nat]
  BY <1>1, PubrelTyped
<1>3. LoopTyped'
  BY EventTyped DEF ResendPubrel
<1>4. client' \in [Clients -> ClientStates]
  <2>1. "wait_pubcomp" \in Phases
    BY DEF Phases
  <2> QED BY <2>1, PhaseType DEF ResendPubrel
<1>5. SessionTyped' /\ HistoryTyped'
  BY <1>2 DEF ResendPubrel, SessionTyped, session, HistoryTyped
<1>6. PeerTyped'
  BY <1>2, <1>4 DEF PeerTyped, ClientStates, ResendPubrel
<1> QED BY <1>2, <1>3, <1>5, <1>6

(* handle__pubackcomp with what it moves into flight.                       *)
LEMMA PubackcompTyped ==
  ASSUME NEW R, Stable(R), Serves(R), Typed(R), NEW c \in Clients, NEW mid \in Nat, wire[c] # <<>>,
         Pubackcomp(c, mid), UNCHANGED <<last_db_id, retained, disused>>
  PROVE  /\ q' \in [Clients -> R] /\ StoreTyped'
         /\ wire' \in [Clients -> Seq(Packets)]
<1> USE DEF Typed
<1> DEFINE K == Matching(q[c].inflight, mid, "out")
           k == DeleteMoves(q[c], mid, "out")
           acks == Acks("pubrec", DequeuePubrecs(q[c], k))
<1>1. /\ q' = [q EXCEPT ![c] = Delete(@, mid, "out")]
      /\ msg_store' = DerefMsgs(msg_store, q[c].inflight, K)
      /\ wire' = [wire EXCEPT ![c] = Tail(@) \o acks]
  BY DEF Pubackcomp
<1>2. q[c] \in R /\ q[c] \in Queues /\ q[c].inflight \in Seq(ClientMsg)
  BY QueueAt
<1>3. q' \in [Clients -> R]
  BY <1>1, <1>2 DEF Stable, Serves
<1>4. StoreTyped'
  <2>1. K \in SUBSET (DOMAIN q[c].inflight)
    BY DEF Matching
  <2>2. msg_store \in [DOMAIN msg_store -> Int]
    BY DEF StoreTyped
  <2> HIDE DEF K
  <2> QED BY <1>1, <1>2, <2>1, <2>2, DerefMsgsType, ListTyped
<1>5. wire' \in [Clients -> Seq(Packets)]
  <2>1. acks \in Seq(Packets)
    BY <1>2, QueueMoves, PubrecsType, AcksType
  <2> HIDE DEF acks
  <2>2. wire[c] \in Seq(Packets)
    BY DEF PeerTyped
  <2>3. Tail(wire[c]) \in Seq(Packets)
    BY <2>2, HeadTailProperties
  <2>4. Tail(wire[c]) \o acks \in Seq(Packets)
    BY <2>1, <2>3
  <2> QED BY <1>1, <2>4 DEF PeerTyped
<1> QED BY <1>3, <1>4, <1>5

(* handle__pubrec.                                                          *)
LEMMA PubrecTyped ==
  ASSUME NEW R, Stable(R), Serves(R), Typed(R), NEW c \in Clients, NEW mid \in Nat, wire[c] # <<>>,
         Pubrec(c, mid), UNCHANGED <<last_db_id, retained, disused>>
  PROVE  /\ q' \in [Clients -> R] /\ StoreTyped'
         /\ wire' \in [Clients -> Seq(Packets)]
<1> USE DEF Typed
<1>1. q' \in [Clients -> R]
  BY QueueAt DEF Stable, Serves, Pubrec
<1>2. StoreTyped'
  BY DEF Pubrec, StoreTyped
<1>3. wire' \in [Clients -> Seq(Packets)]
  <2>1. wire[c] \in Seq(Packets)
    BY DEF PeerTyped
  <2>2. Tail(wire[c]) \in Seq(Packets) /\ Ack("pubrel", mid) \in Packets
    BY <2>1, HeadTailProperties, AckType
  <2>3. Append(Tail(wire[c]), Ack("pubrel", mid)) \in Seq(Packets)
    BY <2>2
  <2> QED BY <2>3 DEF PeerTyped, Pubrec
<1> QED BY <1>1, <1>2, <1>3

(* The next packet a client reads.                                          *)
LEMMA WireHead ==
  ASSUME PeerTyped, NEW c \in Clients, wire[c] # <<>>
  PROVE  /\ Head(wire[c]) \in Packets /\ Head(wire[c]).mid \in Nat
         /\ Head(wire[c]).body \in Nat /\ Head(wire[c]).qos \in QoS
         /\ Tail(wire[c]) \in Seq(Packets)
<1>1. wire[c] \in Seq(Packets)
  BY DEF PeerTyped
<1>2. Head(wire[c]) \in Packets /\ Tail(wire[c]) \in Seq(Packets)
  BY <1>1, HeadTailProperties
<1> QED BY <1>2 DEF Packets

(* A packet read after the broker has closed the socket.                    *)
LEMMA UnheardTyped ==
  ASSUME NEW R, Typed(R), NEW c \in Clients, wire[c] # <<>>, Unheard(c),
         UNCHANGED <<last_db_id, retained, disused>>
  PROVE  /\ q' \in [Clients -> R] /\ StoreTyped' /\ LoopTyped'
         /\ wire' \in [Clients -> Seq(Packets)]
<1> USE DEF Typed
<1>1. Tail(wire[c]) \in Seq(Packets)
  BY WireHead
<1>2. wire' \in [Clients -> Seq(Packets)]
  BY <1>1 DEF Unheard, PeerTyped
<1> QED BY <1>2 DEF Unheard, StoreTyped, LoopTyped

(* A client reads a PUBLISH and answers by its QoS.                         *)
LEMMA ReadPublishTyped ==
  ASSUME NEW R, Stable(R), Serves(R), Typed(R), NEW c \in Clients, ReadPublish(c)
  PROVE  Typed(R)'
<1> USE DEF Typed
<1> DEFINE p   == Head(wire[c])
           new == p.qos = 2 /\ p.mid \notin client[c].rcvd
<1>1. /\ wire[c] # <<>>
      /\ \/ /\ wire' = [wire EXCEPT ![c] = Tail(@)]
            /\ UNCHANGED <<served, phase, q, msg_store>>
         \/ Answers(c) /\ Pubackcomp(c, p.mid)
         \/ Answers(c) /\ Pubrec(c, p.mid)
         \/ Unheard(c)
      /\ client' = IF new THEN [client EXCEPT ![c].rcvd = @ \cup {p.mid}] ELSE client
      /\ delivered' = IF new /\ p.body # 0
                      THEN [delivered EXCEPT ![c][p.body] = @ + 1] ELSE delivered
      /\ UNCHANGED <<session, last_db_id, retained, disused, budget, pubs, routed, completed>>
  <2>1. p.qos = 0 \/ p.qos = 1 \/ p.qos = 2
    BY WireHead DEF ReadPublish, Reads, QoS
  <2> QED BY <2>1 DEF ReadPublish, Reads
<1>2. p.mid \in Nat /\ p.body \in Nat /\ Tail(wire[c]) \in Seq(Packets)
  BY <1>1, WireHead
<1> HIDE DEF new
<1>3. /\ q' \in [Clients -> R] /\ StoreTyped' /\ LoopTyped'
      /\ wire' \in [Clients -> Seq(Packets)]
  <2>1. CASE wire' = [wire EXCEPT ![c] = Tail(@)] /\ UNCHANGED <<served, phase, q, msg_store>>
    BY <1>1, <1>2, <2>1 DEF StoreTyped, LoopTyped, PeerTyped
  <2>2. CASE Answers(c) /\ Pubackcomp(c, p.mid)
    BY <1>1, <1>2, <2>2, EventTyped, PubackcompTyped DEF Answers
  <2>3. CASE Answers(c) /\ Pubrec(c, p.mid)
    BY <1>1, <1>2, <2>3, EventTyped, PubrecTyped DEF Answers
  <2>4. CASE Unheard(c)
    BY <1>1, <2>4, UnheardTyped
  <2> QED BY <1>1, <2>1, <2>2, <2>3, <2>4
<1> HIDE DEF p
<1>4. client' \in [Clients -> ClientStates]
  <2>1. client \in [Clients -> ClientStates] /\ client[c] \in ClientStates
    BY PeerIs
  <2>2. [client[c] EXCEPT !.rcvd = @ \cup {p.mid}] \in ClientStates
    BY <1>2, <2>1 DEF ClientStates
  <2>3. \/ client' = [client EXCEPT ![c] = [client[c] EXCEPT !.rcvd = @ \cup {p.mid}]]
        \/ client' = client
    BY <1>1
  <2> QED BY <2>1, <2>2, <2>3
<1>5. delivered' \in [Clients -> [1..MaxPubs -> Nat]]
  <2>1. delivered[c] \in [1..MaxPubs -> Nat]
    BY DEF HistoryTyped
  <2>2. [delivered[c] EXCEPT ![p.body] = @ + 1] \in [1..MaxPubs -> Nat]
    <3> DEFINE f == delivered[c]
               b == p.body
    <3>1. f \in [1..MaxPubs -> Nat]
      BY <2>1
    <3> HIDE DEF f, b
    <3>2. b \in 1..MaxPubs => f[b] \in Nat /\ f[b] + 1 \in Nat
      <4>1. b \in 1..MaxPubs => f[b] \in Nat
        BY <3>1
      <4> QED BY <4>1
    <3>3. [f EXCEPT ![b] = f[b] + 1] \in [1..MaxPubs -> Nat]
      BY <3>1, <3>2
    <3> QED BY <3>3 DEF f, b
  <2>3. \/ delivered' = [delivered EXCEPT ![c] = [delivered[c] EXCEPT ![p.body] = @ + 1]]
        \/ delivered' = delivered
    BY <1>1
  <2> QED BY <2>2, <2>3 DEF HistoryTyped
<1>6. SessionTyped' /\ PeerTyped' /\ HistoryTyped'
  BY <1>1, <1>3, <1>4, <1>5, PeerIs
     DEF SessionTyped, session, PeerTyped, HistoryTyped, ClientStates
<1> QED BY <1>3, <1>6

(* A client reads a PUBREL and answers with a PUBCOMP.                      *)
LEMMA ReadPubrelTyped ==
  ASSUME NEW R, Stable(R), Serves(R), Typed(R), NEW c \in Clients, ReadPubrel(c)
  PROVE  Typed(R)'
<1> USE DEF Typed
<1> DEFINE p == Head(wire[c])
<1>1. /\ wire[c] # <<>>
      /\ (Answers(c) /\ Pubackcomp(c, p.mid)) \/ Unheard(c)
      /\ client' = [client EXCEPT ![c].rcvd = @ \ {p.mid}]
      /\ UNCHANGED <<session, last_db_id, retained, disused, budget, history>>
  BY DEF ReadPubrel, Reads
<1>2. p.mid \in Nat
  BY <1>1, WireHead
<1>3. /\ q' \in [Clients -> R] /\ StoreTyped' /\ LoopTyped'
      /\ wire' \in [Clients -> Seq(Packets)]
  <2>1. CASE Answers(c) /\ Pubackcomp(c, p.mid)
    BY <1>1, <1>2, <2>1, EventTyped, PubackcompTyped DEF Answers
  <2>2. CASE Unheard(c)
    BY <1>1, <2>2, UnheardTyped
  <2> QED BY <1>1, <2>1, <2>2
<1> HIDE DEF p
<1>4. client' \in [Clients -> ClientStates]
  <2>1. client \in [Clients -> ClientStates] /\ client[c] \in ClientStates
    BY PeerIs
  <2>2. [client[c] EXCEPT !.rcvd = @ \ {p.mid}] \in ClientStates
    BY <2>1 DEF ClientStates
  <2>3. client' = [client EXCEPT ![c] = [client[c] EXCEPT !.rcvd = @ \ {p.mid}]]
    BY <1>1
  <2> QED BY <2>1, <2>2, <2>3
<1>5. SessionTyped' /\ PeerTyped' /\ HistoryTyped'
  BY <1>1, <1>3, <1>4, PeerIs
     DEF SessionTyped, session, PeerTyped, HistoryTyped, history, ClientStates
<1> QED BY <1>3, <1>5

(* A client reads a PUBREC and answers with a PUBREL.                       *)
LEMMA ReadPubrecTyped ==
  ASSUME NEW R, Stable(R), Serves(R), Typed(R), NEW c \in Clients, ReadPubrec(c)
  PROVE  Typed(R)'
<1> USE DEF Typed
<1> DEFINE p == Head(wire[c])
<1>1. /\ wire[c] # <<>>
      /\ \/ client' = [client EXCEPT ![c].pub[p.mid].phase = "wait_pubcomp"]
         \/ client' = client
      /\ \/ (Answers(c) /\ Pubrel(c, p.mid, Tail(wire[c])))
         \/ (Unheard(c) /\ UNCHANGED <<last_db_id, retained, disused, routed>>)
      /\ UNCHANGED <<session, budget, pubs, completed, delivered>>
  BY DEF ReadPubrec, Reads
<1>2. p.mid \in Nat /\ Tail(wire[c]) \in Seq(Packets)
  BY <1>1, WireHead
<1> HIDE DEF p
<1>3. /\ q' \in [Clients -> R] /\ StoreTyped' /\ LoopTyped'
      /\ wire' \in [Clients -> Seq(Packets)] /\ routed' \in [1..MaxPubs -> Nat]
  <2>1. CASE Answers(c) /\ Pubrel(c, p.mid, Tail(wire[c]))
    BY <1>1, <1>2, <2>1, EventTyped, PubrelTyped DEF Answers
  <2>2. CASE Unheard(c) /\ UNCHANGED <<last_db_id, retained, disused, routed>>
    BY <1>1, <2>2, UnheardTyped DEF HistoryTyped
  <2> QED BY <1>1, <2>1, <2>2
<1>4. client' \in [Clients -> ClientStates]
  <2>1. "wait_pubcomp" \in Phases
    BY DEF Phases
  <2>2. [client EXCEPT ![c].pub[p.mid].phase = "wait_pubcomp"] \in [Clients -> ClientStates]
    BY <2>1, PhaseType
  <2>3. client \in [Clients -> ClientStates]
    BY PeerIs
  <2> QED BY <1>1, <2>2, <2>3
<1>5. SessionTyped' /\ PeerTyped' /\ HistoryTyped'
  BY <1>1, <1>3, <1>4, PeerIs
     DEF SessionTyped, session, PeerTyped, HistoryTyped, ClientStates
<1> QED BY <1>3, <1>5

(* A client reads a PUBCOMP: its publication is over.                       *)
LEMMA ReadPubcompTyped ==
  ASSUME NEW R, Typed(R), NEW c \in Clients, ReadPubcomp(c)
  PROVE  Typed(R)'
<1> USE DEF Typed
<1> DEFINE p     == Head(wire[c])
           ended == {m \in ClientMids : m = p.mid /\ client[c].pub[m].body # 0
                                                  /\ ~client[c].pub[m].denied}
<1>1. /\ wire[c] # <<>>
      /\ client' = [client EXCEPT ![c].pub[p.mid] = Idle]
      /\ completed' = completed \cup {client[c].pub[m].body : m \in ended}
      /\ wire' = [wire EXCEPT ![c] = Tail(@)]
      /\ UNCHANGED <<q, session, store, served, phase, budget, pubs, routed, delivered>>
  BY DEF ReadPubcomp, Reads
<1>2. Tail(wire[c]) \in Seq(Packets)
  BY <1>1, WireHead
<1> HIDE DEF p
<1>3. client \in [Clients -> ClientStates] /\ client[c] \in ClientStates
  BY PeerIs
<1>4. client' \in [Clients -> ClientStates]
  <2>1. Idle \in Publication
    BY BrokerAssumption, LimitsAssumption DEF Idle, Publication, Phases
  <2>2. [client[c] EXCEPT !.pub[p.mid] = Idle] \in ClientStates
    BY <1>3, <2>1 DEF ClientStates
  <2>3. client' = [client EXCEPT ![c] = [client[c] EXCEPT !.pub[p.mid] = Idle]]
    BY <1>1
  <2> QED BY <1>3, <2>2, <2>3
<1>5. completed' \subseteq 1..MaxPubs
  <2>1. ASSUME NEW m \in ended PROVE client[c].pub[m].body \in 1..MaxPubs
    <3>1. client[c].pub[m] \in Publication
      BY <1>3 DEF ClientStates
    <3> QED BY <3>1, BrokerAssumption DEF Publication
  <2> HIDE DEF ended
  <2> QED BY <1>1, <2>1 DEF HistoryTyped
<1>6. wire' \in [Clients -> Seq(Packets)]
  BY <1>1, <1>2 DEF PeerTyped
<1>7. PeerTyped'
  BY <1>1, <1>4, <1>6, PeerIs DEF PeerTyped, ClientStates
<1>8. q' \in [Clients -> R] /\ StoreTyped' /\ SessionTyped' /\ LoopTyped' /\ HistoryTyped'
  BY <1>1, <1>5 DEF StoreTyped, store, SessionTyped, session, LoopTyped, HistoryTyped
<1> QED BY <1>7, <1>8

-----------------------------------------------------------------------------
(* The writes of an iteration.                                              *)

(* context__free_disused and the writes of all connected contexts; the      *)
(* messages of QoS 0 they send are finitely many.                           *)
LEMMA LoopTypedStep ==
  ASSUME NEW R, Stable(R), Serves(R), Typed(R), Loop
  PROVE  Typed(R)'
<1> USE DEF Typed
<1> DEFINE on   == {c \in Clients : Online(c)}
           at(c) == {c} \X SentQoS0(q[c], Pending(q[c]))
           sent == [x \in UNION {{c} \X SentQoS0(q[c], Pending(q[c])) : c \in on} |->
                      q[x[1]].inflight[x[2]].store]
           kept == Deref(msg_store, disused, DOMAIN disused)
           pk(c) == wire[c] \o PacketsAt(q[c], Pending(q[c]))
                            \o Acks("pubrec", DequeuePubrecs(q[c], WriteMoves(q[c])))
<1>1. /\ served' = {} /\ phase' = "poll" /\ disused' = <<>>
      /\ q' = [c \in Clients |-> IF c \in on THEN Write(q[c]) ELSE q[c]]
      /\ msg_store' = Deref(kept, sent, DOMAIN sent)
      /\ wire' = [c \in Clients |-> IF c \in on THEN pk(c) ELSE wire[c]]
      /\ UNCHANGED <<session, last_db_id, retained, client, budget, history>>
  BY DEF Loop
<1>2. ASSUME NEW c \in Clients
      PROVE  /\ q[c] \in R /\ q[c] \in Queues /\ q[c].inflight \in Seq(ClientMsg)
             /\ Write(q[c]) \in R
  BY QueueAt DEF Stable, Serves
<1>3. q' \in [Clients -> R]
  BY <1>1, <1>2
<1>4. IsFiniteSet(DOMAIN sent)
  <2>1. ASSUME NEW c \in Clients PROVE IsFiniteSet(at(c))
    <3>1. SentQoS0(q[c], Pending(q[c])) \in SUBSET (DOMAIN q[c].inflight)
      BY DEF SentQoS0, Pending
    <3>2. IsFiniteSet(SentQoS0(q[c], Pending(q[c])))
      BY <1>2, <3>1, FiniteDomain
    <3>3. IsFiniteSet({c})
      BY FS_Singleton
    <3> QED BY <3>2, <3>3, FS_Product
  <2>2. IsFiniteSet(on)
    BY BrokerAssumption, FS_Subset
  <2> HIDE DEF at
  <2>3. IsFiniteSet({at(c) : c \in on})
    <3> DEFINE f == [c \in on |-> at(c)]
               T == {at(c) : c \in on}
    <3>1. f \in Surjection(on, T)
      BY DEF Surjection
    <3> HIDE DEF f, T
    <3>2. IsFiniteSet(T)
      BY <2>2, <3>1, FS_Surjection
    <3> QED BY <3>2 DEF T
  <2>4. \A S \in {at(c) : c \in on} : IsFiniteSet(S)
    BY <2>1
  <2>5. IsFiniteSet(UNION {at(c) : c \in on})
    BY <2>3, <2>4, FS_UNION
  <2> QED BY <2>5 DEF at
<1> HIDE DEF sent
<1>5. StoreTyped'
  <2>1. msg_store \in [DOMAIN msg_store -> Int] /\ disused \in Seq(Stored)
    BY DEF StoreTyped
  <2>2. IsFiniteSet(DOMAIN disused)
    BY <2>1, FiniteDomain
  <2>3. kept \in [DOMAIN kept -> Int] /\ DOMAIN kept \subseteq DOMAIN msg_store
    BY <2>1, <2>2, DerefType
  <2> HIDE DEF kept
  <2>4. /\ msg_store' \in [DOMAIN msg_store' -> Int]
        /\ DOMAIN msg_store' \subseteq DOMAIN kept
    BY <1>1, <1>4, <2>3, DerefType
  <2> QED BY <1>1, <2>3, <2>4 DEF StoreTyped
<1> HIDE DEF kept
<1>6. PeerTyped'
  <2>1. ASSUME NEW c \in Clients PROVE pk(c) \in Seq(Packets)
    <3>1. wire[c] \in Seq(Packets)
      BY DEF PeerTyped
    <3>2. PacketsAt(q[c], Pending(q[c])) \in Seq(Packets)
      BY <1>2, PacketsAtType
    <3>3. Acks("pubrec", DequeuePubrecs(q[c], WriteMoves(q[c]))) \in Seq(Packets)
      BY <1>2, QueueMoves, PubrecsType, AcksType
    <3> QED BY <3>1, <3>2, <3>3
  <2> HIDE DEF pk, on
  <2>2. wire' \in [Clients -> Seq(Packets)]
    BY <1>1, <2>1 DEF PeerTyped
  <2> QED BY <1>1, <2>2 DEF PeerTyped
<1>7. SessionTyped' /\ LoopTyped' /\ HistoryTyped'
  BY <1>1 DEF SessionTyped, session, LoopTyped, HistoryTyped, history
<1> QED BY <1>3, <1>5, <1>6, <1>7

(* A write that ends in do_disconnect with some of its packets sent.        *)
LEMMA WriteFailsTyped ==
  ASSUME NEW R, Stable(R), Serves(R), Typed(R), NEW c \in Clients, NEW cq \in R, NEW P,
         P \subseteq DOMAIN q[c].inflight,
         NEW pubrecs \in Seq(Nat), WriteFails(c, cq, P, pubrecs)
  PROVE  /\ q' \in [Clients -> R] /\ StoreTyped' /\ SessionTyped'
         /\ wire' \in [Clients -> Seq(Packets)]
<1> USE DEF Typed
<1> DEFINE K    == SentQoS0(q[c], P)
           refs == DerefMsgs(msg_store, q[c].inflight, K)
           u    == [World EXCEPT !.q[c] = cq]
           w    == [u EXCEPT !.msg_store = refs]
           pk   == PacketsAt(q[c], P)
           acks == Acks("pubrec", pubrecs)
<1>1. q[c] \in Queues /\ q[c].inflight \in Seq(ClientMsg)
  BY QueueAt
<1>2. refs \in [DOMAIN refs -> Int] /\ DOMAIN refs \subseteq DOMAIN msg_store
  <2>1. K \in SUBSET (DOMAIN q[c].inflight)
    BY DEF SentQoS0
  <2>2. msg_store \in [DOMAIN msg_store -> Int]
    BY DEF StoreTyped
  <2> HIDE DEF K
  <2> QED BY <1>1, <2>1, <2>2, DerefMsgsType
<1>3. World \in Worlds(R)
  BY WorldType
<1>4. /\ Disconnected(SendWill(w, c, {}), c)
      /\ wire' = [wire EXCEPT ![c] = @ \o pk \o acks]
  <2>1. w = [World EXCEPT !.q[c] = cq,
                          !.msg_store = DerefMsgs(@, q[c].inflight, SentQoS0(q[c], P))]
    BY <1>3 DEF World
  <2> HIDE DEF w
  <2> QED BY <2>1 DEF WriteFails
<1> HIDE DEF refs, K
<1>5. u \in Worlds(R) /\ u.msg_store = msg_store
  <2>1. u \in Worlds(R)
    BY <1>3, WorldQueue
  <2> QED BY <2>1 DEF World
<1> HIDE DEF u
<1>6. w \in Worlds(R)
  BY <1>2, <1>5, WorldRefs
<1> HIDE DEF w
<1>7. q' \in [Clients -> R] /\ StoreTyped' /\ SessionTyped'
  <2>1. SendWill(w, c, {}) \in Worlds(R)
    BY <1>6, SendWillType
  <2> QED BY <1>4, <2>1, DisconnectedTyped
<1>8. wire' \in [Clients -> Seq(Packets)]
  <2>1. pk \in Seq(Packets) /\ acks \in Seq(Packets)
    BY <1>1, PacketsAtType, AcksType
  <2>2. wire[c] \in Seq(Packets)
    BY DEF PeerTyped
  <2> HIDE DEF pk, acks
  <2>3. wire[c] \o pk \o acks \in Seq(Packets)
    BY <2>1, <2>2
  <2> QED BY <1>4, <2>3 DEF PeerTyped
<1> QED BY <1>7, <1>8

(* Whichever send of db__message_write fails.                               *)
LEMMA LoopFailsTyped ==
  ASSUME NEW R, Stable(R), Serves(R), Typed(R), NEW c \in Clients, LoopFails(c)
  PROVE  Typed(R)'
<1> USE DEF Typed
<1>1. /\ phase' = "write"
      /\ UNCHANGED <<served, client, budget, pubs, routed, completed, delivered>>
  BY DEF LoopFails, history
<1>2. /\ q[c] \in R /\ q[c] \in Queues /\ Len(q[c].queued) \in Nat
      /\ q[c].inflight \in Seq(ClientMsg)
  BY QueueAt
<1>3. Pending(q[c]) \subseteq DOMAIN q[c].inflight /\ Pending(q[c]) \subseteq Nat
  BY <1>2 DEF Pending
<1>4. /\ q' \in [Clients -> R] /\ StoreTyped' /\ SessionTyped'
      /\ wire' \in [Clients -> Seq(Packets)]
  <2>1. ASSUME NEW i \in Pending(q[c]) \cup {0},
               WriteFails(c, WriteFailsAt(q[c], i), {j \in Pending(q[c]) : j < i}, <<>>)
        PROVE  /\ q' \in [Clients -> R] /\ StoreTyped' /\ SessionTyped'
               /\ wire' \in [Clients -> Seq(Packets)]
    <3>1. WriteFailsAt(q[c], i) \in R
      BY <1>2, <1>3 DEF Stable, Serves
    <3>2. {j \in Pending(q[c]) : j < i} \subseteq DOMAIN q[c].inflight
      BY <1>3
    <3>3. <<>> \in Seq(Nat)
      OBVIOUS
    <3> QED BY <2>1, <3>1, <3>2, <3>3, WriteFailsTyped
  <2>2. ASSUME NEW j \in 1..WriteMoves(q[c]), q[c].queued[j].dir = "in",
               WriteFails(c, WriteFailsAtPubrec(q[c], j), Pending(q[c]), DequeuePubrecs(q[c], j - 1))
        PROVE  /\ q' \in [Clients -> R] /\ StoreTyped' /\ SessionTyped'
               /\ wire' \in [Clients -> Seq(Packets)]
    <3>1. WriteFailsAtPubrec(q[c], j) \in R
      BY <1>2, <2>2 DEF Stable, Serves
    <3>2. WriteMoves(q[c]) \in 0..Len(q[c].queued)
      BY <1>2, QueueMoves
    <3>3. j - 1 \in 0..Len(q[c].queued)
      BY <1>2, <3>2
    <3>4. DequeuePubrecs(q[c], j - 1) \in Seq(Nat)
      BY <1>2, <3>3, PubrecsType
    <3> QED BY <1>3, <2>2, <3>1, <3>4, WriteFailsTyped
  <2> QED BY <2>1, <2>2 DEF LoopFails
<1>5. LoopTyped' /\ PeerTyped' /\ HistoryTyped'
  BY <1>1, <1>4 DEF LoopTyped, PeerTyped, HistoryTyped
<1> QED BY <1>4, <1>5

-----------------------------------------------------------------------------
(* The specification.                                                       *)

(* The initial state is of the types, whatever closed set the queues are    *)
(* taken from.                                                              *)
LEMMA InitTyped ==
  ASSUME NEW R, Stable(R), Init
  PROVE  Typed(R)
<1>1. EmptyQueue \in R
  BY DEF Stable
<1>2. q \in [Clients -> R]
  BY <1>1 DEF Init
<1>3. StoreTyped
  <2>1. msg_store = <<>> /\ DOMAIN msg_store = {}
    BY DEF Init
  <2> QED BY <2>1 DEF Init, StoreTyped
<1>4. SessionTyped /\ LoopTyped
  BY DEF Init, SessionTyped, LoopTyped
<1>5. PeerTyped
  BY NewClientType, PeerIs DEF Init
<1>6. HistoryTyped
  BY BrokerAssumption DEF Init, HistoryTyped
<1> QED BY <1>2, <1>3, <1>4, <1>5, <1>6 DEF Typed

(* Every step but a publication of QoS 2 keeps the types, and every queue   *)
(* in a set that no other function leaves.                                  *)
LEMMA ServedTyped ==
  ASSUME NEW R, Stable(R), Serves(R), Typed(R), [Next]_vars,
         ~\E c \in Clients, mid \in ClientMids : PublishQoS2(c, mid)
  PROVE  Typed(R)'
<1>1. CASE UNCHANGED vars
  BY <1>1 DEF vars, session, store, history, Typed, StoreTyped, SessionTyped, LoopTyped,
              PeerTyped, HistoryTyped
<1>2. CASE Loop
  BY <1>2, LoopTypedStep
<1>3. ASSUME NEW c \in Clients, Connect(c)
      PROVE  Typed(R)'
  BY <1>3, ConnectTyped
<1>4. ASSUME NEW c \in Clients, Disconnect(c) \/ ConnectionLost(c) \/ Expire(c)
      PROVE  Typed(R)'
  BY <1>4, LeaveTyped
<1>5. ASSUME NEW c \in Clients, LoopFails(c)
      PROVE  Typed(R)'
  BY <1>5, LoopFailsTyped
<1>6. ASSUME NEW c \in Clients, Subscribe(c) \/ Unsubscribe(c)
      PROVE  Typed(R)'
  BY <1>6, SubscribeTyped
<1>7. ASSUME NEW c \in Clients, Publish(c)
      PROVE  Typed(R)'
  BY <1>7, PublishTyped
<1>8. ASSUME NEW c \in Clients, Resend(c)
      PROVE  Typed(R)'
  BY <1>8, ResendPubrelTyped DEF Resend
<1>9. ASSUME NEW c \in Clients, Read(c)
      PROVE  Typed(R)'
  BY <1>9, ReadPublishTyped, ReadPubrelTyped, ReadPubrecTyped, ReadPubcompTyped DEF Read
<1> QED
  BY <1>1, <1>2, <1>3, <1>4, <1>5, <1>6, <1>7, <1>8, <1>9 DEF Next

(* Every step of the broker and its clients keeps the types, and every      *)
(* queue in the closed set it was taken from.                               *)
LEMMA StepTyped ==
  ASSUME NEW R, Closed(R), Typed(R), [Next]_vars
  PROVE  Typed(R)'
<1>1. Stable(R) /\ Fills(R) /\ Serves(R)
  BY DEF Closed
<1>2. CASE \E c \in Clients, mid \in ClientMids : PublishQoS2(c, mid)
  BY <1>1, <1>2, PublishQoS2Typed
<1>3. CASE ~\E c \in Clients, mid \in ClientMids : PublishQoS2(c, mid)
  BY <1>1, <1>3, ServedTyped
<1> QED BY <1>2, <1>3

(* The queues of all clients stay sound.                                    *)
LEMMA SoundAlways == Spec => []Typed(SoundQueues)
<1>1. Init => Typed(SoundQueues)
  BY SoundClosed, InitTyped DEF Closed
<1>2. Typed(SoundQueues) /\ [Next]_vars => Typed(SoundQueues)'
  BY SoundClosed, StepTyped
<1> QED BY <1>1, <1>2, PTL DEF Spec

(* Unless messages of QoS 0 are queued, they stay in the exact ones.        *)
LEMMA ExactAlways ==
  ASSUME ~QueueQoS0
  PROVE  Spec => []Typed(ExactQueues)
<1>1. Init => Typed(ExactQueues)
  BY ExactClosed, InitTyped DEF Closed
<1>2. Typed(ExactQueues) /\ [Next]_vars => Typed(ExactQueues)'
  BY ExactClosed, StepTyped
<1> QED BY <1>1, <1>2, PTL DEF Spec

(* They stay in those with unique identifiers.                              *)
LEMMA UniqueAlways == Spec => []Typed(UniqueQueues)
<1>1. Init => Typed(UniqueQueues)
  BY UniqueClosed, InitTyped DEF Closed
<1>2. Typed(UniqueQueues) /\ [Next]_vars => Typed(UniqueQueues)'
  BY UniqueClosed, StepTyped
<1> QED BY <1>1, <1>2, PTL DEF Spec

(* The variables keep their types: every function of database.c leaves      *)
(* lists of messages in states of the enumeration, every handler an integer *)
(* count for messages of the store that have been stored.                   *)
THEOREM TypeCorrect == Spec => []TypeOK
<1>1. Closed(SoundQueues)
  BY SoundClosed
<1>2. SoundQueues \subseteq Queues
  BY <1>1 DEF Closed, Stable
<1>3. Typed(SoundQueues) => TypeOK
  <2>1. Typed(SoundQueues) => Typed(Queues)
    BY <1>2 DEF Typed
  <2> QED BY <2>1, TypedQueues
<1> QED BY <1>3, SoundAlways, PTL

(* Unless messages of QoS 0 are queued, no message in flight is in the      *)
(* state of a queued one, where no function of database.c would send it, no *)
(* queued one is in another, and a message for the client is in a state of  *)
(* one: across the acknowledgements, failing writes and reconnections that  *)
(* move messages from list to list.                                         *)
THEOREM StatesAlwaysMatch ==
  ASSUME ~QueueQoS0
  PROVE  Spec => []StatesMatch
<1>1. ASSUME Typed(SoundQueues) PROVE StatesMatch
  <2>1. ASSUME NEW c \in Clients
        PROVE  /\ q[c].inflight \in Seq(InflightMsg) /\ q[c].queued \in Seq(QueuedMsg)
    <3>1. q[c] \in SoundQueues
      BY <1>1 DEF Typed
    <3> QED BY <3>1, SoundParts
  <2>2. ASSUME NEW c \in Clients, NEW i \in DOMAIN q[c].inflight
        PROVE  /\ ~Waiting(q[c].inflight[i])
               /\ q[c].inflight[i].dir = "out" => q[c].inflight[i].state \in OutStates
    <3>1. q[c].inflight[i] \in InflightMsg
      BY <2>1
    <3>2. q[c].inflight[i].state \in StatesFor(q[c].inflight[i].dir)
      BY <3>1 DEF InflightMsg
    <3> QED BY <3>2, StatesForAre DEF Waiting, StatesFor
  <2>3. ASSUME NEW c \in Clients, NEW i \in DOMAIN q[c].queued
        PROVE  Waiting(q[c].queued[i]) /\ q[c].queued[i].qos > 0
    <3>1. q[c].queued[i] \in QueuedMsg
      BY <2>1
    <3> QED BY <3>1 DEF QueuedMsg, Waiting
  <2> QED BY <2>2, <2>3 DEF StatesMatch, NotStuck
<1> QED BY <1>1, SoundAlways, PTL

(* What the counters of a list count, and what the counts over both lists   *)
(* of a queue count.                                                        *)
LEMMA ListCounts ==
  ASSUME NEW c \in Clients, q[c] \in SoundQueues
  PROVE  /\ q[c].inflight \in Seq(ClientMsg) /\ q[c].queued \in Seq(ClientMsg)
         /\ Messages(c) \in Seq(ClientMsg)
         /\ \A F : StateFree(F) => Total(F, q[c]) = F[Messages(c)]
         /\ \A f \in Counters : Total(CounterOf(f), q[c]) = Tally(Messages(c))[f]
         /\ Cardinality(Acked(q[c].inflight)) = Window(q[c].inflight)
         /\ Cardinality(Acked(Messages(c))) = Load(q[c])
<1>1. /\ q[c].inflight \in Seq(ClientMsg) /\ q[c].queued \in Seq(ClientMsg)
      /\ Messages(c) \in Seq(ClientMsg)
  BY SoundParts, ConcatProperties DEF Messages
<1>2. ASSUME NEW F, StateFree(F) PROVE Total(F, q[c]) = F[Messages(c)]
  BY <1>2, TotalType DEF Messages
<1>3. ASSUME NEW f \in Counters PROVE Total(CounterOf(f), q[c]) = Tally(Messages(c))[f]
  BY <1>1, <1>2, CountersStateFree
<1>4. ASSUME NEW s \in Seq(ClientMsg) PROVE Cardinality(Acked(s)) = CounterOf("count12")[s]
  BY <1>4 DEF Acked, CounterOf, Tally
<1>5. Total(CounterOf("count12"), q[c]) = CounterOf("count12")[Messages(c)]
  BY <1>2, CountersStateFree DEF Counters
<1> QED BY <1>1, <1>2, <1>3, <1>4, <1>5 DEF Window, Load

(* Unless messages of QoS 0 are queued, the four counters flow control      *)
(* decides by are what the two lists hold, although every function of       *)
(* database.c adjusts them on its own and the reset at a reconnection       *)
(* builds them up anew.                                                     *)
THEOREM CountersAlwaysExact ==
  ASSUME ~QueueQoS0
  PROVE  Spec => []CountersExact
<1>1. ASSUME Typed(ExactQueues) PROVE CountersExact
  <2>1. SUFFICES ASSUME NEW c \in Clients PROVE q[c].tally = Tally(Messages(c))
    BY DEF CountersExact
  <2>2. q[c] \in ExactQueues /\ q[c] \in SoundQueues
    BY <1>1 DEF Typed, ExactQueues
  <2>3. q[c].tally \in Tallies /\ Tally(Messages(c)) \in Tallies
    BY <2>2, ListCounts, SoundParts, TallyType
  <2>4. \A f \in Counters : q[c].tally[f] = Tally(Messages(c))[f]
    BY <2>2, ListCounts DEF ExactQueues
  <2> QED BY <2>3, <2>4 DEF Tallies, Counters
<1> QED BY <1>1, ExactAlways, PTL

(* Unless messages of QoS 0 are queued, the broker never exchanges more     *)
(* messages of QoS 1 and 2 with a client at a time than                     *)
(* max_inflight_messages, whichever way they came into flight.              *)
THEOREM WindowAlwaysKept ==
  ASSUME ~QueueQoS0
  PROVE  Spec => []InflightWindow
<1>1. ASSUME Typed(ExactQueues) PROVE InflightWindow
  <2>1. SUFFICES ASSUME MaxInflight # 0, NEW c \in Clients
                 PROVE  Cardinality(Acked(q[c].inflight)) <= MaxInflight
    BY DEF InflightWindow
  <2>2. q[c] \in ExactQueues /\ q[c] \in SoundQueues
    BY <1>1 DEF Typed, ExactQueues
  <2> QED BY <2>1, <2>2, ListCounts DEF ExactQueues
<1> QED BY <1>1, ExactAlways, PTL

(* Unless messages of QoS 0 are queued, no client has more messages of QoS  *)
(* 1 and 2 waiting than max_queued_messages above the window, over          *)
(* connections and disconnections that change what is compared.             *)
THEOREM QueueAlwaysBounded ==
  ASSUME ~QueueQoS0
  PROVE  Spec => []QueueBounded
<1>1. ASSUME Typed(ExactQueues) PROVE QueueBounded
  <2>1. SUFFICES ASSUME MaxInflight # 0, MaxQueued # 0, NEW c \in Clients
                 PROVE  Cardinality(Acked(Messages(c))) <= MaxInflight + MaxQueued
    BY DEF QueueBounded
  <2>2. q[c] \in ExactQueues /\ q[c] \in SoundQueues
    BY <1>1 DEF Typed, ExactQueues
  <2> QED BY <2>1, <2>2, ListCounts DEF ExactQueues
<1> QED BY <1>1, ExactAlways, PTL

(* An identifier of the client names one message of its context at most:    *)
(* what db__message_store_find and db__message_release find first is the    *)
(* only one there is, whatever was moved, reset or removed in between.      *)
THEOREM IdentifiersUnique == Spec => []InMidsUnique
<1>1. ASSUME Typed(UniqueQueues) PROVE InMidsUnique
  <2>1. SUFFICES ASSUME NEW c \in Clients, NEW i \in DOMAIN Messages(c), NEW j \in DOMAIN Messages(c),
                        Messages(c)[i].dir = "in", Messages(c)[j].dir = "in",
                        Messages(c)[i].mid = Messages(c)[j].mid
                 PROVE  i = j
    BY DEF InMidsUnique
  <2> DEFINE s   == Messages(c)
             mid == s[i].mid
  <2>2. q[c] \in UniqueQueues /\ q[c] \in SoundQueues
    BY <1>1 DEF Typed, UniqueQueues
  <2>3. s \in Seq(ClientMsg)
    BY <2>2, ListCounts
  <2>4. s[i] \in ClientMsg /\ s[j] \in ClientMsg /\ mid \in Nat
    <3>1. s[i] \in ClientMsg /\ s[j] \in ClientMsg
      BY <2>1, <2>3
    <3> QED BY <3>1 DEF ClientMsg
  <2>5. s[i] \in Ins(mid) /\ s[j] \in Ins(mid)
    BY <2>1, <2>4 DEF Ins
  <2>6. InCount(mid)[s] <= 1
    BY <2>2, <2>4, ListCounts, InCountsStateFree DEF UniqueQueues
  <2> HIDE DEF s
  <2> QED BY <2>1, <2>3, <2>5, <2>6, FewCounted DEF InCount, s
<1> QED BY <1>1, UniqueAlways, PTL

-----------------------------------------------------------------------------
(* Which messages a context holds, whatever state they are in.  A           *)
(* publication of QoS 2 goes to the subscribers once at most, and a session *)
(* that goes on loses no message.                                           *)

-----------------------------------------------------------------------------
(* Kinds of messages, and the queues that hold one of a kind.               *)

(* A set of messages that does not look at their states, and the contexts   *)
(* with such a message in one of their lists.                               *)
Kind(A) == A \subseteq ClientMsg /\ \A m, n \in ClientMsg : Twins(m, n) /\ m \in A => n \in A

Has(cq, A) == \/ \E i \in DOMAIN cq.inflight : cq.inflight[i] \in A
              \/ \E i \in DOMAIN cq.queued : cq.queued[i] \in A

KindCount(A) == Counts(ClientMsg, A)

(* A list holds one of a kind when the count of the kind is not 0.          *)
LEMMA ListHas ==
  ASSUME NEW A, NEW s \in Seq(ClientMsg)
  PROVE  /\ KindCount(A)[s] \in Nat
         /\ KindCount(A)[s] > 0 <=> \E i \in DOMAIN s : s[i] \in A
<1> DEFINE P == {i \in DOMAIN s : s[i] \in A}
<1>1. KindCount(A)[s] = Cardinality(P)
  BY DEF KindCount, Counts
<1>2. IsFiniteSet(P)
  <2>1. IsFiniteSet(DOMAIN s) /\ P \subseteq DOMAIN s
    BY FiniteDomain
  <2> HIDE DEF P
  <2> QED BY <2>1, FS_Subset
<1>3. (\E i \in DOMAIN s : s[i] \in A) <=> P # {}
  OBVIOUS
<1> HIDE DEF P
<1>4. Cardinality(P) \in Nat /\ (Cardinality(P) = 0 <=> P = {})
  BY <1>2, FS_CardinalityType, FS_EmptySet
<1> QED BY <1>1, <1>3, <1>4

(* The count of a kind is one of the sums that do not look at states.       *)
LEMMA KindStateFree ==
  ASSUME NEW A, Kind(A)
  PROVE  /\ StateFree(KindCount(A))
         /\ \A m \in ClientMsg : KindCount(A)[<<m>>] = IF m \in A THEN 1 ELSE 0
<1>1. /\ Additive(KindCount(A), ClientMsg)
      /\ \A m \in ClientMsg : KindCount(A)[<<m>>] = IF m \in A THEN 1 ELSE 0
  BY CountsAdditive DEF KindCount
<1>2. \A m, n \in ClientMsg : Twins(m, n) => (m \in A <=> n \in A)
  BY DEF Kind, Twins
<1>3. \A m, n \in ClientMsg : Twins(m, n) => KindCount(A)[<<m>>] = KindCount(A)[<<n>>]
  BY <1>1, <1>2
<1> QED BY <1>1, <1>3 DEF StateFree

(* A context has a message of a kind when the count over both lists is not  *)
(* 0.                                                                       *)
LEMMA HasTotal ==
  ASSUME NEW cq \in SoundQueues, NEW A
  PROVE  Total(KindCount(A), cq) \in Nat /\ (Has(cq, A) <=> Total(KindCount(A), cq) > 0)
<1> DEFINE a == KindCount(A)[cq.inflight]
           b == KindCount(A)[cq.queued]
<1>1. /\ a \in Nat /\ (a > 0 <=> \E i \in DOMAIN cq.inflight : cq.inflight[i] \in A)
      /\ b \in Nat /\ (b > 0 <=> \E i \in DOMAIN cq.queued : cq.queued[i] \in A)
  BY SoundParts, ListHas
<1>2. Total(KindCount(A), cq) = a + b
  BY DEF Total
<1> HIDE DEF a, b
<1>3. a + b \in Nat /\ (a + b > 0 <=> a > 0 \/ b > 0)
  BY <1>1
<1> QED BY <1>1, <1>2, <1>3 DEF Has

(* What a walk that removes the messages at K leaves is no more than there  *)
(* was, and all of a kind that it does not remove.                          *)
LEMMA LeavesHas ==
  ASSUME NEW cq \in SoundQueues, NEW r \in SoundQueues, NEW K \in SUBSET (DOMAIN cq.inflight),
         Leaves(cq, r, K), NEW A, Kind(A)
  PROVE  /\ Has(r, A) => Has(cq, A)
         /\ (\A i \in K : cq.inflight[i] \notin A) => (Has(cq, A) => Has(r, A))
<1> DEFINE F == KindCount(A)
           s == cq.inflight
           P == {i \in K : s[i] \in A}
           a == Total(F, cq)
           b == Total(F, r)
           k == F[Keep(s, K)]
<1>1. b = a - k
  BY KindStateFree DEF Leaves
<1>2. /\ a \in Nat /\ (Has(cq, A) <=> a > 0)
      /\ b \in Nat /\ (Has(r, A) <=> b > 0)
  BY HasTotal
<1>3. s \in Seq(ClientMsg) /\ K \in SUBSET (DOMAIN s)
  BY SoundParts
<1>4. k = Cardinality(P)
  <2> HIDE DEF s
  <2> QED BY <1>3, KeepCounts DEF KindCount
<1>5. IsFiniteSet(P)
  <2>1. IsFiniteSet(K) /\ P \subseteq K
    BY <1>3, FiniteDomain
  <2> HIDE DEF P
  <2> QED BY <2>1, FS_Subset
<1>6. (\A i \in K : s[i] \notin A) => P = {}
  OBVIOUS
<1> HIDE DEF F, P, a, b, k
<1>7. k \in Nat /\ (P = {} => k = 0)
  BY <1>4, <1>5, FS_CardinalityType, FS_EmptySet
<1>8. (b > 0 => a > 0) /\ (k = 0 => a = b)
  BY <1>1, <1>2, <1>7
<1> QED BY <1>2, <1>6, <1>7, <1>8 DEF s

(* db__message_insert.                                                      *)
LEMMA InsertHas ==
  ASSUME NEW cq \in SoundQueues, NEW online \in BOOLEAN, NEW s \in Stored,
         NEW mid \in Nat, NEW dir \in {"in", "out"}, NEW qos \in QoS, NEW A, Kind(A)
  PROVE  /\ Insert(cq, online, s, mid, dir, qos) \in SoundQueues
         /\ Has(Insert(cq, online, s, mid, dir, qos), A)
              <=> \/ Has(cq, A)
                  \/ InsertState(cq, online, dir, qos) # "dropped" /\ NewMsg(s, mid, dir, qos) \in A
<1> DEFINE F  == KindCount(A)
           r  == Insert(cq, online, s, mid, dir, qos)
           m  == NewMsg(s, mid, dir, qos)
           st == InsertState(cq, online, dir, qos)
           a  == Total(F, cq)
           b  == Total(F, r)
           k  == F[<<m>>]
<1>1. r \in SoundQueues
  BY InsertSound
<1>2. /\ m \in ClientMsg /\ (st = "dropped" => r = cq)
      /\ st # "dropped" => b = a + k
  BY KindStateFree, InsertTotal
<1>3. k = IF m \in A THEN 1 ELSE 0
  BY <1>2, KindStateFree
<1> HIDE DEF r
<1>4. /\ a \in Nat /\ (Has(cq, A) <=> a > 0)
      /\ b \in Nat /\ (Has(r, A) <=> b > 0)
  BY <1>1, HasTotal
<1> HIDE DEF a, b, k, m, st
<1>5. CASE st = "dropped"
  BY <1>1, <1>2, <1>5 DEF r, st
<1>6. CASE st # "dropped"
  <2>1. b > 0 <=> a > 0 \/ m \in A
    BY <1>2, <1>3, <1>4, <1>6
  <2> QED BY <1>1, <1>4, <1>6, <2>1 DEF r, st, m
<1> QED BY <1>5, <1>6

(* What moves no message in or out keeps every kind.                        *)
LEMMA SameHas ==
  ASSUME NEW cq \in SoundQueues, NEW r \in SoundQueues,
         \A F : StateFree(F) => Total(F, r) = Total(F, cq), NEW A, Kind(A)
  PROVE  Has(r, A) <=> Has(cq, A)
<1>1. Total(KindCount(A), r) = Total(KindCount(A), cq)
  BY KindStateFree
<1> QED BY <1>1, HasTotal

(* A new context has no message of any kind, whatever its last identifier.  *)
LEMMA EmptyHas ==
  ASSUME NEW n, NEW A
  PROVE  ~Has(EmptyQueue, A) /\ ~Has([EmptyQueue EXCEPT !.last_mid = n], A)
<1>1. /\ DOMAIN EmptyQueue.inflight = {} /\ DOMAIN EmptyQueue.queued = {}
      /\ DOMAIN [EmptyQueue EXCEPT !.last_mid = n].inflight = {}
      /\ DOMAIN [EmptyQueue EXCEPT !.last_mid = n].queued = {}
  BY DEF EmptyQueue
<1> QED BY <1>1 DEF Has

(* db__message_release removes the one message with its identifier.         *)
LEMMA ReleaseHas ==
  ASSUME NEW cq \in UniqueQueues, NEW mid \in Nat, Matching(cq.inflight, mid, "in") # {},
         NEW A, Kind(A), A \subseteq Ins(mid)
  PROVE  ~Has(Release(cq, mid), A)
<1> DEFINE r == Release(cq, mid)
           s == cq.inflight
           K == Matching(s, mid, "in")
           F == InCount(mid)
           a == Total(F, cq)
           b == Total(F, r)
           k == F[Keep(s, K)]
<1>1. cq \in SoundQueues /\ r \in SoundQueues
  BY ReleaseSound DEF UniqueQueues
<1>2. s \in Seq(ClientMsg) /\ K \in SUBSET (DOMAIN s) /\ \A i \in K : s[i] \in Ins(mid)
  BY <1>1, SoundParts DEF Matching, Ins
<1>3. Leaves(cq, r, K)
  BY <1>1, ReleaseLeaves
<1>4. b = a - k
  BY <1>3, InCountsStateFree DEF Leaves
<1>5. k = Cardinality(K)
  <2>1. {i \in K : s[i] \in Ins(mid)} = K
    BY <1>2
  <2> HIDE DEF s, K
  <2>2. k = Cardinality({i \in K : s[i] \in Ins(mid)})
    BY <1>2, KeepCounts DEF InCount
  <2> QED BY <2>1, <2>2
<1>6. K # {} /\ IsFiniteSet(K)
  BY <1>2, FiniteDomain
<1>7. a <= 1
  BY DEF UniqueQueues
<1>8. a \in Nat /\ b \in Nat /\ (b > 0 <=> Has(r, Ins(mid)))
  BY <1>1, HasTotal DEF InCount, KindCount
<1> HIDE DEF a, b, k, r, K
<1>9. k \in Nat /\ k # 0
  BY <1>5, <1>6, FS_CardinalityType, FS_EmptySet
<1>10. b = 0
  BY <1>4, <1>7, <1>8, <1>9
<1>11. ~Has(r, Ins(mid))
  BY <1>8, <1>10
<1> QED BY <1>11 DEF Has, r

-----------------------------------------------------------------------------
(* What the functions of database.c do to the messages from the client, and *)
(* to those of QoS 1 and 2.                                                 *)

Incoming == {m \in ClientMsg : m.dir = "in"}
Lasting  == {m \in ClientMsg : m.qos > 0}

(* No kind of message from the client is new, no kind of message of QoS 1   *)
(* or 2 is lost.                                                            *)
Fewer(cq, r) == \A A \in SUBSET Incoming : Kind(A) /\ Has(r, A) => Has(cq, A)
Keeps(cq, r) == \A A \in SUBSET Lasting : Kind(A) /\ Has(cq, A) => Has(r, A)

(* Removing messages in flight adds no kind, and loses none of QoS 1 or 2   *)
(* unless one of those removed was of QoS 1 or 2.                           *)
LEMMA LeavesStays ==
  ASSUME NEW cq \in SoundQueues, NEW r \in SoundQueues, NEW K \in SUBSET (DOMAIN cq.inflight),
         Leaves(cq, r, K)
  PROVE  /\ Fewer(cq, r)
         /\ (\A i \in K : cq.inflight[i] \notin Lasting) => Keeps(cq, r)
<1>1. ASSUME NEW A, Kind(A), Has(r, A) PROVE Has(cq, A)
  BY <1>1, LeavesHas
<1>2. ASSUME \A i \in K : cq.inflight[i] \notin Lasting, NEW A \in SUBSET Lasting,
             Kind(A), Has(cq, A)
      PROVE  Has(r, A)
  <2>1. \A i \in K : cq.inflight[i] \notin A
    BY <1>2
  <2> QED BY <1>2, <2>1, LeavesHas
<1> QED BY <1>1, <1>2 DEF Fewer, Keeps

(* What a write removes is of QoS 0.                                        *)
LEMMA WriteStays ==
  ASSUME NEW cq \in SoundQueues, NEW r \in SoundQueues, NEW P \in SUBSET (DOMAIN cq.inflight),
         Leaves(cq, r, SentQoS0(cq, P))
  PROVE  Fewer(cq, r) /\ Keeps(cq, r)
<1> DEFINE K == SentQoS0(cq, P)
<1>1. K \in SUBSET (DOMAIN cq.inflight)
  BY DEF SentQoS0
<1>2. ASSUME NEW i \in K PROVE cq.inflight[i] \notin Lasting
  <2>1. cq.inflight[i] \in InflightMsg
    BY <1>1, SoundParts
  <2>2. cq.inflight[i].state = "publish_qos0"
    BY DEF SentQoS0
  <2>3. cq.inflight[i].qos = 0
    BY <2>1, <2>2 DEF InflightMsg, Acknowledged
  <2> QED BY <2>3 DEF Lasting
<1> HIDE DEF K
<1>3. Leaves(cq, r, K)
  BY DEF K
<1> QED BY <1>1, <1>2, <1>3, LeavesStays

(* db__message_insert for the client loses nothing and adds nothing from    *)
(* it.                                                                      *)
LEMMA OfferStays ==
  ASSUME NEW cq \in SoundQueues, NEW online \in BOOLEAN, NEW s \in Stored, NEW qos \in QoS
  PROVE  Fewer(cq, Offer(cq, online, s, qos)) /\ Keeps(cq, Offer(cq, online, s, qos))
<1> DEFINE mid == IF qos = 0 THEN 0 ELSE NextMid(cq.last_mid)
           u   == [cq EXCEPT !.last_mid = IF qos = 0 THEN @ ELSE mid]
           out == "out"
           m   == NewMsg(s, mid, out, qos)
<1>1. cq.last_mid \in Nat
  BY SoundParts
<1>2. mid \in Nat /\ (IF qos = 0 THEN cq.last_mid ELSE mid) \in Nat
  BY <1>1 DEF NextMid
<1>3. u \in SoundQueues /\ u.inflight = cq.inflight /\ u.queued = cq.queued
  BY <1>2 DEF SoundQueues
<1>4. \A A : Has(u, A) <=> Has(cq, A)
  BY <1>3 DEF Has
<1>5. Offer(cq, online, s, qos) = Insert(u, online, s, mid, out, qos)
  BY DEF Offer
<1>6. m \notin Incoming
  BY DEF Incoming, NewMsg
<1>7. out \in {"in", "out"}
  OBVIOUS
<1> HIDE DEF mid, u, out, m
<1>8. ASSUME NEW A, Kind(A)
      PROVE  /\ Has(cq, A) => Has(Insert(u, online, s, mid, out, qos), A)
             /\ Has(Insert(u, online, s, mid, out, qos), A) => Has(cq, A) \/ m \in A
  BY <1>2, <1>3, <1>4, <1>7, <1>8, InsertHas DEF m
<1> QED BY <1>5, <1>6, <1>8 DEF Fewer, Keeps

(* The queues of all clients: no kind of message is new for those of I, and *)
(* none is lost for those of O.                                             *)
Stays(qs, rs, I, O) == (\A x \in I : Fewer(qs[x], rs[x])) /\ (\A x \in O : Keeps(qs[x], rs[x]))

(* Doing nothing loses and adds nothing, and two calls in a row lose and    *)
(* add no more than each of them.                                           *)
LEMMA StaysThen ==
  /\ \A qs, I, O : Stays(qs, qs, I, O)
  /\ \A qs, rs, ts, I, O : Stays(qs, rs, I, O) /\ Stays(rs, ts, I, O) => Stays(qs, ts, I, O)
<1>1. \A cq : Fewer(cq, cq) /\ Keeps(cq, cq)
  BY DEF Fewer, Keeps
<1>2. \A cq, u, r : Fewer(cq, u) /\ Fewer(u, r) => Fewer(cq, r)
  BY DEF Fewer
<1>3. \A cq, u, r : Keeps(cq, u) /\ Keeps(u, r) => Keeps(cq, r)
  BY DEF Keeps
<1> QED BY <1>1, <1>2, <1>3 DEF Stays

(* sub__messages_queue.                                                     *)
LEMMA RouteStays ==
  ASSUME SessionTyped, NEW w \in Worlds(SoundQueues), NEW s \in Stored, NEW qos \in QoS, NEW skip
  PROVE  Stays(w.q, Route(w, s, qos, skip).q, Clients, Clients)
<1> DEFINE r == Route(w, s, qos, skip)
           to == {c \in Clients \ skip : leaf[c] # NoLeaf}
<1>1. r.q = [c \in Clients |->
               IF c \in to THEN Offer(w.q[c], Online(c), s, OutQoS(qos, leaf[c])) ELSE w.q[c]]
  BY DEF Route, Worlds
<1>2. ASSUME NEW x \in Clients PROVE Fewer(w.q[x], r.q[x]) /\ Keeps(w.q[x], r.q[x])
  <2> DEFINE o  == OutQoS(qos, leaf[x])
             on == Online(x)
  <2>1. w.q[x] \in SoundQueues
    BY WorldParts
  <2>2. CASE x \in to
    <3>1. leaf[x] \in QoS
      BY <2>2 DEF SessionTyped
    <3>2. o \in QoS /\ on \in BOOLEAN
      BY <3>1, OutQoSType DEF Online
    <3>3. r.q[x] = Offer(w.q[x], on, s, o)
      BY <1>1, <2>2
    <3> HIDE DEF o, on, r
    <3> QED BY <2>1, <3>2, <3>3, OfferStays
  <2>3. CASE x \notin to
    <3>1. r.q[x] = w.q[x]
      BY <1>1, <2>3
    <3> QED BY <3>1 DEF Fewer, Keeps
  <2> QED BY <2>2, <2>3
<1> QED BY <1>2 DEF Stays

(* context__send_will.                                                      *)
LEMMA SendWillStays ==
  ASSUME SessionTyped, NEW w \in Worlds(SoundQueues), NEW c, NEW skip
  PROVE  /\ SendWill(w, c, skip) \in Worlds(SoundQueues)
         /\ Stays(w.q, SendWill(w, c, skip).q, Clients, Clients)
<1> DEFINE s == Fresh(w, 0, 0, WillQoS, WillLen, WillRetain, TRUE)
           u == StoreMsg(w, s)
<1>1. WillQoS \in QoS /\ WillLen \in 0..MaxLen /\ WillRetain \in BOOLEAN
  BY BrokerAssumption, LimitsAssumption
<1>2. s \in Stored /\ s.id = w.last_db_id + 1
  BY <1>1, FreshType
<1>3. SendWill(w, c, skip) = IF will[c] THEN Route(u, s, WillQoS, skip) ELSE w
  BY DEF SendWill
<1> HIDE DEF s
<1>4. u \in Worlds(SoundQueues)
  BY <1>2, StoreMsgType
<1>5. u.q = w.q
  BY DEF StoreMsg, Worlds
<1> HIDE DEF u
<1>6. Stays(u.q, Route(u, s, WillQoS, skip).q, Clients, Clients)
  BY <1>1, <1>2, <1>4, RouteStays
<1>7. Stays(w.q, w.q, Clients, Clients)
  BY StaysThen
<1>8. SendWill(w, c, skip) \in Worlds(SoundQueues)
  BY SoundClosed, SendWillType DEF Closed
<1> QED BY <1>3, <1>5, <1>6, <1>7, <1>8

(* context__add_to_disused empties the queue of its client only.            *)
LEMMA DiscardStays ==
  ASSUME NEW w \in Worlds(SoundQueues), NEW c \in Clients
  PROVE  /\ Discard(w, c) \in Worlds(SoundQueues)
         /\ Stays(w.q, Discard(w, c).q, Clients, Clients \ {c})
<1>1. Discard(w, c) \in Worlds(SoundQueues)
  BY SoundClosed, DiscardType DEF Closed
<1>2. Discard(w, c).q = [w.q EXCEPT ![c] = EmptyQueue]
  BY DEF Discard, Worlds
<1>3. ASSUME NEW x \in Clients
      PROVE  Fewer(w.q[x], Discard(w, c).q[x]) /\ (x # c => Keeps(w.q[x], Discard(w, c).q[x]))
  <2>1. w.q \in [Clients -> SoundQueues]
    BY WorldParts
  <2>2. CASE x = c
    <3>1. Discard(w, c).q[x] = EmptyQueue
      BY <1>2, <2>1, <2>2
    <3> QED BY <2>2, <3>1, EmptyHas DEF Fewer
  <2>3. CASE x # c
    <3>1. Discard(w, c).q[x] = w.q[x]
      BY <1>2, <2>1, <2>3
    <3> QED BY <3>1 DEF Fewer, Keeps
  <2> QED BY <2>2, <2>3
<1> QED BY <1>1, <1>3 DEF Stays

(* No session begins: one that goes on keeps its flag, and one that ends    *)
(* leaves no message in a list.                                             *)
Live(c) == conn[c] # "none"

EndsAt(x) ==
  /\ Live(x)' => Live(x) /\ clean'[x] = clean[x]
  /\ Live(x) /\ ~Live(x)' => \A A : ~Has(q'[x], A)

Ends == \A x \in Clients : EndsAt(x)

(* do_disconnect: a clean session ends with its connection.                 *)
LEMMA DisconnectedStays ==
  ASSUME SessionTyped, NEW w \in Worlds(SoundQueues), NEW c \in Clients, Disconnected(w, c)
  PROVE  Stays(w.q, q', Clients, {x \in Clients : conn'[x] # "none"}) /\ (Live(c) => Ends)
<1> DEFINE O == {x \in Clients : conn'[x] # "none"}
<1>1. ASSUME conn[c] # "none" PROVE Ends
  <2>1. /\ conn' = [conn EXCEPT ![c] = IF clean[c] THEN "none" ELSE "offline"]
        /\ clean' = clean
    BY DEF Disconnected
  <2>2. ASSUME clean[c] PROVE q'[c] = EmptyQueue
    <3>1. q' = [w.q EXCEPT ![c] = EmptyQueue]
      BY <2>2 DEF Disconnected, Become, Discard, Worlds
    <3> QED BY <3>1, WorldParts
  <2>3. ASSUME NEW x \in Clients
        PROVE  /\ conn'[x] # "none" => conn[x] # "none" /\ clean'[x] = clean[x]
               /\ conn[x] # "none" /\ conn'[x] = "none" => x = c /\ clean[c]
    BY <1>1, <2>1 DEF SessionTyped
  <2>4. ASSUME NEW x \in Clients, conn[x] # "none" /\ conn'[x] = "none", NEW A
        PROVE  ~Has(q'[x], A)
    BY <2>2, <2>3, <2>4, EmptyHas
  <2> QED BY <2>3, <2>4 DEF Ends, EndsAt, Live
<1>2. ASSUME clean[c] PROVE Stays(w.q, q', Clients, O)
  <2>1. q' = Discard(w, c).q
    BY <1>2 DEF Disconnected, Become
  <2>2. conn'[c] = "none"
    BY <1>2 DEF Disconnected, SessionTyped
  <2>3. O \subseteq Clients \ {c}
    BY <2>2
  <2> HIDE DEF O
  <2> QED BY <2>1, <2>3, DiscardStays DEF Stays
<1>3. ASSUME ~clean[c] PROVE Stays(w.q, q', Clients, O)
  <2>1. q' = w.q
    BY <1>3 DEF Disconnected, Become
  <2> QED BY <2>1, StaysThen
<1>4. clean[c] \in BOOLEAN
  BY DEF SessionTyped
<1> QED BY <1>2, <1>3, <1>1, <1>4 DEF Live

(* What changes the queue of one client only.                               *)
LEMMA OneStays ==
  ASSUME NEW R, NEW qs \in [Clients -> R], NEW c \in Clients, NEW cq,
         Fewer(qs[c], cq)
  PROVE  /\ Stays(qs, [qs EXCEPT ![c] = cq], Clients, Clients \ {c})
         /\ Keeps(qs[c], cq) => Stays(qs, [qs EXCEPT ![c] = cq], Clients, Clients)
<1> DEFINE r == [qs EXCEPT ![c] = cq]
<1>1. ASSUME NEW x \in Clients
      PROVE  Fewer(qs[x], r[x]) /\ (x # c \/ Keeps(qs[c], cq) => Keeps(qs[x], r[x]))
  <2>1. CASE x = c
    <3>1. r[x] = cq
      BY <2>1
    <3> QED BY <2>1, <3>1
  <2>2. CASE x # c
    <3>1. r[x] = qs[x]
      BY <2>2
    <3> QED BY <3>1 DEF Fewer, Keeps
  <2> QED BY <2>1, <2>2
<1> QED BY <1>1 DEF Stays

-----------------------------------------------------------------------------
(* The handlers.  A calm step brings no kind of message from a client into  *)
(* its lists, and takes none for it out of those of a session that goes on. *)

Continuing == {x \in Clients : SessionKept(x)}
Calm == Stays(q, q', Clients, Continuing)

(* A step made of two parts that add nothing, and of which the second may   *)
(* end sessions, is calm.                                                   *)
LEMMA StaysCalm ==
  ASSUME NEW w, Stays(q, w.q, Clients, Clients), Stays(w.q, q', Clients, Continuing)
  PROVE  Calm
<1>1. Stays(q, w.q, Clients, Continuing)
  BY DEF Stays, Continuing
<1> QED BY <1>1, StaysThen DEF Calm

(* handle__disconnect, a connection that is lost and a session that         *)
(* expires.                                                                 *)
LEMMA LeaveCalm ==
  ASSUME Typed(SoundQueues), NEW c \in Clients, Disconnect(c) \/ ConnectionLost(c) \/ Expire(c)
  PROVE  Calm /\ Ends
<1> DEFINE O == {x \in Clients : conn'[x] # "none"}
           will_sent == SendWill(World, c, {})
<1>1. World \in Worlds(SoundQueues) /\ SessionTyped /\ World.q = q
  BY WorldType DEF Typed, World
<1>2. will_sent \in Worlds(SoundQueues) /\ Stays(q, will_sent.q, Clients, Clients)
  BY <1>1, SendWillStays
<1>3. Continuing \subseteq O
  BY DEF Continuing, SessionKept
<1>4. Live(c)
  BY DEF Disconnect, ConnectionLost, Expire, Event, Online, Live
<1> HIDE DEF will_sent, O
<1>5. CASE Disconnect(c)
  <2>1. Stays(q, q', Clients, O) /\ Ends
    BY <1>1, <1>5, <1>4, DisconnectedStays DEF Disconnect, O
  <2> QED BY <1>3, <2>1 DEF Calm, Stays
<1>6. CASE ConnectionLost(c)
  <2>1. Disconnected(will_sent, c)
    BY <1>6 DEF ConnectionLost, will_sent
  <2>2. Stays(will_sent.q, q', Clients, O) /\ Ends
    BY <1>1, <1>2, <1>4, <2>1, DisconnectedStays DEF O
  <2>3. Stays(will_sent.q, q', Clients, Continuing)
    BY <1>3, <2>2 DEF Stays
  <2> QED BY <1>2, <2>2, <2>3, StaysCalm
<1>7. CASE Expire(c)
  <2>1. q' = Discard(World, c).q /\ conn'[c] = "none"
    BY <1>1, <1>7 DEF Expire, Become, SessionTyped
  <2>2. Continuing \subseteq Clients \ {c}
    BY <2>1 DEF Continuing, SessionKept
  <2>3. Stays(q, q', Clients, Clients \ {c})
    BY <1>1, <2>1, DiscardStays
  <2>4. Ends
    <3>1. /\ conn' = [conn EXCEPT ![c] = "none"] /\ clean' = [clean EXCEPT ![c] = TRUE]
          /\ q' = [q EXCEPT ![c] = EmptyQueue]
      BY <1>7 DEF Expire, Become, Discard, World
    <3>2. ASSUME NEW x \in Clients
          PROVE  /\ conn'[x] # "none" => conn[x] # "none" /\ clean'[x] = clean[x]
                 /\ conn[x] # "none" /\ conn'[x] = "none" => x = c
      BY <1>1, <3>1 DEF SessionTyped
    <3>3. q'[c] = EmptyQueue
      BY <3>1 DEF Typed
    <3>4. ASSUME NEW x \in Clients, conn[x] # "none" /\ conn'[x] = "none", NEW A
          PROVE  ~Has(q'[x], A)
      BY <3>2, <3>3, <3>4, EmptyHas
    <3> QED BY <3>2, <3>4 DEF Ends, EndsAt, Live
  <2> QED BY <2>2, <2>3, <2>4 DEF Calm, Stays
<1> QED BY <1>5, <1>6, <1>7

(* handle__connect: a session that goes on takes its queue along, and the   *)
(* will of the old connection does not touch it.  The others lose nothing,  *)
(* and a session that is discarded is that of the client that connects.     *)
LEMMA ConnectCalm ==
  ASSUME Typed(SoundQueues), NEW c \in Clients, Connect(c)
  PROVE  Calm /\ Stays(q, q', Clients, Clients \ {c})
<1>1. PICK cs \in Cleans, wl \in Wills :
        LET found == conn[c] # "none"
            moved == found /\ ~cs /\ ~clean[c]
            world == SendWill(World, c, IF moved THEN {c} ELSE {})
            empty == q[c].inflight = <<>> /\ q[c].queued = <<>>
        IN  /\ Become(IF ~moved THEN Discard(world, c)
                      ELSE IF empty THEN [world EXCEPT !.q[c] = [EmptyQueue EXCEPT !.last_mid = q[c].last_mid]]
                      ELSE [world EXCEPT !.q[c] = Reset(@)])
            /\ clean' = [clean EXCEPT ![c] = cs]
            /\ budget' = [budget EXCEPT !.connects = @ + 1]
  BY DEF Connect
<1> DEFINE moved == conn[c] # "none" /\ ~cs /\ ~clean[c]
           skip  == IF moved THEN {c} ELSE {}
           world == SendWill(World, c, skip)
           fresh == [EmptyQueue EXCEPT !.last_mid = q[c].last_mid]
           empty == q[c].inflight = <<>> /\ q[c].queued = <<>>
           reset == Reset(world.q[c])
           next  == IF ~moved THEN Discard(world, c)
                    ELSE IF empty THEN [world EXCEPT !.q[c] = fresh]
                    ELSE [world EXCEPT !.q[c] = Reset(@)]
<1>2. World \in Worlds(SoundQueues) /\ World.q = q /\ q[c] \in SoundQueues /\ SessionTyped
  BY WorldType DEF Typed, World
<1>3. Become(next)
  BY <1>1
<1>4. world \in Worlds(SoundQueues) /\ Stays(q, world.q, Clients, Clients)
  BY <1>2, SendWillStays
<1>5. ASSUME ~moved PROVE c \notin Continuing
  <2>1. clean'[c] = cs
    BY <1>1, <1>2 DEF SessionTyped
  <2>2. budget'.connects # budget.connects
    <3>1. budget.connects \in Nat /\ budget'.connects = budget.connects + 1
      BY <1>1 DEF Typed, PeerTyped
    <3> QED BY <3>1
  <2> QED BY <1>5, <2>1, <2>2 DEF Continuing, SessionKept
<1>6. moved => skip = {c}
  OBVIOUS
<1>7. ASSUME moved PROVE world.q[c] = q[c]
  <2>1. world = SendWill(World, c, {c})
    BY <1>6, <1>7
  <2> HIDE DEF world
  <2> QED BY <1>2, <2>1, SkipKeeps
<1>8. /\ ~moved => next = Discard(world, c)
      /\ moved /\ empty => next = [world EXCEPT !.q[c] = fresh]
      /\ moved /\ ~empty => next = [world EXCEPT !.q[c] = reset]
  OBVIOUS
<1>9. q' = next.q /\ world.q \in [Clients -> SoundQueues] /\ world.q[c] \in SoundQueues
  BY <1>3, <1>4, WorldParts DEF Become
<1> HIDE DEF world, next, skip
<1>10. ASSUME ~moved PROVE Calm /\ Stays(q, q', Clients, Clients \ {c})
  <2>1. Stays(world.q, q', Clients, Clients \ {c})
    BY <1>4, <1>8, <1>9, <1>10, DiscardStays
  <2>2. Continuing \subseteq Clients \ {c}
    BY <1>5, <1>10 DEF Continuing
  <2> HIDE DEF moved
  <2>3. Stays(world.q, q', Clients, Continuing)
    BY <2>1, <2>2 DEF Stays
  <2>4. Stays(q, world.q, Clients, Clients \ {c})
    BY <1>4 DEF Stays
  <2> QED BY <1>4, <2>1, <2>3, <2>4, StaysCalm, StaysThen
<1>11. ASSUME NEW cq, Fewer(world.q[c], cq), Keeps(world.q[c], cq),
              next = [world EXCEPT !.q[c] = cq]
       PROVE  Calm /\ Stays(q, q', Clients, Clients \ {c})
  <2>1. q' = [world.q EXCEPT ![c] = cq]
    <3>1. "q" \in DOMAIN world
      BY <1>4 DEF Worlds
    <3>2. [world EXCEPT !.q[c] = cq].q = [world.q EXCEPT ![c] = cq]
      BY <3>1
    <3> QED BY <1>9, <1>11, <3>2
  <2> DEFINE qs == world.q
  <2>2. /\ qs \in [Clients -> SoundQueues] /\ Fewer(qs[c], cq) /\ Keeps(qs[c], cq)
        /\ q' = [qs EXCEPT ![c] = cq]
    BY <1>9, <1>11, <2>1
  <2> HIDE DEF qs
  <2>3. Stays(qs, q', Clients, Clients)
    BY <2>2, OneStays
  <2>4. Stays(world.q, q', Clients, Continuing)
    BY <2>3 DEF Stays, Continuing, qs
  <2>5. Stays(q, q', Clients, Clients)
    BY <1>4, <2>3, StaysThen DEF qs
  <2>6. Stays(q, q', Clients, Clients \ {c})
    BY <2>5 DEF Stays
  <2> QED BY <1>4, <2>4, <2>6, StaysCalm
<1>12. ASSUME moved, empty PROVE Calm /\ Stays(q, q', Clients, Clients \ {c})
  <2>1. \A A : ~Has(world.q[c], A)
    BY <1>7, <1>12 DEF Has
  <2>2. \A A : ~Has(fresh, A)
    BY EmptyHas
  <2>3. Fewer(world.q[c], fresh) /\ Keeps(world.q[c], fresh)
    BY <2>1, <2>2 DEF Fewer, Keeps
  <2> QED BY <1>8, <1>11, <1>12, <2>3
<1>13. ASSUME moved, ~empty PROVE Calm /\ Stays(q, q', Clients, Clients \ {c})
  <2>1. reset \in SoundQueues
    BY <1>9, ResetSound
  <2>2. \A F : StateFree(F) => Total(F, reset) = Total(F, world.q[c])
    BY <1>9, ResetTotal
  <2> HIDE DEF reset, moved, empty, fresh
  <2>3. \A A : Kind(A) => (Has(reset, A) <=> Has(world.q[c], A))
    BY <1>9, <2>1, <2>2, SameHas
  <2>4. Fewer(world.q[c], reset) /\ Keeps(world.q[c], reset)
    BY <2>3 DEF Fewer, Keeps
  <2> QED BY <1>8, <1>11, <1>13, <2>4
<1> QED BY <1>10, <1>12, <1>13

(* handle__subscribe, handle__unsubscribe and handle__publish for QoS 0     *)
(* and 1.                                                                   *)
LEMMA SubscribeCalm ==
  ASSUME Typed(SoundQueues), NEW c \in Clients, Subscribe(c) \/ Unsubscribe(c) \/ Publish(c)
  PROVE  Calm
<1>1. World \in Worlds(SoundQueues) /\ SessionTyped /\ World.q = q
      /\ q \in [Clients -> SoundQueues]
  BY WorldType DEF Typed, World
<1>2. Stays(q, q, Clients, Continuing)
  BY StaysThen
<1>3. CASE Subscribe(c)
  <2>1. PICK qos \in SubQoS :
          LET r   == CHOOSE r \in retained : TRUE
              out == OutQoS(r.qos, qos)
          IN  IF retained = {} THEN UNCHANGED <<q, msg_store>>
              ELSE q' = [q EXCEPT ![c] = Offer(@, TRUE, r, out)]
    BY <1>3 DEF Subscribe
  <2> DEFINE r   == CHOOSE r \in retained : TRUE
             out == OutQoS(r.qos, qos)
             on  == TRUE
             cq  == Offer(q[c], on, r, out)
  <2>2. CASE retained = {}
    BY <1>2, <2>1, <2>2 DEF Calm
  <2>3. CASE retained # {}
    <3>1. r \in Stored
      BY <2>3 DEF Typed, StoreTyped
    <3>2. r.qos \in QoS /\ qos \in QoS
      BY <3>1, BrokerAssumption DEF Stored
    <3>3. q' = [q EXCEPT ![c] = cq]
      BY <2>1, <2>3
    <3> HIDE DEF r
    <3>4. out \in QoS /\ on \in BOOLEAN
      BY <3>2, OutQoSType
    <3> HIDE DEF out, on
    <3>5. Fewer(q[c], cq) /\ Keeps(q[c], cq)
      BY <1>1, <3>1, <3>4, OfferStays
    <3> HIDE DEF cq
    <3>6. Stays(q, q', Clients, Clients)
      BY <1>1, <3>3, <3>5, OneStays
    <3> QED BY <3>6 DEF Calm, Stays, Continuing
  <2> QED BY <2>2, <2>3
<1>4. CASE Unsubscribe(c)
  <2>1. q' = q
    BY <1>4 DEF Unsubscribe
  <2> QED BY <1>2, <2>1 DEF Calm
<1>5. CASE Publish(c)
  <2>1. PICK qos \in PubQoS \cap {0, 1}, len \in Lens, rt \in Retains :
          LET s == Fresh(World, 0, 0, qos, len, rt, TRUE)
          IN  Become(Route(StoreMsg(World, s), s, qos, {}))
    BY <1>5 DEF Publish
  <2> DEFINE s == Fresh(World, 0, 0, qos, len, rt, TRUE)
             u == StoreMsg(World, s)
  <2>2. qos \in QoS /\ len \in 0..MaxLen /\ rt \in BOOLEAN
    BY BrokerAssumption DEF QoS
  <2>3. s \in Stored /\ s.id = World.last_db_id + 1
    BY <1>1, <2>2, FreshType
  <2>4. Become(Route(u, s, qos, {}))
    BY <2>1
  <2> HIDE DEF s
  <2>5. u \in Worlds(SoundQueues) /\ u.q = q
    BY <1>1, <2>3, StoreMsgType DEF StoreMsg, World
  <2> HIDE DEF u
  <2>6. Stays(u.q, Route(u, s, qos, {}).q, Clients, Clients)
    BY <1>1, <2>2, <2>3, <2>5, RouteStays
  <2>7. Stays(q, q', Clients, Clients)
    BY <2>4, <2>5, <2>6 DEF Become
  <2> QED BY <2>7 DEF Calm, Stays, Continuing
<1> QED BY <1>3, <1>4, <1>5

(* handle__pubrec.                                                          *)
LEMMA PubrecCalm ==
  ASSUME Typed(SoundQueues), NEW c \in Clients, NEW mid \in Nat, Pubrec(c, mid)
  PROVE  Calm
<1> DEFINE st == "wait_for_pubcomp"
           cq == Update(q[c], mid, "out", st)
<1>1. q \in [Clients -> SoundQueues] /\ q[c] \in SoundQueues
  BY DEF Typed
<1>2. st \in OutStates /\ st \in States /\ st # "publish_qos0"
  BY DEF OutStates, States
<1>3. q' = [q EXCEPT ![c] = cq]
  BY DEF Pubrec
<1> HIDE DEF st
<1>4. cq \in SoundQueues
  BY <1>1, <1>2, UpdateSound
<1>5. \A F : StateFree(F) => Total(F, cq) = Total(F, q[c])
  BY <1>1, <1>2, UpdateTotal
<1> HIDE DEF cq
<1>6. \A A : Kind(A) => (Has(cq, A) <=> Has(q[c], A))
  BY <1>1, <1>4, <1>5, SameHas
<1>7. Fewer(q[c], cq) /\ Keeps(q[c], cq)
  BY <1>6 DEF Fewer, Keeps
<1>8. Stays(q, q', Clients, Clients)
  BY <1>1, <1>3, <1>7, OneStays
<1> QED BY <1>8 DEF Calm, Stays, Continuing

(* handle__pubackcomp takes what is acknowledged out of the lists, and      *)
(* nothing else.                                                            *)
LEMMA PubackcompStays ==
  ASSUME Typed(SoundQueues), NEW c \in Clients, NEW mid \in Nat, Pubackcomp(c, mid)
  PROVE  /\ Stays(q, q', Clients, Clients \ {c})
         /\ \A A \in SUBSET Lasting :
              Kind(A) /\ (\A m \in A : m.mid = mid => m.dir = "in") /\ Has(q[c], A) => Has(q'[c], A)
<1> DEFINE s  == q[c].inflight
           K  == Matching(s, mid, "out")
           cq == Delete(q[c], mid, "out")
<1>1. q \in [Clients -> SoundQueues] /\ q[c] \in SoundQueues
  BY DEF Typed
<1>2. q' = [q EXCEPT ![c] = cq] /\ q'[c] = cq
  BY <1>1 DEF Pubackcomp
<1>3. K \in SUBSET (DOMAIN s) /\ \A i \in K : s[i].mid = mid /\ s[i].dir = "out"
  BY DEF Matching
<1>4. cq \in SoundQueues /\ Leaves(q[c], cq, K)
  BY <1>1, DeleteSound, DeleteLeaves
<1> HIDE DEF K, cq
<1>5. Fewer(q[c], cq)
  BY <1>1, <1>3, <1>4, LeavesStays
<1>6. Stays(q, q', Clients, Clients \ {c})
  BY <1>1, <1>2, <1>5, OneStays
<1>7. ASSUME NEW A \in SUBSET Lasting, Kind(A), \A m \in A : m.mid = mid => m.dir = "in",
             Has(q[c], A)
      PROVE  Has(q'[c], A)
  <2>1. \A i \in K : s[i] \notin A
    BY <1>3, <1>7
  <2>2. Has(cq, A)
    BY <1>1, <1>3, <1>4, <1>7, <2>1, LeavesHas
  <2> QED BY <1>2, <2>2
<1> QED BY <1>6, <1>7

(* Queues with unique identifiers are sound.                                *)
LEMMA UniqueSound ==
  /\ UniqueQueues \subseteq SoundQueues /\ Worlds(UniqueQueues) \subseteq Worlds(SoundQueues)
  /\ Typed(UniqueQueues) => Typed(SoundQueues)
<1>1. UniqueQueues \subseteq SoundQueues
  BY DEF UniqueQueues
<1>2. [Clients -> UniqueQueues] \subseteq [Clients -> SoundQueues]
  BY <1>1
<1>3. Typed(UniqueQueues) => Typed(SoundQueues)
  BY <1>2 DEF Typed
<1>4. ASSUME NEW w \in Worlds(UniqueQueues) PROVE w \in Worlds(SoundQueues)
  BY <1>2 DEF Worlds
<1> QED BY <1>1, <1>3, <1>4

(* The messages from a client under an identifier that carry a publication. *)
InAs(mid, b) == {m \in Ins(mid) : m.store.body = b}

(* The messages from a client under an identifier that carry a publication  *)
(* are a kind of messages from clients.                                     *)
LEMMA InAsKind ==
  \A mid, b : Kind(InAs(mid, b)) /\ InAs(mid, b) \subseteq Ins(mid) /\ Ins(mid) \subseteq Incoming
BY DEF Kind, InAs, Ins, Incoming, Twins

(* What db__message_release routes: the first message that matches.         *)
Hit(c, mid) ==
  LET K == Matching(q[c].inflight, mid, "in")
  IN  q[c].inflight[CHOOSE i \in K : \A j \in K : i <= j].store

(* What db__message_release finds carries a publication that the context    *)
(* has.                                                                     *)
LEMMA HitHas ==
  ASSUME Typed(SoundQueues), NEW c \in Clients, NEW mid,
         Matching(q[c].inflight, mid, "in") # {}
  PROVE  /\ Hit(c, mid) \in Stored /\ Has(q[c], InAs(mid, Hit(c, mid).body))
         /\ \E i \in DOMAIN q[c].inflight : /\ q[c].inflight[i] \in Ins(mid)
                                           /\ q[c].inflight[i].store = Hit(c, mid)
<1> DEFINE K == Matching(q[c].inflight, mid, "in")
           f == CHOOSE i \in K : \A j \in K : i <= j
           m == q[c].inflight[f]
<1>1. q[c].inflight \in Seq(ClientMsg)
  BY SoundParts DEF Typed
<1>2. K # {} /\ K \subseteq Nat
  BY <1>1 DEF Matching
<1>3. f \in K
  <2> HIDE DEF K
  <2> QED BY <1>2, FirstIn
<1>4. f \in DOMAIN q[c].inflight /\ m \in ClientMsg /\ m.mid = mid /\ m.dir = "in"
  <2> HIDE DEF f
  <2> QED BY <1>1, <1>3 DEF Matching
<1>5. Hit(c, mid) = m.store
  BY DEF Hit
<1>6. m.store \in Stored /\ m \in InAs(mid, m.store.body) /\ m \in Ins(mid)
  BY <1>4 DEF InAs, Ins, ClientMsg
<1> HIDE DEF f
<1> QED BY <1>4, <1>5, <1>6 DEF Has

(* handle__pubrel: the message is in no list of the client any more.        *)
LEMMA PubrelStays ==
  ASSUME Typed(UniqueQueues), NEW c \in Clients, NEW mid \in Nat, NEW read,
         Pubrel(c, mid, read)
  PROVE  /\ Stays(q, q', Clients, Clients \ {c})
         /\ \A A \in SUBSET Lasting :
              Kind(A) /\ A \cap Ins(mid) = {} /\ Has(q[c], A) => Has(q'[c], A)
         /\ Matching(q[c].inflight, mid, "in") # {} => \A b : ~Has(q'[c], InAs(mid, b))
<1> DEFINE K  == Matching(q[c].inflight, mid, "in")
           h  == Hit(c, mid)
           w  == IF K # {} /\ h.topic THEN Route(World, h, h.qos, {}) ELSE World
           cq == Release(w.q[c], mid)
<1>1. /\ Typed(SoundQueues) /\ SessionTyped /\ World.q = q
      /\ World \in Worlds(UniqueQueues) /\ World \in Worlds(SoundQueues)
  BY UniqueSound, WorldType DEF Typed, World
<1>2. Become([w EXCEPT !.q[c] = Release(@, mid),
                       !.msg_store = DerefMsgs(@, w.q[c].inflight, K)])
  BY DEF Pubrel, Hit
<1>3. K # {} => h \in Stored /\ h.qos \in QoS
  BY <1>1, HitHas DEF Stored
<1> HIDE DEF h
<1>4. /\ w \in Worlds(UniqueQueues) /\ Stays(q, w.q, Clients, Clients)
      /\ Matching(w.q[c].inflight, mid, "in") = K
  <2>1. CASE K # {} /\ h.topic
    <3>1. h \in Stored /\ h.qos \in QoS /\ w = Route(World, h, h.qos, {})
      BY <1>3, <2>1
    <3> HIDE DEF w
    <3>2. Route(World, h, h.qos, {}) \in Worlds(UniqueQueues)
      BY <1>1, <3>1, UniqueClosed, RouteType DEF Closed
    <3>3. Stays(World.q, Route(World, h, h.qos, {}).q, Clients, Clients)
      BY <1>1, <3>1, RouteStays
    <3>4. Matching(Route(World, h, h.qos, {}).q[c].inflight, mid, "in")
            = Matching(World.q[c].inflight, mid, "in")
      <4> DEFINE W == World
                 o == h.qos
                 x == {}
      <4>1. SessionTyped /\ W \in Worlds(SoundQueues) /\ o \in QoS /\ h \in Stored
        BY <1>1, <3>1
      <4> HIDE DEF W, o, x
      <4>2. Matching(Route(W, h, o, x).q[c].inflight, mid, "in") = Matching(W.q[c].inflight, mid, "in")
        BY ONLY c \in Clients, <4>1, RouteMatching
      <4> QED BY <4>2 DEF W, o, x
    <3> QED BY <1>1, <3>1, <3>2, <3>3, <3>4
  <2>2. CASE ~(K # {} /\ h.topic)
    <3>1. w = World
      BY <2>2
    <3>2. Stays(q, q, Clients, Clients)
      BY StaysThen
    <3> QED BY <1>1, <3>1, <3>2
  <2> QED BY <2>1, <2>2
<1> HIDE DEF w
<1>5. /\ w.q \in [Clients -> UniqueQueues] /\ w.q \in [Clients -> SoundQueues]
      /\ w.q[c] \in UniqueQueues /\ w.q[c] \in SoundQueues
  BY <1>4, WorldParts, UniqueSound
<1>6. q' = [w.q EXCEPT ![c] = cq]
  <2>1. "q" \in DOMAIN w
    BY <1>4 DEF Worlds
  <2> DEFINE v == [w EXCEPT !.q[c] = Release(@, mid),
                            !.msg_store = DerefMsgs(@, w.q[c].inflight, K)]
  <2>2. v.q = [w.q EXCEPT ![c] = cq]
    BY <2>1
  <2> QED BY <1>2, <2>2 DEF Become
<1>7. /\ K \in SUBSET (DOMAIN w.q[c].inflight) /\ Leaves(w.q[c], cq, K) /\ cq \in SoundQueues
      /\ \A i \in K : w.q[c].inflight[i] \in Ins(mid)
  <2>1. /\ Leaves(w.q[c], cq, Matching(w.q[c].inflight, mid, "in")) /\ cq \in SoundQueues
        /\ Matching(w.q[c].inflight, mid, "in") \in SUBSET (DOMAIN w.q[c].inflight)
        /\ \A i \in Matching(w.q[c].inflight, mid, "in") : w.q[c].inflight[i] \in Ins(mid)
    BY <1>5, SoundParts, ReleaseSound, ReleaseLeaves DEF Matching, Ins
  <2> QED BY <1>4, <2>1
<1>8. K # {} => \A b : ~Has(cq, InAs(mid, b))
  BY <1>4, <1>5, InAsKind, ReleaseHas
<1> HIDE DEF cq
<1>9. /\ Fewer(w.q[c], cq)
      /\ \A A \in SUBSET Lasting :
           Kind(A) /\ A \cap Ins(mid) = {} /\ Has(w.q[c], A) => Has(cq, A)
  <2> HIDE DEF K
  <2>1. Fewer(w.q[c], cq)
    BY <1>5, <1>7, LeavesStays
  <2>2. ASSUME NEW A \in SUBSET Lasting, Kind(A), A \cap Ins(mid) = {}, Has(w.q[c], A)
        PROVE  Has(cq, A)
    <3>1. \A i \in K : w.q[c].inflight[i] \notin A
      BY <1>7, <2>2
    <3> QED BY <1>5, <1>7, <2>2, <3>1, LeavesHas
  <2> QED BY <2>1, <2>2
<1> DEFINE qs == w.q
<1>10. /\ qs \in [Clients -> SoundQueues] /\ Fewer(qs[c], cq)
       /\ \A A \in SUBSET Lasting :
            Kind(A) /\ A \cap Ins(mid) = {} /\ Has(qs[c], A) => Has(cq, A)
       /\ q' = [qs EXCEPT ![c] = cq] /\ Stays(q, qs, Clients, Clients)
  BY <1>4, <1>5, <1>6, <1>9
<1> HIDE DEF qs
<1>11. Stays(qs, q', Clients, Clients \ {c}) /\ q'[c] = cq
  BY <1>10, OneStays
<1>12. Stays(q, q', Clients, Clients \ {c}) /\ Keeps(q[c], qs[c])
  <2>1. Stays(q, qs, Clients, Clients \ {c}) /\ Keeps(q[c], qs[c])
    BY <1>10 DEF Stays
  <2> QED BY <1>11, <2>1, StaysThen
<1>13. ASSUME NEW A \in SUBSET Lasting, Kind(A), A \cap Ins(mid) = {}, Has(q[c], A)
       PROVE  Has(q'[c], A)
  BY <1>10, <1>11, <1>12, <1>13 DEF Keeps
<1> QED BY <1>8, <1>11, <1>12, <1>13 DEF K

(* db__message_write for every connected context.                           *)
LEMMA LoopCalm ==
  ASSUME Typed(SoundQueues), Loop
  PROVE  Calm
<1>1. q' = [c \in Clients |-> IF c \in {x \in Clients : Online(x)} THEN Write(q[c]) ELSE q[c]]
  BY DEF Loop
<1>2. ASSUME NEW x \in Clients PROVE Fewer(q[x], q'[x]) /\ Keeps(q[x], q'[x])
  <2> DEFINE cq == q[x]
  <2>1. cq \in SoundQueues
    BY DEF Typed
  <2>2. q'[x] = Write(cq) \/ q'[x] = cq
    BY <1>1
  <2>3. Pending(cq) \in SUBSET (DOMAIN cq.inflight)
    BY DEF Pending
  <2> HIDE DEF cq
  <2>4. Fewer(cq, Write(cq)) /\ Keeps(cq, Write(cq))
    BY <2>1, <2>3, WriteSound, WriteLeaves, WriteStays
  <2>5. Fewer(cq, cq) /\ Keeps(cq, cq)
    BY DEF Fewer, Keeps
  <2> QED BY <2>2, <2>4, <2>5 DEF cq
<1> QED BY <1>2 DEF Calm, Stays, Continuing

(* A write that fails ends in do_disconnect.                                *)
LEMMA WriteFailsCalm ==
  ASSUME Typed(SoundQueues), NEW c \in Clients, NEW cq \in SoundQueues, NEW P,
         P \subseteq DOMAIN q[c].inflight, NEW pubrecs, WriteFails(c, cq, P, pubrecs),
         Fewer(q[c], cq), Keeps(q[c], cq), Live(c)
  PROVE  Calm /\ Ends
<1> DEFINE K    == SentQoS0(q[c], P)
           refs == DerefMsgs(msg_store, q[c].inflight, K)
           u    == [World EXCEPT !.q[c] = cq]
           w    == [u EXCEPT !.msg_store = refs]
           v    == SendWill(w, c, {})
           O    == {x \in Clients : conn'[x] # "none"}
<1>1. /\ World \in Worlds(SoundQueues) /\ SessionTyped /\ World.q = q
      /\ q \in [Clients -> SoundQueues] /\ q[c] \in SoundQueues
  BY WorldType DEF Typed, World
<1>2. refs \in [DOMAIN refs -> Int] /\ DOMAIN refs \subseteq DOMAIN msg_store
  <2>1. K \in SUBSET (DOMAIN q[c].inflight) /\ q[c].inflight \in Seq(ClientMsg)
    BY <1>1, SoundParts DEF SentQoS0
  <2>2. msg_store \in [DOMAIN msg_store -> Int]
    BY DEF Typed, StoreTyped
  <2> HIDE DEF K
  <2> QED BY <2>1, <2>2, DerefMsgsType
<1>3. Disconnected(v, c)
  <2>1. w = [World EXCEPT !.q[c] = cq,
                          !.msg_store = DerefMsgs(@, q[c].inflight, SentQoS0(q[c], P))]
    BY <1>1 DEF World
  <2> HIDE DEF w
  <2> QED BY <2>1 DEF WriteFails
<1> HIDE DEF refs, K
<1>4. /\ u \in Worlds(SoundQueues) /\ u.msg_store = msg_store
      /\ u.q = [q EXCEPT ![c] = cq]
  <2>1. u \in Worlds(SoundQueues)
    BY <1>1, WorldQueue
  <2> QED BY <2>1 DEF World
<1> HIDE DEF u
<1>5. w \in Worlds(SoundQueues)
  BY <1>2, <1>4, WorldRefs
<1>6. w.q = [q EXCEPT ![c] = cq]
  BY <1>4
<1> HIDE DEF w
<1>7. Stays(q, w.q, Clients, Clients)
  <2>1. Stays(q, [q EXCEPT ![c] = cq], Clients, Clients)
    BY <1>1, OneStays
  <2> QED BY <1>6, <2>1
<1>8. v \in Worlds(SoundQueues) /\ Stays(w.q, v.q, Clients, Clients)
  BY <1>1, <1>5, SendWillStays
<1> HIDE DEF v
<1>9. Stays(q, v.q, Clients, Clients)
  BY <1>7, <1>8, StaysThen
<1>10. Stays(v.q, q', Clients, O) /\ Ends
  BY <1>1, <1>3, <1>8, DisconnectedStays
<1>11. Stays(v.q, q', Clients, Continuing)
  <2>1. Continuing \subseteq O
    BY DEF Continuing, SessionKept
  <2> HIDE DEF O
  <2> QED BY <1>10, <2>1 DEF Stays
<1> QED BY <1>9, <1>10, <1>11, StaysCalm

(* A write that fails in mosquitto_main_loop, after some packets were       *)
(* written: it ends the connection, and loses only messages of QoS 0 for a  *)
(* session that goes on.                                                    *)
LEMMA LoopFailsCalm ==
  ASSUME Typed(SoundQueues), NEW c \in Clients, LoopFails(c)
  PROVE  Calm /\ Ends
<1>1. q[c] \in SoundQueues
  BY DEF Typed
<1>2. Live(c)
  BY DEF LoopFails, Online, Live
<1>3. Pending(q[c]) \in SUBSET (DOMAIN q[c].inflight)
  BY DEF Pending
<1>4. ASSUME NEW i \in Pending(q[c]) \cup {0},
             WriteFails(c, WriteFailsAt(q[c], i), {j \in Pending(q[c]) : j < i}, <<>>)
      PROVE  Calm /\ Ends
  <2> DEFINE P == {j \in Pending(q[c]) : j < i}
             r == WriteFailsAt(q[c], i)
             none == <<>>
  <2>1. P \in SUBSET (DOMAIN q[c].inflight)
    BY <1>3
  <2>2. r \in SoundQueues /\ Leaves(q[c], r, SentQoS0(q[c], P))
    BY <1>1, WriteSound, WriteLeaves
  <2>3. WriteFails(c, r, P, none)
    BY <1>4
  <2> HIDE DEF P, r, none
  <2>4. Fewer(q[c], r) /\ Keeps(q[c], r)
    BY <1>1, <2>1, <2>2, WriteStays
  <2> QED BY <1>2, <2>1, <2>2, <2>3, <2>4, WriteFailsCalm
<1>5. ASSUME NEW j \in 1..WriteMoves(q[c]), q[c].queued[j].dir = "in",
             WriteFails(c, WriteFailsAtPubrec(q[c], j), Pending(q[c]), DequeuePubrecs(q[c], j - 1))
      PROVE  Calm /\ Ends
  <2> DEFINE P == Pending(q[c])
             r == WriteFailsAtPubrec(q[c], j)
             sent == DequeuePubrecs(q[c], j - 1)
  <2>1. P \in SUBSET (DOMAIN q[c].inflight)
    BY <1>3
  <2>2. r \in SoundQueues /\ Leaves(q[c], r, SentQoS0(q[c], P))
    BY <1>1, <1>5, WriteSound, WriteLeaves
  <2>3. WriteFails(c, r, P, sent)
    BY <1>5
  <2> HIDE DEF P, r, sent
  <2>4. Fewer(q[c], r) /\ Keeps(q[c], r)
    BY <1>1, <2>1, <2>2, WriteStays
  <2> QED BY <1>2, <2>1, <2>2, <2>3, <2>4, WriteFailsCalm
<1> QED BY <1>4, <1>5 DEF LoopFails

(* handle__publish for QoS 2: the only message from a client that is new is *)
(* the one it carries.                                                      *)
Grown(c, mid, p) ==
  \A A \in SUBSET Incoming : Kind(A) /\ Has(q'[c], A) =>
    \/ Has(q[c], A)
    \/ \E s \in Stored : /\ s.body = p.body /\ s.topic = ~p.denied
                         /\ NewMsg(s, mid, "in", 2) \in A

(* The messages of QoS 2 from the client under an identifier.               *)
InTwo(mid) == {m \in Ins(mid) : m.qos = 2}

(* Only a message that is there already, or that goes into flight, is       *)
(* answered.                                                                *)
Answered(c, mid) ==
  \/ wire' = wire
  \/ /\ wire' = [wire EXCEPT ![c] = Append(@, Ack("pubrec", mid))]
     /\ (q' = q /\ StoreFind(q[c], mid) # {}) \/ Has(q'[c], InTwo(mid))

(* PUBLISH of QoS 2: nothing is lost, nothing is routed, and what is new in *)
(* the lists of the sender is the publication that it sends.                *)
LEMMA PublishQoS2Stays ==
  ASSUME Typed(SoundQueues), NEW c \in Clients, NEW mid \in ClientMids, PublishQoS2(c, mid)
  PROVE  /\ Stays(q, q', Clients \ {c}, Continuing)
         /\ \E p \in Sendable(c, mid) : /\ Grown(c, mid, p)
                                        /\ client' = [client EXCEPT ![c].pub[mid] = p]
                                        /\ pubs' = IF p.body > pubs THEN p.body ELSE pubs
         /\ Ends /\ Answered(c, mid)
         /\ UNCHANGED <<budget, routed, completed>>
<1>1. PICK p \in Sendable(c, mid) :
    LET dup   == StoreFind(q[c], mid) # {}
        s     == IF p.denied THEN Fresh(World, p.body, mid, 2, 0, FALSE, FALSE)
                             ELSE Fresh(World, p.body, mid, 2, p.len, p.retain, TRUE)
        st    == InsertState(q[c], TRUE, "in", 2)
        new   == StoreMsg(World, s)
        added == [new EXCEPT !.q[c] = Insert(@, TRUE, s, mid, "in", 2),
                             !.msg_store[s.id] = IF st = "dropped" THEN 0 ELSE 1]
    IN  /\ client' = [client EXCEPT ![c].pub[mid] = p]
        /\ IF ~dup /\ p.denied /\ st # "wait_for_pubrel"
           THEN Disconnected(SendWill(added, c, {}), c)
           ELSE Become(IF dup THEN World ELSE added) /\ UNCHANGED session
        /\ wire' = IF dup \/ st = "wait_for_pubrel"
                   THEN [wire EXCEPT ![c] = Append(@, Ack("pubrec", mid))] ELSE wire
        /\ pubs' = IF p.body > pubs THEN p.body ELSE pubs
        /\ UNCHANGED <<budget, routed, completed, delivered>>
  BY DEF PublishQoS2
<1> DEFINE s     == IF p.denied THEN Fresh(World, p.body, mid, 2, 0, FALSE, FALSE)
                                ELSE Fresh(World, p.body, mid, 2, p.len, p.retain, TRUE)
           new   == StoreMsg(World, s)
           i     == "in"
           on    == TRUE
           two   == 2
           cq    == Insert(q[c], on, s, mid, i, two)
           m     == NewMsg(s, mid, i, two)
           n     == IF InsertState(q[c], TRUE, "in", 2) = "dropped" THEN 0 ELSE 1
           added == [new EXCEPT !.q[c] = Insert(@, TRUE, s, mid, "in", 2),
                                !.msg_store[s.id] = n]
           O     == {x \in Clients : conn'[x] # "none"}
<1>2. /\ World \in Worlds(SoundQueues) /\ SessionTyped /\ World.q = q
      /\ q \in [Clients -> SoundQueues] /\ q[c] \in SoundQueues
      /\ PeerTyped /\ HistoryTyped
  BY WorldType DEF Typed, World
<1>3. \/ Disconnected(SendWill(added, c, {}), c) /\ wire' = wire
      \/ /\ Become(World) /\ UNCHANGED session
         /\ \/ wire' = wire
            \/ /\ wire' = [wire EXCEPT ![c] = Append(@, Ack("pubrec", mid))]
               /\ StoreFind(q[c], mid) # {}
      \/ /\ Become(added) /\ UNCHANGED session
         /\ \/ wire' = wire
            \/ /\ wire' = [wire EXCEPT ![c] = Append(@, Ack("pubrec", mid))]
               /\ InsertState(q[c], TRUE, "in", 2) = "wait_for_pubrel"
  BY <1>1
<1>4. /\ s \in Stored /\ s.id = World.last_db_id + 1 /\ mid \in Nat
      /\ s.body = p.body /\ s.topic = ~p.denied
  <2>1. p \in Publication
    BY <1>2, SendableType
  <2>2. /\ p.body \in Nat /\ p.len \in 0..MaxLen /\ p.retain \in BOOLEAN /\ mid \in Nat /\ 2 \in QoS
        /\ 0 \in 0..MaxLen /\ p.denied \in BOOLEAN
    BY <2>1, BrokerAssumption, LimitsAssumption DEF Publication, QoS
  <2>3. World.last_db_id \in Nat
    BY <1>2, WorldParts
  <2> DEFINE W == World
  <2>4. W.last_db_id \in Nat
    BY <2>3
  <2> HIDE DEF W
  <2>5. s = IF p.denied THEN Fresh(W, p.body, mid, 2, 0, FALSE, FALSE)
                        ELSE Fresh(W, p.body, mid, 2, p.len, p.retain, TRUE)
    BY DEF W
  <2> HIDE DEF s
  <2>6. s \in Stored /\ s.id = W.last_db_id + 1
    BY <2>2, <2>4, <2>5 DEF Fresh, Stored
  <2>7. s.body = p.body /\ s.topic = ~p.denied
    <3>1. CASE p.denied
      BY <2>2, <2>5, <3>1 DEF Fresh
    <3>2. CASE ~p.denied
      BY <2>2, <2>5, <3>2 DEF Fresh
    <3> QED BY <3>1, <3>2
  <2> QED BY <2>2, <2>6, <2>7 DEF W
<1>5. i \in {"in", "out"} /\ on \in BOOLEAN /\ two \in QoS /\ n \in Int
  BY DEF QoS
<1> HIDE DEF s, n
<1>6. /\ new \in Worlds(SoundQueues) /\ new.q = q
      /\ new.msg_store \in [DOMAIN new.msg_store -> Int]
  <2>1. new \in Worlds(SoundQueues)
    BY <1>2, <1>4, StoreMsgType
  <2>2. new.q = q
    BY <1>2 DEF StoreMsg, World
  <2> QED BY <2>1, <2>2, WorldParts
<1> DEFINE refs == [new.msg_store EXCEPT ![s.id] = n]
           u    == [new EXCEPT !.q[c] = cq]
<1>7. added = [u EXCEPT !.msg_store = refs]
  <2>1. "msg_store" \in DOMAIN new /\ "q" \in DOMAIN new
    BY <1>6 DEF Worlds
  <2> HIDE DEF new
  <2> QED BY <1>6, <2>1
<1> HIDE DEF i, on, two, cq, m, new, added
<1>8. /\ cq \in SoundQueues
      /\ \A A : Kind(A) => /\ Has(q[c], A) => Has(cq, A)
                           /\ Has(cq, A) => Has(q[c], A) \/ m \in A
                           /\ m \in A /\ InsertState(q[c], on, i, two) # "dropped" => Has(cq, A)
  <2>1. cq \in SoundQueues
    BY <1>2, <1>4, <1>5, InsertSound DEF cq
  <2>2. ASSUME NEW A, Kind(A)
        PROVE  /\ Has(q[c], A) => Has(cq, A)
               /\ Has(cq, A) => Has(q[c], A) \/ m \in A
               /\ m \in A /\ InsertState(q[c], on, i, two) # "dropped" => Has(cq, A)
    BY <1>2, <1>4, <1>5, <2>2, InsertHas DEF cq, m
  <2> QED BY <2>1, <2>2
<1>9. u \in Worlds(SoundQueues) /\ u.q = [q EXCEPT ![c] = cq] /\ u.msg_store = new.msg_store
  <2>1. u \in Worlds(SoundQueues)
    BY <1>6, <1>8, WorldQueue
  <2> QED BY <1>6, <2>1 DEF Worlds
<1>10. refs \in [DOMAIN refs -> Int] /\ DOMAIN refs \subseteq DOMAIN u.msg_store
  BY <1>5, <1>6, <1>9
<1> HIDE DEF u, refs
<1>11. added \in Worlds(SoundQueues) /\ added.q = [q EXCEPT ![c] = cq]
  <2>1. [u EXCEPT !.msg_store = refs] \in Worlds(SoundQueues)
    BY <1>9, <1>10, WorldRefs
  <2>2. [u EXCEPT !.msg_store = refs].q = u.q
    BY <1>9 DEF Worlds
  <2> QED BY <1>7, <1>9, <2>1, <2>2
(* With its message in the queue of c nothing is lost, and nothing is new   *)
(* elsewhere.                                                               *)
<1>12. /\ Stays(q, added.q, Clients \ {c}, Clients) /\ added.q[c] = cq
       /\ Stays(q, q, Clients \ {c}, Clients) /\ Stays(q, q, Clients, Continuing)
  <2>1. Keeps(q[c], cq)
    BY <1>8 DEF Keeps
  <2>2. ASSUME NEW x \in Clients
        PROVE  Keeps(q[x], added.q[x]) /\ (x # c => Fewer(q[x], added.q[x]))
    <3>1. CASE x = c
      BY <1>2, <1>11, <2>1, <3>1
    <3>2. CASE x # c
      <4>1. added.q[x] = q[x]
        BY <1>2, <1>11, <3>2
      <4> QED BY <4>1 DEF Keeps, Fewer
    <3> QED BY <3>1, <3>2
  <2>3. added.q[c] = cq
    BY <1>2, <1>11
  <2>4. Stays(q, q, Clients \ {c}, Clients) /\ Stays(q, q, Clients, Continuing)
    BY StaysThen
  <2> QED BY <2>2, <2>3, <2>4 DEF Stays
<1>13. ASSUME NEW w, Stays(q, w.q, Clients \ {c}, Clients), Stays(w.q, q', Clients, Continuing),
              w.q[c] = q[c] \/ w.q[c] = cq
       PROVE  Stays(q, q', Clients \ {c}, Continuing) /\ Grown(c, mid, p)
  <2>1. Stays(q, w.q, Clients \ {c}, Continuing) /\ Stays(w.q, q', Clients \ {c}, Continuing)
    BY <1>13 DEF Stays, Continuing
  <2>2. Stays(q, q', Clients \ {c}, Continuing)
    BY <2>1, StaysThen
  <2>3. Fewer(w.q[c], q'[c])
    BY <1>13 DEF Stays
  <2>4. ASSUME NEW A \in SUBSET Incoming, Kind(A), Has(q'[c], A)
        PROVE  Has(q[c], A) \/ m \in A
    <3>1. Has(w.q[c], A)
      BY <2>3, <2>4 DEF Fewer
    <3> QED BY <1>8, <1>13, <2>4, <3>1
  <2>5. m = NewMsg(s, mid, "in", 2)
    BY DEF m, i, two
  <2> QED BY <1>4, <2>2, <2>4, <2>5 DEF Grown
<1>14. Live(c) /\ (UNCHANGED session => Ends)
  BY DEF PublishQoS2, Event, Online, Live, Ends, EndsAt, session
<1>15. InsertState(q[c], TRUE, "in", 2) = "wait_for_pubrel" => Has(cq, InTwo(mid))
  <2>1. Kind(InTwo(mid))
    BY DEF Kind, Twins, InTwo, Ins
  <2>2. m \in InTwo(mid)
    BY <1>4, <1>5 DEF m, i, two, NewMsg, InTwo, Ins, ClientMsg, States, InStates
  <2> QED BY <1>8, <2>1, <2>2 DEF i, on, two
<1>16. /\ Stays(q, q', Clients \ {c}, Continuing) /\ Grown(c, mid, p)
       /\ Ends /\ Answered(c, mid)
  <2>1. ASSUME Become(World), UNCHANGED session,
             \/ wire' = wire
             \/ /\ wire' = [wire EXCEPT ![c] = Append(@, Ack("pubrec", mid))]
                /\ StoreFind(q[c], mid) # {}
      PROVE  /\ Stays(q, q', Clients \ {c}, Continuing) /\ Grown(c, mid, p)
             /\ Ends /\ Answered(c, mid)
    <3>1. q' = q
      BY <2>1 DEF Become, World
    <3>2. Stays(q, q', Clients \ {c}, Continuing) /\ Grown(c, mid, p)
      BY <1>2, <1>12, <1>13, <3>1
    <3> QED BY <1>14, <2>1, <3>1, <3>2 DEF Answered
  <2>2. ASSUME Become(added), UNCHANGED session,
             \/ wire' = wire
             \/ /\ wire' = [wire EXCEPT ![c] = Append(@, Ack("pubrec", mid))]
                /\ InsertState(q[c], TRUE, "in", 2) = "wait_for_pubrel"
      PROVE  /\ Stays(q, q', Clients \ {c}, Continuing) /\ Grown(c, mid, p)
             /\ Ends /\ Answered(c, mid)
    <3>1. q' = added.q
      BY <2>2 DEF Become
    <3>2. Stays(added.q, q', Clients, Continuing)
      BY <3>1, StaysThen
    <3>3. Stays(q, q', Clients \ {c}, Continuing) /\ Grown(c, mid, p)
      BY <1>12, <1>13, <3>2
    <3>4. q'[c] = cq
      BY <1>12, <3>1
    <3> QED BY <1>14, <1>15, <2>2, <3>3, <3>4 DEF Answered
  <2>3. ASSUME Disconnected(SendWill(added, c, {}), c), wire' = wire
      PROVE  /\ Stays(q, q', Clients \ {c}, Continuing) /\ Grown(c, mid, p)
             /\ Ends /\ Answered(c, mid)
    <3> DEFINE v == SendWill(added, c, {})
    <3>1. v \in Worlds(SoundQueues) /\ Stays(added.q, v.q, Clients, Clients) /\ Disconnected(v, c)
      BY <1>2, <1>11, <2>3, SendWillStays
    <3> HIDE DEF v
    <3>2. Stays(v.q, q', Clients, O) /\ Ends
      BY <1>2, <1>14, <3>1, DisconnectedStays
    <3>3. Continuing \subseteq O /\ Continuing \subseteq Clients
      BY DEF Continuing, SessionKept
    <3> HIDE DEF O
    <3>4. Stays(added.q, v.q, Clients, Continuing) /\ Stays(v.q, q', Clients, Continuing)
      BY <3>1, <3>2, <3>3 DEF Stays
    <3>5. Stays(added.q, q', Clients, Continuing)
      BY <3>4, StaysThen
    <3>6. Stays(q, q', Clients \ {c}, Continuing) /\ Grown(c, mid, p)
      BY <1>12, <1>13, <3>5
    <3> QED BY <2>3, <3>2, <3>6 DEF Answered
  <2> QED BY <1>3, <2>1, <2>2, <2>3
<1> QED BY <1>1, <1>16

-----------------------------------------------------------------------------
(* A session that goes on loses no message of QoS 1 or 2.                   *)

(* What is read of a list of packets is another list, unless it is a PUBREC *)
(* and one is sent.                                                         *)
LEMMA ReadOthers ==
  ASSUME NEW s \in Seq(Packets), s # <<>>, Head(s).type # "pubrec",
         NEW t \in Seq(Packets), \A i \in DOMAIN t : t[i].type = "pubrec"
  PROVE  Tail(s) \o t # s
<1> DEFINE A == {p \in Packets : p.type = "pubrec"}
           F == Counts(Packets, A)
<1>1. SUFFICES ASSUME Tail(s) \o t = s PROVE FALSE
  OBVIOUS
<1>2. /\ Additive(F, Packets) /\ \A p \in Packets : F[<<p>>] = IF p \in A THEN 1 ELSE 0
  BY CountsAdditive
<1>3. Head(s) \in Packets /\ Head(s) \notin A
  <2>1. Head(s) \in Packets
    BY HeadTailProperties
  <2> QED BY <2>1
<1>4. /\ Tail(s) \in Seq(Packets) /\ Len(s) = Len(Tail(s)) + 1
      /\ Len(Tail(s)) \in Nat /\ Len(t) \in Nat
  BY HeadTailProperties
<1>5. Len(s) = Len(Tail(s)) + Len(t)
  <2> DEFINE r == Tail(s)
  <2>1. r \in Seq(Packets) /\ r \o t = s
    BY <1>1, <1>4
  <2> HIDE DEF r
  <2>2. Len(r \o t) = Len(r) + Len(t)
    BY <2>1, ConcatProperties
  <2> QED BY <2>1, <2>2 DEF r
<1>6. Len(t) = 1
  <2> DEFINE x == Len(s)
             y == Len(Tail(s))
             z == Len(t)
  <2>1. x = y + 1 /\ x = y + z /\ y \in Nat /\ z \in Nat
    BY <1>4, <1>5
  <2> HIDE DEF x, y, z
  <2>2. z = 1
    BY <2>1
  <2> QED BY <2>2 DEF z
<1>7. t = <<t[1]>> /\ t[1] \in Packets /\ t[1] \in A
  <2>1. 1 \in DOMAIN t /\ t[1] \in Packets
    <3>1. t \in Seq(Packets) /\ DOMAIN t = 1..1
      BY <1>6
    <3>2. \A i \in 1..Len(t) : t[i] \in Packets
      BY ElementOfSeq
    <3> QED BY <1>6, <3>1, <3>2
  <2> DEFINE u == <<t[1]>>
  <2>2. u \in Seq(Packets) /\ Len(u) = Len(t) /\ u[1] = t[1]
    BY <1>6, <2>1
  <2> HIDE DEF u
  <2>3. \A i \in 1..Len(t) : t[i] = u[i]
    BY <1>6, <2>2
  <2>4. t = u
    BY <2>2, <2>3, SeqEqual
  <2> QED BY <2>1, <2>4 DEF u
<1> HIDE DEF F, A
<1>8. F[t] = 1 /\ F[<<Head(s)>>] = 0
  BY <1>2, <1>3, <1>7
<1>9. F[s] = F[<<Head(s)>>] + F[Tail(s)]
  BY <1>2, AddHead
<1>10. F[Tail(s) \o t] = F[Tail(s)] + F[t]
  <2> DEFINE r == Tail(s)
  <2>1. r \in Seq(Packets) /\ Additive(F, Packets)
    BY <1>2, <1>4
  <2> HIDE DEF r
  <2>2. F[r \o t] = F[r] + F[t]
    BY <2>1, AddConcat
  <2> QED BY <2>2 DEF r
<1>11. F[Tail(s)] \in Int
  BY <1>2, <1>4 DEF Additive
<1> DEFINE n == F[Tail(s)]
<1>12. 0 + n = n + 1 /\ n \in Int
  BY <1>1, <1>8, <1>9, <1>10, <1>11
<1> HIDE DEF n
<1> QED BY <1>12

(* A packet is read: the step is calm, or it is an acknowledgement or the   *)
(* release of a message.                                                    *)
LEMMA ReadStays ==
  ASSUME Typed(UniqueQueues), NEW c \in Clients, Read(c)
  PROVE  \/ Calm
         \/ /\ Reads(c, "publish") \/ Reads(c, "pubrel")
            /\ Pubackcomp(c, Head(wire[c]).mid)
         \/ Reads(c, "pubrec") /\ Pubrel(c, Head(wire[c]).mid, Tail(wire[c]))
<1> DEFINE p == Head(wire[c])
<1>1. Typed(SoundQueues) /\ PeerTyped
  BY UniqueSound DEF Typed
<1>2. wire[c] # <<>> => p.mid \in Nat /\ p.qos \in QoS
  BY <1>1, WireHead
<1>3. ASSUME q' = q PROVE Calm
  BY <1>3, StaysThen DEF Calm
<1>4. ASSUME Unheard(c) PROVE Calm
  BY <1>3, <1>4 DEF Unheard
<1>5. CASE ReadPublish(c)
  <2>1. p.qos \in QoS /\ p.mid \in Nat /\ Reads(c, "publish")
    BY <1>2, <1>5 DEF ReadPublish, Reads
  <2>2. p.qos = 0 \/ p.qos = 1 \/ p.qos = 2
    BY <2>1 DEF QoS
  <2>3. q' = q \/ Pubackcomp(c, p.mid) \/ Pubrec(c, p.mid) \/ Unheard(c)
    BY <1>5, <2>2 DEF ReadPublish
  <2> HIDE DEF p
  <2>4. ASSUME Pubrec(c, p.mid) PROVE Calm
    BY <1>1, <2>1, <2>4, PubrecCalm
  <2> QED BY <1>3, <1>4, <2>1, <2>3, <2>4 DEF p
<1>6. CASE ReadPubrel(c)
  BY <1>4, <1>6 DEF ReadPubrel
<1>7. CASE ReadPubrec(c)
  BY <1>4, <1>7 DEF ReadPubrec
<1>8. CASE ReadPubcomp(c)
  BY <1>3, <1>8 DEF ReadPubcomp
<1> QED BY <1>5, <1>6, <1>7, <1>8 DEF Read

(* The messages of QoS 1 and 2 for a client under an identifier.            *)
OutAs(mid) == {m \in Lasting : m.dir = "out" /\ m.mid = mid}

(* An identifier is outstanding when the context has a message of QoS 1 or  *)
(* 2 under it.                                                              *)
LEMMA OutAsKind ==
  /\ \A mid : Kind(OutAs(mid)) /\ OutAs(mid) \in SUBSET Lasting
  /\ \A cq \in SoundQueues : \A mid : mid \in Outstanding(cq) <=> Has(cq, OutAs(mid))
<1>1. \A mid : Kind(OutAs(mid)) /\ OutAs(mid) \in SUBSET Lasting
  BY DEF Kind, OutAs, Lasting, Twins
<1>2. ASSUME NEW cq \in SoundQueues, NEW mid
      PROVE  mid \in Outstanding(cq) <=> Has(cq, OutAs(mid))
  <2>1. /\ \A i \in DOMAIN cq.inflight : cq.inflight[i] \in ClientMsg
        /\ \A i \in DOMAIN cq.queued : cq.queued[i] \in ClientMsg
    BY SoundParts
  <2>2. mid \in Outstanding(cq) <=>
          \E m \in {cq.inflight[i] : i \in DOMAIN cq.inflight}
                   \cup {cq.queued[i] : i \in DOMAIN cq.queued} :
            m.dir = "out" /\ m.qos > 0 /\ m.mid = mid
    BY DEF Outstanding
  <2> QED BY <2>1, <2>2 DEF Has, OutAs, Lasting
<1> QED BY <1>1, <1>2

Lossless ==
  \A c \in Clients : SessionKept(c) =>
    \A mid \in Outstanding(q[c]) \ Outstanding(q'[c]) :
      /\ wire[c] # <<>> /\ wire'[c] # wire[c]
      /\ Head(wire[c]).mid = mid /\ Head(wire[c]).type \in {"publish", "pubrel"}

(* A step that loses no kind of message for a client loses no identifier.   *)
LEMMA StaysLossless ==
  ASSUME Typed(UniqueQueues), Typed(UniqueQueues)', NEW I, Stays(q, q', I, Continuing)
  PROVE  Lossless
<1>1. \A c \in Clients : q[c] \in SoundQueues /\ q'[c] \in SoundQueues
  BY UniqueSound DEF Typed
<1>2. ASSUME NEW c \in Clients, SessionKept(c), NEW mid \in Outstanding(q[c]) PROVE mid \in Outstanding(q'[c])
  <2>1. Keeps(q[c], q'[c])
    BY <1>2 DEF Stays, Continuing
  <2> QED BY <1>1, <1>2, <2>1, OutAsKind DEF Keeps
<1> QED BY <1>2 DEF Lossless

(* An acknowledgement is an answer to the packet it was sent in.            *)
LEMMA PubackcompLossless ==
  ASSUME Typed(UniqueQueues), Typed(UniqueQueues)', NEW c \in Clients,
         Reads(c, "publish") \/ Reads(c, "pubrel"), Pubackcomp(c, Head(wire[c]).mid)
  PROVE  Lossless
<1> DEFINE p == Head(wire[c])
           k == DeleteMoves(q[c], p.mid, "out")
           acks == Acks("pubrec", DequeuePubrecs(q[c], k))
<1>1. Typed(SoundQueues) /\ \A x \in Clients : q[x] \in SoundQueues /\ q'[x] \in SoundQueues
  BY UniqueSound DEF Typed
<1>2. /\ wire[c] # <<>> /\ p.type \in {"publish", "pubrel"} /\ p.mid \in Nat
      /\ wire[c] \in Seq(Packets)
  BY <1>1, WireHead DEF Reads, Typed, PeerTyped
<1>3. wire' = [wire EXCEPT ![c] = Tail(@) \o acks]
  BY DEF Pubackcomp
<1>4. acks \in Seq(Packets) /\ \A i \in DOMAIN acks : acks[i].type = "pubrec"
  <2>1. DequeuePubrecs(q[c], k) \in Seq(Nat)
    BY <1>1, SoundParts, QueueMoves, PubrecsType
  <2>2. acks \in Seq(Packets)
    BY <2>1, AcksType
  <2> QED BY <2>2 DEF Acks, Ack
<1> HIDE DEF acks
<1>5. wire'[c] # wire[c]
  <2>1. Tail(wire[c]) \o acks # wire[c]
    BY <1>2, <1>4, ReadOthers
  <2>2. wire'[c] = Tail(wire[c]) \o acks
    BY <1>1, <1>3 DEF Typed, PeerTyped
  <2> QED BY <2>1, <2>2
<1>6. /\ Stays(q, q', Clients, Clients \ {c})
      /\ \A A \in SUBSET Lasting :
           Kind(A) /\ (\A m \in A : m.mid = p.mid => m.dir = "in") /\ Has(q[c], A)
             => Has(q'[c], A)
  <2>1. Pubackcomp(c, p.mid)
    OBVIOUS
  <2> HIDE DEF p
  <2> QED BY <1>1, <1>2, <2>1, PubackcompStays
<1> HIDE DEF p
<1>7. ASSUME NEW x \in Clients, NEW mid \in Outstanding(q[x]), mid \notin Outstanding(q'[x])
      PROVE  x = c /\ mid = p.mid
  <2>1. Has(q[x], OutAs(mid)) /\ ~Has(q'[x], OutAs(mid))
    BY <1>1, <1>7, OutAsKind
  <2>2. x = c
    BY <1>6, <2>1, OutAsKind DEF Stays, Keeps
  <2>3. mid = p.mid
    <3>1. mid # p.mid => \A m \in OutAs(mid) : m.mid = p.mid => m.dir = "in"
      BY DEF OutAs
    <3> QED BY <1>6, <2>1, <2>2, <3>1, OutAsKind
  <2> QED BY <2>2, <2>3
<1> QED BY <1>2, <1>5, <1>7 DEF Lossless, p

(* The release of a message from a client loses none for one.               *)
LEMMA PubrelLossless ==
  ASSUME Typed(UniqueQueues), Typed(UniqueQueues)', NEW c \in Clients, NEW mid \in Nat, NEW read,
         Pubrel(c, mid, read)
  PROVE  Lossless
<1>1. \A x \in Clients : q[x] \in SoundQueues /\ q'[x] \in SoundQueues
  BY UniqueSound DEF Typed
<1>2. /\ Stays(q, q', Clients, Clients \ {c})
      /\ \A A \in SUBSET Lasting :
           Kind(A) /\ A \cap Ins(mid) = {} /\ Has(q[c], A) => Has(q'[c], A)
  BY PubrelStays
<1>3. ASSUME NEW x \in Clients, NEW n \in Outstanding(q[x]) PROVE n \in Outstanding(q'[x])
  <2>1. Has(q[x], OutAs(n)) /\ Kind(OutAs(n)) /\ OutAs(n) \in SUBSET Lasting
    BY <1>1, <1>3, OutAsKind
  <2>2. OutAs(n) \cap Ins(mid) = {}
    BY DEF OutAs, Ins
  <2>3. Has(q'[x], OutAs(n))
    BY <1>2, <2>1, <2>2 DEF Stays, Keeps
  <2> QED BY <1>1, <2>3, OutAsKind
<1> QED BY <1>3 DEF Lossless

(* An identifier that is no longer outstanding in a session that goes on    *)
(* was answered by the client: this is NothingLost, for one step.           *)
LEMMA NextLossless ==
  ASSUME Typed(UniqueQueues), Typed(UniqueQueues)', Next
  PROVE  Lossless
<1>1. Typed(SoundQueues)
  BY UniqueSound
<1>2. ASSUME Calm PROVE Lossless
  BY <1>2, StaysLossless DEF Calm
<1>3. ASSUME NEW c \in Clients, NEW mid \in ClientMids, PublishQoS2(c, mid) PROVE Lossless
  <2>1. Stays(q, q', Clients \ {c}, Continuing)
    BY <1>1, <1>3, PublishQoS2Stays
  <2> QED BY <2>1, StaysLossless
<1>4. ASSUME NEW c \in Clients, NEW mid \in ClientMids, ResendPubrel(c, mid) PROVE Lossless
  <2>1. mid \in Nat /\ Pubrel(c, mid, wire[c])
    BY <1>4, BrokerAssumption, LimitsAssumption DEF ResendPubrel
  <2> QED BY <2>1, PubrelLossless
<1>5. ASSUME NEW c \in Clients, Read(c) PROVE Lossless
  <2>1. wire[c] # <<>> => Head(wire[c]).mid \in Nat
    BY <1>1, WireHead DEF Typed
  <2>2. ASSUME Reads(c, "pubrec"), Pubrel(c, Head(wire[c]).mid, Tail(wire[c])) PROVE Lossless
    <3> DEFINE mid == Head(wire[c]).mid
               read == Tail(wire[c])
    <3>1. mid \in Nat /\ Pubrel(c, mid, read)
      BY <2>1, <2>2 DEF Reads
    <3> HIDE DEF mid, read
    <3> QED BY <3>1, PubrelLossless
  <2> QED BY <1>2, <1>5, <2>2, ReadStays, PubackcompLossless
<1>6. CASE Loop
  BY <1>1, <1>2, <1>6, LoopCalm
<1>7. ASSUME NEW c \in Clients,
             \/ Connect(c) \/ Disconnect(c) \/ ConnectionLost(c) \/ Expire(c) \/ LoopFails(c)
             \/ Subscribe(c) \/ Unsubscribe(c) \/ Publish(c)
      PROVE  Lossless
  BY <1>1, <1>2, <1>7, ConnectCalm, LeaveCalm, LoopFailsCalm, SubscribeCalm
<1> QED BY <1>3, <1>4, <1>5, <1>6, <1>7 DEF Next, Resend

(* A message of QoS 1 or 2 leaves the lists of a session that goes on only  *)
(* when its client reads the packet that carries its identifier and the     *)
(* broker gets the answer: no limit, no will, no takeover, no write and no  *)
(* message of another client removes it.                                    *)
THEOREM NothingIsLost == Spec => NothingLost
<1>1. ASSUME Typed(UniqueQueues), Typed(UniqueQueues)', [Next]_vars
      PROVE  [Lossless]_vars
  BY <1>1, NextLossless
<1>2. Init => Typed(UniqueQueues)
  BY UniqueClosed, InitTyped DEF Closed
<1>3. Typed(UniqueQueues) /\ [Next]_vars => Typed(UniqueQueues)'
  BY UniqueClosed, StepTyped
<1>4. Spec => [][Lossless]_vars
  BY <1>1, <1>2, <1>3, PTL DEF Spec
<1> QED BY <1>4 DEF NothingLost, Lossless

-----------------------------------------------------------------------------
(* A publication of QoS 2 goes to the subscribers once.                     *)

(* Who holds a publication that may still be routed: a client whose PUBREC  *)
(* has not come holds it under an identifier, and so does the broker in its *)
(* lists of that client.                                                    *)
Sent(cl, mid, b) ==
  mid \in ClientMids /\ cl.pub[mid].body = b /\ cl.pub[mid].phase \in {"publish", "wait_pubrec"}

Holds(c, mid, b) == Has(q[c], InAs(mid, b)) \/ Sent(client[c], mid, b)

(* The invariant: one client holds it under one identifier, or nobody does  *)
(* any more once it was routed.  The bound by pubs is needed for the next   *)
(* publication to be new.                                                   *)
OnceAt(b) ==
  /\ routed[b] <= 1
  /\ routed[b] > 0 => b <= pubs
  /\ \A c \in Clients, mid \in Nat : Holds(c, mid, b) =>
       /\ b <= pubs /\ routed[b] = 0
       /\ \A d \in Clients, n \in Nat : Holds(d, n, b) => d = c /\ n = mid

OnceInv == \A b \in 1..MaxPubs : OnceAt(b)

(* Steps after which nobody holds what it did not hold before.              *)
SentLess == \A c \in Clients, mid \in Nat : \A b :
              Sent(client'[c], mid, b) => Sent(client[c], mid, b)

(* In a step that adds nothing to lists and sends nothing, who holds a      *)
(* publication held it before.                                              *)
LEMMA HoldsLess ==
  ASSUME Stays(q, q', Clients, {}), SentLess, NEW c \in Clients, NEW mid \in Nat, NEW b,
         Holds(c, mid, b)'
  PROVE  Holds(c, mid, b)
<1>1. Has(q'[c], InAs(mid, b)) \/ Sent(client'[c], mid, b)
  BY DEF Holds
<1>2. Has(q'[c], InAs(mid, b)) => Has(q[c], InAs(mid, b))
  <2>1. Fewer(q[c], q'[c])
    BY DEF Stays
  <2>2. Kind(InAs(mid, b)) /\ InAs(mid, b) \in SUBSET Incoming
    BY InAsKind
  <2> QED BY <2>1, <2>2 DEF Fewer
<1>3. Sent(client'[c], mid, b) => Sent(client[c], mid, b)
  BY DEF SentLess
<1> QED BY <1>1, <1>2, <1>3 DEF Holds

(* A step in which nobody begins to hold a publication, and which does not  *)
(* route it, keeps the invariant for this publication.                      *)
LEMMA QuietAt ==
  ASSUME NEW b, OnceAt(b), \A c \in Clients, mid \in Nat : Holds(c, mid, b)' => Holds(c, mid, b),
         routed'[b] = routed[b], pubs \in Nat, pubs' \in Nat, pubs <= pubs', b \in Nat
  PROVE  OnceAt(b)'
<1>1. b <= pubs => b <= pubs'
  OBVIOUS
<1> QED BY <1>1 DEF OnceAt

(* What a client does with the phases of its publications.                  *)
LEMMA SamePubs ==
  ASSUME \A c \in Clients : client'[c].pub = client[c].pub
  PROVE  SentLess
BY DEF SentLess, Sent

(* A client that goes on to a later phase no longer sends the publication.  *)
LEMMA PhaseLess ==
  ASSUME PeerTyped, NEW c \in Clients, NEW mid, NEW ph, ph \notin {"publish", "wait_pubrec"},
         client' = [client EXCEPT ![c].pub[mid].phase = ph]
  PROVE  SentLess /\ \A b : ~Sent(client'[c], mid, b)
<1>1. \A x \in Clients : /\ client[x] \in ClientStates
                         /\ client[x].pub \in [ClientMids -> Publication]
  BY PeerIs DEF ClientStates
<1>2. client \in [Clients -> ClientStates]
  BY PeerIs
<1>3. ASSUME NEW x \in Clients, x # c PROVE client'[x] = client[x]
  BY <1>2, <1>3
<1>4. client'[c].pub = [client[c].pub EXCEPT ![mid].phase = ph]
  BY <1>1, <1>2 DEF ClientStates
<1>5. ASSUME NEW m \in ClientMids, m # mid PROVE client'[c].pub[m] = client[c].pub[m]
  BY <1>1, <1>4, <1>5
<1>6. ASSUME mid \in ClientMids PROVE client'[c].pub[mid].phase = ph
  <2>1. client[c].pub[mid] \in Publication
    BY <1>1, <1>6
  <2> QED BY <1>1, <1>4, <1>6, <2>1 DEF Publication
<1>7. \A b : ~Sent(client'[c], mid, b)
  BY <1>6 DEF Sent
<1>8. ASSUME NEW x \in Clients, NEW m \in Nat, NEW b, Sent(client'[x], m, b)
      PROVE  Sent(client[x], m, b)
  <2>1. CASE x # c
    BY <1>3, <1>8, <2>1
  <2>2. CASE x = c
    <3>1. m \in ClientMids /\ m # mid
      BY <1>7, <1>8, <2>2 DEF Sent
    <3> QED BY <1>5, <1>8, <2>2, <3>1 DEF Sent
  <2> QED BY <2>1, <2>2
<1> QED BY <1>7, <1>8 DEF SentLess

(* A client that is done with an identifier sends nothing under it.         *)
LEMMA IdleLess ==
  ASSUME PeerTyped, NEW c \in Clients, NEW mid,
         client' = [client EXCEPT ![c].pub[mid] = Idle]
  PROVE  SentLess
<1>1. \A x \in Clients : /\ client[x] \in ClientStates
                         /\ client[x].pub \in [ClientMids -> Publication]
  BY PeerIs DEF ClientStates
<1>2. client \in [Clients -> ClientStates]
  BY PeerIs
<1>3. ASSUME NEW x \in Clients, x # c PROVE client'[x] = client[x]
  BY <1>2, <1>3
<1>4. client'[c].pub = [client[c].pub EXCEPT ![mid] = Idle]
  BY <1>1, <1>2 DEF ClientStates
<1>5. ASSUME NEW m \in ClientMids
      PROVE  client'[c].pub[m] = client[c].pub[m] \/ client'[c].pub[m] = Idle
  BY <1>1, <1>4
<1>6. Idle.phase = "idle"
  BY DEF Idle
<1>7. ASSUME NEW x \in Clients, NEW m \in Nat, NEW b, Sent(client'[x], m, b)
      PROVE  Sent(client[x], m, b)
  <2>1. CASE x # c
    BY <1>3, <1>7, <2>1
  <2>2. CASE x = c
    BY <1>5, <1>6, <1>7, <2>2 DEF Sent
  <2> QED BY <2>1, <2>2
<1> QED BY <1>7 DEF SentLess

(* A client that connects holds what it has to send again, or nothing.      *)
LEMMA ConnectLess ==
  ASSUME PeerTyped, NEW c \in Clients,
         client' = [client EXCEPT ![c] = Resumed(client[c])] \/ client' = [client EXCEPT ![c] = NewClient]
  PROVE  SentLess
<1>1. client \in [Clients -> ClientStates] /\ \A x \in Clients : client[x] \in ClientStates
  BY PeerIs
<1>2. ASSUME NEW x \in Clients, x # c PROVE client'[x] = client[x]
  BY <1>1, <1>2
<1>3. client'[c] = Resumed(client[c]) \/ client'[c] = NewClient
  BY <1>1
<1>4. ASSUME NEW m \in ClientMids, NEW b, Sent(Resumed(client[c]), m, b) PROVE Sent(client[c], m, b)
  <2>1. client[c].pub[m] \in Publication
    BY <1>1 DEF ClientStates
  <2>2. Resumed(client[c]).pub[m] = [client[c].pub[m] EXCEPT !.phase = Again(client[c].pub[m].phase)]
    BY <1>1 DEF Resumed, ClientStates
  <2>3. /\ Resumed(client[c]).pub[m].phase = Again(client[c].pub[m].phase)
        /\ Resumed(client[c]).pub[m].body = client[c].pub[m].body
    BY <2>1, <2>2 DEF Publication
  <2>4. \A ph \in Phases : Again(ph) \in {"publish", "wait_pubrec"} => ph \in {"publish", "wait_pubrec"}
    BY DEF Phases, Again
  <2> QED BY <1>4, <2>1, <2>3, <2>4 DEF Sent, Publication
<1>5. ASSUME NEW m \in ClientMids, NEW b PROVE ~Sent(NewClient, m, b)
  BY DEF Sent, NewClient, Idle
<1>6. ASSUME NEW x \in Clients, NEW m \in Nat, NEW b, Sent(client'[x], m, b)
      PROVE  Sent(client[x], m, b)
  <2>1. CASE x # c
    BY <1>2, <1>6, <2>1
  <2>2. CASE x = c
    <3>1. m \in ClientMids
      BY <1>6 DEF Sent
    <3> QED BY <1>3, <1>4, <1>5, <1>6, <2>2, <3>1
  <2> QED BY <2>1, <2>2
<1> QED BY <1>6 DEF SentLess

(* handle__pubrel: what is routed is held by nobody any more.               *)
LEMMA PubrelOnce ==
  ASSUME Typed(UniqueQueues), OnceInv, NEW c \in Clients, NEW mid \in Nat, NEW read,
         Pubrel(c, mid, read), SentLess, \A b : ~Sent(client'[c], mid, b), UNCHANGED pubs
  PROVE  OnceInv'
<1> DEFINE K == Matching(q[c].inflight, mid, "in")
           h == Hit(c, mid)
<1>1. /\ Stays(q, q', Clients, Clients \ {c})
      /\ K # {} => \A b : ~Has(q'[c], InAs(mid, b))
  BY PubrelStays
<1>2. /\ Typed(SoundQueues) /\ routed \in [1..MaxPubs -> Nat]
      /\ pubs \in Nat /\ pubs' \in Nat /\ pubs <= pubs'
  <2>1. Typed(SoundQueues)
    BY UniqueSound
  <2>2. HistoryTyped /\ MaxPubs \in Nat
    BY <2>1, BrokerAssumption DEF Typed
  <2>3. routed \in [1..MaxPubs -> Nat] /\ pubs \in 0..MaxPubs
    BY <2>2 DEF HistoryTyped
  <2>4. pubs \in Nat /\ pubs' = pubs
    BY <2>2, <2>3
  <2> QED BY <2>1, <2>3, <2>4
<1>3. K # {} => Has(q[c], InAs(mid, h.body))
  BY <1>2, HitHas
<1>4. routed' = IF K # {} /\ h.topic THEN [routed EXCEPT ![h.body] = @ + 1] ELSE routed
  BY DEF Pubrel, Hit
<1> HIDE DEF K, h
<1>5. ASSUME NEW b \in 1..MaxPubs PROVE OnceAt(b)'
  <2>1. OnceAt(b) /\ b \in Nat
    BY DEF OnceInv
  <2>2. Stays(q, q', Clients, {})
    BY <1>1 DEF Stays
  <2>3. \A d \in Clients, n \in Nat : Holds(d, n, b)' => Holds(d, n, b)
    BY <2>2, HoldsLess
  <2>4. CASE K # {} /\ h.topic /\ h.body = b
    <3>1. Holds(c, mid, b)
      BY <1>3, <2>4 DEF Holds
    <3>2. b <= pubs /\ routed[b] = 0 /\ \A d \in Clients, n \in Nat : Holds(d, n, b) => d = c /\ n = mid
      BY <2>1, <3>1 DEF OnceAt
    <3>3. routed'[b] = 1
      BY <1>2, <1>4, <2>4, <3>2
    <3>4. ~Holds(c, mid, b)'
      BY <1>1, <2>4 DEF Holds
    <3>5. \A d \in Clients, n \in Nat : ~Holds(d, n, b)'
      BY <2>3, <3>2, <3>4
    <3> QED BY <3>2, <3>3, <3>5 DEF OnceAt
  <2>5. CASE ~(K # {} /\ h.topic /\ h.body = b)
    <3>1. routed'[b] = routed[b]
      BY <1>2, <1>4, <2>5
    <3> QED BY <1>2, <2>1, <2>3, <3>1, QuietAt
  <2> QED BY <2>4, <2>5
<1> QED BY <1>5 DEF OnceInv

(* handle__publish for QoS 2: a publication sent again is held by the one   *)
(* that sends it, and one that is new by nobody.                            *)
LEMMA PublishQoS2Once ==
  ASSUME Typed(UniqueQueues), OnceInv, NEW c \in Clients, NEW mid \in ClientMids,
         PublishQoS2(c, mid)
  PROVE  OnceInv'
<1>1. /\ Typed(SoundQueues) /\ PeerTyped /\ HistoryTyped /\ mid \in Nat
      /\ routed \in [1..MaxPubs -> Nat] /\ pubs \in Nat
  <2>1. Typed(SoundQueues)
    BY UniqueSound
  <2>2. PeerTyped /\ HistoryTyped
    BY DEF Typed
  <2>3. routed \in [1..MaxPubs -> Nat] /\ pubs \in Nat
    BY <2>2, BrokerAssumption DEF HistoryTyped
  <2>4. mid \in Nat
    BY BrokerAssumption, LimitsAssumption
  <2> QED BY <2>1, <2>2, <2>3, <2>4
<1>2. /\ Stays(q, q', Clients \ {c}, Continuing) /\ routed' = routed
      /\ \E p \in Sendable(c, mid) : /\ Grown(c, mid, p)
                                     /\ client' = [client EXCEPT ![c].pub[mid] = p]
                                     /\ pubs' = IF p.body > pubs THEN p.body ELSE pubs
  BY <1>1, PublishQoS2Stays
<1>3. PICK p \in Sendable(c, mid) : /\ Grown(c, mid, p)
                                    /\ client' = [client EXCEPT ![c].pub[mid] = p]
                                    /\ pubs' = IF p.body > pubs THEN p.body ELSE pubs
  BY <1>2
<1>4. p.body \in Nat /\ pubs' \in Nat /\ pubs <= pubs' /\ p.body <= pubs'
  <2>1. p \in Publication
    BY <1>1, SendableType
  <2> QED BY <1>1, <1>3, <2>1, BrokerAssumption DEF Publication
<1>5. ASSUME NEW d \in Clients, NEW n \in Nat, NEW b, Sent(client'[d], n, b)
      PROVE  Sent(client[d], n, b) \/ (d = c /\ n = mid /\ b = p.body)
  <2>1. /\ client \in [Clients -> ClientStates] /\ client[d] \in ClientStates
        /\ client[d].pub \in [ClientMids -> Publication]
    BY <1>1, PeerIs DEF ClientStates
  <2>2. CASE d # c
    <3>1. client'[d] = client[d]
      BY <1>3, <2>1, <2>2
    <3> QED BY <1>5, <3>1
  <2>3. CASE d = c
    <3>1. client'[d].pub = [client[d].pub EXCEPT ![mid] = p]
      BY <1>3, <2>1, <2>3 DEF ClientStates
    <3>2. n \in ClientMids
      BY <1>5 DEF Sent
    <3>3. client'[d].pub[n] = IF n = mid THEN p ELSE client[d].pub[n]
      BY <2>1, <3>1, <3>2
    <3> QED BY <1>5, <2>3, <3>3 DEF Sent
  <2> QED BY <2>2, <2>3
<1>6. ASSUME NEW d \in Clients, NEW n \in Nat, NEW b, Has(q'[d], InAs(n, b))
      PROVE  Has(q[d], InAs(n, b)) \/ (d = c /\ n = mid /\ b = p.body)
  <2>1. Kind(InAs(n, b)) /\ InAs(n, b) \in SUBSET Incoming
    BY InAsKind
  <2>2. CASE d # c
    <3>1. Fewer(q[d], q'[d])
      BY <1>2, <2>2 DEF Stays
    <3> QED BY <1>6, <2>1, <3>1 DEF Fewer
  <2>3. CASE d = c
    <3>1. \/ Has(q[c], InAs(n, b))
          \/ \E s \in Stored : s.body = p.body /\ NewMsg(s, mid, "in", 2) \in InAs(n, b)
      BY <1>3, <1>6, <2>1, <2>3 DEF Grown
    <3>2. \A s \in Stored : NewMsg(s, mid, "in", 2) \in InAs(n, b) => n = mid /\ s.body = b
      BY DEF InAs, Ins, NewMsg
    <3> QED BY <2>3, <3>1, <3>2
  <2> QED BY <2>2, <2>3
<1>7. ASSUME NEW d \in Clients, NEW n \in Nat, NEW b, Holds(d, n, b)'
      PROVE  Holds(d, n, b) \/ (d = c /\ n = mid /\ b = p.body)
  BY <1>5, <1>6, <1>7 DEF Holds
<1>8. \/ Holds(c, mid, p.body)
      \/ p.body = pubs + 1
  <2>1. CASE client[c].pub[mid].phase = "publish"
    <3>1. p.body = client[c].pub[mid].body
      <4>1. p = [client[c].pub[mid] EXCEPT !.phase = "wait_pubrec"]
        BY <2>1 DEF Sendable
      <4>2. client[c].pub[mid] \in Publication
        BY <1>1, PeerIs DEF ClientStates
      <4> QED BY <4>1, <4>2 DEF Publication
    <3> QED BY <2>1, <3>1 DEF Holds, Sent
  <2>2. CASE client[c].pub[mid].phase # "publish"
    <3>1. p \in [phase: {"wait_pubrec"}, body: {pubs + 1}, len: Lens, retain: Retains, denied: Denials]
      BY <2>2 DEF Sendable
    <3> QED BY <3>1
  <2> QED BY <2>1, <2>2
<1>9. ASSUME NEW b \in 1..MaxPubs PROVE OnceAt(b)'
  <2>1. OnceAt(b) /\ b \in Nat /\ routed[b] \in Nat /\ routed'[b] = routed[b]
    BY <1>1, <1>2 DEF OnceInv
  <2>2. CASE b # p.body \/ Holds(c, mid, p.body)
    <3>1. \A d \in Clients, n \in Nat : Holds(d, n, b)' => Holds(d, n, b)
      BY <1>7, <2>2
    <3> QED BY <1>1, <1>4, <2>1, <3>1, QuietAt
  <2>3. CASE b = p.body /\ ~Holds(c, mid, p.body)
    <3>1. b = pubs + 1 /\ b <= pubs'
      BY <1>4, <1>8, <2>3
    <3>2. ~(b <= pubs)
      BY <1>1, <3>1
    <3>3. routed[b] = 0 /\ \A d \in Clients, n \in Nat : ~Holds(d, n, b)
      BY <2>1, <3>2 DEF OnceAt
    <3>4. \A d \in Clients, n \in Nat : Holds(d, n, b)' => d = c /\ n = mid
      BY <1>7, <3>3
    <3> QED BY <2>1, <3>1, <3>3, <3>4 DEF OnceAt
  <2> QED BY <2>2, <2>3
<1> QED BY <1>9 DEF OnceInv

(* A step that gives nobody a publication and routes none, but may count    *)
(* one more of QoS 0 or 1.                                                  *)
LEMMA CalmOnce ==
  ASSUME Typed(UniqueQueues), Typed(UniqueQueues)', OnceInv, Stays(q, q', Clients, {}), SentLess,
         routed' = routed, pubs' = pubs \/ pubs' = pubs + 1
  PROVE  OnceInv'
<1>1. pubs \in Nat /\ pubs' \in Nat /\ pubs <= pubs'
  <2>1. pubs \in 0..MaxPubs /\ MaxPubs \in Nat
    BY BrokerAssumption DEF Typed, HistoryTyped
  <2> QED BY <2>1
<1>2. ASSUME NEW b \in 1..MaxPubs PROVE OnceAt(b)'
  <2>1. OnceAt(b) /\ b \in Nat
    BY DEF OnceInv
  <2>2. \A c \in Clients, mid \in Nat : Holds(c, mid, b)' => Holds(c, mid, b)
    BY HoldsLess
  <2> QED BY <1>1, <2>1, <2>2, QuietAt
<1> QED BY <1>2 DEF OnceInv

(* A client that reads a packet holds less, or the same.                    *)
LEMMA ReadOnce ==
  ASSUME Typed(UniqueQueues), Typed(UniqueQueues)', OnceInv, NEW c \in Clients, Read(c)
  PROVE  OnceInv'
<1> DEFINE p == Head(wire[c])
<1>1. Typed(SoundQueues) /\ PeerTyped
  BY UniqueSound DEF Typed
<1>2. wire[c] # <<>> => p.mid \in Nat
  BY <1>1, WireHead
<1>3. client \in [Clients -> ClientStates]
  BY <1>1, PeerIs
<1>4. Stays(q, q', Clients, {})
  <2>1. ASSUME Pubackcomp(c, p.mid), p.mid \in Nat PROVE Stays(q, q', Clients, {})
    <3> HIDE DEF p
    <3>1. Stays(q, q', Clients, Clients \ {c})
      BY <1>1, <2>1, PubackcompStays
    <3> QED BY <3>1 DEF Stays
  <2>2. ASSUME Calm PROVE Stays(q, q', Clients, {})
    BY <2>2 DEF Calm, Stays
  <2>3. ASSUME Pubrel(c, p.mid, Tail(wire[c])), p.mid \in Nat PROVE Stays(q, q', Clients, {})
    <3> DEFINE read == Tail(wire[c])
    <3>1. Pubrel(c, p.mid, read)
      BY <2>3
    <3> HIDE DEF p, read
    <3>2. Stays(q, q', Clients, Clients \ {c})
      BY <2>3, <3>1, PubrelStays
    <3> QED BY <3>2 DEF Stays
  <2> QED BY <1>2, <2>1, <2>2, <2>3, ReadStays DEF Reads
<1>5. CASE ReadPublish(c) \/ ReadPubrel(c)
  <2>1. routed' = routed /\ pubs' = pubs
    BY <1>5 DEF ReadPublish, ReadPubrel, history
  <2>2. \A x \in Clients : client'[x].pub = client[x].pub
    <3>1. \/ client' = client
          \/ \E R : client' = [client EXCEPT ![c].rcvd = R]
      BY <1>5 DEF ReadPublish, ReadPubrel
    <3> QED BY <1>3, <3>1 DEF ClientStates
  <2> QED BY <1>4, <2>1, <2>2, SamePubs, CalmOnce
<1>6. CASE ReadPubrec(c)
  <2> DEFINE ph == "wait_pubcomp"
             mid == p.mid
  <2>1. mid \in Nat /\ pubs' = pubs
    BY <1>2, <1>6 DEF ReadPubrec, Reads
  <2>2. \/ client' = [client EXCEPT ![c].pub[mid].phase = ph]
        \/ client[c].pub[mid].phase \notin {"publish", "wait_pubrec"} /\ client' = client
    BY <1>6 DEF ReadPubrec
  <2>3. ph \notin {"publish", "wait_pubrec"}
    OBVIOUS
  <2>4. \/ Pubrel(c, mid, Tail(wire[c]))
        \/ routed' = routed
    BY <1>6 DEF ReadPubrec
  <2> HIDE DEF mid, ph
  <2>5. SentLess /\ \A b : ~Sent(client'[c], mid, b)
    <3>1. CASE client' = [client EXCEPT ![c].pub[mid].phase = ph]
      BY <1>1, <2>3, <3>1, PhaseLess
    <3>2. CASE client[c].pub[mid].phase \notin {"publish", "wait_pubrec"} /\ client' = client
      BY <3>2 DEF SentLess, Sent
    <3> QED BY <2>2, <3>1, <3>2
  <2>6. CASE routed' = routed
    BY <1>4, <2>1, <2>5, <2>6, CalmOnce
  <2>7. CASE Pubrel(c, mid, Tail(wire[c]))
    BY <2>1, <2>5, <2>7, PubrelOnce
  <2> QED BY <2>4, <2>6, <2>7
<1>7. CASE ReadPubcomp(c)
  <2> DEFINE mid == p.mid
  <2>1. client' = [client EXCEPT ![c].pub[mid] = Idle] /\ routed' = routed /\ pubs' = pubs
    BY <1>7 DEF ReadPubcomp
  <2> HIDE DEF mid
  <2>2. SentLess
    BY <1>1, <2>1, IdleLess
  <2> QED BY <1>4, <2>1, <2>2, CalmOnce
<1> QED BY <1>5, <1>6, <1>7 DEF Read

(* The invariant is kept by every step.                                     *)
LEMMA NextOnce ==
  ASSUME Typed(UniqueQueues), Typed(UniqueQueues)', OnceInv, [Next]_vars
  PROVE  OnceInv'
<1>1. Typed(SoundQueues) /\ PeerTyped
  BY UniqueSound DEF Typed
<1>2. ASSUME Calm PROVE Stays(q, q', Clients, {})
  BY <1>2 DEF Calm, Stays
<1>3. ASSUME Calm, client' = client, routed' = routed, pubs' = pubs \/ pubs' = pubs + 1
      PROVE  OnceInv'
  BY <1>2, <1>3, SamePubs, CalmOnce
<1>4. CASE Loop
  BY <1>1, <1>3, <1>4, LoopCalm DEF Loop, history
<1>5. ASSUME NEW c \in Clients, Connect(c) PROVE OnceInv'
  <2>1. Calm
    BY <1>1, <1>5, ConnectCalm
  <2>2. /\ routed' = routed /\ pubs' = pubs
        /\ client' = [client EXCEPT ![c] = Resumed(client[c])] \/ client' = [client EXCEPT ![c] = NewClient]
    BY <1>5 DEF Connect, history
  <2>3. SentLess
    BY <1>1, <2>2, ConnectLess
  <2> QED BY <1>2, <2>1, <2>2, <2>3, CalmOnce
<1>6. ASSUME NEW c \in Clients, Disconnect(c) \/ ConnectionLost(c) \/ Expire(c) PROVE OnceInv'
  <2>1. client' = client /\ routed' = routed /\ pubs' = pubs
    BY <1>6 DEF Disconnect, ConnectionLost, Expire, history
  <2> QED BY <1>1, <1>3, <1>6, <2>1, LeaveCalm
<1>7. ASSUME NEW c \in Clients, LoopFails(c) PROVE OnceInv'
  <2>1. client' = client /\ routed' = routed /\ pubs' = pubs
    BY <1>7 DEF LoopFails, history
  <2> QED BY <1>1, <1>3, <1>7, <2>1, LoopFailsCalm
<1>8. ASSUME NEW c \in Clients, Subscribe(c) \/ Unsubscribe(c) \/ Publish(c) PROVE OnceInv'
  <2>1. client' = client /\ routed' = routed /\ (pubs' = pubs \/ pubs' = pubs + 1)
    BY <1>8 DEF Subscribe, Unsubscribe, Publish, history
  <2> QED BY <1>1, <1>3, <1>8, <2>1, SubscribeCalm
<1>9. ASSUME NEW c \in Clients, NEW mid \in ClientMids, PublishQoS2(c, mid) PROVE OnceInv'
  BY <1>9, PublishQoS2Once
<1>10. ASSUME NEW c \in Clients, NEW mid \in ClientMids, ResendPubrel(c, mid) PROVE OnceInv'
  <2> DEFINE ph == "wait_pubcomp"
  <2>1. /\ mid \in Nat /\ Pubrel(c, mid, wire[c]) /\ pubs' = pubs
        /\ client' = [client EXCEPT ![c].pub[mid].phase = ph]
    BY <1>10, BrokerAssumption, LimitsAssumption DEF ResendPubrel
  <2>2. ph \notin {"publish", "wait_pubrec"}
    OBVIOUS
  <2> HIDE DEF ph
  <2>3. SentLess /\ \A b : ~Sent(client'[c], mid, b)
    BY <1>1, <2>1, <2>2, PhaseLess
  <2> QED BY <2>1, <2>3, PubrelOnce
<1>11. ASSUME NEW c \in Clients, Read(c) PROVE OnceInv'
  BY <1>11, ReadOnce
<1>12. CASE UNCHANGED vars
  <2>1. q' = q /\ client' = client /\ routed' = routed /\ pubs' = pubs
    BY <1>12 DEF vars, history
  <2>2. Calm
    BY <2>1, StaysThen DEF Calm
  <2> QED BY <1>3, <2>1, <2>2
<1> QED BY <1>4, <1>5, <1>6, <1>7, <1>8, <1>9, <1>10, <1>11, <1>12 DEF Next, Resend

(* At first nobody holds anything.                                          *)
LEMMA InitOnce == Init => OnceInv
<1> SUFFICES ASSUME Init PROVE OnceInv
  OBVIOUS
<1>1. /\ \A c \in Clients : q[c] = EmptyQueue /\ client[c] = NewClient
      /\ routed = [b \in 1..MaxPubs |-> 0]
  BY DEF Init
<1>2. ASSUME NEW c \in Clients, NEW mid \in Nat, NEW b PROVE ~Holds(c, mid, b)
  <2>1. ~Has(q[c], InAs(mid, b))
    BY <1>1, EmptyHas
  <2>2. ~Sent(client[c], mid, b)
    BY <1>1 DEF Sent, NewClient, Idle
  <2> QED BY <2>1, <2>2 DEF Holds
<1>3. ASSUME NEW b \in 1..MaxPubs PROVE OnceAt(b)
  <2>1. routed[b] = 0
    BY <1>1
  <2> QED BY <1>2, <2>1 DEF OnceAt
<1> QED BY <1>3 DEF OnceInv

(* A publication of QoS 2 goes to the subscribers once at most, however     *)
(* often its client reconnects and sends it, or its PUBREL, again and       *)
(* whatever the broker queues, drops or forgets: while it can still be      *)
(* routed, one client holds it under one identifier, and the PUBREL that    *)
(* routes it takes it from the lists of that client.                        *)
THEOREM RoutedAtMostOnce == Spec => []RoutedOnce
<1>1. Init => Typed(UniqueQueues) /\ OnceInv
  BY UniqueClosed, InitTyped, InitOnce DEF Closed
<1>2. Typed(UniqueQueues) /\ OnceInv /\ [Next]_vars => Typed(UniqueQueues)' /\ OnceInv'
  BY UniqueClosed, StepTyped, NextOnce
<1>3. OnceInv => RoutedOnce
  BY DEF OnceInv, OnceAt, RoutedOnce
<1> QED BY <1>1, <1>2, <1>3, PTL DEF Spec

=============================================================================
