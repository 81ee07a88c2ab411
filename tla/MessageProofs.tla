--------------------------- MODULE MessageProofs ----------------------------
(*****************************************************************************)
(* Theorems about what becomes of messages: what a publisher believes to be  *)
(* done is done, the store counts the references to its messages and frees   *)
(* them, and a restart brings back what was saved.                           *)
(*****************************************************************************)
EXTENDS BrokerProofs, Restart

-----------------------------------------------------------------------------
(* Publishers whose messages do not have to wait for the window.            *)

(* No message from a client waits in a queue for its turn.                  *)
NoneWaits == \A c \in Clients : \A i \in DOMAIN q[c].queued : q[c].queued[i].dir = "out"

(* What is then in flight: a message from a client waits for its PUBREL,    *)
(* and one for a client is in no state of one from a client.  What is       *)
(* queued is for the client.                                                *)
Rests(m) == IF m.dir = "in" THEN m.state = "wait_for_pubrel" ELSE m.state \notin InStates

Settled == {m \in ClientMsg : Rests(m)}
Due     == {m \in Settled : m.dir = "out"}
Parked  == {m \in ClientMsg : m.dir = "out" => m.state \notin InStates}

Lists(cq, T) == cq.inflight \in Seq(Settled) /\ cq.queued \in Seq(T)

QuietQueues == {cq \in UniqueQueues : Lists(cq, Due)}
FedQueues   == {cq \in UniqueQueues : Lists(cq, Parked)}

(* Messages that are started, published, sent and reset stay such messages. *)
LEMMA SettledSteps ==
  /\ Settled \subseteq ClientMsg /\ Due \subseteq Settled /\ Due \subseteq Parked
  /\ \A qos \in QoS : PublishState(qos) \notin InStates
  /\ \A m \in Due : Started(m) \in Settled
  /\ \A m \in Settled : AfterSend(m) \in Settled /\ ResetState(m) \in Settled
<1>1. /\ Settled \subseteq ClientMsg /\ Due \subseteq Settled /\ Due \subseteq Parked
  BY DEF Settled, Due, Parked, Rests
<1>2. \A qos \in QoS : PublishState(qos) \notin InStates /\ PublishState(qos) \in States
  BY DEF QoS, PublishState, InStates, States, OutStates
<1>3. ASSUME NEW m \in Settled, m.dir = "out", NEW st \in States \ InStates
      PROVE  [m EXCEPT !.state = st] \in Settled
  BY <1>3 DEF Settled, ClientMsg, Rests
<1>4. ASSUME NEW m \in Due PROVE Started(m) \in Settled
  <2>1. m \in Settled /\ m.dir = "out" /\ m.qos \in QoS
    BY DEF Due, Settled, ClientMsg
  <2> QED BY <1>2, <1>3, <2>1 DEF Started
<1>5. ASSUME NEW m \in Settled PROVE AfterSend(m) \in Settled
  <2>1. CASE m.dir = "out"
    <3>1. m.state \notin {"send_pubrec", "resend_pubcomp"}
      BY <2>1 DEF Settled, Rests, InStates
    <3>2. {"wait_for_puback", "wait_for_pubrec", "wait_for_pubcomp"} \subseteq States \ InStates
      BY DEF States, OutStates, InStates
    <3> QED BY <1>3, <2>1, <3>1, <3>2 DEF AfterSend
  <2>2. CASE m.dir # "out"
    <3>1. m.state = "wait_for_pubrel"
      BY <2>2 DEF Settled, Rests, ClientMsg
    <3> QED BY <3>1 DEF AfterSend
  <2> QED BY <2>1, <2>2
<1>6. ASSUME NEW m \in Settled PROVE ResetState(m) \in Settled
  <2>1. m.qos \in QoS /\ m.dir \in {"in", "out"}
    BY DEF Settled, ClientMsg
  <2>2. "resend_pubrel" \in States \ InStates
    BY DEF States, OutStates, InStates
  <2> QED BY <1>2, <1>3, <2>1, <2>2 DEF ResetState
<1> QED BY <1>1, <1>2, <1>4, <1>5, <1>6

(* A message inserted in a list that takes it.                              *)
LEMMA InsertLists ==
  ASSUME NEW cq \in SoundQueues, NEW T, Parked \subseteq ClientMsg, T \in {Due, Parked}, Lists(cq, T),
         NEW online \in BOOLEAN, NEW s \in Stored, NEW mid \in Nat, NEW dir \in {"in", "out"},
         NEW qos \in QoS, dir = "in" => T = Parked
  PROVE  Lists(Insert(cq, online, s, mid, dir, qos), T)
<1> DEFINE st == InsertState(cq, online, dir, qos)
           m  == [store |-> s, mid |-> mid, dir |-> dir, state |-> st, qos |-> qos]
           t  == Plus(cq.tally, Tally(<<m>>))
<1>1. \/ st = "dropped" \/ st = "queued"
      \/ st = (IF dir = "out" THEN PublishState(qos) ELSE "wait_for_pubrel")
  BY DEF InsertState
<1>2. CASE st = "dropped"
  BY <1>2 DEF Insert
<1>3. CASE st = "queued"
  <2>1. m \in ClientMsg
    BY <1>3 DEF ClientMsg, States
  <2>2. m \in T
    <3>1. m \in Parked /\ (dir = "out" => m \in Due)
      BY <1>3, <2>1 DEF Due, Parked, Settled, Rests, InStates
    <3> QED BY <3>1
  <2>3. Insert(cq, online, s, mid, dir, qos) = [cq EXCEPT !.queued = Append(cq.queued, m), !.tally = t]
    BY <1>3 DEF Insert, SoundQueues
  <2> HIDE DEF m, t
  <2>4. Append(cq.queued, m) \in Seq(T)
    BY <2>2 DEF Lists
  <2> QED BY <2>3, <2>4 DEF Lists, SoundQueues
<1>4. CASE st # "dropped" /\ st # "queued"
  <2>1. st \in States /\ (dir = "in" => st = "wait_for_pubrel") /\ (dir = "out" => st \notin InStates)
    <3>1. PublishState(qos) \in States /\ PublishState(qos) \notin InStates
      BY MsgSteps, SettledSteps DEF States
    <3>2. "wait_for_pubrel" \in States
      BY DEF States, InStates
    <3> QED BY <1>1, <1>4, <3>1, <3>2
  <2> HIDE DEF st
  <2>2. m \in Settled
    BY <2>1 DEF ClientMsg, Settled, Rests
  <2>3. Insert(cq, online, s, mid, dir, qos) = [cq EXCEPT !.inflight = Append(cq.inflight, m), !.tally = t]
    BY <1>4 DEF Insert, SoundQueues, st
  <2> HIDE DEF m, t
  <2>4. Append(cq.inflight, m) \in Seq(Settled)
    BY <2>2 DEF Lists
  <2> QED BY <2>3, <2>4 DEF Lists, SoundQueues
<1> QED BY <1>1, <1>2, <1>3, <1>4

(* db__message_dequeue_first, db__message_remove and the walk of            *)
(* db__message_write over inflight_msgs.                                    *)
LEMMA StepLists ==
  ASSUME NEW cq \in SoundQueues, Lists(cq, Due)
  PROVE  /\ \A k \in 0..Len(cq.queued) : Lists(Dequeue(cq, k), Due)
         /\ \A K : Lists(Remove(cq, K), Due)
         /\ \A P : Lists(SendAll(cq, P), Due)
<1>1. /\ cq.inflight \in Seq(Settled) /\ cq.queued \in Seq(Due) /\ Len(cq.queued) \in Nat
      /\ DOMAIN cq.inflight = 1..Len(cq.inflight) /\ Len(cq.inflight) \in Nat
      /\ \A i \in 1..Len(cq.inflight) : cq.inflight[i] \in Settled
  BY DEF Lists
<1>2. ASSUME NEW k \in 0..Len(cq.queued) PROVE Lists(Dequeue(cq, k), Due)
  <2> DEFINE head == SubSeq(cq.queued, 1, k)
             tail == SubSeq(cq.queued, k + 1, Len(cq.queued))
  <2>1. head \in Seq(Due) /\ tail \in Seq(Due)
    BY <1>1, SubSeqProperties
  <2>2. Dequeue(cq, k) = [cq EXCEPT !.inflight = cq.inflight \o Mapped(head, Started), !.queued = tail]
    BY DEF Dequeue, SoundQueues
  <2> HIDE DEF head, tail
  <2>3. Mapped(head, Started) \in Seq(Settled)
    <3>1. /\ DOMAIN head = 1..Len(head) /\ Len(head) \in Nat
          /\ \A i \in 1..Len(head) : head[i] \in Due
      BY <2>1
    <3>2. \A i \in 1..Len(head) : Started(head[i]) \in Settled
      BY <3>1, SettledSteps
    <3> QED BY <3>1, <3>2 DEF Mapped
  <2>4. cq.inflight \o Mapped(head, Started) \in Seq(Settled)
    BY <1>1, <2>3
  <2> QED BY <2>1, <2>2, <2>4 DEF Lists, SoundQueues
<1>3. ASSUME NEW K PROVE Lists(Remove(cq, K), Due)
  <2> DEFINE s == Keep(cq.inflight, DOMAIN cq.inflight \ K)
             t == Minus(cq.tally, Tally(Keep(cq.inflight, K)))
  <2>1. s \in Seq(Settled)
    BY <1>1, KeepType
  <2>2. Remove(cq, K) = [cq EXCEPT !.inflight = s, !.tally = t]
    BY DEF Remove, SoundQueues
  <2> HIDE DEF s, t
  <2> QED BY <1>1, <2>1, <2>2 DEF Lists, SoundQueues
<1>4. ASSUME NEW P PROVE Lists(SendAll(cq, P), Due)
  <2> DEFINE r == Remove(cq, SentQoS0(cq, P))
             s == [i \in DOMAIN cq.inflight |-> IF i \in P THEN AfterSend(cq.inflight[i])
                                                           ELSE cq.inflight[i]]
             k == Keep(s, DOMAIN s \ SentQoS0(cq, P))
  <2>1. r \in SoundQueues /\ r.queued = cq.queued
    BY RemoveSound
  <2>2. s \in Seq(Settled)
    <3>1. \A i \in 1..Len(cq.inflight) : s[i] \in Settled
      BY <1>1, SettledSteps
    <3>2. s = [i \in 1..Len(cq.inflight) |-> s[i]]
      BY <1>1
    <3>3. Len(cq.inflight) \in Nat
      BY <1>1
    <3> DEFINE n == Len(cq.inflight)
    <3> HIDE DEF s
    <3>4. n \in Nat /\ s \in [1..n -> Settled]
      BY ONLY <3>1, <3>2, <3>3
    <3> HIDE DEF n
    <3> QED BY ONLY <3>4
  <2>3. k \in Seq(Settled)
    <3> HIDE DEF s
    <3> QED BY <2>2, KeepType
  <2>4. SendAll(cq, P) = [r EXCEPT !.inflight = k]
    BY DEF SendAll
  <2> HIDE DEF r, k
  <2> QED BY <1>1, <2>1, <2>3, <2>4 DEF Lists, SoundQueues
<1> QED BY <1>2, <1>3, <1>4

(* db__message_update: it looks for a message for the client.               *)
LEMMA UpdateLists ==
  ASSUME NEW cq \in SoundQueues, Lists(cq, Due), NEW mid
  PROVE  Lists(Update(cq, mid, "out", "wait_for_pubcomp"), Due)
<1> DEFINE K  == Matching(cq.inflight, mid, "out")
           f  == CHOOSE i \in K : \A j \in K : i <= j
           st == "wait_for_pubcomp"
           s  == [cq.inflight EXCEPT ![f].state = st]
<1>1. cq.inflight \in Seq(Settled) /\ cq.queued \in Seq(Due)
  BY DEF Lists
<1>2. CASE K = {}
  BY <1>2 DEF Update
<1>3. CASE K # {}
  <2>1. K \subseteq Nat
    BY <1>1 DEF Matching
  <2>2. f \in K
    <3> HIDE DEF K
    <3> QED BY <1>3, <2>1, FirstIn
  <2>3. f \in DOMAIN cq.inflight /\ cq.inflight[f].dir = "out"
    <3> HIDE DEF f
    <3> QED BY <2>2 DEF Matching
  <2>4. Update(cq, mid, "out", "wait_for_pubcomp") = [cq EXCEPT !.inflight = s]
    BY <1>3 DEF Update, SoundQueues
  <2> HIDE DEF f
  <2>5. [cq.inflight[f] EXCEPT !.state = st] \in Settled
    <3>1. cq.inflight[f] \in Settled
      BY <1>1, <2>3
    <3>2. st \in States \ InStates
      BY DEF States, OutStates, InStates
    <3> QED BY <2>3, <3>1, <3>2 DEF Settled, ClientMsg, Rests
  <2>6. s \in Seq(Settled)
    <3>1. s = [cq.inflight EXCEPT ![f] = [cq.inflight[f] EXCEPT !.state = st]]
      OBVIOUS
    <3> HIDE DEF s, st
    <3> QED BY <1>1, <2>3, <2>5, <3>1
  <2> HIDE DEF s
  <2> QED BY <1>1, <2>4, <2>6 DEF Lists, SoundQueues
<1> QED BY <1>2, <1>3

(* db__message_reconnect_reset: the messages it takes from the queue are    *)
(* for the client.                                                          *)
LEMMA ResetLists ==
  ASSUME NEW cq \in SoundQueues, Lists(cq, Due)
  PROVE  Lists(Reset(cq), Due)
<1> DEFINE R == {r \in Resets : Lists(r.q, Due)}
           s == Mapped(cq.inflight, ResetState)
<1>1. ResetFirst(cq) \in R
  <2>1. cq.inflight \in Seq(Settled) /\ cq.queued \in Seq(Due)
    BY DEF Lists
  <2>2. s \in Seq(Settled)
    <3>1. /\ DOMAIN cq.inflight = 1..Len(cq.inflight) /\ Len(cq.inflight) \in Nat
          /\ \A i \in 1..Len(cq.inflight) : cq.inflight[i] \in Settled
      BY <2>1
    <3>2. \A i \in 1..Len(cq.inflight) : ResetState(cq.inflight[i]) \in Settled
      BY <3>1, SettledSteps
    <3> QED BY <3>1, <3>2 DEF Mapped
  <2>3. /\ s \in Seq(InflightMsg) /\ Tally(s) \in Tallies
    <3>1. ResetFirst(cq).q = [cq EXCEPT !.inflight = s, !.tally = Tally(s)]
      BY DEF ResetFirst
    <3>2. cq.inflight \in Seq(InflightMsg)
      BY SoundParts
    <3>3. /\ DOMAIN cq.inflight = 1..Len(cq.inflight) /\ Len(cq.inflight) \in Nat
          /\ \A i \in 1..Len(cq.inflight) : ResetState(cq.inflight[i]) \in InflightMsg
      BY <3>2, MsgSteps
    <3>4. s \in Seq(InflightMsg)
      BY <3>3 DEF Mapped
    <3>5. s \in Seq(ClientMsg)
      <4> HIDE DEF s
      <4> QED BY <3>4 DEF InflightMsg
    <3> HIDE DEF s
    <3> QED BY <3>4, <3>5, TallyType
  <2>4. ResetFirst(cq) = [q |-> [cq EXCEPT !.inflight = s, !.tally = Tally(s)], p |-> 1]
    BY DEF ResetFirst
  <2> HIDE DEF s
  <2> DEFINE t == Tally(s)
             u == [cq EXCEPT !.inflight = s, !.tally = t]
  <2>5. t \in Tallies /\ ResetFirst(cq) = [q |-> u, p |-> 1]
    BY <2>3, <2>4
  <2> HIDE DEF t
  <2>6. u \in SoundQueues /\ Lists(u, Due)
    BY <2>1, <2>2, <2>3, <2>5 DEF SoundQueues, Lists
  <2> HIDE DEF u
  <2> QED BY <2>5, <2>6 DEF Resets
<1> HIDE DEF s
<1>2. ASSUME NEW r \in R, ~(r.p > Len(r.q.queued)) PROVE ResetVisit(r.q, r.p) \in R
  <2> DEFINE u == r.q
             p == r.p
             m == u.queued[p]
             t == Plus(u.tally, Tally(<<m>>))
             z == [u.queued EXCEPT ![p].state = PublishState(m.qos)]
             v == ResetVisit(r.q, r.p)
  <2>1. v \in Resets /\ u \in SoundQueues /\ Lists(u, Due) /\ p \in Nat \ {0}
    BY <1>2, ResetVisitSound DEF Resets
  <2>2. u.inflight \in Seq(Settled) /\ u.queued \in Seq(Due) /\ p \in DOMAIN u.queued
    <3>1. u.inflight \in Seq(Settled) /\ u.queued \in Seq(Due)
      BY <2>1 DEF Lists
    <3>2. Len(u.queued) \in Nat /\ DOMAIN u.queued = 1..Len(u.queued)
      BY <3>1
    <3> QED BY <1>2, <2>1, <3>1, <3>2
  <2>3. \/ v = [q |-> [u EXCEPT !.inflight = Append(u.inflight, Head(z)), !.queued = Tail(z), !.tally = t], p |-> 1]
        \/ v = [q |-> [u EXCEPT !.tally = t], p |-> p + 1]
    <3>1. u.inflight = r.q.inflight
      OBVIOUS
    <3> QED BY <2>1 DEF ResetVisit, SoundQueues
  <2> HIDE DEF u, p, v, t
  <2>4. z \in Seq(Due) /\ z # <<>>
    <3> DEFINE n == [m EXCEPT !.state = PublishState(m.qos)]
    <3>1. m \in Due
      BY <2>2
    <3>2. m.qos \in QoS
      BY <3>1 DEF Due, Settled, ClientMsg
    <3>3. PublishState(m.qos) \in States \ InStates
      BY <3>2, MsgSteps, SettledSteps DEF States
    <3>4. n \in Due
      BY <3>1, <3>3 DEF Due, Settled, ClientMsg, Rests
    <3>5. z = [u.queued EXCEPT ![p] = n]
      OBVIOUS
    <3> HIDE DEF n, m
    <3> QED BY ONLY <2>2, <3>4, <3>5
  <2> HIDE DEF z
  <2>5. Head(z) \in Due /\ Tail(z) \in Seq(Due)
    BY <2>4, HeadTailProperties
  <2>6. Append(u.inflight, Head(z)) \in Seq(Settled)
    BY <2>2, <2>5, SettledSteps
  <2>7. Lists(v.q, Due)
    <3>1. /\ v.q.inflight = Append(u.inflight, Head(z)) \/ v.q.inflight = u.inflight
          /\ v.q.queued = Tail(z) \/ v.q.queued = u.queued
      <4> DEFINE a == Append(u.inflight, Head(z))
                 b == Tail(z)
      <4> HIDE DEF m, R, a, b
      <4>1. \/ v.q = [u EXCEPT !.inflight = a, !.queued = b, !.tally = t]
            \/ v.q = [u EXCEPT !.tally = t]
        BY <2>3 DEF a, b
      <4>2. u \in SoundQueues
        BY <2>1
      <4>3. v.q.inflight = a \/ v.q.inflight = u.inflight
        BY <4>1, <4>2 DEF SoundQueues
      <4>4. v.q.queued = b \/ v.q.queued = u.queued
        BY <4>1, <4>2 DEF SoundQueues
      <4> QED BY <4>3, <4>4 DEF a, b
    <3> QED BY <2>2, <2>5, <2>6, <3>1 DEF Lists
  <2> QED BY <2>1, <2>7 DEF v
<1>3. Turns(cq) \in Nat
  BY SoundParts DEF Turns
<1>4. \E r \in R : Reset(cq) = r.q
  <2> HIDE DEF R
  <2> QED BY <1>1, <1>2, <1>3, ResetIn
<1> QED BY <1>4

(* The functions of database.c leave such queues to each other: only a      *)
(* message from the client that does not go into flight could change that.  *)
LEMMA QuietServes ==
  /\ Stable(QuietQueues) /\ Serves(QuietQueues)
  /\ Stable(FedQueues) /\ Fills(FedQueues)
<1>1. /\ Stable(UniqueQueues) /\ Fills(UniqueQueues) /\ Serves(UniqueQueues)
      /\ UniqueQueues \subseteq SoundQueues /\ Parked \subseteq ClientMsg
  BY UniqueClosed DEF Closed, UniqueQueues, Parked
<1>2. ASSUME NEW T \in {Due, Parked}
      PROVE  Stable({cq \in UniqueQueues : Lists(cq, T)})
  <2> DEFINE R == {cq \in UniqueQueues : Lists(cq, T)}
  <2>1. R \subseteq Queues /\ EmptyQueue \in R
    <3>1. Lists(EmptyQueue, T)
      BY DEF Lists, EmptyQueue
    <3> QED BY <1>1, <3>1 DEF Stable
  <2>2. ASSUME NEW cq \in R, NEW n \in Nat PROVE [cq EXCEPT !.last_mid = n] \in R
    <3>1. [cq EXCEPT !.last_mid = n] \in UniqueQueues
      BY <1>1 DEF Stable
    <3>2. Lists([cq EXCEPT !.last_mid = n], T)
      BY <1>1 DEF Lists, SoundQueues
    <3> QED BY <3>1, <3>2
  <2>3. ASSUME NEW cq \in R, NEW online \in BOOLEAN, NEW s \in Stored, NEW mid \in Nat, NEW qos \in QoS
        PROVE  Insert(cq, online, s, mid, "out", qos) \in R
    <3>1. Insert(cq, online, s, mid, "out", qos) \in UniqueQueues
      BY <1>1 DEF Stable
    <3> DEFINE dir == "out"
    <3>2. dir \in {"in", "out"} /\ dir # "in"
      OBVIOUS
    <3> HIDE DEF dir
    <3>3. Lists(Insert(cq, online, s, mid, dir, qos), T)
      BY <1>1, <3>2, InsertLists
    <3> QED BY <3>1, <3>3 DEF dir
  <2> HIDE DEF R
  <2>4. Stable(R)
    BY <2>1, <2>2, <2>3 DEF Stable
  <2> QED BY <2>4 DEF R
<1>3. Fills(FedQueues)
  <2>1. ASSUME NEW cq \in FedQueues, NEW s \in Stored, NEW mid \in Nat,
               mid = s.source_mid, StoreFind(cq, mid) = {}
        PROVE  Insert(cq, TRUE, s, mid, "in", 2) \in FedQueues
    <3> DEFINE dir == "in"
               on  == TRUE
               two == 2
               T   == Parked
    <3>1. Insert(cq, on, s, mid, dir, two) \in UniqueQueues
      BY <1>1, <2>1 DEF Fills, FedQueues
    <3>2. /\ dir \in {"in", "out"} /\ on \in BOOLEAN /\ two \in QoS /\ cq \in SoundQueues
          /\ T \in {Due, Parked} /\ Lists(cq, T) /\ T = Parked
      BY <1>1 DEF QoS, FedQueues
    <3> HIDE DEF dir, on, two, T
    <3>3. Lists(Insert(cq, on, s, mid, dir, two), T)
      BY <1>1, <3>2, InsertLists
    <3> QED BY <3>1, <3>3 DEF dir, on, two, T, FedQueues
  <2> QED BY <2>1 DEF Fills
<1>4. ASSUME NEW cq \in QuietQueues
      PROVE  /\ \A mid \in Nat : /\ Delete(cq, mid, "out") \in QuietQueues
                                 /\ Release(cq, mid) \in QuietQueues
                                 /\ Update(cq, mid, "out", "wait_for_pubcomp") \in QuietQueues
             /\ Write(cq) \in QuietQueues /\ Reset(cq) \in QuietQueues
             /\ \A i \in Nat : WriteFailsAt(cq, i) \in QuietQueues
             /\ \A j \in 1..WriteMoves(cq) : cq.queued[j].dir # "in"
  <2>1. cq \in SoundQueues /\ cq \in UniqueQueues /\ Lists(cq, Due)
    BY <1>1 DEF QuietQueues
  <2>2. ASSUME NEW K, NEW k \in 0..Len(cq.queued) PROVE Lists(Dequeue(Remove(cq, K), k), Due)
    <3>1. Remove(cq, K) \in SoundQueues /\ Remove(cq, K).queued = cq.queued
      BY <2>1, RemoveSound
    <3>2. Lists(Remove(cq, K), Due)
      BY <2>1, StepLists
    <3> QED BY <3>1, <3>2, StepLists
  <2>3. ASSUME NEW P, NEW k \in 0..Len(cq.queued)
        PROVE  Lists(SendAll(cq, P), Due) /\ Lists(Dequeue(SendAll(cq, P), k), Due)
    <3>1. SendAll(cq, P) \in SoundQueues /\ SendAll(cq, P).queued = cq.queued
      BY <2>1, SendAllSound
    <3>2. Lists(SendAll(cq, P), Due)
      BY <2>1, StepLists
    <3> QED BY <3>1, <3>2, StepLists
  <2>4. /\ ReleaseMoves(cq) \in 0..Len(cq.queued) /\ WriteMoves(cq) \in 0..Len(cq.queued)
        /\ \A mid : DeleteMoves(cq, mid, "out") \in 0..Len(cq.queued)
        /\ Len(cq.queued) \in Nat
    BY <2>1, ReleaseSound, WriteSound, DeleteSound, SoundParts
  <2>5. ASSUME NEW mid \in Nat
        PROVE  /\ Lists(Delete(cq, mid, "out"), Due) /\ Lists(Release(cq, mid), Due)
               /\ Lists(Update(cq, mid, "out", "wait_for_pubcomp"), Due)
    BY <2>1, <2>2, <2>4, UpdateLists DEF Delete, Release
  <2>6. Lists(Write(cq), Due) /\ \A i \in Nat : Lists(WriteFailsAt(cq, i), Due)
    BY <2>3, <2>4 DEF Write, WriteFailsAt
  <2>7. Lists(Reset(cq), Due)
    BY <2>1, ResetLists
  <2>8. \A j \in 1..WriteMoves(cq) : cq.queued[j].dir # "in"
    <3>1. cq.queued \in Seq(Due)
      BY <2>1 DEF Lists
    <3>2. \A j \in 1..WriteMoves(cq) : j \in 1..Len(cq.queued)
      BY <2>4
    <3> QED BY <3>1, <3>2 DEF Due
  <2>9. /\ \A mid \in Nat : /\ Delete(cq, mid, "out") \in UniqueQueues
                            /\ Release(cq, mid) \in UniqueQueues
                            /\ Update(cq, mid, "out", "wait_for_pubcomp") \in UniqueQueues
        /\ Write(cq) \in UniqueQueues /\ Reset(cq) \in UniqueQueues
        /\ \A i \in Nat : WriteFailsAt(cq, i) \in UniqueQueues
    BY <1>1, <2>1 DEF Serves
  <2> QED BY <2>5, <2>6, <2>7, <2>8, <2>9 DEF QuietQueues
<1>5. Serves(QuietQueues)
  BY <1>4 DEF Serves
<1>6. Stable(QuietQueues) /\ Stable(FedQueues)
  BY <1>2 DEF QuietQueues, FedQueues
<1> QED BY <1>3, <1>5, <1>6

(* While none waits, every queue stays such a queue.                        *)
LEMMA QuietStep ==
  ASSUME Typed(QuietQueues), [Next]_vars, NoneWaits'
  PROVE  Typed(QuietQueues)'
<1>1. CASE ~\E c \in Clients, mid \in ClientMids : PublishQoS2(c, mid)
  BY <1>1, QuietServes, ServedTyped
<1>2. ASSUME NEW c \in Clients, NEW mid \in ClientMids, PublishQoS2(c, mid)
      PROVE  Typed(QuietQueues)'
  <2>1. QuietQueues \subseteq FedQueues
    <3>1. \A s \in Seq(Due) : s \in Seq(Parked)
      BY SettledSteps
    <3> QED BY <3>1 DEF QuietQueues, FedQueues, Lists
  <2>2. Typed(FedQueues)
    <3>1. q \in [Clients -> FedQueues]
      BY <2>1 DEF Typed
    <3> QED BY <3>1 DEF Typed
  <2>3. Typed(FedQueues)'
    BY <1>2, <2>2, QuietServes, PublishQoS2Typed
  <2>4. ASSUME NEW x \in Clients PROVE q'[x] \in QuietQueues
    <3>1. q'[x] \in UniqueQueues /\ q'[x].inflight \in Seq(Settled) /\ q'[x].queued \in Seq(Parked)
      BY <2>3 DEF Typed, FedQueues, Lists
    <3> DEFINE s == q'[x].queued
    <3>2. /\ s \in Seq(Parked) /\ DOMAIN s = 1..Len(s) /\ Len(s) \in Nat
          /\ \A i \in 1..Len(s) : s[i] \in Parked /\ s[i].dir = "out"
      <4>1. \A i \in DOMAIN s : s[i].dir = "out"
        BY DEF NoneWaits
      <4>2. s \in Seq(Parked)
        BY <3>1
      <4> HIDE DEF s
      <4> QED BY <4>1, <4>2
    <3>3. s \in Seq(Due)
      <4> HIDE DEF s
      <4>1. \A i \in 1..Len(s) : s[i] \in Due
        BY <3>2 DEF Parked, Due, Settled, Rests
      <4> QED BY <3>2, <4>1
    <3> QED BY <3>1, <3>3 DEF QuietQueues, Lists
  <2>5. q' \in [Clients -> QuietQueues]
    <3>1. q' \in [Clients -> FedQueues]
      BY <2>3 DEF Typed
    <3> QED BY <2>4, <3>1
  <2> QED BY <2>3, <2>5 DEF Typed
<1> QED BY <1>1, <1>2

(* In such queues no message from a client is in the state of one for it.   *)
LEMMA QuietEchoes == Typed(QuietQueues) => NeverEchoed
<1> SUFFICES ASSUME Typed(QuietQueues), NEW c \in Clients, NEW i \in DOMAIN q[c].inflight,
                    q[c].inflight[i].dir = "in"
             PROVE  q[c].inflight[i].state \in InStates
  BY DEF NeverEchoed
<1>1. q[c].inflight \in Seq(Settled)
  BY DEF Typed, QuietQueues, Lists
<1>2. q[c].inflight[i] \in Settled
  BY <1>1
<1> QED BY <1>2 DEF Settled, Rests, InStates

-----------------------------------------------------------------------------
(* The packets of a client and of the broker.                               *)

(* Packets that answer nothing, and answers to a client under identifiers   *)
(* it may have used.                                                        *)
Plain == {p \in Packets : p.type \notin {"pubrec", "pubcomp"}}
Known == {p \in Packets : p \in Plain \/ p.mid \in ClientMids}

AnswerCount(type, mid) == Counts(Packets, {p \in Packets : p.type = type /\ p.mid = mid})

(* The messages of a list that are not removed are those that are kept.     *)
LEMMA KeepOnly ==
  ASSUME NEW S, NEW s \in Seq(S), NEW K \in SUBSET (DOMAIN s), NEW T, \A i \in K : s[i] \in T
  PROVE  Keep(s, K) \in Seq(T)
<1> DEFINE A == S \ T
           r == Keep(s, K)
           P == {i \in DOMAIN r : r[i] \in A}
<1>1. r \in Seq(S)
  BY KeepType
<1>2. Counts(S, A)[r] = 0
  <2>1. {i \in K : s[i] \in A} = {}
    OBVIOUS
  <2>2. Counts(S, A)[r] = Cardinality({i \in K : s[i] \in A})
    <3> HIDE DEF A
    <3> QED BY KeepCounts
  <2> HIDE DEF A, r
  <2> QED BY <2>1, <2>2, FS_EmptySet
<1> HIDE DEF r
<1>3. P = {}
  <2>1. Counts(S, A)[r] = Cardinality(P)
    BY <1>1 DEF Counts
  <2>2. IsFiniteSet(P)
    <3>1. P \in SUBSET (DOMAIN r)
      OBVIOUS
    <3> HIDE DEF P
    <3> QED BY <1>1, <3>1, FiniteDomain
  <2> HIDE DEF P
  <2> QED BY <1>2, <2>1, <2>2, FS_EmptySet
<1>4. /\ DOMAIN r = 1..Len(r) /\ Len(r) \in Nat
      /\ \A i \in 1..Len(r) : r[i] \in S
  BY <1>1
<1>5. \A i \in 1..Len(r) : r[i] \in T
  BY <1>3, <1>4
<1>6. r = [i \in 1..Len(r) |-> r[i]]
  BY <1>1
<1>7. r \in Seq(T)
  BY <1>4, <1>5, <1>6
<1> QED BY <1>7 DEF r

(* While none waits, db__message_write answers nothing, and the loops over  *)
(* the queue send no PUBREC.                                                *)
LEMMA QuietSends ==
  ASSUME NEW cq \in QuietQueues
  PROVE  /\ \A P \in SUBSET Pending(cq) : PacketsAt(cq, P) \in Seq(Plain)
         /\ \A k \in 0..Len(cq.queued) : DequeuePubrecs(cq, k) = <<>>
<1>1. cq.inflight \in Seq(Settled) /\ cq.queued \in Seq(Due) /\ Len(cq.queued) \in Nat
  BY DEF QuietQueues, Lists
<1>2. ASSUME NEW P \in SUBSET Pending(cq) PROVE PacketsAt(cq, P) \in Seq(Plain)
  <2> DEFINE S == {m \in Settled : Sends(m)}
             s == Keep(cq.inflight, P)
  <2>1. \A i \in P : i \in DOMAIN cq.inflight /\ cq.inflight[i] \in S
    BY <1>1 DEF Pending
  <2>2. s \in Seq(S)
    <3> HIDE DEF S
    <3> QED BY <1>1, <2>1, KeepOnly
  <2>3. ASSUME NEW m \in S PROVE PacketOf(m) \in Plain
    <3>1. m \in ClientMsg /\ m.mid \in Nat /\ m.qos \in QoS /\ m.store.body \in Nat
      BY DEF Settled, ClientMsg, Stored
    <3>2. m.state \in {"publish_qos0", "publish_qos1", "publish_qos2", "resend_pubrel"}
      BY DEF Settled, Rests, Sends, InStates
    <3>3. Ack("pubrel", m.mid) \in Plain
      BY <3>1, AckType DEF Ack, Plain
    <3>4. [type |-> "publish", qos |-> m.qos, mid |-> m.mid, body |-> m.store.body] \in Plain
      BY <3>1 DEF Packets, Plain
    <3> QED BY <3>2, <3>3, <3>4 DEF PacketOf
  <2> HIDE DEF s, S
  <2>4. DOMAIN s = 1..Len(s) /\ Len(s) \in Nat /\ \A i \in 1..Len(s) : s[i] \in S
    BY <2>2
  <2>5. PacketsAt(cq, P) = [i \in 1..Len(s) |-> PacketOf(s[i])]
    BY <2>4 DEF PacketsAt, Mapped, s
  <2> QED BY <2>3, <2>4, <2>5
<1>3. ASSUME NEW k \in 0..Len(cq.queued) PROVE DequeuePubrecs(cq, k) = <<>>
  <2> DEFINE head == SubSeq(cq.queued, 1, k)
             K    == {i \in DOMAIN head : head[i].dir = "in"}
             ins  == Keep(head, K)
             none == {}
  <2>1. head \in Seq(Due)
    BY <1>1, SubSeqProperties
  <2>2. K = {}
    <3> HIDE DEF head
    <3>1. \A i \in DOMAIN head : head[i] \in Due
      BY <2>1
    <3> QED BY <3>1 DEF Due
  <2>3. ins \in Seq(none)
    <3>1. K \in SUBSET (DOMAIN head) /\ \A i \in K : head[i] \in none
      BY <2>2
    <3> HIDE DEF head, K, none
    <3> QED BY <2>1, <3>1, KeepOnly
  <2>4. DequeuePubrecs(cq, k) = [i \in DOMAIN ins |-> ins[i].mid]
    BY DEF DequeuePubrecs
  <2> HIDE DEF ins
  <2>5. DOMAIN ins = {}
    <3>1. DOMAIN ins = 1..Len(ins) /\ Len(ins) \in Nat /\ \A i \in 1..Len(ins) : ins[i] \in none
      BY <2>3
    <3> QED BY <3>1
  <2> DEFINE r == DequeuePubrecs(cq, k)
  <2>6. DOMAIN r = {} /\ r \in Seq(Nat)
    <3>1. r \in Seq(Nat)
      <4>1. cq \in Queues
        BY SoundParts DEF QuietQueues, UniqueQueues
      <4> QED BY <4>1, PubrecsType
    <3> QED BY <2>4, <2>5, <3>1
  <2> HIDE DEF r
  <2>7. r = <<>>
    BY <2>6
  <2> QED BY <2>7 DEF r
<1> QED BY <1>2, <1>3

-----------------------------------------------------------------------------
(* The answers a client still has to read.                                  *)

Answering == {"pubrec", "pubcomp"}

(* A list of packets that answers what another one does.                    *)
SameAnswers(v, w) ==
  /\ w \in Seq(Known)
  /\ \A type \in Answering, mid \in Nat : AnswerCount(type, mid)[w] = AnswerCount(type, mid)[v]

Own(p, type, mid) == IF p.type = type /\ p.mid = mid THEN 1 ELSE 0

(* The answers of two lists add up.                                         *)
LEMMA AnswersAdd ==
  ASSUME NEW type, NEW mid
  PROVE  /\ \A v, t \in Seq(Packets) :
               AnswerCount(type, mid)[v \o t] = AnswerCount(type, mid)[v] + AnswerCount(type, mid)[t]
         /\ \A v \in Seq(Packets) : AnswerCount(type, mid)[v] \in Nat
         /\ \A p \in Packets : AnswerCount(type, mid)[<<p>>] = Own(p, type, mid)
         /\ AnswerCount(type, mid)[<<>>] = 0
<1> DEFINE A == {p \in Packets : p.type = type /\ p.mid = mid}
           F == AnswerCount(type, mid)
<1>1. /\ Additive(F, Packets)
      /\ \A v \in Seq(Packets) : F[v] \in Nat
      /\ \A p \in Packets : F[<<p>>] = IF p \in A THEN 1 ELSE 0
  <2>1. F = Counts(Packets, A)
    BY DEF AnswerCount
  <2> HIDE DEF A, F
  <2> QED BY <2>1, CountsAdditive
<1>2. \A p \in Packets : F[<<p>>] = Own(p, type, mid)
  BY <1>1 DEF Own
<1> HIDE DEF F
<1>3. \A v, t \in Seq(Packets) : F[v \o t] = F[v] + F[t]
  BY <1>1, AddConcat
<1>4. F[<<>>] = 0
  BY <1>1 DEF Additive
<1> QED BY <1>1, <1>2, <1>3, <1>4 DEF F

(* Plain packets answer nothing.                                            *)
LEMMA PlainCounts ==
  ASSUME NEW t \in Seq(Plain)
  PROVE  /\ t \in Seq(Known) /\ t \in Seq(Packets)
         /\ \A type \in Answering, mid \in Nat : AnswerCount(type, mid)[t] = 0
<1>1. Plain \subseteq Known /\ Plain \subseteq Packets
  BY DEF Plain, Known
<1>2. t \in Seq(Known) /\ t \in Seq(Packets)
  BY <1>1
<1>3. ASSUME NEW type \in Answering, NEW mid \in Nat
      PROVE  AnswerCount(type, mid)[t] = 0
  <2> DEFINE A == {p \in Packets : p.type = type /\ p.mid = mid}
  <2>1. \A i \in DOMAIN t : t[i] \in Plain
    OBVIOUS
  <2>2. \A i \in DOMAIN t : t[i] \notin A
    BY <2>1 DEF Plain, Answering
  <2>3. Counts(Packets, A)[t] = 0
    <3> HIDE DEF A
    <3> QED BY <1>2, <2>2, FewCounted
  <2> QED BY <2>3 DEF AnswerCount
<1> QED BY <1>2, <1>3

(* A list of which the client has read a plain packet, and one that grows   *)
(* by plain packets.                                                        *)
LEMMA PlainAnswers ==
  ASSUME NEW v \in Seq(Known)
  PROVE  /\ SameAnswers(v, v)
         /\ \A t \in Seq(Plain) : SameAnswers(v, v \o t)
         /\ v # <<>> /\ Head(v) \in Plain => SameAnswers(v, Tail(v))
<1>1. Known \subseteq Packets /\ v \in Seq(Packets)
  BY DEF Known, Plain
<1>2. ASSUME NEW t \in Seq(Plain) PROVE SameAnswers(v, v \o t)
  <2>1. v \o t \in Seq(Known)
    BY PlainCounts
  <2>2. ASSUME NEW type \in Answering, NEW mid \in Nat
        PROVE  AnswerCount(type, mid)[v \o t] = AnswerCount(type, mid)[v]
    <3>1. AnswerCount(type, mid)[t] = 0 /\ t \in Seq(Packets)
      BY PlainCounts
    <3>2. AnswerCount(type, mid)[v] \in Nat
      BY <1>1, AnswersAdd
    <3>3. AnswerCount(type, mid)[v \o t] = AnswerCount(type, mid)[v] + AnswerCount(type, mid)[t]
      BY ONLY <1>1, <3>1, AnswersAdd
    <3> HIDE DEF AnswerCount
    <3> QED BY <3>1, <3>2, <3>3
  <2> QED BY <2>1, <2>2 DEF SameAnswers
<1>3. ASSUME v # <<>>, Head(v) \in Plain PROVE SameAnswers(v, Tail(v))
  <2> DEFINE h == <<Head(v)>>
             t == Tail(v)
  <2>1. h \in Seq(Plain) /\ h \in Seq(Packets)
    <3>1. Plain \subseteq Packets
      BY DEF Plain
    <3> QED BY <1>3, <3>1
  <2>2. v = h \o t /\ t \in Seq(Known) /\ t \in Seq(Packets)
    BY <1>1, <1>3
  <2> HIDE DEF h, t
  <2>3. ASSUME NEW type \in Answering, NEW mid \in Nat
        PROVE  AnswerCount(type, mid)[t] = AnswerCount(type, mid)[v]
    <3>1. AnswerCount(type, mid)[h] = 0
      BY <2>1, PlainCounts
    <3>2. AnswerCount(type, mid)[t] \in Nat
      BY <2>2, AnswersAdd
    <3>3. AnswerCount(type, mid)[h \o t] = AnswerCount(type, mid)[h] + AnswerCount(type, mid)[t]
      BY <2>1, <2>2, AnswersAdd
    <3> QED BY <2>2, <3>1, <3>2, <3>3
  <2> QED BY <2>2, <2>3 DEF SameAnswers, t
<1>4. SameAnswers(v, v)
  BY DEF SameAnswers
<1> QED BY <1>2, <1>3, <1>4

(* A list that grows by an answer, and one whose first answer is read.      *)
LEMMA AckAnswers ==
  ASSUME NEW v \in Seq(Known)
  PROVE  /\ \A type \in Answering, mid \in ClientMids :
              /\ v \o <<Ack(type, mid)>> \in Seq(Known)
              /\ \A ty \in Answering, m \in Nat :
                   AnswerCount(ty, m)[v \o <<Ack(type, mid)>>]
                     = AnswerCount(ty, m)[v] + (IF ty = type /\ m = mid THEN 1 ELSE 0)
         /\ v # <<>> /\ Head(v).type \in Answering =>
              /\ Tail(v) \in Seq(Known) /\ Head(v).mid \in ClientMids
              /\ \A ty \in Answering, m \in Nat :
                   AnswerCount(ty, m)[v]
                     = AnswerCount(ty, m)[Tail(v)]
                         + (IF ty = Head(v).type /\ m = Head(v).mid THEN 1 ELSE 0)
<1>1. Known \subseteq Packets /\ v \in Seq(Packets)
  BY DEF Known, Plain
<1>2. ASSUME NEW type \in Answering, NEW mid \in ClientMids
      PROVE  /\ v \o <<Ack(type, mid)>> \in Seq(Known)
             /\ \A ty \in Answering, m \in Nat :
                  AnswerCount(ty, m)[v \o <<Ack(type, mid)>>]
                    = AnswerCount(ty, m)[v] + (IF ty = type /\ m = mid THEN 1 ELSE 0)
  <2> DEFINE a == Ack(type, mid)
             s == <<a>>
  <2>1. a \in Known /\ a.type = type /\ a.mid = mid
    <3>1. type \in {"pubrec", "pubrel", "pubcomp"} /\ mid \in Nat
      BY BrokerAssumption, LimitsAssumption DEF Answering
    <3> QED BY <3>1, AckType DEF Ack, Known
  <2>2. s \in Seq(Known) /\ s \in Seq(Packets)
    <3> HIDE DEF a
    <3> QED BY <1>1, <2>1
  <2> HIDE DEF a
  <2>3. ASSUME NEW ty \in Answering, NEW m \in Nat
        PROVE  AnswerCount(ty, m)[v \o s]
                 = AnswerCount(ty, m)[v] + (IF ty = type /\ m = mid THEN 1 ELSE 0)
    <3>1. AnswerCount(ty, m)[s] = Own(a, ty, m)
      BY <1>1, <2>1, AnswersAdd
    <3> HIDE DEF s
    <3>2. AnswerCount(ty, m)[v \o s] = AnswerCount(ty, m)[v] + AnswerCount(ty, m)[s]
      BY <1>1, <2>2, AnswersAdd
    <3> QED BY <2>1, <3>1, <3>2 DEF Own
  <2> QED BY <2>2, <2>3 DEF a
<1>3. ASSUME v # <<>>, Head(v).type \in Answering
      PROVE  /\ Tail(v) \in Seq(Known) /\ Head(v).mid \in ClientMids
             /\ \A ty \in Answering, m \in Nat :
                  AnswerCount(ty, m)[v]
                    = AnswerCount(ty, m)[Tail(v)]
                        + (IF ty = Head(v).type /\ m = Head(v).mid THEN 1 ELSE 0)
  <2> DEFINE a == Head(v)
             s == <<a>>
             t == Tail(v)
  <2>1. a \in Known /\ v = s \o t /\ t \in Seq(Known) /\ t \in Seq(Packets) /\ s \in Seq(Packets)
    BY <1>1, <1>3
  <2>2. a.mid \in ClientMids
    BY <1>3, <2>1 DEF Known, Plain, Answering
  <2> HIDE DEF a, t
  <2>3. ASSUME NEW ty \in Answering, NEW m \in Nat
        PROVE  AnswerCount(ty, m)[v]
                 = AnswerCount(ty, m)[t] + (IF ty = a.type /\ m = a.mid THEN 1 ELSE 0)
    <3>1. AnswerCount(ty, m)[s] = Own(a, ty, m)
      BY <1>1, <2>1, AnswersAdd
    <3> HIDE DEF s
    <3>2. /\ AnswerCount(ty, m)[s \o t] = AnswerCount(ty, m)[s] + AnswerCount(ty, m)[t]
          /\ AnswerCount(ty, m)[t] \in Nat
      BY <2>1, AnswersAdd
    <3> QED BY <2>1, <3>1, <3>2 DEF Own
  <2> QED BY <2>1, <2>2, <2>3 DEF a, t
<1> QED BY <1>2, <1>3

-----------------------------------------------------------------------------
(* The handshake of a publication, as its client, its packets and the       *)
(* queue of its context see it.                                             *)

(* The message of a publication the context still has, the answers its      *)
(* client still has to read, and whether it has no need to be routed or was *)
(* routed.                                                                  *)
Held(c, mid)       == Has(q[c], InTwo(mid))
Left(c, type, mid) == AnswerCount(type, mid)[wire[c]]
Done(c, mid)       == \/ client[c].pub[mid].body = 0 \/ client[c].pub[mid].denied
                      \/ routed[client[c].pub[mid].body] >= 1

(* One answer is under way at a time.  A PUBREC means that the context, if  *)
(* there still is one, has the message; a PUBCOMP that it is gone and       *)
(* routed; a PUBREL to be sent or answered that it is in one place or done, *)
(* and done when the session is clean, for its messages are discarded when  *)
(* the connection is taken over.                                            *)
HandshakeAt(ph, rec, comp, held, done, live, lasts) ==
  /\ rec + comp <= 1
  /\ rec > 0 => ph = "wait_pubrec" /\ (live => held)
  /\ comp > 0 => ph = "wait_pubcomp" /\ ~held /\ done
  /\ ph \in {"wait_pubcomp", "resend_pubrel"} /\ live => (held /\ lasts) \/ done
  /\ held => ph # "idle" /\ live

StageAt(c, mid) ==
  HandshakeAt(client[c].pub[mid].phase, Left(c, "pubrec", mid), Left(c, "pubcomp", mid),
              Held(c, mid), Done(c, mid), Live(c), ~clean[c])

(* A message from a client is the publication that the client has under its *)
(* identifier.                                                              *)
Fits(cl, m) == /\ m.mid \in ClientMids /\ m.qos = 2
               /\ m.store.body = cl.pub[m.mid].body /\ m.store.topic = ~cl.pub[m.mid].denied

Misfits(cl) == {m \in Incoming : ~Fits(cl, m)}

ClientInv(c) ==
  /\ ~Has(q[c], Misfits(client[c]))
  /\ wire[c] \in Seq(Known)
  /\ \A mid \in ClientMids : StageAt(c, mid)

HandshakeInv == (\A c \in Clients : ClientInv(c)) /\ CompletedIsRouted

(* What was routed stays routed.                                            *)
Later == \A b \in 1..MaxPubs : routed[b] >= 1 => routed'[b] >= 1

(* A publication that nothing happens to: its client, its answers and the   *)
(* message stay as they are, or the context is gone.                        *)
SameStage(x, mid) ==
  /\ client'[x].pub[mid] = client[x].pub[mid]
  /\ Left(x, "pubrec", mid)' = Left(x, "pubrec", mid)
  /\ Left(x, "pubcomp", mid)' = Left(x, "pubcomp", mid)
  /\ Held(x, mid)' => Held(x, mid)
  /\ Live(x)' => Live(x) /\ clean'[x] = clean[x] /\ (Held(x, mid) => Held(x, mid)')
  /\ Live(x) /\ ~Live(x)' => ~Held(x, mid)'

(* What is done stays done.                                                 *)
LEMMA DoneLater ==
  ASSUME PeerTyped, Later, NEW x \in Clients, NEW mid \in ClientMids, Done(x, mid),
         client'[x].pub[mid].body = client[x].pub[mid].body,
         client'[x].pub[mid].denied = client[x].pub[mid].denied
  PROVE  Done(x, mid)'
<1> DEFINE b == client[x].pub[mid].body
<1>1. b \in 0..MaxPubs
  BY PeerIs DEF ClientStates, Publication
<1>2. MaxPubs \in Nat
  BY BrokerAssumption
<1>3. ASSUME b # 0, routed[b] >= 1 PROVE routed'[b] >= 1
  <2>1. b \in 1..MaxPubs
    BY <1>1, <1>2, <1>3
  <2> HIDE DEF b
  <2> QED BY <1>3, <2>1 DEF Later
<1> QED BY <1>3 DEF Done

(* Such a publication stays in its stage.                                   *)
LEMMA StageKept ==
  ASSUME PeerTyped, Later, NEW x \in Clients, NEW mid \in ClientMids,
         StageAt(x, mid), SameStage(x, mid)
  PROVE  StageAt(x, mid)'
<1>1. Done(x, mid) => Done(x, mid)'
  BY DoneLater DEF SameStage
<1> QED BY <1>1 DEF SameStage, StageAt, HandshakeAt

(* The messages that do not fit are a kind of message.                      *)
LEMMA MisfitKind ==
  ASSUME NEW cl
  PROVE  Misfits(cl) \in SUBSET Incoming /\ Kind(Misfits(cl))
BY DEF Misfits, Incoming, Kind, Twins, Fits

(* No message comes to be misfit while its publication stays what it is.    *)
LEMMA FitsKept ==
  ASSUME NEW x \in Clients, Fewer(q[x], q'[x]), ~Has(q[x], Misfits(client[x])),
         \A mid \in ClientMids : /\ client'[x].pub[mid].body = client[x].pub[mid].body
                                 /\ client'[x].pub[mid].denied = client[x].pub[mid].denied
  PROVE  ~Has(q'[x], Misfits(client'[x]))
<1>1. Misfits(client'[x]) = Misfits(client[x])
  BY DEF Misfits, Fits
<1> QED BY <1>1, MisfitKind DEF Fewer

(* The messages of QoS 2 from the client are a kind of message that lasts.  *)
LEMMA InTwoKind ==
  ASSUME NEW mid
  PROVE  /\ Kind(InTwo(mid)) /\ InTwo(mid) \subseteq Ins(mid)
         /\ InTwo(mid) \in SUBSET Lasting /\ InTwo(mid) \in SUBSET Incoming
BY DEF Kind, Twins, InTwo, Ins, Lasting, Incoming

(* A client whose publications nothing happens to.                          *)
Unmoved(x) ==
  /\ EndsAt(x) /\ Fewer(q[x], q'[x])
  /\ client'[x].pub = client[x].pub
  /\ SameAnswers(wire[x], wire'[x])
  /\ Live(x)' => \A mid \in ClientMids : Held(x, mid) => Held(x, mid)'

LEMMA UnmovedKept ==
  ASSUME PeerTyped, Later, NEW x \in Clients, ClientInv(x), Unmoved(x)
  PROVE  ClientInv(x)'
<1>1. (~Has(q[x], Misfits(client[x])))'
  BY FitsKept DEF ClientInv, Unmoved
<1>2. (wire[x] \in Seq(Known))'
  BY DEF Unmoved, SameAnswers
<1>3. ASSUME NEW mid \in ClientMids PROVE StageAt(x, mid)'
  <2>1. mid \in Nat
    BY BrokerAssumption, LimitsAssumption
  <2>2. \A type \in Answering : Left(x, type, mid)' = Left(x, type, mid)
    BY <2>1 DEF Unmoved, SameAnswers, Left
  <2>3. Left(x, "pubrec", mid)' = Left(x, "pubrec", mid) /\ Left(x, "pubcomp", mid)' = Left(x, "pubcomp", mid)
    BY <2>2 DEF Answering
  <2>4. Held(x, mid)' => Held(x, mid)
    BY InTwoKind DEF Unmoved, Fewer, Held
  <2>5. Live(x) /\ ~Live(x)' => ~Held(x, mid)'
    BY DEF Unmoved, EndsAt, Held
  <2>6. Live(x)' => Live(x) /\ clean'[x] = clean[x] /\ (Held(x, mid) => Held(x, mid)')
    BY DEF Unmoved, EndsAt
  <2>7. SameStage(x, mid)
    BY <2>3, <2>4, <2>5, <2>6 DEF SameStage, Unmoved
  <2> QED BY <2>7, StageKept DEF ClientInv
<1> QED BY <1>1, <1>2, <1>3 DEF ClientInv

(* What has been completed and routed stays that.                           *)
LEMMA CompletedKept ==
  ASSUME HistoryTyped, CompletedIsRouted, Later, completed' = completed
  PROVE  CompletedIsRouted'
BY DEF HistoryTyped, CompletedIsRouted, Later

(* A step that is calm and begins no session moves no client whose packets  *)
(* stay the same answers.                                                   *)
LEMMA CalmUnmoved ==
  ASSUME Calm, Ends, budget'.connects = budget.connects, NEW x \in Clients,
         client'[x].pub = client[x].pub, SameAnswers(wire[x], wire'[x])
  PROVE  Unmoved(x)
<1>1. EndsAt(x) /\ Fewer(q[x], q'[x])
  BY DEF Ends, Calm, Stays
<1>2. ASSUME Live(x)', NEW mid \in ClientMids, Held(x, mid) PROVE Held(x, mid)'
  <2>1. conn[x] # "none" /\ conn'[x] # "none"
    BY <1>1, <1>2 DEF EndsAt, Live
  <2>2. x \in Continuing
    BY <2>1 DEF Continuing, SessionKept
  <2>3. Keeps(q[x], q'[x])
    BY <2>2 DEF Calm, Stays
  <2> QED BY <1>2, <2>3, InTwoKind DEF Keeps, Held
<1> QED BY <1>1, <1>2 DEF Unmoved

(* A step that moves no client.                                             *)
LEMMA StillKept ==
  ASSUME PeerTyped, HistoryTyped, HandshakeInv, \A x \in Clients : Unmoved(x),
         routed' = routed, completed' = completed
  PROVE  HandshakeInv'
<1>1. Later
  BY DEF Later
<1> QED BY <1>1, UnmovedKept, CompletedKept DEF HandshakeInv

(* A calm step that sends no packet, or only plain ones.                    *)
LEMMA CalmKept ==
  ASSUME Typed(QuietQueues), HandshakeInv, Calm, Ends,
         UNCHANGED <<client, routed, completed>>, budget'.connects = budget.connects,
         \A x \in Clients : \/ wire'[x] = wire[x]
                            \/ \E t \in Seq(Plain) : wire'[x] = wire[x] \o t
  PROVE  HandshakeInv'
<1>1. PeerTyped /\ HistoryTyped
  BY DEF Typed
<1>2. ASSUME NEW x \in Clients PROVE Unmoved(x)
  <2>1. wire[x] \in Seq(Known)
    BY DEF HandshakeInv, ClientInv
  <2>2. SameAnswers(wire[x], wire'[x])
    BY <2>1, PlainAnswers
  <2> QED BY <2>2, CalmUnmoved
<1> QED BY <1>1, <1>2, StillKept

(* The queues of a broker where none waits are queues with identifiers that *)
(* are not used twice.                                                      *)
LEMMA QuietUnique ==
  ASSUME Typed(QuietQueues)
  PROVE  /\ Typed(UniqueQueues) /\ Typed(SoundQueues)
         /\ \A c \in Clients : q[c] \in QuietQueues /\ q[c] \in UniqueQueues /\ q[c] \in SoundQueues
<1>1. QuietQueues \subseteq UniqueQueues
  BY DEF QuietQueues
<1>2. q \in [Clients -> QuietQueues]
  BY DEF Typed
<1>3. q \in [Clients -> UniqueQueues]
  <2> HIDE DEF QuietQueues
  <2> QED BY <1>1, <1>2
<1>4. Typed(UniqueQueues)
  BY <1>3 DEF Typed
<1> QED BY <1>2, <1>3, <1>4, UniqueSound

(* No PUBREC is sent for an empty list of identifiers.                      *)
LEMMA NoAcks == Acks("pubrec", <<>>) = <<>>
<1> DEFINE none == <<>>
           r == Acks("pubrec", none)
<1>1. none \in Seq(Nat) /\ DOMAIN none = {}
  OBVIOUS
<1> HIDE DEF none
<1>2. r \in Seq(Packets)
  BY <1>1, AcksType
<1>3. DOMAIN r = {}
  BY <1>1 DEF Acks
<1> HIDE DEF r
<1>4. r = <<>>
  BY <1>2, <1>3
<1> QED BY <1>4 DEF r, none

(* A connection that ends, a subscription and a publication of QoS 0 or 1   *)
(* are nothing to a handshake.                                              *)
LEMMA SessionKeeps ==
  ASSUME Typed(QuietQueues), HandshakeInv, NEW c \in Clients,
         \/ Disconnect(c) \/ ConnectionLost(c) \/ Expire(c)
         \/ Subscribe(c) \/ Unsubscribe(c) \/ Publish(c)
  PROVE  HandshakeInv'
<1>1. Typed(SoundQueues) /\ PeerTyped
  BY QuietUnique DEF Typed
<1>2. CASE Disconnect(c) \/ ConnectionLost(c) \/ Expire(c)
  <2>1. UNCHANGED <<wire, client, budget, routed, completed>>
    BY <1>2 DEF Disconnect, ConnectionLost, Expire, history
  <2>2. Calm /\ Ends
    BY <1>1, <1>2, LeaveCalm
  <2> QED BY <2>1, <2>2, CalmKept
<1>3. CASE Subscribe(c) \/ Unsubscribe(c) \/ Publish(c)
  <2>1. UNCHANGED <<wire, client, routed, completed, conn, clean>>
    BY <1>3 DEF Subscribe, Unsubscribe, Publish, history, session
  <2>2. budget'.connects = budget.connects
    <3>1. budget \in [connects: Nat, subscribes: Nat]
      BY <1>1 DEF PeerTyped
    <3>2. budget' = budget \/ budget' = [budget EXCEPT !.subscribes = @ + 1]
      BY <1>3 DEF Subscribe, Unsubscribe, Publish
    <3> QED BY <3>1, <3>2
  <2>3. Ends
    BY <2>1 DEF Ends, EndsAt, Live
  <2>4. Calm
    BY <1>1, <1>3, SubscribeCalm
  <2> QED BY <2>1, <2>2, <2>3, <2>4, CalmKept
<1> QED BY <1>2, <1>3

(* What db__message_write sends, the writes that fail included, is plain.   *)
LEMMA LoopKeeps ==
  ASSUME Typed(QuietQueues), HandshakeInv,
         Loop \/ \E c \in Clients : LoopFails(c)
  PROVE  HandshakeInv'
<1>1. Typed(SoundQueues) /\ PeerTyped
  BY QuietUnique DEF Typed
<1>2. ASSUME NEW x \in Clients
      PROVE  /\ wire[x] \in Seq(Known)
             /\ \A P \in SUBSET Pending(q[x]) : PacketsAt(q[x], P) \in Seq(Plain)
             /\ DequeuePubrecs(q[x], WriteMoves(q[x])) = <<>>
             /\ \A j \in 1..WriteMoves(q[x]) : q[x].queued[j].dir # "in"
  <2>1. q[x] \in QuietQueues /\ q[x] \in SoundQueues
    BY QuietUnique
  <2>2. WriteMoves(q[x]) \in 0..Len(q[x].queued)
    BY <2>1, WriteSound
  <2>3. \A j \in 1..WriteMoves(q[x]) : q[x].queued[j].dir # "in"
    <3>1. q[x].queued \in Seq(Due)
      BY <2>1 DEF QuietQueues, Lists
    <3>2. Len(q[x].queued) \in Nat
      BY <3>1
    <3>3. \A j \in 1..WriteMoves(q[x]) : j \in 1..Len(q[x].queued)
      BY <2>2, <3>2
    <3> QED BY <3>1, <3>3 DEF Due
  <2>4. wire[x] \in Seq(Known)
    BY DEF HandshakeInv, ClientInv
  <2> QED BY <2>1, <2>2, <2>3, <2>4, QuietSends
<1>3. CASE Loop
  <2>1. ASSUME NEW x \in Clients
        PROVE  wire'[x] = wire[x] \/ \E t \in Seq(Plain) : wire'[x] = wire[x] \o t
    <3> DEFINE t == PacketsAt(q[x], Pending(q[x]))
    <3>1. \/ wire'[x] = wire[x]
          \/ wire'[x] = wire[x] \o t \o Acks("pubrec", DequeuePubrecs(q[x], WriteMoves(q[x])))
      BY <1>3 DEF Loop
    <3>2. DequeuePubrecs(q[x], WriteMoves(q[x])) = <<>> /\ t \in Seq(Plain) /\ wire[x] \in Seq(Known)
      BY <1>2
    <3> HIDE DEF t
    <3>3. wire[x] \o t \o <<>> = wire[x] \o t
      <4>1. wire[x] \o t \in Seq(Known)
        BY <3>2, PlainCounts
      <4> QED BY <4>1
    <3> QED BY <3>1, <3>2, <3>3, NoAcks
  <2>2. UNCHANGED <<client, budget, conn, clean, routed, completed>>
    BY <1>3 DEF Loop, history, session
  <2>3. Ends
    BY <2>2 DEF Ends, EndsAt, Live
  <2>4. Calm
    BY <1>1, <1>3, LoopCalm
  <2> QED BY <2>1, <2>2, <2>3, <2>4, CalmKept
<1>4. ASSUME NEW c \in Clients, LoopFails(c) PROVE HandshakeInv'
  <2>1. PICK P \in SUBSET Pending(q[c]) :
           wire' = [wire EXCEPT ![c] = @ \o PacketsAt(q[c], P) \o Acks("pubrec", <<>>)]
    <3>1. \A j \in 1..WriteMoves(q[c]) : q[c].queued[j].dir # "in"
      BY <1>2
    <3>2. \E i \in Pending(q[c]) \cup {0} :
             WriteFails(c, WriteFailsAt(q[c], i), {j \in Pending(q[c]) : j < i}, <<>>)
      BY <1>4, <3>1 DEF LoopFails
    <3> QED BY <3>2 DEF WriteFails
  <2>2. ASSUME NEW x \in Clients
        PROVE  wire'[x] = wire[x] \/ \E t \in Seq(Plain) : wire'[x] = wire[x] \o t
    <3> DEFINE t == PacketsAt(q[c], P)
    <3>1. t \in Seq(Plain) /\ wire[c] \in Seq(Known)
      BY <1>2
    <3> HIDE DEF t
    <3>2. wire[c] \o t \o <<>> = wire[c] \o t
      <4>1. wire[c] \o t \in Seq(Known)
        BY <3>1, PlainCounts
      <4> QED BY <4>1
    <3>3. wire' = [wire EXCEPT ![c] = wire[c] \o t]
      BY <2>1, <3>2, NoAcks DEF t
    <3> QED BY <1>1, <3>1, <3>3 DEF PeerTyped
  <2>3. UNCHANGED <<client, budget, routed, completed>>
    BY <1>4 DEF LoopFails, history
  <2>4. Calm /\ Ends
    BY <1>1, <1>4, LoopFailsCalm
  <2> QED BY <2>2, <2>3, <2>4, CalmKept
<1> QED BY <1>3, <1>4

(* A client that reads a PUBLISH or a PUBREL: what the broker then removes  *)
(* is a message for the client.                                             *)
LEMMA ReadPlainKeeps ==
  ASSUME Typed(QuietQueues), HandshakeInv, NEW c \in Clients, ReadPublish(c) \/ ReadPubrel(c)
  PROVE  HandshakeInv'
<1> DEFINE p == Head(wire[c])
           mid == p.mid
<1>1. /\ Typed(UniqueQueues) /\ Typed(SoundQueues) /\ PeerTyped /\ HistoryTyped
      /\ q[c] \in QuietQueues /\ q[c] \in SoundQueues
  BY QuietUnique DEF Typed
<1>2. wire[c] # <<>> /\ p \in Plain /\ mid \in Nat /\ p.qos \in QoS /\ Tail(wire[c]) \in Seq(Known)
  <2>1. wire[c] # <<>> /\ p.type \in {"publish", "pubrel"}
    BY DEF ReadPublish, ReadPubrel, Reads
  <2>2. p \in Packets /\ mid \in Nat /\ p.qos \in QoS
    BY <1>1, <2>1, WireHead
  <2>3. p \in Plain
    BY <2>1, <2>2 DEF Plain
  <2>4. wire[c] \in Seq(Known)
    BY DEF HandshakeInv, ClientInv
  <2> QED BY <2>1, <2>2, <2>3, <2>4
<1>3. UNCHANGED <<session, budget, routed, completed>>
  BY DEF ReadPublish, ReadPubrel, history
<1>4. \A x \in Clients : EndsAt(x)
  BY <1>3 DEF EndsAt, Live, session
<1>5. \A x \in Clients : client'[x].pub = client[x].pub
  <2>1. \/ client' = client
        \/ \E R : client' = [client EXCEPT ![c].rcvd = R]
    BY DEF ReadPublish, ReadPubrel
  <2>2. client \in [Clients -> ClientStates]
    BY <1>1, PeerIs
  <2> QED BY <2>1, <2>2 DEF ClientStates
<1>6. \/ q' = q /\ wire' = [wire EXCEPT ![c] = Tail(@)]
      \/ Pubackcomp(c, mid)
      \/ Pubrec(c, mid)
  <2>1. CASE ReadPublish(c)
    <3>1. p.qos = 0 \/ p.qos = 1 \/ p.qos = 2
      BY <1>2 DEF QoS
    <3> QED BY <2>1, <3>1 DEF ReadPublish, Unheard
  <2>2. CASE ReadPubrel(c)
    BY <2>2 DEF ReadPubrel, Unheard
  <2> QED BY <2>1, <2>2
<1> HIDE DEF mid
<1>7. \E t \in Seq(Plain) : wire' = [wire EXCEPT ![c] = Tail(wire[c]) \o t]
  <2> DEFINE v == Tail(wire[c])
  <2>1. v \in Seq(Known)
    BY <1>2
  <2>2. <<>> \in Seq(Plain) /\ v \o <<>> = v
    BY <2>1
  <2>3. CASE wire' = [wire EXCEPT ![c] = v]
    BY <2>2, <2>3
  <2>4. CASE Pubackcomp(c, mid)
    <3>1. DequeuePubrecs(q[c], DeleteMoves(q[c], mid, "out")) = <<>>
      BY <1>1, DeleteSound, QuietSends
    <3>2. wire' = [wire EXCEPT ![c] = v \o <<>>]
      BY <2>4, <3>1, NoAcks DEF Pubackcomp
    <3> QED BY <2>2, <3>2
  <2>5. CASE Pubrec(c, mid)
    <3> DEFINE a == Ack("pubrel", mid)
               s == <<a>>
    <3>1. a \in Plain
      BY <1>2, AckType DEF Ack, Plain
    <3>2. wire' = [wire EXCEPT ![c] = Append(v, a)]
      BY <2>5 DEF Pubrec
    <3> HIDE DEF a, v
    <3>3. Append(v, a) = v \o s /\ s \in Seq(Plain)
      <4>1. Plain \subseteq Known
        BY DEF Plain, Known
      <4>2. v \in Seq(Known) /\ a \in Known
        BY <2>1, <3>1, <4>1
      <4> QED BY <3>1, <4>2
    <3> QED BY <3>2, <3>3 DEF v
  <2> QED BY <1>6, <2>3, <2>4, <2>5
<1>8. \A x \in Clients : SameAnswers(wire[x], wire'[x])
  <2>1. PICK t \in Seq(Plain) : wire' = [wire EXCEPT ![c] = Tail(wire[c]) \o t]
    BY <1>7
  <2>2. \A x \in Clients : wire[x] \in Seq(Known)
    BY DEF HandshakeInv, ClientInv
  <2>3. SameAnswers(wire[c], Tail(wire[c])) /\ SameAnswers(Tail(wire[c]), Tail(wire[c]) \o t)
    BY <1>2, <2>2, PlainAnswers
  <2>4. SameAnswers(wire[c], Tail(wire[c]) \o t)
    BY <2>3 DEF SameAnswers
  <2> QED BY <1>1, <2>1, <2>2, <2>4, PlainAnswers DEF PeerTyped
<1>9. \A x \in Clients : /\ Fewer(q[x], q'[x])
                         /\ \A m \in ClientMids : Live(x)' /\ Held(x, m) => Held(x, m)'
  <2>1. CASE q' = q
    BY <2>1 DEF Fewer, Held
  <2>2. CASE Pubackcomp(c, mid)
    <3>1. /\ Stays(q, q', Clients, Clients \ {c})
          /\ \A A \in SUBSET Lasting :
               Kind(A) /\ (\A m \in A : m.mid = mid => m.dir = "in") /\ Has(q[c], A) => Has(q'[c], A)
      BY <1>1, <1>2, <2>2, PubackcompStays
    <3>2. ASSUME NEW x \in Clients, NEW m \in ClientMids, Held(x, m) PROVE Held(x, m)'
      <4>1. /\ InTwo(m) \in SUBSET Lasting /\ Kind(InTwo(m))
            /\ \A n \in InTwo(m) : n.dir = "in"
        BY InTwoKind DEF Incoming
      <4>2. CASE x = c
        BY <3>1, <3>2, <4>1, <4>2 DEF Held
      <4>3. CASE x # c
        BY <3>1, <3>2, <4>1, <4>3 DEF Held, Stays, Keeps
      <4> QED BY <4>2, <4>3
    <3> QED BY <3>1, <3>2 DEF Stays
  <2>3. CASE Pubrec(c, mid)
    <3>1. Calm
      BY <1>1, <1>2, <2>3, PubrecCalm
    <3>2. \A x \in Clients : Unmoved(x)
      BY <1>3, <1>4, <1>5, <1>8, <3>1, CalmUnmoved DEF Ends
    <3> QED BY <3>2 DEF Unmoved
  <2> QED BY <1>6, <2>1, <2>2, <2>3
<1>10. \A x \in Clients : Unmoved(x)
  BY <1>4, <1>5, <1>8, <1>9 DEF Unmoved
<1> QED BY <1>1, <1>3, <1>10, StillKept

(* CONNECT: a context is taken over by a connection that goes on with the   *)
(* session, as its client does; or its messages are discarded, and client   *)
(* and context both begin anew, or the client only believes to go on with a *)
(* session that was clean.                                                  *)
LEMMA ConnectKeeps ==
  ASSUME Typed(QuietQueues), HandshakeInv, NEW c \in Clients, Connect(c)
  PROVE  HandshakeInv'
<1>1. /\ Typed(SoundQueues) /\ PeerTyped /\ HistoryTyped /\ SessionTyped /\ World.q = q
      /\ World \in Worlds(SoundQueues) /\ client \in [Clients -> ClientStates]
  BY QuietUnique, WorldType, PeerIs DEF Typed, World
<1>2. Calm /\ Stays(q, q', Clients, Clients \ {c})
  BY <1>1, ConnectCalm
<1>3. Later /\ completed' = completed /\ routed' = routed
  BY DEF Connect, history, Later
<1>4. PICK cs \in Cleans :
         /\ conn' = [conn EXCEPT ![c] = "online"] /\ clean' = [clean EXCEPT ![c] = cs]
         /\ wire' = [wire EXCEPT ![c] = <<>>]
         /\ client' = [client EXCEPT ![c] = IF conn[c] # "none" /\ ~cs THEN Resumed(@) ELSE NewClient]
         /\ ~(conn[c] # "none" /\ ~cs /\ ~clean[c]) => q'[c] = EmptyQueue
  <2>1. ASSUME NEW x PROVE Discard(SendWill(World, c, x), c).q[c] = EmptyQueue
    <3> DEFINE w == SendWill(World, c, x)
    <3>1. w \in Worlds(SoundQueues)
      BY <1>1, SendWillStays
    <3> HIDE DEF w
    <3>2. Discard(w, c).q = [w.q EXCEPT ![c] = EmptyQueue]
      BY <3>1 DEF Discard, Worlds
    <3>3. w.q \in [Clients -> SoundQueues]
      BY <3>1, WorldParts
    <3>4. Discard(w, c).q[c] = EmptyQueue
      BY <3>2, <3>3
    <3> QED BY <3>4 DEF w
  <2> QED BY <2>1 DEF Connect, Become
<1>5. ASSUME NEW x \in Clients, x # c PROVE ClientInv(x)'
  <2>1. /\ conn'[x] = conn[x] /\ clean'[x] = clean[x] /\ wire'[x] = wire[x] /\ client'[x] = client[x]
    BY <1>1, <1>4, <1>5 DEF SessionTyped, PeerTyped
  <2>2. Fewer(q[x], q'[x]) /\ Keeps(q[x], q'[x])
    BY <1>2, <1>5 DEF Stays
  <2>3. \A mid \in ClientMids : Held(x, mid) => Held(x, mid)'
    BY <2>2, InTwoKind DEF Keeps, Held
  <2>4. SameAnswers(wire[x], wire'[x])
    BY <2>1, PlainAnswers DEF HandshakeInv, ClientInv
  <2>5. Unmoved(x)
    BY <2>1, <2>2, <2>3, <2>4 DEF Unmoved, EndsAt, Live
  <2> QED BY <1>1, <1>3, <2>5, UnmovedKept DEF HandshakeInv
<1>6. /\ conn'[c] = "online" /\ clean'[c] = cs /\ wire'[c] = <<>>
      /\ client'[c] = IF conn[c] # "none" /\ ~cs THEN Resumed(client[c]) ELSE NewClient
  BY <1>1, <1>4 DEF SessionTyped, PeerTyped
<1>7. /\ Live(c)' /\ wire'[c] \in Seq(Known)
      /\ \A mid \in ClientMids : Left(c, "pubrec", mid)' = 0 /\ Left(c, "pubcomp", mid)' = 0
  <2>1. \A type, mid : AnswerCount(type, mid)[wire'[c]] = 0
    BY <1>6, AnswersAdd
  <2>2. wire'[c] \in Seq(Known)
    BY <1>6
  <2> QED BY <1>6, <2>1, <2>2 DEF Live, Left
<1>8. ASSUME conn[c] # "none" /\ ~cs PROVE ClientInv(c)'
  <2>1. clean[c] \in BOOLEAN /\ clean'[c] = FALSE
    BY <1>1, <1>6, <1>8, BrokerAssumption DEF SessionTyped
  <2>2. /\ Fewer(q[c], q'[c])
        /\ ~clean[c] => Keeps(q[c], q'[c])
        /\ clean[c] => \A A : ~Has(q'[c], A)
    <3>1. ASSUME ~clean[c] PROVE Keeps(q[c], q'[c])
      <4>1. c \in Continuing
        BY <1>6, <1>8, <2>1, <3>1 DEF Continuing, SessionKept
      <4> QED BY <1>2, <4>1 DEF Calm, Stays
    <3>2. ASSUME clean[c] PROVE \A A : ~Has(q'[c], A)
      <4>1. q'[c] = EmptyQueue
        BY <1>4, <3>2
      <4> QED BY <4>1, EmptyHas
    <3>3. Fewer(q[c], q'[c])
      BY <1>2 DEF Calm, Stays
    <3> QED BY <3>1, <3>2, <3>3
  <2>3. \A mid \in ClientMids :
          client'[c].pub[mid] = [client[c].pub[mid] EXCEPT !.phase = Again(client[c].pub[mid].phase)]
    BY <1>6, <1>8 DEF Resumed
  <2>4. \A mid \in ClientMids :
          /\ client[c].pub[mid] \in Publication
          /\ client'[c].pub[mid].body = client[c].pub[mid].body
          /\ client'[c].pub[mid].denied = client[c].pub[mid].denied
          /\ client'[c].pub[mid].phase = Again(client[c].pub[mid].phase)
    <3> SUFFICES ASSUME NEW mid \in ClientMids
                 PROVE  /\ client[c].pub[mid] \in Publication
                        /\ client'[c].pub[mid].body = client[c].pub[mid].body
                        /\ client'[c].pub[mid].denied = client[c].pub[mid].denied
                        /\ client'[c].pub[mid].phase = Again(client[c].pub[mid].phase)
      OBVIOUS
    <3> DEFINE p == client[c].pub[mid]
               ph == Again(client[c].pub[mid].phase)
    <3>1. p \in Publication
      BY <1>1 DEF ClientStates
    <3>2. client'[c].pub[mid] = [p EXCEPT !.phase = ph]
      BY <2>3
    <3> HIDE DEF p, ph
    <3>3. /\ [p EXCEPT !.phase = ph].body = p.body /\ [p EXCEPT !.phase = ph].denied = p.denied
          /\ [p EXCEPT !.phase = ph].phase = ph
      BY <3>1 DEF Publication
    <3> QED BY <3>1, <3>2, <3>3 DEF p, ph
  <2>5. ~Has(q'[c], Misfits(client'[c]))
    BY <2>2, <2>4, FitsKept DEF HandshakeInv, ClientInv
  <2>6. ASSUME NEW mid \in ClientMids PROVE StageAt(c, mid)'
    <3>1. /\ Held(c, mid)' => Held(c, mid)
          /\ ~clean[c] => (Held(c, mid) => Held(c, mid)')
      BY <2>2, InTwoKind DEF Keeps, Fewer, Held
    <3>2. Done(c, mid) => Done(c, mid)'
      BY <1>1, <1>3, <2>4, DoneLater
    <3>3. StageAt(c, mid) /\ Live(c)
      BY <1>8 DEF HandshakeInv, ClientInv, Live
    <3> DEFINE ph == client[c].pub[mid].phase
               ph2 == client'[c].pub[mid].phase
    <3>4. /\ ph2 \in {"wait_pubcomp", "resend_pubrel"} => ph \in {"wait_pubcomp", "resend_pubrel"}
          /\ ph # "idle" => ph2 # "idle"
      BY <2>4 DEF Again
    <3> QED BY <1>7, <2>1, <3>1, <3>2, <3>3, <3>4 DEF StageAt, HandshakeAt
  <2> QED BY <1>7, <2>5, <2>6 DEF ClientInv
<1>9. ASSUME ~(conn[c] # "none" /\ ~cs) PROVE ClientInv(c)'
  <2>1. q'[c] = EmptyQueue /\ client'[c] = NewClient
    BY <1>4, <1>6, <1>9
  <2>2. \A A : ~Has(q'[c], A)
    BY <2>1, EmptyHas
  <2>3. \A mid \in ClientMids : client'[c].pub[mid].phase = "idle"
    BY <2>1 DEF NewClient, Idle
  <2>4. ASSUME NEW mid \in ClientMids PROVE StageAt(c, mid)'
    <3>1. ~Held(c, mid)'
      BY <2>2 DEF Held
    <3> QED BY <1>7, <2>3, <3>1 DEF StageAt, HandshakeAt
  <2> QED BY <1>7, <2>2, <2>4 DEF ClientInv
<1>10. ClientInv(c)'
  BY <1>8, <1>9
<1> QED BY <1>1, <1>3, <1>5, <1>10, CompletedKept DEF HandshakeInv

(* No message of such a queue comes under another identifier than that its  *)
(* client gave it.                                                          *)
LEMMA UniqueNoStrays ==
  ASSUME NEW cq \in UniqueQueues
  PROVE  /\ \A i \in DOMAIN cq.inflight : cq.inflight[i] \notin Strays
         /\ \A i \in DOMAIN cq.queued : cq.queued[i] \notin Strays
<1>1. /\ cq \in SoundQueues /\ cq.inflight \in Seq(ClientMsg) /\ cq.queued \in Seq(ClientMsg)
      /\ Total(StrayCount, cq) = 0
  BY SoundParts DEF UniqueQueues
<1>2. /\ StrayCount[cq.inflight] \in Nat /\ StrayCount[cq.queued] \in Nat
      /\ Total(StrayCount, cq) = StrayCount[cq.inflight] + StrayCount[cq.queued]
  BY <1>1, InCountsStateFree DEF Total
<1>3. StrayCount[cq.inflight] = 0 /\ StrayCount[cq.queued] = 0
  BY <1>1, <1>2
<1> QED BY <1>1, <1>3, FewCounted DEF StrayCount

(* PUBLISH of QoS 2, new or sent again: the PUBREC that answers it means    *)
(* that the context has the message.                                        *)
LEMMA PublishKeeps ==
  ASSUME Typed(QuietQueues), HandshakeInv, NEW c \in Clients, NEW mid \in ClientMids,
         PublishQoS2(c, mid)
  PROVE  HandshakeInv'
<1>1. /\ Typed(SoundQueues) /\ PeerTyped /\ HistoryTyped /\ client \in [Clients -> ClientStates]
      /\ q[c] \in UniqueQueues /\ q[c] \in SoundQueues
  BY QuietUnique, PeerIs DEF Typed
<1>2. /\ Stays(q, q', Clients \ {c}, Continuing) /\ Ends /\ Answered(c, mid)
      /\ UNCHANGED <<budget, routed, completed>>
  BY <1>1, PublishQoS2Stays
<1>3. PICK p \in Sendable(c, mid) : Grown(c, mid, p) /\ client' = [client EXCEPT ![c].pub[mid] = p]
  BY <1>1, PublishQoS2Stays
<1>4. /\ p.phase = "wait_pubrec" /\ client[c].pub[mid].phase \in {"publish", "idle"}
      /\ client[c].pub[mid].phase = "publish" =>
           p.body = client[c].pub[mid].body /\ p.denied = client[c].pub[mid].denied
  <2>1. client[c].pub[mid] \in Publication
    BY <1>1 DEF ClientStates
  <2> DEFINE o == client[c].pub[mid]
             ph == "wait_pubrec"
  <2>2. \/ o.phase = "publish" /\ p = [o EXCEPT !.phase = ph]
        \/ o.phase = "idle" /\ p.phase = ph
    BY DEF Sendable
  <2> HIDE DEF o, ph
  <2>3. [o EXCEPT !.phase = ph].phase = ph /\ [o EXCEPT !.phase = ph].body = o.body
        /\ [o EXCEPT !.phase = ph].denied = o.denied
    BY <2>1 DEF Publication, o
  <2>4. p.phase = ph
    BY <2>2, <2>3
  <2>5. o.phase = "publish" \/ o.phase = "idle"
    BY <2>2
  <2>6. o.phase = "publish" => p.body = o.body /\ p.denied = o.denied
    BY <2>2, <2>3
  <2> QED BY <2>4, <2>5, <2>6 DEF o, ph
<1>5. /\ client'[c].pub = [client[c].pub EXCEPT ![mid] = p] /\ client'[c].pub[mid] = p
      /\ \A m \in ClientMids : m # mid => client'[c].pub[m] = client[c].pub[m]
      /\ \A x \in Clients : x # c => client'[x] = client[x]
  BY <1>1, <1>3 DEF ClientStates
<1>6. Later /\ mid \in Nat
  BY <1>2, BrokerAssumption, LimitsAssumption DEF Later
<1>7. /\ \A x \in Clients : wire[x] \in Seq(Known)
      /\ \A x \in Clients : x # c => wire'[x] = wire[x]
  BY <1>1, <1>2 DEF HandshakeInv, ClientInv, Answered, PeerTyped
<1>8. ASSUME NEW x \in Clients, Live(x)', NEW m \in ClientMids, Held(x, m)
      PROVE  Held(x, m)'
  <2>1. x \in Continuing
    BY <1>2, <1>8 DEF Ends, EndsAt, Live, Continuing, SessionKept
  <2>2. Keeps(q[x], q'[x])
    BY <1>2, <2>1 DEF Stays
  <2> QED BY <1>8, <2>2, InTwoKind DEF Keeps, Held
<1>9. ASSUME NEW x \in Clients, x # c PROVE ClientInv(x)'
  <2>1. SameAnswers(wire[x], wire'[x])
    BY <1>7, <1>9, PlainAnswers
  <2>2. Fewer(q[x], q'[x]) /\ EndsAt(x)
    BY <1>2, <1>9 DEF Stays, Ends
  <2>3. Unmoved(x)
    BY <1>5, <1>8, <1>9, <2>1, <2>2 DEF Unmoved
  <2> QED BY <1>1, <1>6, <2>3, UnmovedKept DEF HandshakeInv
(* Nothing is under way for the publication yet.                            *)
<1>10. /\ StageAt(c, mid) /\ ~Has(q[c], Misfits(client[c]))
       /\ Left(c, "pubrec", mid) = 0 /\ Left(c, "pubcomp", mid) = 0
       /\ Held(c, mid) => client[c].pub[mid].phase = "publish"
  <2>1. StageAt(c, mid) /\ ~Has(q[c], Misfits(client[c]))
    BY DEF HandshakeInv, ClientInv
  <2>2. Left(c, "pubrec", mid) \in Nat /\ Left(c, "pubcomp", mid) \in Nat
    BY <1>1, AnswersAdd DEF Left, PeerTyped
  <2> QED BY <1>4, <2>1, <2>2 DEF StageAt, HandshakeAt
<1>11. ~Has(q'[c], Misfits(client'[c]))
  <2> DEFINE A == Misfits(client'[c])
  <2>1. A \in SUBSET Incoming /\ Kind(A)
    BY MisfitKind
  <2>2. ASSUME NEW s, NewMsg(s, mid, "in", 2) \in A, s.body = p.body, s.topic = ~p.denied
        PROVE  FALSE
    BY <1>5, <2>2 DEF Misfits, Fits, NewMsg
  <2>3. A \subseteq Misfits(client[c]) \cup InTwo(mid)
    BY <1>5 DEF Misfits, Fits, InTwo, Ins, Incoming
  <2>4. ASSUME Held(c, mid) PROVE A = Misfits(client[c])
    BY <1>4, <1>5, <1>10, <2>4 DEF Misfits, Fits
  <2>5. ~Has(q[c], A)
    <3>1. CASE Held(c, mid)
      BY <1>10, <2>4, <3>1
    <3>2. CASE ~Held(c, mid)
      <4> HIDE DEF A
      <4> QED BY <1>10, <2>3, <3>2 DEF Held, Has
    <3> QED BY <3>1, <3>2
  <2> HIDE DEF A
  <2>6. Has(q'[c], A) => \/ Has(q[c], A)
                         \/ \E s \in Stored : /\ s.body = p.body /\ s.topic = ~p.denied
                                              /\ NewMsg(s, mid, "in", 2) \in A
    BY <1>3, <2>1 DEF Grown
  <2> QED BY <2>2, <2>5, <2>6 DEF A
(* A message found under the identifier is the one of the publication.      *)
<1>12. StoreFind(q[c], mid) # {} => Held(c, mid)
  <2>1. ASSUME NEW s \in Seq(ClientMsg), NEW i \in DOMAIN s, s[i].dir = "in",
               s[i].store.source_mid = mid, s[i] \notin Strays, s[i] \notin Misfits(client[c])
        PROVE  s[i] \in InTwo(mid)
    <3>1. s[i] \in ClientMsg
      BY <2>1
    <3> QED BY <2>1, <3>1 DEF Strays, Misfits, Incoming, Fits, InTwo, Ins
  <2>2. q[c].inflight \in Seq(ClientMsg) /\ q[c].queued \in Seq(ClientMsg)
    BY <1>1, SoundParts
  <2>3. /\ \A i \in DOMAIN q[c].inflight : q[c].inflight[i] \notin Strays
        /\ \A i \in DOMAIN q[c].queued : q[c].queued[i] \notin Strays
    BY <1>1, UniqueNoStrays
  <2>4. /\ \A i \in DOMAIN q[c].inflight : q[c].inflight[i] \notin Misfits(client[c])
        /\ \A i \in DOMAIN q[c].queued : q[c].queued[i] \notin Misfits(client[c])
    BY <1>10 DEF Has
  <2>5. StoreFind(q[c], mid) # {} =>
          \/ \E i \in DOMAIN q[c].inflight : q[c].inflight[i].dir = "in" /\ q[c].inflight[i].store.source_mid = mid
          \/ \E i \in DOMAIN q[c].queued : q[c].queued[i].dir = "in" /\ q[c].queued[i].store.source_mid = mid
    BY DEF StoreFind
  <2> QED BY <2>1, <2>2, <2>3, <2>4, <2>5 DEF Held, Has
<1>13. /\ wire'[c] \in Seq(Known)
       /\ \A m \in ClientMids : Left(c, "pubcomp", m)' = Left(c, "pubcomp", m)
       /\ \A m \in ClientMids : m # mid => Left(c, "pubrec", m)' = Left(c, "pubrec", m)
       /\ \/ Left(c, "pubrec", mid)' = 0
          \/ Left(c, "pubrec", mid)' = 1 /\ (Live(c)' => Held(c, mid)')
  <2>1. ClientMids \subseteq Nat
    BY BrokerAssumption, LimitsAssumption
  <2>2. CASE wire' = wire
    BY <1>7, <1>10, <2>2 DEF Left
  <2>3. CASE /\ wire' = [wire EXCEPT ![c] = Append(@, Ack("pubrec", mid))]
             /\ (q' = q /\ StoreFind(q[c], mid) # {}) \/ Has(q'[c], InTwo(mid))
    <3> DEFINE rec == "pubrec"
               comp == "pubcomp"
               v == wire[c]
               s == <<Ack(rec, mid)>>
    <3>1. Held(c, mid)'
      BY <1>12, <2>3 DEF Held
    <3>2. wire'[c] = v \o s
      <4>1. v \in Seq(Packets) /\ Ack(rec, mid) \in Packets
        BY <1>1, <1>6, AckType DEF PeerTyped
      <4>2. wire'[c] = Append(v, Ack(rec, mid))
        BY <1>1, <2>3 DEF PeerTyped
      <4> HIDE DEF v, rec
      <4> QED BY <4>1, <4>2
    <3>3. v \in Seq(Known) /\ rec \in Answering /\ comp \in Answering /\ rec # comp
      BY <1>7 DEF Answering
    <3> HIDE DEF v, rec, comp
    <3>4. /\ v \o s \in Seq(Known)
          /\ \A ty \in Answering, m \in Nat :
               AnswerCount(ty, m)[v \o s] = AnswerCount(ty, m)[v] + (IF ty = rec /\ m = mid THEN 1 ELSE 0)
      BY <3>3, AckAnswers
    <3> HIDE DEF s
    <3>5. /\ \A m \in Nat : AnswerCount(comp, m)[v \o s] = AnswerCount(comp, m)[v] + 0
          /\ \A m \in Nat : m # mid => AnswerCount(rec, m)[v \o s] = AnswerCount(rec, m)[v] + 0
          /\ AnswerCount(rec, mid)[v \o s] = AnswerCount(rec, mid)[v] + 1
      BY <1>6, <3>3, <3>4
    <3>6. \A ty, m : AnswerCount(ty, m)[v] \in Nat
      BY <1>1, AnswersAdd DEF v, PeerTyped
    <3>7. /\ \A m \in ClientMids : Left(c, comp, m)' = Left(c, comp, m)
          /\ \A m \in ClientMids : m # mid => Left(c, rec, m)' = Left(c, rec, m)
          /\ Left(c, rec, mid)' = Left(c, rec, mid) + 1
      <4>1. \A ty, m : AnswerCount(ty, m)[v] + 0 = AnswerCount(ty, m)[v]
        BY <3>6
      <4>2. \A m \in ClientMids : m \in Nat
        BY <2>1
      <4> QED BY <1>6, <3>2, <3>5, <4>1, <4>2 DEF Left, v
    <3>8. Left(c, rec, mid) = 0
      BY <1>10 DEF rec
    <3>9. Left(c, rec, mid)' = 1
      BY <3>7, <3>8
    <3> QED BY <3>1, <3>2, <3>4, <3>7, <3>9 DEF rec, comp
  <2> QED BY <1>2, <2>2, <2>3 DEF Answered
<1>14. ASSUME NEW m \in ClientMids PROVE StageAt(c, m)'
  <2>1. CASE m = mid
    <3>1. Held(c, mid)' => Live(c)'
      <4>1. Live(c)
        BY DEF PublishQoS2, Event, Online, Live
      <4> QED BY <1>2, <4>1 DEF Ends, EndsAt, Held
    <3>2. Left(c, "pubcomp", mid)' = 0
      BY <1>10, <1>13
    <3>3. client'[c].pub[mid].phase = "wait_pubrec"
      BY <1>4, <1>5
    <3> QED BY <1>13, <2>1, <3>1, <3>2, <3>3 DEF StageAt, HandshakeAt
  <2>2. CASE m # mid
    <3>1. Held(c, m)' => Held(c, m)
      <4>1. \A s : NewMsg(s, mid, "in", 2) \notin InTwo(m)
        BY <2>2 DEF NewMsg, InTwo, Ins
      <4> QED BY <1>3, <4>1, InTwoKind DEF Grown, Held
    <3>2. EndsAt(c)
      BY <1>2 DEF Ends
    <3>3. SameStage(c, m)
      BY <1>5, <1>8, <1>13, <2>2, <3>1, <3>2 DEF SameStage, EndsAt, Held
    <3> QED BY <1>1, <1>6, <3>3, StageKept DEF HandshakeInv, ClientInv
  <2> QED BY <2>1, <2>2
<1>15. ClientInv(c)'
  BY <1>11, <1>13, <1>14 DEF ClientInv
<1> QED BY <1>1, <1>2, <1>6, <1>9, <1>15, CompletedKept DEF HandshakeInv

(* A PUBREL that is handled: the message, if the context has it, is in      *)
(* flight, so that it is routed unless it was denied, and the PUBCOMP tells *)
(* the truth.                                                               *)
LEMMA PubrelKeeps ==
  ASSUME Typed(QuietQueues), HandshakeInv, NEW c \in Clients, NEW mid \in ClientMids,
         NEW read \in Seq(Known), Pubrel(c, mid, read),
         UNCHANGED <<session, budget, completed>>, Live(c),
         client' = [client EXCEPT ![c].pub[mid].phase = "wait_pubcomp"],
         Held(c, mid) \/ Done(c, mid),
         \A ty \in Answering : /\ AnswerCount(ty, mid)[read] = 0
                               /\ \A m \in ClientMids \ {mid} :
                                    AnswerCount(ty, m)[read] = Left(c, ty, m)
  PROVE  HandshakeInv'
<1> DEFINE K  == Matching(q[c].inflight, mid, "in")
           h  == Hit(c, mid)
           w  == IF K # {} /\ h.topic THEN Route(World, h, h.qos, {}) ELSE World
           o  == client[c].pub[mid]
<1>1. /\ Typed(UniqueQueues) /\ Typed(SoundQueues) /\ PeerTyped /\ HistoryTyped /\ SessionTyped
      /\ client \in [Clients -> ClientStates] /\ q[c] \in QuietQueues /\ q[c] \in SoundQueues
      /\ World \in Worlds(QuietQueues) /\ World.q = q
      /\ mid \in Nat
  <2>1. mid \in Nat
    BY BrokerAssumption, LimitsAssumption
  <2> QED BY <2>1, QuietUnique, PeerIs, WorldType DEF Typed, World
<1>2. /\ Stays(q, q', Clients, Clients \ {c})
      /\ \A A \in SUBSET Lasting :
           Kind(A) /\ A \cap Ins(mid) = {} /\ Has(q[c], A) => Has(q'[c], A)
      /\ K # {} => \A b : ~Has(q'[c], InAs(mid, b))
  BY <1>1, PubrelStays
<1>3. Held(c, mid) => K # {}
  <2>1. q[c].inflight \in Seq(Settled) /\ q[c].queued \in Seq(Due)
    BY <1>1 DEF QuietQueues, Lists
  <2>2. \A i \in DOMAIN q[c].queued : q[c].queued[i] \notin InTwo(mid)
    <3>1. \A m \in Due : m \notin InTwo(mid)
      BY DEF Due, InTwo, Ins
    <3> QED BY <2>1, <3>1
  <2>3. \A i \in DOMAIN q[c].inflight : q[c].inflight[i] \in InTwo(mid) => i \in K
    BY DEF InTwo, Ins, Matching
  <2> QED BY <2>2, <2>3 DEF Held, Has
<1>4. ~Held(c, mid)'
  <2>1. CASE K # {}
    <3>1. \A m \in InTwo(mid) : m \in InAs(mid, m.store.body)
      BY DEF InTwo, InAs
    <3>2. \A b : ~Has(q'[c], InAs(mid, b))
      BY <1>2, <2>1
    <3> QED BY <3>1, <3>2 DEF Held, Has
  <2>2. CASE K = {}
    <3>1. ~Has(q[c], InTwo(mid)) /\ Fewer(q[c], q'[c])
      BY <1>2, <1>3, <2>2 DEF Held, Stays
    <3> QED BY <3>1, InTwoKind DEF Fewer, Held
  <2> QED BY <2>1, <2>2
<1>5. /\ routed \in [1..MaxPubs -> Nat] /\ o \in Publication /\ MaxPubs \in Nat
      /\ routed' = IF K # {} /\ h.topic THEN [routed EXCEPT ![h.body] = @ + 1] ELSE routed
  BY <1>1, BrokerAssumption DEF HistoryTyped, ClientStates, Pubrel, Hit
<1>6. Later
  <2> HIDE DEF K, h
  <2> QED BY <1>5 DEF Later
<1>7. K # {} => h.body = o.body /\ h.topic = ~o.denied
  <2> SUFFICES ASSUME K # {} PROVE h.body = o.body /\ h.topic = ~o.denied
    OBVIOUS
  <2>1. PICK i \in DOMAIN q[c].inflight : q[c].inflight[i] \in Ins(mid) /\ q[c].inflight[i].store = h
    BY <1>1, HitHas
  <2>2. q[c].inflight[i] \notin Misfits(client[c])
    BY DEF HandshakeInv, ClientInv, Has
  <2> DEFINE m == q[c].inflight[i]
  <2>3. m \in Ins(mid) /\ m.store = h /\ m \notin Misfits(client[c])
    BY <2>1, <2>2
  <2> HIDE DEF m, h
  <2> QED BY <2>3 DEF Ins, Misfits, Incoming, Fits
<1>8. /\ client'[c].pub[mid].phase = "wait_pubcomp"
      /\ client'[c].pub[mid].body = o.body /\ client'[c].pub[mid].denied = o.denied
      /\ \A m \in ClientMids : m # mid => client'[c].pub[m] = client[c].pub[m]
      /\ \A x \in Clients : x # c => client'[x] = client[x]
  <2> DEFINE ph == "wait_pubcomp"
  <2>1. client' = [client EXCEPT ![c].pub[mid].phase = ph]
    OBVIOUS
  <2> HIDE DEF ph
  <2>2. /\ client'[c].pub = [client[c].pub EXCEPT ![mid].phase = ph]
        /\ \A x \in Clients : x # c => client'[x] = client[x]
    BY <1>1, <2>1 DEF ClientStates
  <2>3. client[c].pub \in [ClientMids -> Publication]
    BY <1>1 DEF ClientStates
  <2> DEFINE f == client[c].pub
  <2> HIDE DEF f
  <2>4. /\ f[mid] = o /\ client'[c].pub = [f EXCEPT ![mid].phase = ph]
        /\ f \in [ClientMids -> Publication]
    BY <2>2, <2>3 DEF f
  <2> HIDE DEF o
  <2>5. client'[c].pub[mid] = [o EXCEPT !.phase = ph] /\ o \in Publication
    BY <1>5, <2>4
  <2>6. \A m \in ClientMids : m # mid => client'[c].pub[m] = f[m]
    BY <2>4
  <2> QED BY <2>2, <2>5, <2>6 DEF Publication, ph, f
<1>9. Done(c, mid)'
  <2>1. CASE K # {}
    <3>1. CASE h.topic
      <4>1. routed' = [routed EXCEPT ![o.body] = @ + 1]
        BY <1>5, <1>7, <2>1, <3>1
      <4>2. o.body \in 0..MaxPubs
        BY <1>5 DEF Publication
      <4>3. o.body # 0 => routed'[o.body] >= 1
        <5> DEFINE b == o.body
        <5>1. b \in 0..MaxPubs /\ routed' = [routed EXCEPT ![b] = @ + 1]
          BY <4>1, <4>2
        <5> HIDE DEF b
        <5>2. b # 0 => routed'[b] = routed[b] + 1 /\ routed[b] \in Nat
          BY <1>5, <5>1
        <5>3. b # 0 => routed'[b] >= 1
          BY <5>2
        <5> QED BY <5>3 DEF b
      <4> QED BY <1>8, <4>3 DEF Done
    <3>2. CASE ~h.topic
      BY <1>5, <1>7, <1>8, <2>1, <3>2 DEF Done, Publication
    <3> QED BY <3>1, <3>2
  <2>2. CASE K = {}
    BY <1>1, <1>3, <1>6, <1>8, <2>2, DoneLater
  <2> QED BY <2>1, <2>2
<1>10. wire' = [wire EXCEPT ![c] = read \o <<Ack("pubcomp", mid)>>]
  <2>1. w \in Worlds(QuietQueues)
    <3>1. CASE K # {} /\ h.topic
      <4>1. h \in Stored /\ h.qos \in QoS
        BY <1>1, <3>1, HitHas DEF Stored
      <4> HIDE DEF h
      <4>2. Route(World, h, h.qos, {}) \in Worlds(QuietQueues)
        BY <1>1, <4>1, QuietServes, RouteType
      <4> QED BY <3>1, <4>2
    <3>2. CASE ~(K # {} /\ h.topic)
      BY <1>1, <3>2
    <3> QED BY <3>1, <3>2
  <2>2. wire' = [wire EXCEPT ![c] = read \o Acks("pubrec", DequeuePubrecs(w.q[c], ReleaseMoves(w.q[c])))
                                          \o <<Ack("pubcomp", mid)>>]
    BY DEF Pubrel, Hit
  <2> HIDE DEF w
  <2>3. w.q[c] \in QuietQueues
    BY <2>1, WorldParts
  <2>4. ReleaseMoves(w.q[c]) \in 0..Len(w.q[c].queued)
    BY <2>3, SoundParts, ReleaseSound DEF QuietQueues, UniqueQueues
  <2>5. DequeuePubrecs(w.q[c], ReleaseMoves(w.q[c])) = <<>>
    BY <2>3, <2>4, QuietSends
  <2>6. read \o <<>> = read
    OBVIOUS
  <2> QED BY <2>2, <2>5, <2>6, NoAcks
<1> HIDE DEF K, h, o, w
<1>11. /\ wire'[c] \in Seq(Known)
       /\ Left(c, "pubrec", mid)' = 0 /\ Left(c, "pubcomp", mid)' = 1
       /\ \A m \in ClientMids : m # mid =>
            /\ Left(c, "pubrec", m)' = Left(c, "pubrec", m)
            /\ Left(c, "pubcomp", m)' = Left(c, "pubcomp", m)
  <2> DEFINE rec == "pubrec"
             comp == "pubcomp"
             s == <<Ack(comp, mid)>>
             v == wire[c]
  <2>1. wire'[c] = read \o s
    BY <1>1, <1>10 DEF PeerTyped
  <2>2. rec \in Answering /\ comp \in Answering /\ rec # comp
    BY DEF Answering
  <2> HIDE DEF rec, comp
  <2>3. /\ read \o s \in Seq(Known)
        /\ \A ty \in Answering, m \in Nat :
             AnswerCount(ty, m)[read \o s] = AnswerCount(ty, m)[read] + (IF ty = comp /\ m = mid THEN 1 ELSE 0)
    BY <2>2, AckAnswers
  <2> HIDE DEF s
  <2>4. ClientMids \subseteq Nat
    BY BrokerAssumption, LimitsAssumption
  <2>5. /\ AnswerCount(rec, mid)[read \o s] = 0 + 0 /\ AnswerCount(comp, mid)[read \o s] = 0 + 1
        /\ \A ty \in Answering, m \in ClientMids \ {mid} :
             AnswerCount(ty, m)[read \o s] = AnswerCount(ty, m)[v] + 0
    <3>1. AnswerCount(rec, mid)[read \o s] = 0 + 0 /\ AnswerCount(comp, mid)[read \o s] = 0 + 1
      BY <1>1, <2>2, <2>3
    <3>2. ASSUME NEW ty \in Answering, NEW m \in ClientMids \ {mid}
          PROVE  AnswerCount(ty, m)[read \o s] = AnswerCount(ty, m)[v] + 0
      <4>1. m \in Nat /\ m # mid
        BY <2>4
      <4>2. AnswerCount(ty, m)[read] = AnswerCount(ty, m)[v]
        BY DEF Left, v
      <4> QED BY <2>3, <4>1, <4>2
    <3> QED BY <3>1, <3>2
  <2>6. \A ty, m : AnswerCount(ty, m)[v] + 0 = AnswerCount(ty, m)[v]
    <3>1. \A ty, m : AnswerCount(ty, m)[v] \in Nat
      BY <1>1, AnswersAdd DEF v, PeerTyped
    <3> QED BY <3>1
  <2>7. /\ AnswerCount(rec, mid)[read \o s] = 0 /\ AnswerCount(comp, mid)[read \o s] = 1
        /\ \A m \in ClientMids : m # mid =>
             /\ AnswerCount(rec, m)[read \o s] = AnswerCount(rec, m)[v]
             /\ AnswerCount(comp, m)[read \o s] = AnswerCount(comp, m)[v]
    BY <2>2, <2>5, <2>6
  <2> QED BY <2>1, <2>3, <2>7 DEF Left, v, rec, comp
<1>12. \A x \in Clients : EndsAt(x)
  BY DEF EndsAt, Live, session
<1>13. ASSUME NEW x \in Clients, x # c PROVE ClientInv(x)'
  <2>1. wire'[x] = wire[x] /\ client'[x].pub = client[x].pub
    BY <1>1, <1>8, <1>10, <1>13 DEF PeerTyped
  <2>2. SameAnswers(wire[x], wire'[x])
    BY <2>1, PlainAnswers DEF HandshakeInv, ClientInv
  <2>3. Fewer(q[x], q'[x]) /\ Keeps(q[x], q'[x])
    BY <1>2, <1>13 DEF Stays
  <2>4. \A m \in ClientMids : Held(x, m) => Held(x, m)'
    BY <2>3, InTwoKind DEF Keeps, Held
  <2>5. Unmoved(x)
    BY <1>12, <2>1, <2>2, <2>3, <2>4 DEF Unmoved
  <2> QED BY <1>1, <1>6, <2>5, UnmovedKept DEF HandshakeInv
<1>14. ASSUME NEW m \in ClientMids PROVE StageAt(c, m)'
  <2>1. CASE m = mid
    BY <1>4, <1>8, <1>9, <1>11, <2>1 DEF StageAt, HandshakeAt
  <2>2. CASE m # mid
    <3>1. InTwo(m) \in SUBSET Lasting /\ Kind(InTwo(m)) /\ InTwo(m) \cap Ins(mid) = {}
      BY <2>2, InTwoKind DEF InTwo, Ins
    <3>2. Held(c, m) => Held(c, m)'
      BY <1>2, <3>1 DEF Held
    <3>3. Held(c, m)' => Held(c, m)
      BY <1>2, InTwoKind DEF Stays, Fewer, Held
    <3>4. EndsAt(c)
      BY <1>12
    <3>5. SameStage(c, m)
      BY <1>8, <1>11, <2>2, <3>2, <3>3, <3>4 DEF SameStage, EndsAt, Held
    <3> QED BY <1>1, <1>6, <3>5, StageKept DEF HandshakeInv, ClientInv
  <2> QED BY <2>1, <2>2
<1>15. ClientInv(c)'
  <2>1. ~Has(q'[c], Misfits(client'[c]))
    <3>1. \A m \in ClientMids : /\ client'[c].pub[m].body = client[c].pub[m].body
                                /\ client'[c].pub[m].denied = client[c].pub[m].denied
      BY <1>8 DEF o
    <3> QED BY <1>2, <3>1, FitsKept DEF HandshakeInv, ClientInv, Stays
  <2> QED BY <1>11, <1>14, <2>1 DEF ClientInv
<1> QED BY <1>1, <1>6, <1>13, <1>15, CompletedKept DEF HandshakeInv

(* A PUBREL that is sent again after a reconnection.                        *)
LEMMA ResendKeeps ==
  ASSUME Typed(QuietQueues), HandshakeInv, NEW c \in Clients, NEW mid \in ClientMids,
         ResendPubrel(c, mid)
  PROVE  HandshakeInv'
<1> DEFINE read == wire[c]
           ph   == client[c].pub[mid].phase
<1>1. /\ ph = "resend_pubrel" /\ Pubrel(c, mid, read) /\ UNCHANGED <<session, budget, completed>>
      /\ client' = [client EXCEPT ![c].pub[mid].phase = "wait_pubcomp"] /\ Live(c)
  BY DEF ResendPubrel, Event, Online, Live
<1>2. read \in Seq(Known) /\ StageAt(c, mid)
  BY DEF HandshakeInv, ClientInv
<1>3. Left(c, "pubrec", mid) = 0 /\ Left(c, "pubcomp", mid) = 0 /\ (Held(c, mid) \/ Done(c, mid))
  <2>1. Left(c, "pubrec", mid) \in Nat /\ Left(c, "pubcomp", mid) \in Nat
    BY AnswersAdd DEF Left, Typed, PeerTyped
  <2> QED BY <1>1, <1>2, <2>1 DEF StageAt, HandshakeAt
<1>4. \A ty \in Answering : /\ AnswerCount(ty, mid)[read] = 0
                            /\ \A m \in ClientMids \ {mid} : AnswerCount(ty, m)[read] = Left(c, ty, m)
  BY <1>3 DEF Answering, Left
<1> HIDE DEF read
<1> QED BY <1>1, <1>2, <1>3, <1>4, PubrelKeeps

(* A client that reads an answer: there is no other under its identifier.   *)
LEMMA ReadAnswer ==
  ASSUME Typed(QuietQueues), HandshakeInv, NEW c \in Clients, wire[c] # <<>>,
         NEW type \in Answering, Head(wire[c]).type = type, NEW mid, mid = Head(wire[c]).mid
  PROVE  /\ mid \in ClientMids /\ Tail(wire[c]) \in Seq(Known) /\ StageAt(c, mid)
         /\ Left(c, type, mid) = 1
         /\ \A ty \in Answering : ty # type => Left(c, ty, mid) = 0
         /\ \A ty \in Answering : /\ AnswerCount(ty, mid)[Tail(wire[c])] = 0
                                  /\ \A m \in ClientMids \ {mid} :
                                       AnswerCount(ty, m)[Tail(wire[c])] = Left(c, ty, m)
<1> DEFINE v == wire[c]
           t == Tail(wire[c])
<1>1. v \in Seq(Known) /\ v \in Seq(Packets) /\ v # <<>> /\ Head(v).type = type /\ mid = Head(v).mid
  BY DEF HandshakeInv, ClientInv, Typed, PeerTyped
<1> HIDE DEF v
<1>2. /\ Tail(v) \in Seq(Known) /\ mid \in ClientMids
      /\ \A ty \in Answering, m \in Nat :
           AnswerCount(ty, m)[v] = AnswerCount(ty, m)[Tail(v)] + (IF ty = type /\ m = mid THEN 1 ELSE 0)
  BY <1>1, AckAnswers
<1>3. t = Tail(v) /\ t \in Seq(Packets)
  BY <1>1 DEF v
<1> HIDE DEF t
<1>4. \A ty, m : AnswerCount(ty, m)[v] \in Nat /\ AnswerCount(ty, m)[t] \in Nat
  BY <1>1, <1>3, AnswersAdd
<1>5. ClientMids \subseteq Nat
  BY BrokerAssumption, LimitsAssumption
<1>6. StageAt(c, mid)
  BY <1>2 DEF HandshakeInv, ClientInv
<1>7. AnswerCount("pubrec", mid)[v] + AnswerCount("pubcomp", mid)[v] <= 1
  BY <1>6 DEF StageAt, HandshakeAt, Left, v
<1>8. AnswerCount(type, mid)[v] = AnswerCount(type, mid)[t] + 1
  BY <1>2, <1>3, <1>5
<1>9. /\ AnswerCount(type, mid)[v] = 1 /\ AnswerCount(type, mid)[t] = 0
      /\ \A ty \in Answering : ty # type => AnswerCount(ty, mid)[v] = 0
  <2>1. CASE type = "pubrec"
    BY <1>4, <1>7, <1>8, <2>1 DEF Answering
  <2>2. CASE type = "pubcomp"
    BY <1>4, <1>7, <1>8, <2>2 DEF Answering
  <2> QED BY <2>1, <2>2 DEF Answering
<1>10. \A ty \in Answering, m \in ClientMids :
         ty # type \/ m # mid => AnswerCount(ty, m)[t] = AnswerCount(ty, m)[v]
  BY <1>2, <1>3, <1>4, <1>5
<1>11. \A ty \in Answering : /\ AnswerCount(ty, mid)[t] = 0
                             /\ \A m \in ClientMids \ {mid} : AnswerCount(ty, m)[t] = AnswerCount(ty, m)[v]
  BY <1>2, <1>9, <1>10
<1> QED BY <1>2, <1>3, <1>6, <1>9, <1>11 DEF Left, v, t

(* What a client reads changes nothing elsewhere.                           *)
LEMMA OthersKept ==
  ASSUME PeerTyped, HandshakeInv, NEW c \in Clients, NEW x \in Clients, x # c,
         UNCHANGED <<q, session, routed>>, client'[x] = client[x],
         wire' = [wire EXCEPT ![c] = Tail(@)]
  PROVE  ClientInv(x)'
<1>1. wire'[x] = wire[x]
  BY DEF PeerTyped
<1>2. SameAnswers(wire[x], wire'[x])
  BY <1>1, PlainAnswers DEF HandshakeInv, ClientInv
<1>3. Unmoved(x) /\ Later
  BY <1>2 DEF Unmoved, EndsAt, Fewer, Held, Live, session, Later
<1> QED BY <1>3, UnmovedKept DEF HandshakeInv

(* No answer under mid is on the wire any more, and the others still are.   *)
Gone(c, mid) ==
  /\ Left(c, "pubrec", mid)' = 0 /\ Left(c, "pubcomp", mid)' = 0
  /\ \A m \in ClientMids : m # mid =>
       Left(c, "pubrec", m)' = Left(c, "pubrec", m) /\ Left(c, "pubcomp", m)' = Left(c, "pubcomp", m)

(* What is left of the answers after one has been read.                     *)
LEMMA AnswerGone ==
  ASSUME NEW c \in Clients, NEW mid, NEW t, wire'[c] = t,
         \A ty \in Answering : /\ AnswerCount(ty, mid)[t] = 0
                               /\ \A m \in ClientMids \ {mid} : AnswerCount(ty, m)[t] = Left(c, ty, m)
  PROVE  Gone(c, mid)
<1> DEFINE rec  == "pubrec"
           comp == "pubcomp"
<1>1. rec \in Answering /\ comp \in Answering
  BY DEF Answering
<1> HIDE DEF rec, comp
<1>2. AnswerCount(rec, mid)[t] = 0 /\ AnswerCount(comp, mid)[t] = 0
  BY <1>1
<1>3. ASSUME NEW m \in ClientMids, m # mid
      PROVE  /\ AnswerCount(rec, m)[t] = Left(c, rec, m)
             /\ AnswerCount(comp, m)[t] = Left(c, comp, m)
  BY <1>1, <1>3
<1>4. \A m \in ClientMids : m # mid => /\ AnswerCount(rec, m)[wire'[c]] = AnswerCount(rec, m)[wire[c]]
                                      /\ AnswerCount(comp, m)[wire'[c]] = AnswerCount(comp, m)[wire[c]]
  BY <1>3 DEF Left
<1> QED BY <1>2, <1>4 DEF Gone, Left, rec, comp

(* A clean session ends with its connection.                                *)
CleanOnline == \A c \in Clients : Live(c) /\ clean[c] => Online(c)

(* Every step keeps that.                                                   *)
LEMMA CleanOnlineKept ==
  ASSUME SessionTyped, CleanOnline, [Next]_vars
  PROVE  CleanOnline'
<1>1. ASSUME UNCHANGED session PROVE CleanOnline'
  BY <1>1 DEF CleanOnline, Live, Online, session
<1>2. ASSUME NEW w, NEW c \in Clients, Disconnected(w, c) PROVE CleanOnline'
  BY <1>2 DEF Disconnected, CleanOnline, Live, Online, SessionTyped
<1>3. CASE Loop \/ UNCHANGED vars
  BY <1>1, <1>3 DEF Loop, vars
<1>4. ASSUME NEW c \in Clients, LoopFails(c) PROVE CleanOnline'
  BY <1>2, <1>4 DEF LoopFails, WriteFails
<1>5. ASSUME NEW c \in Clients, Connect(c) PROVE CleanOnline'
  BY <1>5 DEF Connect, CleanOnline, Live, Online, SessionTyped
<1>6. ASSUME NEW c \in Clients, Expire(c) PROVE CleanOnline'
  BY <1>6 DEF Expire, CleanOnline, Live, Online, SessionTyped
<1>7. ASSUME NEW c \in Clients, Disconnect(c) \/ ConnectionLost(c) PROVE CleanOnline'
  BY <1>2, <1>7 DEF Disconnect, ConnectionLost
<1>8. ASSUME NEW c \in Clients, Subscribe(c) \/ Unsubscribe(c) PROVE CleanOnline'
  BY <1>8 DEF Subscribe, Unsubscribe, CleanOnline, Live, Online
<1>9. ASSUME NEW c \in Clients, NEW mid \in ClientMids, PublishQoS2(c, mid) PROVE CleanOnline'
  BY <1>1, <1>2, <1>9 DEF PublishQoS2
<1>10. ASSUME NEW c \in Clients, Publish(c) \/ Resend(c) \/ Read(c) PROVE CleanOnline'
  BY <1>1, <1>9, <1>10
     DEF Publish, Resend, ResendPubrel, Read, ReadPublish, ReadPubrel, ReadPubrec, ReadPubcomp
<1> QED BY <1>3, <1>4, <1>5, <1>6, <1>7, <1>8, <1>9, <1>10 DEF Next

(* A client that reads a PUBREC, whether its PUBREL is heard or not: when   *)
(* it is not, the connection is lost, and a clean session with it.          *)
LEMMA ReadPubrecKeeps ==
  ASSUME Typed(QuietQueues), HandshakeInv, CleanOnline, NEW c \in Clients, ReadPubrec(c)
  PROVE  HandshakeInv'
<1> SUFFICES ASSUME NEW mid, mid = Head(wire[c]).mid
             PROVE  HandshakeInv'
  OBVIOUS
<1> DEFINE t    == Tail(wire[c])
           ph   == "wait_pubcomp"
           rec  == "pubrec"
           comp == "pubcomp"
<1>1. /\ PeerTyped /\ HistoryTyped /\ client \in [Clients -> ClientStates]
  BY PeerIs DEF Typed
<1>2. wire[c] # <<>> /\ Head(wire[c]).type = rec /\ rec \in Answering
  BY DEF ReadPubrec, Reads, Answering
<1>3. /\ mid \in ClientMids /\ t \in Seq(Known) /\ StageAt(c, mid)
      /\ Left(c, rec, mid) = 1
      /\ \A ty \in Answering : ty # rec => Left(c, ty, mid) = 0
      /\ \A ty \in Answering : /\ AnswerCount(ty, mid)[t] = 0
                               /\ \A m \in ClientMids \ {mid} : AnswerCount(ty, m)[t] = Left(c, ty, m)
  <2> HIDE DEF rec
  <2> QED BY <1>2, ReadAnswer
<1>4. /\ client[c].pub[mid].phase = "wait_pubrec" /\ (Live(c) => Held(c, mid))
      /\ (Held(c, mid) => Live(c))
  BY <1>3 DEF StageAt, HandshakeAt
<1>5. client' = [client EXCEPT ![c].pub[mid].phase = ph]
  BY <1>4 DEF ReadPubrec
<1>6. UNCHANGED <<session, budget, completed>>
  BY DEF ReadPubrec
<1>7. \/ Live(c) /\ Pubrel(c, mid, t)
      \/ (Live(c) => ~clean[c]) /\ UNCHANGED <<q, routed>> /\ wire' = [wire EXCEPT ![c] = Tail(@)]
  BY DEF ReadPubrec, Answers, Event, Online, Live, Unheard, CleanOnline
<1>8. CASE Live(c) /\ Pubrel(c, mid, t)
  <2> HIDE DEF t, rec
  <2> QED BY <1>3, <1>4, <1>5, <1>6, <1>8, PubrelKeeps DEF ph
<1>9. CASE (Live(c) => ~clean[c]) /\ UNCHANGED <<q, routed>> /\ wire' = [wire EXCEPT ![c] = Tail(@)]
  <2>1. /\ client'[c].pub = [client[c].pub EXCEPT ![mid].phase = ph]
        /\ \A x \in Clients : x # c => client'[x] = client[x]
    <3> HIDE DEF ph
    <3> QED BY <1>1, <1>5 DEF ClientStates
  <2>2. wire'[c] = t
    BY <1>1, <1>9 DEF PeerTyped
  <2> DEFINE f == client[c].pub
             o == client[c].pub[mid]
  <2>3. f \in [ClientMids -> Publication] /\ o \in Publication /\ f[mid] = o
    BY <1>1, <1>3 DEF ClientStates
  <2>4. /\ client'[c].pub[mid].phase = ph
        /\ client'[c].pub[mid].body = o.body /\ client'[c].pub[mid].denied = o.denied
        /\ \A m \in ClientMids : m # mid => client'[c].pub[m] = f[m]
    <3>1. client'[c].pub = [f EXCEPT ![mid].phase = ph] /\ mid \in ClientMids
      BY <1>3, <2>1
    <3> HIDE DEF ph, f, o
    <3>2. client'[c].pub[mid] = [o EXCEPT !.phase = ph] /\ o \in Publication
      BY <2>3, <3>1
    <3>3. \A m \in ClientMids : m # mid => client'[c].pub[m] = f[m]
      BY <2>3, <3>1
    <3> QED BY <3>2, <3>3 DEF Publication
  <2>5. ASSUME NEW x \in Clients, x # c PROVE ClientInv(x)'
    BY <1>1, <1>6, <1>9, <2>1, <2>5, OthersKept
  <2>6. Later /\ EndsAt(c) /\ Fewer(q[c], q'[c]) /\ (Live(c)' <=> Live(c))
        /\ (Live(c)' => ~clean'[c]) /\ \A m : Held(c, m)' <=> Held(c, m)
    BY <1>6, <1>9 DEF Later, EndsAt, Fewer, Live, Held, session
  <2>7. Gone(c, mid)
    <3> HIDE DEF t
    <3> QED BY <1>3, <2>2, AnswerGone
  <2>8. ASSUME NEW m \in ClientMids PROVE StageAt(c, m)'
    <3>1. CASE m = mid
      <4>1. client'[c].pub[m].phase = "wait_pubcomp"
        BY <2>4, <3>1
      <4>2. Live(c)' <=> Held(c, m)'
        BY <1>4, <2>6, <3>1
      <4>3. Left(c, "pubrec", m)' = 0 /\ Left(c, "pubcomp", m)' = 0
        BY <2>7, <3>1 DEF Gone
      <4> QED BY <2>6, <4>1, <4>2, <4>3 DEF StageAt, HandshakeAt
    <3>2. CASE m # mid
      <4>1. SameStage(c, m)
        BY <1>6, <2>4, <2>6, <2>7, <3>2 DEF SameStage, Gone, session
      <4> QED BY <1>1, <2>6, <4>1, StageKept DEF HandshakeInv, ClientInv
    <3> QED BY <3>1, <3>2
  <2>9. ~Has(q'[c], Misfits(client'[c]))
    <3>1. \A m \in ClientMids : /\ client'[c].pub[m].body = client[c].pub[m].body
                                /\ client'[c].pub[m].denied = client[c].pub[m].denied
      BY <2>4
    <3> QED BY <2>6, <3>1, FitsKept DEF HandshakeInv, ClientInv
  <2>10. ClientInv(c)'
    BY <1>3, <2>2, <2>8, <2>9 DEF ClientInv
  <2> QED BY <1>1, <1>6, <2>5, <2>6, <2>10, CompletedKept DEF HandshakeInv
<1> QED BY <1>7, <1>8, <1>9

(* A client that reads a PUBCOMP: its publication is over, and was routed.  *)
LEMMA ReadPubcompKeeps ==
  ASSUME Typed(QuietQueues), HandshakeInv, NEW c \in Clients, ReadPubcomp(c)
  PROVE  HandshakeInv'
<1> SUFFICES ASSUME NEW mid, mid = Head(wire[c]).mid
             PROVE  HandshakeInv'
  OBVIOUS
<1> DEFINE t    == Tail(wire[c])
           comp == "pubcomp"
           o    == client[c].pub[mid]
           over == {m \in ClientMids : m = mid /\ client[c].pub[m].body # 0 /\ ~client[c].pub[m].denied}
<1>1. PeerTyped /\ HistoryTyped /\ client \in [Clients -> ClientStates]
  BY PeerIs DEF Typed
<1>2. wire[c] # <<>> /\ Head(wire[c]).type = comp /\ comp \in Answering
  BY DEF ReadPubcomp, Reads, Answering
<1>3. /\ mid \in ClientMids /\ t \in Seq(Known) /\ StageAt(c, mid)
      /\ Left(c, comp, mid) = 1
      /\ \A ty \in Answering : /\ AnswerCount(ty, mid)[t] = 0
                               /\ \A m \in ClientMids \ {mid} : AnswerCount(ty, m)[t] = Left(c, ty, m)
  <2> HIDE DEF comp
  <2> QED BY <1>2, ReadAnswer
<1>4. ~Held(c, mid) /\ Done(c, mid)
  BY <1>3 DEF StageAt, HandshakeAt
<1>5. /\ client' = [client EXCEPT ![c].pub[mid] = Idle]
      /\ completed' = completed \cup {client[c].pub[m].body : m \in over}
      /\ wire' = [wire EXCEPT ![c] = Tail(@)]
      /\ UNCHANGED <<q, session, routed>>
  BY DEF ReadPubcomp
<1>6. /\ client'[c].pub = [client[c].pub EXCEPT ![mid] = Idle]
      /\ \A x \in Clients : x # c => client'[x] = client[x]
  BY <1>1, <1>5 DEF ClientStates
<1>7. wire'[c] = t
  BY <1>1, <1>5 DEF PeerTyped
<1>8. /\ client'[c].pub[mid] = Idle
      /\ \A m \in ClientMids : m # mid => client'[c].pub[m] = client[c].pub[m]
  BY <1>1, <1>3, <1>6 DEF ClientStates
<1>9. ASSUME NEW x \in Clients, x # c PROVE ClientInv(x)'
  BY <1>1, <1>5, <1>6, <1>9, OthersKept
<1>10. Later /\ (Live(c)' <=> Live(c)) /\ (\A m : Held(c, m)' <=> Held(c, m))
  BY <1>5 DEF Later, Live, Held, session, HandshakeInv, ClientInv
<1>11. Gone(c, mid)
  <2> HIDE DEF t
  <2> QED BY <1>3, <1>7, AnswerGone
<1>12. ASSUME NEW m \in ClientMids PROVE StageAt(c, m)'
  <2>1. CASE m = mid
    <3>1. client'[c].pub[m].phase = "idle" /\ ~Held(c, m)'
      BY <1>4, <1>8, <1>10, <2>1 DEF Idle
    <3>2. Left(c, "pubrec", m)' = 0 /\ Left(c, "pubcomp", m)' = 0
      BY <1>11, <2>1 DEF Gone
    <3> QED BY <3>1, <3>2 DEF StageAt, HandshakeAt
  <2>2. CASE m # mid
    <3>1. SameStage(c, m)
      BY <1>5, <1>8, <1>10, <1>11, <2>2 DEF SameStage, Gone, session
    <3> QED BY <1>1, <1>10, <3>1, StageKept DEF HandshakeInv, ClientInv
  <2> QED BY <2>1, <2>2
<1>13. ~Has(q'[c], Misfits(client'[c]))
  <2>1. q'[c] = q[c] /\ ~Has(q[c], Misfits(client[c])) /\ ~Has(q[c], InTwo(mid))
    BY <1>4, <1>5 DEF HandshakeInv, ClientInv, Held
  <2>2. \A m \in Misfits(client'[c]) : m \in Misfits(client[c]) \/ m \in InTwo(mid)
    BY <1>8 DEF Misfits, Fits, Incoming, InTwo, Ins
  <2> QED BY <2>1, <2>2 DEF Has
<1>14. ClientInv(c)'
  BY <1>3, <1>7, <1>10, <1>12, <1>13 DEF ClientInv
<1>15. CompletedIsRouted'
  <2>1. \A m \in over : client[c].pub[m].body = o.body /\ o.body # 0 /\ ~o.denied
    OBVIOUS
  <2>2. o.body # 0 /\ ~o.denied => routed[o.body] >= 1
    BY <1>4 DEF Done
  <2> HIDE DEF over, o
  <2>3. \A b \in completed' : b \in completed \/ routed[b] >= 1
    BY <1>5, <2>1, <2>2
  <2> QED BY <1>5, <2>3 DEF CompletedIsRouted, HandshakeInv
<1> QED BY <1>9, <1>14, <1>15 DEF HandshakeInv

(* No publication has begun.                                                *)
LEMMA InitHandshake == Init => HandshakeInv
<1> SUFFICES ASSUME Init PROVE HandshakeInv
  OBVIOUS
<1>1. ASSUME NEW c \in Clients PROVE ClientInv(c)
  <2>1. q[c] = EmptyQueue /\ ~Live(c) /\ wire[c] = <<>> /\ client[c] = NewClient
    BY DEF Init, Live
  <2>2. \A A : ~Has(q[c], A)
    BY <2>1 DEF Has, EmptyQueue
  <2>3. wire[c] \in Seq(Known)
    BY <2>1
  <2>4. ASSUME NEW mid \in ClientMids PROVE StageAt(c, mid)
    <3>1. client[c].pub[mid].phase = "idle" /\ ~Held(c, mid)
      BY <2>1, <2>2 DEF NewClient, Idle, Held
    <3>2. ASSUME NEW ty \in Answering PROVE Left(c, ty, mid) = 0
      <4> DEFINE none == <<>>
      <4>1. none \in Seq(Plain) /\ wire[c] = none /\ mid \in Nat
        BY <2>1, BrokerAssumption, LimitsAssumption
      <4> HIDE DEF none
      <4> QED BY <4>1, PlainCounts DEF Left
    <3>3. Left(c, "pubrec", mid) = 0 /\ Left(c, "pubcomp", mid) = 0
      BY <3>2 DEF Answering
    <3> QED BY <3>1, <3>3 DEF StageAt, HandshakeAt
  <2> QED BY <2>1, <2>2, <2>3, <2>4 DEF ClientInv
<1>2. CompletedIsRouted
  BY DEF Init, CompletedIsRouted
<1> QED BY <1>1, <1>2 DEF HandshakeInv

(* Every step of the broker and its clients keeps the handshake.            *)
LEMMA HandshakeKept ==
  ASSUME Typed(QuietQueues), HandshakeInv, CleanOnline, [Next]_vars
  PROVE  HandshakeInv'
<1>1. CASE UNCHANGED vars
  <2>1. \A c \in Clients : ClientInv(c)'
    BY <1>1 DEF HandshakeInv, ClientInv, StageAt, Left, Held, Done, Live, vars, session, history
  <2> QED BY <1>1, <2>1 DEF HandshakeInv, CompletedIsRouted, vars, history
<1>2. CASE Loop \/ \E c \in Clients : LoopFails(c)
  BY <1>2, LoopKeeps
<1>3. ASSUME NEW c \in Clients,
             \/ Connect(c) \/ Disconnect(c) \/ ConnectionLost(c) \/ Expire(c)
             \/ Subscribe(c) \/ Unsubscribe(c) \/ Publish(c)
      PROVE  HandshakeInv'
  BY <1>3, ConnectKeeps, SessionKeeps
<1>4. ASSUME NEW c \in Clients, (\E mid \in ClientMids : PublishQoS2(c, mid)) \/ Resend(c)
      PROVE  HandshakeInv'
  BY <1>4, PublishKeeps, ResendKeeps DEF Resend
<1>5. ASSUME NEW c \in Clients, Read(c) PROVE HandshakeInv'
  BY <1>5, ReadPlainKeeps, ReadPubrecKeeps, ReadPubcompKeeps DEF Read
<1> QED BY <1>1, <1>2, <1>3, <1>4, <1>5 DEF Next

-----------------------------------------------------------------------------
(* When no message from a client has to wait: the window is not limited, or *)
(* the clients that publish do not subscribe and use no more identifiers    *)
(* than the window has room for.                                            *)

(* What has no business in the lists of a client: messages from it under    *)
(* identifiers that no client uses, and messages for it although it never   *)
(* subscribes.                                                              *)
Alien(x) == {m \in ClientMsg : IF m.dir = "in" THEN m.mid \notin ClientMids
                                               ELSE x \notin Subscribers}

Bare(qs)        == \A x \in Clients : ~Has(qs[x], Alien(x))
OnlySubscribers == \A x \in Clients : leaf[x] # NoLeaf => x \in Subscribers

(* Such messages are a kind, for a subscriber one of messages from it.      *)
LEMMA AlienKind ==
  ASSUME NEW x
  PROVE  Kind(Alien(x)) /\ (x \in Subscribers => Alien(x) \in SUBSET Incoming)
BY DEF Alien, Kind, Twins, Incoming

(* What database.c does to a queue brings no kind of message into it.       *)
LEMMA OpsBare ==
  ASSUME NEW cq \in SoundQueues, NEW A, Kind(A), ~Has(cq, A)
  PROVE  /\ \A mid : ~Has(Delete(cq, mid, "out"), A) /\ ~Has(Release(cq, mid), A)
         /\ \A mid : ~Has(Update(cq, mid, "out", "wait_for_pubcomp"), A)
         /\ ~Has(Write(cq), A) /\ ~Has(Reset(cq), A)
         /\ \A i : ~Has(WriteFailsAt(cq, i), A)
         /\ \A j \in 1..WriteMoves(cq) :
              cq.queued[j].dir = "in" => ~Has(WriteFailsAtPubrec(cq, j), A)
<1>1. ASSUME NEW r \in SoundQueues, NEW K \in SUBSET (DOMAIN cq.inflight), Leaves(cq, r, K)
      PROVE  ~Has(r, A)
  BY <1>1, LeavesHas
<1>2. ASSUME NEW mid PROVE ~Has(Delete(cq, mid, "out"), A) /\ ~Has(Release(cq, mid), A)
  <2>1. /\ Matching(cq.inflight, mid, "out") \in SUBSET (DOMAIN cq.inflight)
        /\ Matching(cq.inflight, mid, "in") \in SUBSET (DOMAIN cq.inflight)
    BY DEF Matching
  <2> QED BY <1>1, <2>1, DeleteSound, DeleteLeaves, ReleaseSound, ReleaseLeaves
<1>3. ASSUME NEW mid PROVE ~Has(Update(cq, mid, "out", "wait_for_pubcomp"), A)
  <2> DEFINE st == "wait_for_pubcomp"
             r  == Update(cq, mid, "out", st)
  <2>1. st \in OutStates /\ st \in States /\ st # "publish_qos0"
    BY DEF OutStates, States
  <2> HIDE DEF st
  <2>2. r \in SoundQueues /\ \A F : StateFree(F) => Total(F, r) = Total(F, cq)
    BY <2>1, UpdateSound, UpdateTotal
  <2> HIDE DEF r
  <2>3. ~Has(r, A)
    BY <2>2, SameHas
  <2> QED BY <2>3 DEF r, st
<1>4. \A P \in SUBSET Pending(cq) : SentQoS0(cq, P) \in SUBSET (DOMAIN cq.inflight)
  BY DEF SentQoS0, Pending
<1>5. ~Has(Write(cq), A)
  BY <1>1, <1>4, WriteSound, WriteLeaves
<1>6. ASSUME NEW i PROVE ~Has(WriteFailsAt(cq, i), A)
  <2> DEFINE P == {j \in Pending(cq) : j < i}
  <2>1. P \in SUBSET Pending(cq)
    OBVIOUS
  <2>2. WriteFailsAt(cq, i) \in SoundQueues /\ Leaves(cq, WriteFailsAt(cq, i), SentQoS0(cq, P))
    BY WriteSound, WriteLeaves
  <2> HIDE DEF P
  <2> QED BY <1>1, <1>4, <2>1, <2>2
<1>7. ASSUME NEW j \in 1..WriteMoves(cq), cq.queued[j].dir = "in"
      PROVE  ~Has(WriteFailsAtPubrec(cq, j), A)
  BY <1>1, <1>4, <1>7, WriteSound, WriteLeaves
<1>8. ~Has(Reset(cq), A)
  <2>1. Reset(cq) \in SoundQueues
    BY ResetSound
  <2>2. \A F : StateFree(F) => Total(F, Reset(cq)) = Total(F, cq)
    BY ResetTotal
  <2> QED BY <2>1, <2>2, SameHas
<1> QED BY <1>2, <1>3, <1>5, <1>6, <1>7, <1>8

(* A queue of one client that changes.                                      *)
LEMMA OneBare ==
  ASSUME NEW R, NEW qs \in [Clients -> R], Bare(qs), NEW c \in Clients, NEW cq, ~Has(cq, Alien(c))
  PROVE  Bare([qs EXCEPT ![c] = cq])
<1> DEFINE r == [qs EXCEPT ![c] = cq]
<1>1. \A x \in Clients : r[x] = IF x = c THEN cq ELSE qs[x]
  OBVIOUS
<1> HIDE DEF r
<1>2. Bare(r)
  BY <1>1 DEF Bare
<1> QED BY <1>2 DEF r

(* sub__messages_queue offers to subscribers only.                          *)
LEMMA RouteBare ==
  ASSUME SessionTyped, OnlySubscribers, NEW w \in Worlds(SoundQueues), NEW s \in Stored,
         NEW qos \in QoS, NEW skip, Bare(w.q)
  PROVE  Bare(Route(w, s, qos, skip).q)
<1> DEFINE r == Route(w, s, qos, skip)
           to == {c \in Clients \ skip : leaf[c] # NoLeaf}
<1>1. r.q = [c \in Clients |->
               IF c \in to THEN Offer(w.q[c], Online(c), s, OutQoS(qos, leaf[c])) ELSE w.q[c]]
  BY DEF Route, Worlds
<1>2. ASSUME NEW x \in Clients PROVE ~Has(r.q[x], Alien(x))
  <2> DEFINE o  == OutQoS(qos, leaf[x])
             on == Online(x)
  <2>1. w.q[x] \in SoundQueues /\ ~Has(w.q[x], Alien(x))
    BY WorldParts DEF Bare
  <2>2. CASE x \in to
    <3>1. leaf[x] \in QoS /\ x \in Subscribers
      BY <2>2 DEF SessionTyped, OnlySubscribers
    <3>2. o \in QoS /\ on \in BOOLEAN
      BY <3>1, OutQoSType DEF Online
    <3>3. r.q[x] = Offer(w.q[x], on, s, o)
      BY <1>1, <2>2
    <3>4. Alien(x) \in SUBSET Incoming /\ Kind(Alien(x))
      BY <3>1, AlienKind
    <3> HIDE DEF o, on, r
    <3>5. Fewer(w.q[x], Offer(w.q[x], on, s, o))
      BY <2>1, <3>2, OfferStays
    <3> QED BY <2>1, <3>3, <3>4, <3>5 DEF Fewer
  <2>3. CASE x \notin to
    <3>1. r.q[x] = w.q[x]
      BY <1>1, <2>3
    <3> QED BY <2>1, <3>1
  <2> QED BY <2>2, <2>3
<1> QED BY <1>2 DEF Bare

(* context__send_will.                                                      *)
LEMMA SendWillBare ==
  ASSUME SessionTyped, OnlySubscribers, NEW w \in Worlds(SoundQueues), NEW c, NEW skip, Bare(w.q)
  PROVE  SendWill(w, c, skip) \in Worlds(SoundQueues) /\ Bare(SendWill(w, c, skip).q)
<1> DEFINE s == Fresh(w, 0, 0, WillQoS, WillLen, WillRetain, TRUE)
           u == StoreMsg(w, s)
<1>1. WillQoS \in QoS /\ WillLen \in 0..MaxLen /\ WillRetain \in BOOLEAN
  BY BrokerAssumption, LimitsAssumption
<1>2. s \in Stored /\ s.id = w.last_db_id + 1
  BY <1>1, FreshType
<1>3. SendWill(w, c, skip) = IF will[c] THEN Route(u, s, WillQoS, skip) ELSE w
  BY DEF SendWill
<1> HIDE DEF s
<1>4. u \in Worlds(SoundQueues)
  BY <1>2, StoreMsgType
<1>5. u.q = w.q
  BY DEF StoreMsg, Worlds
<1> HIDE DEF u
<1>6. Bare(Route(u, s, WillQoS, skip).q)
  BY <1>1, <1>2, <1>4, <1>5, RouteBare
<1>7. SendWill(w, c, skip) \in Worlds(SoundQueues)
  BY SoundClosed, SendWillType DEF Closed
<1> QED BY <1>3, <1>6, <1>7

(* context__add_to_disused.                                                 *)
LEMMA DiscardBare ==
  ASSUME NEW w \in Worlds(SoundQueues), NEW c \in Clients, Bare(w.q)
  PROVE  Bare(Discard(w, c).q)
<1>1. Discard(w, c).q = [w.q EXCEPT ![c] = EmptyQueue]
  BY DEF Discard, Worlds
<1>2. ~Has(EmptyQueue, Alien(c))
  BY EmptyHas
<1> DEFINE e  == EmptyQueue
           qs == w.q
<1>3. qs \in [Clients -> SoundQueues] /\ Bare(qs) /\ ~Has(e, Alien(c))
  BY <1>2, WorldParts
<1> HIDE DEF e, qs
<1>4. Bare([qs EXCEPT ![c] = e])
  BY <1>3, OneBare
<1> QED BY <1>1, <1>4 DEF e, qs

(* do_disconnect.                                                           *)
LEMMA DisconnectedBare ==
  ASSUME SessionTyped, OnlySubscribers, NEW w \in Worlds(SoundQueues), NEW c \in Clients,
         Bare(w.q), Disconnected(w, c)
  PROVE  Bare(q') /\ OnlySubscribers'
<1>1. q' = Discard(w, c).q \/ q' = w.q
  BY DEF Disconnected, Become
<1>2. \A x \in Clients : leaf'[x] # NoLeaf => leaf[x] # NoLeaf
  BY DEF Disconnected, SessionTyped
<1> QED BY <1>1, <1>2, DiscardBare DEF OnlySubscribers

(* No message is in the wrong lists, and only subscribers have leaves.      *)
Tidy == Bare(q) /\ OnlySubscribers

(* A queue of one client that the step changes.                             *)
LEMMA OneTidy ==
  ASSUME Typed(SoundQueues), Tidy, NEW c \in Clients, NEW cq, ~Has(cq, Alien(c)),
         q' = [q EXCEPT ![c] = cq], leaf' = leaf
  PROVE  Tidy'
<1>1. Bare(q')
  BY OneBare DEF Typed, Tidy
<1> QED BY <1>1 DEF Tidy, OnlySubscribers, Bare

(* A connection that ends, or a session.                                    *)
LEMMA LeaveTidy ==
  ASSUME Typed(SoundQueues), Tidy, NEW c \in Clients,
         Disconnect(c) \/ ConnectionLost(c) \/ Expire(c)
  PROVE  Tidy'
<1> DEFINE v == SendWill(World, c, {})
<1>1. World \in Worlds(SoundQueues) /\ SessionTyped /\ World.q = q /\ OnlySubscribers /\ Bare(q)
  BY WorldType DEF Typed, World, Tidy
<1>2. v \in Worlds(SoundQueues) /\ Bare(v.q)
  BY <1>1, SendWillBare
<1>3. CASE Disconnect(c)
  <2>1. Bare(q') /\ OnlySubscribers'
    BY <1>1, <1>3, DisconnectedBare DEF Disconnect
  <2> QED BY <2>1 DEF Tidy, Bare
<1>4. CASE ConnectionLost(c)
  <2>1. Disconnected(v, c)
    BY <1>4 DEF ConnectionLost
  <2> HIDE DEF v
  <2>2. Bare(q') /\ OnlySubscribers'
    BY <1>1, <1>2, <2>1, DisconnectedBare
  <2> QED BY <2>2 DEF Tidy, Bare
<1>5. CASE Expire(c)
  <2>1. q' = Discard(World, c).q /\ leaf' = [leaf EXCEPT ![c] = NoLeaf]
    BY <1>5 DEF Expire, Become
  <2>2. Bare(q')
    BY <1>1, <2>1, DiscardBare
  <2>3. OnlySubscribers'
    BY <1>1, <2>1 DEF OnlySubscribers, SessionTyped
  <2> QED BY <2>2, <2>3 DEF Tidy, Bare
<1> QED BY <1>3, <1>4, <1>5

(* handle__connect.                                                         *)
LEMMA ConnectTidy ==
  ASSUME Typed(SoundQueues), Tidy, NEW c \in Clients, Connect(c)
  PROVE  Tidy'
<1>1. PICK cs \in Cleans, wl \in Wills :
        LET found == conn[c] # "none"
            moved == found /\ ~cs /\ ~clean[c]
            world == SendWill(World, c, IF moved THEN {c} ELSE {})
            empty == q[c].inflight = <<>> /\ q[c].queued = <<>>
        IN  /\ Become(IF ~moved THEN Discard(world, c)
                      ELSE IF empty THEN [world EXCEPT !.q[c] = [EmptyQueue EXCEPT !.last_mid = q[c].last_mid]]
                      ELSE [world EXCEPT !.q[c] = Reset(@)])
            /\ leaf' = IF moved THEN leaf ELSE [leaf EXCEPT ![c] = NoLeaf]
  BY DEF Connect
<1> DEFINE moved == conn[c] # "none" /\ ~cs /\ ~clean[c]
           skip  == IF moved THEN {c} ELSE {}
           world == SendWill(World, c, skip)
           fresh == [EmptyQueue EXCEPT !.last_mid = q[c].last_mid]
           empty == q[c].inflight = <<>> /\ q[c].queued = <<>>
           reset == Reset(world.q[c])
           next  == IF ~moved THEN Discard(world, c)
                    ELSE IF empty THEN [world EXCEPT !.q[c] = fresh]
                    ELSE [world EXCEPT !.q[c] = Reset(@)]
<1>2. /\ World \in Worlds(SoundQueues) /\ World.q = q /\ SessionTyped
      /\ OnlySubscribers /\ Bare(q)
  BY WorldType DEF Typed, World, Tidy
<1>3. Become(next)
  BY <1>1
<1>4. OnlySubscribers'
  BY <1>1, <1>2 DEF OnlySubscribers, SessionTyped
<1> HIDE DEF skip
<1>5. world \in Worlds(SoundQueues) /\ Bare(world.q)
  BY <1>2, SendWillBare
<1> HIDE DEF world
<1>6. next = Discard(world, c) \/ \E cq \in {fresh, reset} : next = [world EXCEPT !.q[c] = cq]
  OBVIOUS
<1>7. world.q \in [Clients -> SoundQueues] /\ world.q[c] \in SoundQueues /\ ~Has(world.q[c], Alien(c))
  BY <1>5, WorldParts DEF Bare
<1>8. ~Has(fresh, Alien(c)) /\ ~Has(reset, Alien(c))
  BY <1>7, EmptyHas, AlienKind, OpsBare
<1> HIDE DEF next, fresh, reset, moved, empty
<1>9. q' = next.q
  BY <1>3 DEF Become
<1>10. ASSUME NEW cq \in {fresh, reset}, next = [world EXCEPT !.q[c] = cq] PROVE Bare(q')
  <2>1. q' = [world.q EXCEPT ![c] = cq]
    <3>1. "q" \in DOMAIN world
      BY <1>5 DEF Worlds
    <3>2. [world EXCEPT !.q[c] = cq].q = [world.q EXCEPT ![c] = cq]
      BY <3>1
    <3> QED BY <1>9, <1>10, <3>2
  <2> DEFINE qs == world.q
  <2>2. qs \in [Clients -> SoundQueues] /\ Bare(qs) /\ q' = [qs EXCEPT ![c] = cq] /\ ~Has(cq, Alien(c))
    BY <1>5, <1>7, <1>8, <1>10, <2>1
  <2> HIDE DEF qs
  <2> QED BY <2>2, OneBare
<1>11. Bare(q')
  BY <1>5, <1>6, <1>9, <1>10, DiscardBare
<1> QED BY <1>4, <1>11 DEF Tidy, Bare

(* handle__subscribe, handle__unsubscribe and handle__publish for QoS 0     *)
(* and 1.                                                                   *)
LEMMA SubscribeTidy ==
  ASSUME Typed(SoundQueues), Tidy, NEW c \in Clients, Subscribe(c) \/ Unsubscribe(c) \/ Publish(c)
  PROVE  Tidy'
<1>1. /\ World \in Worlds(SoundQueues) /\ SessionTyped /\ World.q = q
      /\ q \in [Clients -> SoundQueues] /\ OnlySubscribers /\ Bare(q)
  BY WorldType DEF Typed, World, Tidy
<1>2. CASE Subscribe(c)
  <2>1. PICK qos \in SubQoS :
          LET r   == CHOOSE r \in retained : TRUE
              out == OutQoS(r.qos, qos)
          IN  /\ c \in Subscribers /\ leaf' = [leaf EXCEPT ![c] = qos]
              /\ IF retained = {} THEN UNCHANGED <<q, msg_store>>
                 ELSE q' = [q EXCEPT ![c] = Offer(@, TRUE, r, out)]
    BY <1>2 DEF Subscribe
  <2> DEFINE r   == CHOOSE r \in retained : TRUE
             out == OutQoS(r.qos, qos)
             on  == TRUE
             cq  == Offer(q[c], on, r, out)
  <2>2. OnlySubscribers'
    BY <1>1, <2>1 DEF OnlySubscribers, SessionTyped
  <2>3. CASE retained = {}
    <3>1. q' = q
      BY <2>1, <2>3
    <3> QED BY <1>1, <2>2, <3>1 DEF Tidy, Bare
  <2>4. CASE retained # {}
    <3>1. r \in Stored
      BY <2>4 DEF Typed, StoreTyped
    <3>2. r.qos \in QoS /\ qos \in QoS
      BY <3>1, BrokerAssumption DEF Stored
    <3>3. q' = [q EXCEPT ![c] = cq]
      BY <2>1, <2>4
    <3> HIDE DEF r
    <3>4. out \in QoS /\ on \in BOOLEAN
      BY <3>2, OutQoSType
    <3> HIDE DEF out, on
    <3>5. Fewer(q[c], cq)
      BY <1>1, <3>1, <3>4, OfferStays
    <3> HIDE DEF cq
    <3>6. ~Has(cq, Alien(c))
      BY <1>1, <2>1, <3>5, AlienKind DEF Fewer, Bare
    <3>7. Bare(q')
      BY <1>1, <3>3, <3>6, OneBare
    <3> QED BY <2>2, <3>7 DEF Tidy, Bare
  <2> QED BY <2>3, <2>4
<1>3. CASE Unsubscribe(c)
  <2>1. q' = q /\ leaf' = [leaf EXCEPT ![c] = NoLeaf]
    BY <1>3 DEF Unsubscribe
  <2> QED BY <1>1, <2>1 DEF Tidy, Bare, OnlySubscribers, SessionTyped
<1>4. CASE Publish(c)
  <2>1. PICK qos \in PubQoS \cap {0, 1}, len \in Lens, rt \in Retains :
          LET s == Fresh(World, 0, 0, qos, len, rt, TRUE)
          IN  Become(Route(StoreMsg(World, s), s, qos, {}))
    BY <1>4 DEF Publish
  <2> DEFINE s == Fresh(World, 0, 0, qos, len, rt, TRUE)
             u == StoreMsg(World, s)
  <2>2. qos \in QoS /\ len \in 0..MaxLen /\ rt \in BOOLEAN
    BY BrokerAssumption DEF QoS
  <2>3. s \in Stored /\ s.id = World.last_db_id + 1
    BY <1>1, <2>2, FreshType
  <2>4. Become(Route(u, s, qos, {}))
    BY <2>1
  <2> HIDE DEF s
  <2>5. u \in Worlds(SoundQueues) /\ u.q = q
    BY <1>1, <2>3, StoreMsgType DEF StoreMsg, World
  <2> HIDE DEF u
  <2>6. Bare(Route(u, s, qos, {}).q)
    BY <1>1, <2>2, <2>3, <2>5, RouteBare
  <2>7. q' = Route(u, s, qos, {}).q /\ leaf' = leaf
    <3>1. UNCHANGED session
      BY <1>4 DEF Publish
    <3> QED BY ONLY <2>4, <3>1 DEF Become, session
  <2> QED BY <1>1, <2>6, <2>7 DEF Tidy, Bare, OnlySubscribers
<1> QED BY <1>2, <1>3, <1>4

(* handle__pubrel.                                                          *)
LEMMA PubrelTidy ==
  ASSUME Typed(SoundQueues), Tidy, NEW c \in Clients, NEW mid, NEW read,
         Pubrel(c, mid, read), leaf' = leaf
  PROVE  Tidy'
<1> DEFINE K == Matching(q[c].inflight, mid, "in")
           h == Hit(c, mid)
           w == IF K # {} /\ h.topic THEN Route(World, h, h.qos, {}) ELSE World
           cq == Release(w.q[c], mid)
           v == [w EXCEPT !.q[c] = Release(@, mid),
                          !.msg_store = DerefMsgs(@, w.q[c].inflight, K)]
<1>1. /\ World \in Worlds(SoundQueues) /\ SessionTyped /\ World.q = q
      /\ OnlySubscribers /\ Bare(q)
  BY WorldType DEF Typed, World, Tidy
<1>2. Become(v)
  BY DEF Pubrel, Hit
<1>3. K # {} => h \in Stored /\ h.qos \in QoS
  BY HitHas DEF Stored
<1> HIDE DEF h
<1>4. w \in Worlds(SoundQueues) /\ Bare(w.q)
  <2>1. CASE K # {} /\ h.topic
    <3>1. h \in Stored /\ h.qos \in QoS /\ w = Route(World, h, h.qos, {})
      BY <1>3, <2>1
    <3> HIDE DEF w
    <3>2. Route(World, h, h.qos, {}) \in Worlds(SoundQueues)
      BY <1>1, <3>1, SoundClosed, RouteType DEF Closed
    <3>3. Bare(Route(World, h, h.qos, {}).q)
      BY <1>1, <3>1, RouteBare
    <3> QED BY <3>1, <3>2, <3>3
  <2>2. CASE ~(K # {} /\ h.topic)
    BY <1>1, <2>2
  <2> QED BY <2>1, <2>2
<1> HIDE DEF w
<1> DEFINE qs == w.q
<1>5. qs \in [Clients -> SoundQueues] /\ Bare(qs) /\ qs[c] \in SoundQueues /\ ~Has(qs[c], Alien(c))
  BY <1>4, WorldParts DEF Bare
<1>6. ~Has(cq, Alien(c))
  BY <1>5, AlienKind, OpsBare
<1>7. q' = [qs EXCEPT ![c] = cq]
  <2>1. "q" \in DOMAIN w
    BY <1>4 DEF Worlds
  <2>2. v.q = [w.q EXCEPT ![c] = cq]
    BY <2>1
  <2> HIDE DEF v
  <2> QED BY <1>2, <2>2 DEF Become
<1> HIDE DEF qs, cq
<1>8. Bare(q')
  BY <1>5, <1>6, <1>7, OneBare
<1> QED BY <1>1, <1>8 DEF Tidy, Bare, OnlySubscribers

(* handle__publish of QoS 2: the message has one of the identifiers that    *)
(* clients use.                                                             *)
LEMMA PublishQoS2Tidy ==
  ASSUME Typed(SoundQueues), Tidy, NEW c \in Clients, NEW mid \in ClientMids, PublishQoS2(c, mid)
  PROVE  Tidy'
<1>1. PICK p \in Sendable(c, mid) :
    LET dup   == StoreFind(q[c], mid) # {}
        s     == IF p.denied THEN Fresh(World, p.body, mid, 2, 0, FALSE, FALSE)
                             ELSE Fresh(World, p.body, mid, 2, p.len, p.retain, TRUE)
        st    == InsertState(q[c], TRUE, "in", 2)
        new   == StoreMsg(World, s)
        added == [new EXCEPT !.q[c] = Insert(@, TRUE, s, mid, "in", 2),
                             !.msg_store[s.id] = IF st = "dropped" THEN 0 ELSE 1]
    IN  IF ~dup /\ p.denied /\ st # "wait_for_pubrel"
        THEN Disconnected(SendWill(added, c, {}), c)
        ELSE Become(IF dup THEN World ELSE added) /\ UNCHANGED session
  BY DEF PublishQoS2
<1> DEFINE s     == IF p.denied THEN Fresh(World, p.body, mid, 2, 0, FALSE, FALSE)
                                ELSE Fresh(World, p.body, mid, 2, p.len, p.retain, TRUE)
           i     == "in"
           on    == TRUE
           two   == 2
           n     == IF InsertState(q[c], TRUE, "in", 2) = "dropped" THEN 0 ELSE 1
           new   == StoreMsg(World, s)
           cq    == Insert(q[c], on, s, mid, i, two)
           m     == NewMsg(s, mid, i, two)
           added == [new EXCEPT !.q[c] = Insert(@, TRUE, s, mid, "in", 2), !.msg_store[s.id] = n]
<1>2. /\ World \in Worlds(SoundQueues) /\ SessionTyped /\ World.q = q
      /\ q \in [Clients -> SoundQueues] /\ q[c] \in SoundQueues
      /\ PeerTyped /\ HistoryTyped /\ OnlySubscribers /\ Bare(q) /\ ~Has(q[c], Alien(c))
  BY WorldType DEF Typed, World, Tidy, Bare
<1>3. \/ Disconnected(SendWill(added, c, {}), c)
      \/ (Become(World) \/ Become(added)) /\ UNCHANGED session
  BY <1>1
<1>4. s \in Stored /\ s.id = World.last_db_id + 1 /\ mid \in Nat
  <2>1. p \in Publication
    BY <1>2, SendableType
  <2>2. /\ p.body \in Nat /\ p.len \in 0..MaxLen /\ p.retain \in BOOLEAN /\ mid \in Nat /\ 2 \in QoS
        /\ 0 \in 0..MaxLen
    BY <2>1, BrokerAssumption, LimitsAssumption DEF Publication, QoS
  <2> DEFINE W == World
  <2>3. W.last_db_id \in Nat
    BY <1>2, WorldParts
  <2> HIDE DEF W
  <2>4. s = IF p.denied THEN Fresh(W, p.body, mid, 2, 0, FALSE, FALSE)
                        ELSE Fresh(W, p.body, mid, 2, p.len, p.retain, TRUE)
    BY DEF W
  <2> HIDE DEF s
  <2>5. s \in Stored /\ s.id = W.last_db_id + 1
    BY <2>2, <2>3, <2>4 DEF Fresh, Stored
  <2> QED BY <2>2, <2>5 DEF W
<1>5. i \in {"in", "out"} /\ on \in BOOLEAN /\ two \in QoS /\ n \in Int
  BY DEF QoS
<1>6. m \notin Alien(c)
  BY DEF NewMsg, Alien
<1> HIDE DEF s, n
<1>7. /\ new \in Worlds(SoundQueues) /\ new.q = q
      /\ new.msg_store \in [DOMAIN new.msg_store -> Int]
  <2>1. new \in Worlds(SoundQueues)
    BY <1>2, <1>4, StoreMsgType
  <2>2. new.q = q
    BY <1>2 DEF StoreMsg, World
  <2> QED BY <2>1, <2>2, WorldParts
<1> DEFINE refs == [new.msg_store EXCEPT ![s.id] = n]
           u    == [new EXCEPT !.q[c] = cq]
<1>8. added = [u EXCEPT !.msg_store = refs]
  <2>1. "msg_store" \in DOMAIN new /\ "q" \in DOMAIN new
    BY <1>7 DEF Worlds
  <2> HIDE DEF new
  <2> QED BY <1>7, <2>1
<1> HIDE DEF i, on, two, m, new, added
<1>9. cq \in SoundQueues /\ ~Has(cq, Alien(c))
  BY <1>2, <1>4, <1>5, <1>6, AlienKind, InsertHas DEF m
<1> HIDE DEF cq
<1>10. u \in Worlds(SoundQueues) /\ u.q = [q EXCEPT ![c] = cq] /\ u.msg_store = new.msg_store
  <2>1. u \in Worlds(SoundQueues)
    BY <1>7, <1>9, WorldQueue
  <2> QED BY <1>7, <2>1 DEF Worlds
<1>11. refs \in [DOMAIN refs -> Int] /\ DOMAIN refs \subseteq DOMAIN u.msg_store
  BY <1>5, <1>7, <1>10
<1> HIDE DEF u, refs
<1>12. added \in Worlds(SoundQueues) /\ Bare(added.q)
  <2>1. [u EXCEPT !.msg_store = refs] \in Worlds(SoundQueues)
    BY <1>10, <1>11, WorldRefs
  <2>2. [u EXCEPT !.msg_store = refs].q = u.q
    BY <1>10 DEF Worlds
  <2>3. Bare([q EXCEPT ![c] = cq])
    BY <1>2, <1>9, OneBare
  <2> QED BY <1>8, <1>10, <2>1, <2>2, <2>3
<1>13. ASSUME Disconnected(SendWill(added, c, {}), c) PROVE Tidy'
  <2> DEFINE v == SendWill(added, c, {})
  <2>1. v \in Worlds(SoundQueues) /\ Bare(v.q) /\ Disconnected(v, c)
    BY <1>2, <1>12, <1>13, SendWillBare
  <2> HIDE DEF v
  <2>2. Bare(q') /\ OnlySubscribers'
    BY <1>2, <2>1, DisconnectedBare
  <2> QED BY <2>2 DEF Tidy, Bare
<1>14. ASSUME Become(World) \/ Become(added), UNCHANGED session PROVE Tidy'
  <2>1. Bare(q') /\ leaf' = leaf
    BY <1>2, <1>12, <1>14 DEF Become, session
  <2> QED BY <1>2, <2>1 DEF Tidy, Bare, OnlySubscribers
<1> QED BY <1>3, <1>13, <1>14

(* A client reads.                                                          *)
LEMMA ReadTidy ==
  ASSUME Typed(SoundQueues), Tidy, NEW c \in Clients, Read(c)
  PROVE  Tidy'
<1> DEFINE p == Head(wire[c])
<1>1. q \in [Clients -> SoundQueues] /\ q[c] \in SoundQueues /\ ~Has(q[c], Alien(c)) /\ PeerTyped
  BY DEF Typed, Tidy, Bare
<1>2. leaf' = leaf
  BY DEF Read, ReadPublish, ReadPubrel, ReadPubrec, ReadPubcomp, session
<1>3. ASSUME q' = q PROVE Tidy'
  BY <1>2, <1>3 DEF Tidy, Bare, OnlySubscribers
<1>4. ASSUME NEW mid, Pubackcomp(c, mid) PROVE Tidy'
  <2> DEFINE cq == Delete(q[c], mid, "out")
  <2>1. q' = [q EXCEPT ![c] = cq]
    BY <1>4 DEF Pubackcomp
  <2>2. ~Has(cq, Alien(c))
    BY <1>1, AlienKind, OpsBare
  <2> HIDE DEF cq
  <2> QED BY <1>2, <2>1, <2>2, OneTidy
<1>5. ASSUME NEW mid, Pubrec(c, mid) PROVE Tidy'
  <2> DEFINE cq == Update(q[c], mid, "out", "wait_for_pubcomp")
  <2>1. q' = [q EXCEPT ![c] = cq]
    BY <1>5 DEF Pubrec
  <2>2. ~Has(cq, Alien(c))
    BY <1>1, AlienKind, OpsBare
  <2> HIDE DEF cq
  <2> QED BY <1>2, <2>1, <2>2, OneTidy
<1>6. CASE ReadPublish(c)
  <2>1. p.qos \in QoS
    BY <1>1, <1>6, WireHead DEF ReadPublish, Reads
  <2>2. p.qos = 0 \/ p.qos = 1 \/ p.qos = 2
    BY <2>1 DEF QoS
  <2>3. q' = q \/ Pubackcomp(c, p.mid) \/ Pubrec(c, p.mid)
    BY <1>6, <2>2 DEF ReadPublish, Unheard
  <2> HIDE DEF p
  <2> QED BY <1>3, <1>4, <1>5, <2>3
<1>7. CASE ReadPubrel(c)
  <2>1. q' = q \/ Pubackcomp(c, p.mid)
    BY <1>7 DEF ReadPubrel, Unheard
  <2> HIDE DEF p
  <2> QED BY <1>3, <1>4, <2>1
<1>8. CASE ReadPubrec(c)
  <2>1. q' = q \/ Pubrel(c, p.mid, Tail(wire[c]))
    BY <1>8 DEF ReadPubrec, Unheard
  <2> HIDE DEF p
  <2> QED BY <1>2, <1>3, <2>1, PubrelTidy
<1>9. CASE ReadPubcomp(c)
  BY <1>3, <1>9 DEF ReadPubcomp
<1> QED BY <1>6, <1>7, <1>8, <1>9 DEF Read

(* A write that fails.                                                      *)
LEMMA WriteFailsTidy ==
  ASSUME Typed(SoundQueues), Tidy, NEW c \in Clients, NEW cq \in SoundQueues, NEW P,
         P \subseteq DOMAIN q[c].inflight, NEW pubrecs, WriteFails(c, cq, P, pubrecs),
         ~Has(cq, Alien(c))
  PROVE  Tidy'
<1> DEFINE K    == SentQoS0(q[c], P)
           refs == DerefMsgs(msg_store, q[c].inflight, K)
           u    == [World EXCEPT !.q[c] = cq]
           w    == [u EXCEPT !.msg_store = refs]
           v    == SendWill(w, c, {})
<1>1. /\ World \in Worlds(SoundQueues) /\ SessionTyped /\ World.q = q
      /\ q \in [Clients -> SoundQueues] /\ q[c] \in SoundQueues /\ OnlySubscribers /\ Bare(q)
  BY WorldType DEF Typed, World, Tidy
<1>2. refs \in [DOMAIN refs -> Int] /\ DOMAIN refs \subseteq DOMAIN msg_store
  <2>1. K \in SUBSET (DOMAIN q[c].inflight) /\ q[c].inflight \in Seq(ClientMsg)
    BY <1>1, SoundParts DEF SentQoS0
  <2>2. msg_store \in [DOMAIN msg_store -> Int]
    BY DEF Typed, StoreTyped
  <2> HIDE DEF K
  <2> QED BY <2>1, <2>2, DerefMsgsType
<1>3. Disconnected(v, c)
  <2>1. w = [World EXCEPT !.q[c] = cq,
                          !.msg_store = DerefMsgs(@, q[c].inflight, SentQoS0(q[c], P))]
    BY <1>1 DEF World
  <2> HIDE DEF w
  <2> QED BY <2>1 DEF WriteFails
<1> HIDE DEF refs, K
<1>4. /\ u \in Worlds(SoundQueues) /\ u.msg_store = msg_store
      /\ u.q = [q EXCEPT ![c] = cq]
  <2>1. u \in Worlds(SoundQueues)
    BY <1>1, WorldQueue
  <2> QED BY <2>1 DEF World
<1> HIDE DEF u
<1>5. w \in Worlds(SoundQueues) /\ w.q = [q EXCEPT ![c] = cq]
  <2>1. w \in Worlds(SoundQueues)
    BY <1>2, <1>4, WorldRefs
  <2> QED BY <1>4, <2>1
<1> HIDE DEF w
<1>6. Bare(w.q)
  <2>1. Bare([q EXCEPT ![c] = cq])
    BY <1>1, OneBare
  <2> QED BY <1>5, <2>1
<1>7. v \in Worlds(SoundQueues) /\ Bare(v.q)
  BY <1>1, <1>5, <1>6, SendWillBare
<1> HIDE DEF v
<1>8. Bare(q') /\ OnlySubscribers'
  BY <1>1, <1>3, <1>7, DisconnectedBare
<1> QED BY <1>8 DEF Tidy, Bare

(* db__message_write.                                                       *)
LEMMA LoopTidy ==
  ASSUME Typed(SoundQueues), Tidy, Loop \/ \E c \in Clients : LoopFails(c)
  PROVE  Tidy'
<1>1. q \in [Clients -> SoundQueues] /\ OnlySubscribers /\ Bare(q)
  BY DEF Typed, Tidy
<1>2. CASE Loop
  <2>1. /\ q' = [c \in Clients |-> IF c \in {x \in Clients : Online(x)} THEN Write(q[c]) ELSE q[c]]
        /\ leaf' = leaf
    BY <1>2 DEF Loop, session
  <2>2. ASSUME NEW x \in Clients PROVE ~Has(q'[x], Alien(x))
    <3>1. q[x] \in SoundQueues /\ ~Has(q[x], Alien(x))
      BY <1>1 DEF Bare
    <3>2. ~Has(Write(q[x]), Alien(x))
      BY <3>1, AlienKind, OpsBare
    <3>3. q'[x] = Write(q[x]) \/ q'[x] = q[x]
      BY <2>1
    <3> QED BY <3>1, <3>2, <3>3
  <2> QED BY <1>1, <2>1, <2>2 DEF Tidy, Bare, OnlySubscribers
<1>3. ASSUME NEW c \in Clients, LoopFails(c) PROVE Tidy'
  <2>1. q[c] \in SoundQueues /\ ~Has(q[c], Alien(c)) /\ Pending(q[c]) \subseteq DOMAIN q[c].inflight
    BY <1>1 DEF Bare, Pending
  <2>2. ASSUME NEW i, WriteFails(c, WriteFailsAt(q[c], i), {j \in Pending(q[c]) : j < i}, <<>>)
        PROVE  Tidy'
    <3> DEFINE cq   == WriteFailsAt(q[c], i)
               P    == {j \in Pending(q[c]) : j < i}
               none == <<>>
    <3>1. cq \in SoundQueues /\ ~Has(cq, Alien(c))
      BY <2>1, WriteSound, AlienKind, OpsBare
    <3>2. P \subseteq DOMAIN q[c].inflight /\ WriteFails(c, cq, P, none)
      BY <2>1, <2>2
    <3> HIDE DEF cq, P, none
    <3> QED BY <3>1, <3>2, WriteFailsTidy
  <2>3. ASSUME NEW j \in 1..WriteMoves(q[c]), q[c].queued[j].dir = "in",
               WriteFails(c, WriteFailsAtPubrec(q[c], j), Pending(q[c]), DequeuePubrecs(q[c], j - 1))
        PROVE  Tidy'
    <3> DEFINE cq   == WriteFailsAtPubrec(q[c], j)
               P    == Pending(q[c])
               sent == DequeuePubrecs(q[c], j - 1)
    <3>1. cq \in SoundQueues /\ ~Has(cq, Alien(c))
      BY <2>1, <2>3, WriteSound, AlienKind, OpsBare
    <3>2. P \subseteq DOMAIN q[c].inflight /\ WriteFails(c, cq, P, sent)
      BY <2>1, <2>3
    <3> HIDE DEF cq, P, sent
    <3> QED BY <3>1, <3>2, WriteFailsTidy
  <2> QED BY <1>3, <2>2, <2>3 DEF LoopFails
<1> QED BY <1>2, <1>3

(* Every step of the broker and its clients.                                *)
LEMMA TidyKept ==
  ASSUME Typed(SoundQueues), Tidy, [Next]_vars
  PROVE  Tidy'
<1>1. CASE UNCHANGED vars
  BY <1>1 DEF vars, session, Tidy, Bare, OnlySubscribers
<1>2. CASE Loop \/ \E c \in Clients : LoopFails(c)
  BY <1>2, LoopTidy
<1>3. ASSUME NEW c \in Clients,
             \/ Connect(c) \/ Disconnect(c) \/ ConnectionLost(c) \/ Expire(c)
             \/ Subscribe(c) \/ Unsubscribe(c) \/ Publish(c)
      PROVE  Tidy'
  BY <1>3, ConnectTidy, LeaveTidy, SubscribeTidy
<1>4. ASSUME NEW c \in Clients, (\E mid \in ClientMids : PublishQoS2(c, mid)) \/ Resend(c)
      PROVE  Tidy'
  <2>1. ASSUME NEW mid \in ClientMids, ResendPubrel(c, mid) PROVE Tidy'
    <3>1. Pubrel(c, mid, wire[c]) /\ leaf' = leaf
      BY <2>1 DEF ResendPubrel, session
    <3> QED BY <3>1, PubrelTidy
  <2> QED BY <1>4, <2>1, PublishQoS2Tidy DEF Resend
<1>5. ASSUME NEW c \in Clients, Read(c) PROVE Tidy'
  BY <1>5, ReadTidy
<1> QED BY <1>1, <1>2, <1>3, <1>4, <1>5 DEF Next

(* Nothing is in any list at first.                                         *)
LEMMA InitTidy == Init => Tidy
<1> SUFFICES ASSUME Init PROVE Tidy
  OBVIOUS
<1>1. \A x \in Clients : q[x] = EmptyQueue /\ leaf[x] = NoLeaf
  BY DEF Init
<1>2. \A A : ~Has(EmptyQueue, A)
  BY EmptyHas
<1> QED BY <1>1, <1>2 DEF Tidy, Bare, OnlySubscribers

(* The window has room for what clients publish with QoS 2: it is not       *)
(* limited, or the clients that publish do not subscribe and use no more    *)
(* identifiers than it lets messages into flight.                           *)
Roomy ==
  /\ MaxInflightBytes = 0
  /\ \/ MaxInflight = 0
     \/ /\ Publishers \cap Subscribers = {} /\ ~QueueQoS0
        /\ Cardinality(ClientMids) <= MaxInflight

(* A list of messages from a client, under identifiers of a finite set and  *)
(* no two under the same, is no longer than the set is large.               *)
LEMMA FewIdentifiers ==
  ASSUME NEW T, IsFiniteSet(T), NEW s \in Seq(ClientMsg),
         \A i \in DOMAIN s : s[i].mid \in T,
         \A i, j \in DOMAIN s : s[i].mid = s[j].mid => i = j
  PROVE  Len(s) <= Cardinality(T)
<1> DEFINE f == [i \in 1..Len(s) |-> s[i].mid]
<1>1. DOMAIN s = 1..Len(s) /\ Len(s) \in Nat
  OBVIOUS
<1>2. f \in [1..Len(s) -> T] /\ \A i, j \in 1..Len(s) : f[i] = f[j] => i = j
  BY <1>1
<1> HIDE DEF f
<1>3. f \in Injection(1..Len(s), T)
  BY <1>2 DEF Injection, IsInjective
<1>4. Cardinality(1..Len(s)) <= Cardinality(T)
  BY <1>3, FS_Injection
<1>5. Cardinality(1..Len(s)) = Len(s)
  <2> DEFINE l == Len(s)
  <2>1. l \in Nat
    BY <1>1
  <2> HIDE DEF l
  <2>2. Cardinality(1..l) = l
    BY ONLY <2>1, FS_Interval
  <2> QED BY <2>2 DEF l
<1> QED BY <1>4, <1>5

(* A client that does not subscribe has only messages of its own in flight, *)
(* and each under another identifier.                                       *)
LEMMA OwnOnly ==
  ASSUME NEW cq \in QuietQueues, NEW c \in Clients, c \notin Subscribers, ~Has(cq, Alien(c))
  PROVE  /\ cq.queued = <<>> /\ cq.inflight \in Seq(ClientMsg)
         /\ \A i \in DOMAIN cq.inflight : /\ cq.inflight[i].dir = "in"
                                          /\ cq.inflight[i].mid \in ClientMids
                                          /\ cq.inflight[i].mid = cq.inflight[i].store.source_mid
         /\ \A i, j \in DOMAIN cq.inflight : cq.inflight[i].mid = cq.inflight[j].mid => i = j
<1> DEFINE s == cq.inflight
           t == cq.queued
<1>1. /\ cq \in SoundQueues /\ s \in Seq(ClientMsg) /\ t \in Seq(ClientMsg) /\ t \in Seq(Due)
      /\ Total(StrayCount, cq) = 0 /\ \A mid \in Nat : Total(InCount(mid), cq) <= 1
  BY SoundParts DEF QuietQueues, UniqueQueues, Lists
<1>2. /\ \A i \in DOMAIN s : s[i] \in ClientMsg /\ s[i] \notin Alien(c)
      /\ \A i \in DOMAIN t : t[i] \in ClientMsg /\ t[i] \notin Alien(c)
  <2>1. /\ \A i \in DOMAIN s : s[i] \notin Alien(c)
        /\ \A i \in DOMAIN t : t[i] \notin Alien(c)
    BY DEF Has
  <2> HIDE DEF s, t
  <2> QED BY <1>1, <2>1
<1>3. t = <<>>
  <2> HIDE DEF s, t
  <2>1. \A i \in DOMAIN t : t[i].dir = "out"
    BY <1>1 DEF Due
  <2>2. DOMAIN t = {}
    BY <1>2, <2>1 DEF Alien
  <2> QED BY <1>1, <2>2
<1>4. ASSUME NEW i \in DOMAIN s PROVE s[i].dir = "in" /\ s[i].mid \in ClientMids
  <2> HIDE DEF s, t
  <2>1. s[i] \in ClientMsg /\ s[i] \notin Alien(c) /\ s[i].dir \in {"in", "out"}
    BY <1>1, <1>2 DEF ClientMsg
  <2> QED BY <2>1 DEF Alien
<1>5. StrayCount[s] = 0
  <2> DEFINE a == StrayCount[s]
             b == StrayCount[t]
  <2>1. a \in Nat /\ b \in Nat /\ a + b = 0
    BY <1>1, InCountsStateFree DEF Total
  <2> HIDE DEF a, b
  <2>2. a = 0
    BY <2>1
  <2> QED BY <2>2 DEF a
<1>6. ASSUME NEW i \in DOMAIN s PROVE s[i].mid = s[i].store.source_mid
  <2> HIDE DEF s, t
  <2>1. s[i] \notin Strays
    BY <1>1, <1>5, FewCounted DEF StrayCount
  <2> QED BY <1>2, <1>4, <2>1 DEF Strays
<1>7. ASSUME NEW i \in DOMAIN s, NEW j \in DOMAIN s, s[i].mid = s[j].mid PROVE i = j
  <2> DEFINE n == s[i].mid
             a == InCount(n)[s]
             b == InCount(n)[t]
  <2>1. n \in Nat
    <3> HIDE DEF s, t
    <3> QED BY <1>2 DEF ClientMsg
  <2>2. a \in Nat /\ b \in Nat /\ a + b <= 1
    BY <1>1, <2>1, InCountsStateFree DEF Total
  <2> HIDE DEF a, b
  <2>3. a <= 1
    BY <2>2
  <2>4. s[i] \in Ins(n) /\ s[j] \in Ins(n)
    <3> HIDE DEF s, t
    <3> QED BY <1>2, <1>4, <1>7 DEF Ins, n
  <2>5. InCount(n)[s] <= 1
    BY <2>3 DEF a
  <2> HIDE DEF s, t, n
  <2> QED BY <1>1, <2>4, <2>5, FewCounted DEF InCount
<1> QED BY <1>1, <1>3, <1>4, <1>6, <1>7

(* Such a client finds room in the window for a message under an identifier *)
(* that it is not using.                                                    *)
LEMMA RoomFor ==
  ASSUME Cardinality(ClientMids) <= MaxInflight, NEW cq \in QuietQueues, cq \in ExactQueues,
         NEW c \in Clients, c \notin Subscribers, ~Has(cq, Alien(c)),
         NEW mid \in ClientMids, StoreFind(cq, mid) = {}
  PROVE  cq.tally.count12 < MaxInflight
<1> DEFINE T == ClientMids \ {mid}
           s == cq.inflight
           f == "count12"
<1>1. /\ cq \in SoundQueues /\ cq.queued = <<>> /\ s \in Seq(ClientMsg)
      /\ \A i \in DOMAIN s : s[i].dir = "in" /\ s[i].mid \in ClientMids /\ s[i].mid = s[i].store.source_mid
      /\ \A i, j \in DOMAIN s : s[i].mid = s[j].mid => i = j
  BY OwnOnly DEF ExactQueues
<1>2. IsFiniteSet(ClientMids) /\ Cardinality(ClientMids) \in Nat
  <2>1. IsFiniteSet(1..MidMax) /\ ClientMids \in SUBSET (1..MidMax)
    BY FS_Interval, BrokerAssumption, LimitsAssumption
  <2> QED BY <2>1, FS_Subset, FS_CardinalityType
<1>3. IsFiniteSet(T) /\ Cardinality(T) = Cardinality(ClientMids) - 1
  BY <1>2, FS_RemoveElement
<1>4. \A i \in DOMAIN s : s[i].mid \in T
  <2>1. \A i \in DOMAIN s : ~(s[i].dir = "in" /\ s[i].store.source_mid = mid)
    BY DEF StoreFind
  <2> HIDE DEF s
  <2> QED BY <1>1, <2>1
<1>5. Len(s) <= Cardinality(T) /\ Len(s) \in Nat
  <2> HIDE DEF s, T
  <2> QED BY <1>1, <1>3, <1>4, FewIdentifiers
<1>6. Load(cq) = Window(s) + Window(cq.queued) /\ Window(s) <= Len(s) /\ Window(s) \in Nat
  BY <1>1, LoadType
<1>7. Window(cq.queued) = 0
  <2>1. f \in Counters
    BY DEF Counters
  <2> HIDE DEF f
  <2>2. CounterOf(f)[<<>>] = 0
    BY <2>1, CountersStateFree DEF StateFree, Additive
  <2> QED BY <1>1, <2>2 DEF Window, f
<1>8. cq.tally.count12 = Load(cq)
  BY DEF ExactQueues, Counters, Load
<1> DEFINE n == Cardinality(ClientMids)
           w == Window(s)
           l == Len(s)
<1>9. w \in Nat /\ l \in Nat /\ n \in Nat /\ w <= l /\ l <= n - 1 /\ n <= MaxInflight /\ Load(cq) = w
  BY <1>2, <1>3, <1>5, <1>6, <1>7
<1> HIDE DEF n, w, l
<1>10. w < MaxInflight
  BY <1>9, LimitsAssumption
<1> QED BY <1>8, <1>9, <1>10

(* What is always so when the window has room: no queue holds a message     *)
(* from its client, every message in the lists has its business there, and  *)
(* the counters by which the window is judged are exact.                    *)
RoomyInv == /\ Typed(QuietQueues) /\ Tidy
            /\ MaxInflight # 0 => Typed(ExactQueues)

(* Then a publication of QoS 2 that is no duplicate goes into flight.       *)
LEMMA PublishReady ==
  ASSUME Roomy, RoomyInv, NEW c \in Clients, NEW mid \in ClientMids, c \in Publishers,
         StoreFind(q[c], mid) = {}
  PROVE  InsertState(q[c], TRUE, "in", 2) = "wait_for_pubrel"
<1>1. ReadyForFlight(q[c].tally, 2)
  <2>1. CASE MaxInflight = 0
    BY <2>1 DEF ReadyForFlight, Roomy
  <2>2. CASE MaxInflight # 0
    <3>1. q[c] \in QuietQueues /\ q[c] \in ExactQueues /\ ~Has(q[c], Alien(c))
      BY <2>2 DEF RoomyInv, Typed, Tidy, Bare
    <3>2. c \notin Subscribers /\ Cardinality(ClientMids) <= MaxInflight
      BY <2>2 DEF Roomy
    <3>3. q[c].tally.count12 < MaxInflight
      BY <3>1, <3>2, RoomFor
    <3> QED BY <3>3 DEF ReadyForFlight, Roomy
  <2> QED BY <2>1, <2>2
<1> QED BY <1>1 DEF InsertState

(* So that it changes the inflight list of its client only, if any queue.   *)
LEMMA PublishNoneWaits ==
  ASSUME Roomy, RoomyInv, NEW c \in Clients, NEW mid \in ClientMids, PublishQoS2(c, mid)
  PROVE  NoneWaits'
<1>1. PICK p \in Sendable(c, mid) :
    LET dup   == StoreFind(q[c], mid) # {}
        s     == IF p.denied THEN Fresh(World, p.body, mid, 2, 0, FALSE, FALSE)
                             ELSE Fresh(World, p.body, mid, 2, p.len, p.retain, TRUE)
        st    == InsertState(q[c], TRUE, "in", 2)
        new   == StoreMsg(World, s)
        added == [new EXCEPT !.q[c] = Insert(@, TRUE, s, mid, "in", 2),
                             !.msg_store[s.id] = IF st = "dropped" THEN 0 ELSE 1]
    IN  /\ c \in Publishers
        /\ IF ~dup /\ p.denied /\ st # "wait_for_pubrel"
           THEN Disconnected(SendWill(added, c, {}), c)
           ELSE Become(IF dup THEN World ELSE added) /\ UNCHANGED session
  BY DEF PublishQoS2
<1> DEFINE s     == IF p.denied THEN Fresh(World, p.body, mid, 2, 0, FALSE, FALSE)
                                ELSE Fresh(World, p.body, mid, 2, p.len, p.retain, TRUE)
           dup   == StoreFind(q[c], mid) # {}
           st    == InsertState(q[c], TRUE, "in", 2)
           n     == IF st = "dropped" THEN 0 ELSE 1
           new   == StoreMsg(World, s)
           added == [new EXCEPT !.q[c] = Insert(@, TRUE, s, mid, "in", 2), !.msg_store[s.id] = n]
           cq    == Insert(q[c], TRUE, s, mid, "in", 2)
<1>2. /\ q \in [Clients -> QuietQueues] /\ q[c] \in SoundQueues
      /\ \A x \in Clients : q[x].queued \in Seq(Due)
  BY DEF RoomyInv, Typed, QuietQueues, UniqueQueues, Lists
<1>3. dup \/ st = "wait_for_pubrel"
  BY <1>1, PublishReady
<1>4. Become(World) \/ (st = "wait_for_pubrel" /\ Become(added))
  <2> HIDE DEF dup, st, added
  <2>1. ~(~dup /\ p.denied /\ st # "wait_for_pubrel")
    BY <1>3
  <2>2. Become(IF dup THEN World ELSE added)
    BY <1>1, <2>1 DEF dup, st, added
  <2> QED BY <1>3, <2>2
<1>5. st = "wait_for_pubrel" => cq.queued = q[c].queued
  BY <1>2 DEF Insert, SoundQueues
<1>6. added.q = [q EXCEPT ![c] = cq]
  BY DEF StoreMsg, World
<1> HIDE DEF cq, added, st
<1>7. \A x \in Clients : q'[x].queued = q[x].queued
  <2>1. CASE Become(World)
    BY <2>1 DEF Become, World
  <2>2. CASE st = "wait_for_pubrel" /\ Become(added)
    <3>1. q' = [q EXCEPT ![c] = cq]
      BY <1>6, <2>2 DEF Become
    <3> QED BY <1>2, <1>5, <2>2, <3>1
  <2> QED BY <1>4, <2>1, <2>2
<1>8. ASSUME NEW x \in Clients, NEW i \in DOMAIN q'[x].queued PROVE q'[x].queued[i].dir = "out"
  <2> DEFINE t == q[x].queued
  <2>1. t \in Seq(Due) /\ q'[x].queued = t
    BY <1>2, <1>7
  <2> HIDE DEF t
  <2>2. t[i] \in Due
    BY <1>8, <2>1
  <2> QED BY <2>1, <2>2 DEF Due
<1> QED BY <1>8 DEF NoneWaits

(* Every step keeps that: a message from a client never waits.              *)
LEMMA RoomyKept ==
  ASSUME Roomy, RoomyInv, [Next]_vars
  PROVE  RoomyInv'
<1>1. Typed(SoundQueues) /\ Typed(QuietQueues) /\ Tidy
  <2>1. QuietQueues \subseteq SoundQueues
    BY DEF QuietQueues, UniqueQueues
  <2> QED BY <2>1 DEF RoomyInv, Typed
<1>2. Tidy'
  BY <1>1, TidyKept
<1>3. Typed(QuietQueues)'
  <2>1. CASE ~\E c \in Clients, mid \in ClientMids : PublishQoS2(c, mid)
    BY <1>1, <2>1, QuietServes, ServedTyped
  <2>2. ASSUME NEW c \in Clients, NEW mid \in ClientMids, PublishQoS2(c, mid)
        PROVE  Typed(QuietQueues)'
    <3>1. NoneWaits'
      BY <2>2, PublishNoneWaits
    <3> QED BY <1>1, <3>1, QuietStep
  <2> QED BY <2>1, <2>2
<1>4. (MaxInflight # 0 => Typed(ExactQueues))'
  <2>1. CASE MaxInflight = 0
    BY <2>1
  <2>2. CASE MaxInflight # 0
    <3>1. ~QueueQoS0 /\ Typed(ExactQueues)
      BY <2>2 DEF Roomy, RoomyInv
    <3> QED BY <3>1, ExactClosed, StepTyped
  <2> QED BY <2>1, <2>2
<1> QED BY <1>2, <1>3, <1>4 DEF RoomyInv

(* And it is so at first.                                                   *)
LEMMA InitRoomy ==
  ASSUME Roomy, Init
  PROVE  RoomyInv
<1>1. Typed(QuietQueues) /\ Tidy
  BY QuietServes, InitTyped, InitTidy
<1>2. ASSUME MaxInflight # 0 PROVE Typed(ExactQueues)
  BY <1>2, ExactClosed, InitTyped DEF Roomy, Closed
<1> QED BY <1>1, <1>2 DEF RoomyInv

(* A message from a client never gets the state of one for it, and so is    *)
(* not sent back, when the window has room for all that clients publish:    *)
(* only the reset of a queue gives such a message the state of one that the *)
(* broker publishes, and none is in a queue.                                *)
THEOREM NotEchoed ==
  ASSUME Roomy
  PROVE  Spec => []NeverEchoed
<1>1. Init => RoomyInv
  BY InitRoomy
<1>2. RoomyInv /\ [Next]_vars => RoomyInv'
  BY RoomyKept
<1>3. RoomyInv => NeverEchoed
  BY QuietEchoes DEF RoomyInv
<1> QED BY <1>1, <1>2, <1>3, PTL DEF Spec

(* And when the publisher of a message of QoS 2 has seen the end of its     *)
(* handshake, the message has gone to the subscribers, whatever connections *)
(* were lost, taken over or reset meanwhile: also for a client that leaves  *)
(* a clean session by a takeover, whose messages are discarded while it is  *)
(* told that its session goes on.                                           *)
THEOREM CompletedRouted ==
  ASSUME Roomy
  PROVE  Spec => []CompletedIsRouted
<1>1. Init => RoomyInv /\ HandshakeInv /\ CleanOnline
  <2>1. Init => CleanOnline
    BY DEF Init, CleanOnline, Live
  <2> QED BY <2>1, InitRoomy, InitHandshake
<1>2. RoomyInv /\ HandshakeInv /\ CleanOnline /\ [Next]_vars
      => RoomyInv' /\ HandshakeInv' /\ CleanOnline'
  <2>1. ASSUME RoomyInv, HandshakeInv, CleanOnline, [Next]_vars
        PROVE  RoomyInv' /\ HandshakeInv' /\ CleanOnline'
    BY <2>1, RoomyKept, HandshakeKept, CleanOnlineKept DEF RoomyInv, Typed
  <2> QED BY <2>1
<1>3. HandshakeInv => CompletedIsRouted
  BY DEF HandshakeInv
<1> QED BY <1>1, <1>2, <1>3, PTL DEF Spec

-----------------------------------------------------------------------------
(* Counting over all clients.                                               *)

Pile(C, A) == UNION {{c} \X A[c] : c \in C}

(* A pile grows by the set of the client that is added to it.               *)
LEMMA PileStep ==
  ASSUME NEW C, IsFiniteSet(C), NEW x, x \notin C, NEW A, \A c \in C \cup {x} : IsFiniteSet(A[c]),
         IsFiniteSet(Pile(C, A))
  PROVE  /\ IsFiniteSet(Pile(C \cup {x}, A))
         /\ Cardinality(Pile(C \cup {x}, A)) = Cardinality(Pile(C, A)) + Cardinality(A[x])
<1> DEFINE S == Pile(C, A)
           T == {x} \X A[x]
<1>1. Pile(C \cup {x}, A) = S \cup T
  BY DEF Pile
<1>2. IsFiniteSet(T) /\ Cardinality(T) = Cardinality(A[x])
  <2>1. IsFiniteSet({x}) /\ Cardinality({x}) = 1 /\ IsFiniteSet(A[x])
    BY FS_Singleton
  <2>2. IsFiniteSet(T) /\ Cardinality(T) = 1 * Cardinality(A[x])
    BY <2>1, FS_Product
  <2>3. Cardinality(A[x]) \in Nat
    BY <2>1, FS_CardinalityType
  <2> QED BY <2>2, <2>3
<1>3. S \cap T = {}
  BY DEF Pile
<1> HIDE DEF S, T
<1>4. IsFiniteSet(S) /\ Cardinality(S) \in Nat /\ Cardinality(T) \in Nat
  BY <1>2, FS_CardinalityType DEF S
<1>5. /\ IsFiniteSet(S \cup T)
      /\ Cardinality(S \cup T) = Cardinality(S) + Cardinality(T) - Cardinality({})
  BY <1>2, <1>3, <1>4, FS_Union
<1>6. Cardinality({}) = 0
  BY FS_EmptySet
<1>7. Cardinality(S \cup T) = Cardinality(S) + Cardinality(T)
  BY <1>4, <1>5, <1>6
<1> QED BY <1>1, <1>2, <1>5, <1>7 DEF S

(* A finite pile of finite sets is finite.                                  *)
LEMMA PileFinite ==
  ASSUME NEW C, IsFiniteSet(C), NEW A, \A c \in C : IsFiniteSet(A[c])
  PROVE  IsFiniteSet(Pile(C, A))
<1> DEFINE T == {n \in Nat : \A D \in SUBSET C : Cardinality(D) = n => IsFiniteSet(Pile(D, A))}
<1>1. 0 \in T
  <2>1. ASSUME NEW D \in SUBSET C, Cardinality(D) = 0 PROVE IsFiniteSet(Pile(D, A))
    <3>1. D = {}
      BY <2>1, FS_Subset, FS_EmptySet
    <3>2. Pile(D, A) = {}
      BY <3>1 DEF Pile
    <3> QED BY <3>2, FS_EmptySet
  <2> QED BY <2>1
<1>2. ASSUME NEW n \in T PROVE n + 1 \in T
  <2>1. ASSUME NEW D \in SUBSET C, Cardinality(D) = n + 1 PROVE IsFiniteSet(Pile(D, A))
    <3>1. IsFiniteSet(D) /\ D # {}
      BY <2>1, FS_Subset, FS_EmptySet
    <3>2. PICK x \in D : TRUE
      BY <3>1
    <3> DEFINE E == D \ {x}
    <3>3. E \in SUBSET C /\ IsFiniteSet(E) /\ Cardinality(E) = n
      <4>1. IsFiniteSet(E) /\ Cardinality(E) = Cardinality(D) - 1
        BY <3>1, <3>2, FS_RemoveElement
      <4>2. n \in Nat /\ (n + 1) - 1 = n
        OBVIOUS
      <4> QED BY <2>1, <4>1, <4>2
    <3>4. x \notin E /\ E \cup {x} = D
      BY <3>2
    <3>5. IsFiniteSet(Pile(E, A))
      BY <3>3
    <3> HIDE DEF E
    <3>6. \A c \in E \cup {x} : IsFiniteSet(A[c])
      BY <3>4
    <3>7. IsFiniteSet(Pile(E \cup {x}, A))
      BY <3>3, <3>4, <3>5, <3>6, PileStep
    <3> QED BY <3>4, <3>7
  <2> QED BY <2>1
<1>3. T = Nat
  <2>1. T \in SUBSET Nat
    OBVIOUS
  <2> HIDE DEF T
  <2> QED BY <1>1, <1>2, <2>1, SetInduction
<1>4. Cardinality(C) \in T
  BY <1>3, FS_CardinalityType
<1> QED BY <1>4

(* What is added to the set of each client is added to the pile.            *)
LEMMA PileAdds ==
  ASSUME NEW C, IsFiniteSet(C), NEW A, NEW B, NEW E,
         \A c \in C : /\ IsFiniteSet(A[c]) /\ IsFiniteSet(B[c]) /\ IsFiniteSet(E[c])
                      /\ Cardinality(A[c]) = Cardinality(B[c]) + Cardinality(E[c])
  PROVE  Cardinality(Pile(C, A)) = Cardinality(Pile(C, B)) + Cardinality(Pile(C, E))
<1> DEFINE Adds(D) == Cardinality(Pile(D, A)) = Cardinality(Pile(D, B)) + Cardinality(Pile(D, E))
           T == {n \in Nat : \A D \in SUBSET C : Cardinality(D) = n => Adds(D)}
<1>1. 0 \in T
  <2>1. ASSUME NEW D \in SUBSET C, Cardinality(D) = 0 PROVE Adds(D)
    <3>1. D = {}
      BY <2>1, FS_Subset, FS_EmptySet
    <3>2. Pile(D, A) = {} /\ Pile(D, B) = {} /\ Pile(D, E) = {}
      BY <3>1 DEF Pile
    <3> QED BY <3>2, FS_EmptySet
  <2> QED BY <2>1
<1>2. ASSUME NEW n \in T PROVE n + 1 \in T
  <2>1. ASSUME NEW D \in SUBSET C, Cardinality(D) = n + 1 PROVE Adds(D)
    <3>1. IsFiniteSet(D) /\ D # {}
      BY <2>1, FS_Subset, FS_EmptySet
    <3>2. PICK x \in D : TRUE
      BY <3>1
    <3> DEFINE F == D \ {x}
    <3>3. F \in SUBSET C /\ IsFiniteSet(F) /\ Cardinality(F) = n
      <4>1. IsFiniteSet(F) /\ Cardinality(F) = Cardinality(D) - 1
        BY <3>1, <3>2, FS_RemoveElement
      <4>2. n \in Nat /\ (n + 1) - 1 = n
        OBVIOUS
      <4> QED BY <2>1, <4>1, <4>2
    <3>4. x \notin F /\ F \cup {x} = D /\ x \in C
      BY <3>2
    <3>5. Adds(F)
      BY <3>3
    <3> HIDE DEF F
    <3>6. ASSUME NEW G, \A c \in C : IsFiniteSet(G[c])
          PROVE  /\ Cardinality(Pile(D, G)) = Cardinality(Pile(F, G)) + Cardinality(G[x])
                 /\ Cardinality(Pile(F, G)) \in Nat /\ Cardinality(G[x]) \in Nat
      <4>1. \A c \in F \cup {x} : IsFiniteSet(G[c])
        BY <3>3, <3>4, <3>6
      <4>2. IsFiniteSet(Pile(F, G))
        BY <3>3, <4>1, PileFinite
      <4> QED BY <3>3, <3>4, <4>1, <4>2, PileStep, FS_CardinalityType
    <3>7. Cardinality(A[x]) = Cardinality(B[x]) + Cardinality(E[x])
      BY <3>4
    <3> DEFINE a == Cardinality(Pile(D, A))
               b == Cardinality(Pile(D, B))
               e == Cardinality(Pile(D, E))
               a1 == Cardinality(Pile(F, A))
               b1 == Cardinality(Pile(F, B))
               e1 == Cardinality(Pile(F, E))
               a2 == Cardinality(A[x])
               b2 == Cardinality(B[x])
               e2 == Cardinality(E[x])
    <3>8. /\ a = a1 + a2 /\ a1 \in Nat /\ a2 \in Nat
          /\ b = b1 + b2 /\ b1 \in Nat /\ b2 \in Nat
          /\ e = e1 + e2 /\ e1 \in Nat /\ e2 \in Nat
      BY <3>6
    <3>9. a1 = b1 + e1 /\ a2 = b2 + e2
      BY <3>5, <3>7
    <3> HIDE DEF a, b, e, a1, b1, e1, a2, b2, e2
    <3>10. a = b + e
      BY <3>8, <3>9
    <3> QED BY <3>10 DEF a, b, e
  <2> HIDE DEF Adds
  <2> QED BY <2>1
<1>3. T = Nat
  <2>1. T \in SUBSET Nat
    OBVIOUS
  <2> HIDE DEF T
  <2> QED BY <1>1, <1>2, <2>1, SetInduction
<1>4. Cardinality(C) \in T
  BY <1>3, FS_CardinalityType
<1> QED BY <1>4

-----------------------------------------------------------------------------
(* References from lists.                                                   *)

(* The messages that refer to a stored message, and how many there are in a *)
(* list.                                                                    *)
Refers(id)   == {m \in ClientMsg : m.store.id = id}
RefCount(id) == Counts(ClientMsg, Refers(id))

(* The positions of the messages of a context that refer to it.             *)
RefAt(cq, id) == {i \in DOMAIN (cq.inflight \o cq.queued) :
                    (cq.inflight \o cq.queued)[i].store.id = id}

ListRefs(qs, id) == Cardinality(Pile(Clients, [c \in Clients |-> RefAt(qs[c], id)]))

(* The count does not look at the state of a message, and is what the       *)
(* positions are.                                                           *)
LEMMA RefCountType ==
  ASSUME NEW id
  PROVE  /\ StateFree(RefCount(id))
         /\ \A s \in Seq(ClientMsg) : RefCount(id)[s] \in Nat
         /\ \A m \in ClientMsg : RefCount(id)[<<m>>] = IF m.store.id = id THEN 1 ELSE 0
         /\ \A cq \in SoundQueues : /\ IsFiniteSet(RefAt(cq, id))
                                    /\ Cardinality(RefAt(cq, id)) = Total(RefCount(id), cq)
                                    /\ Total(RefCount(id), cq) \in Nat
<1> DEFINE F == RefCount(id)
<1>1. /\ Additive(F, ClientMsg) /\ \A s \in Seq(ClientMsg) : F[s] \in Nat
      /\ \A m \in ClientMsg : F[<<m>>] = IF m.store.id = id THEN 1 ELSE 0
  <2>1. \A m \in ClientMsg : m \in Refers(id) <=> m.store.id = id
    BY DEF Refers
  <2> QED BY <2>1, CountsAdditive DEF RefCount
<1>2. StateFree(F)
  <2> HIDE DEF F
  <2> QED BY <1>1 DEF StateFree, Twins
<1>3. ASSUME NEW cq \in SoundQueues
      PROVE  /\ IsFiniteSet(RefAt(cq, id)) /\ Cardinality(RefAt(cq, id)) = Total(F, cq)
             /\ Total(F, cq) \in Nat
  <2> DEFINE s == cq.inflight \o cq.queued
  <2>1. s \in Seq(ClientMsg)
    BY SoundParts, ConcatProperties
  <2>2. Total(F, cq) = F[s]
    <3> HIDE DEF F
    <3> QED BY <1>2, TotalType
  <2> HIDE DEF s
  <2>3. {i \in DOMAIN s : s[i].store.id = id} = {i \in DOMAIN s : s[i] \in Refers(id)}
    BY <2>1 DEF Refers
  <2>4. F[s] = Cardinality({i \in DOMAIN s : s[i].store.id = id})
    BY <2>1, <2>3 DEF RefCount, Counts
  <2>5. RefAt(cq, id) = {i \in DOMAIN s : s[i].store.id = id}
    BY DEF RefAt, s
  <2>6. IsFiniteSet(RefAt(cq, id))
    BY <2>1, <2>5, FiniteDomain
  <2> QED BY <1>1, <2>1, <2>2, <2>4, <2>5, <2>6
<1> QED BY <1>1, <1>2, <1>3

(* When the references of every context grow by the size of a set, those of *)
(* all contexts grow by the pile of these sets.                             *)
LEMMA RefsAdd ==
  ASSUME NEW id, NEW qs \in [Clients -> SoundQueues], NEW qr \in [Clients -> SoundQueues], NEW E,
         \A c \in Clients : /\ IsFiniteSet(E[c])
                            /\ Total(RefCount(id), qr[c])
                                 = Total(RefCount(id), qs[c]) + Cardinality(E[c])
  PROVE  /\ ListRefs(qr, id) = ListRefs(qs, id) + Cardinality(Pile(Clients, E))
         /\ ListRefs(qr, id) \in Nat /\ ListRefs(qs, id) \in Nat
         /\ Cardinality(Pile(Clients, E)) \in Nat
<1> DEFINE A == [c \in Clients |-> RefAt(qr[c], id)]
           B == [c \in Clients |-> RefAt(qs[c], id)]
<1>1. IsFiniteSet(Clients)
  BY BrokerAssumption
<1>2. \A c \in Clients : /\ IsFiniteSet(A[c]) /\ Cardinality(A[c]) = Total(RefCount(id), qr[c])
                         /\ IsFiniteSet(B[c]) /\ Cardinality(B[c]) = Total(RefCount(id), qs[c])
  BY RefCountType
<1> HIDE DEF A, B
<1>3. Cardinality(Pile(Clients, A)) = Cardinality(Pile(Clients, B)) + Cardinality(Pile(Clients, E))
  BY <1>1, <1>2, PileAdds
<1>4. /\ Cardinality(Pile(Clients, A)) \in Nat /\ Cardinality(Pile(Clients, B)) \in Nat
      /\ Cardinality(Pile(Clients, E)) \in Nat
  BY <1>1, <1>2, PileFinite, FS_CardinalityType
<1> QED BY <1>3, <1>4 DEF ListRefs, A, B

(* A change of the references of one context.                               *)
LEMMA RefsAt ==
  ASSUME NEW id, NEW qs \in [Clients -> SoundQueues], NEW qr \in [Clients -> SoundQueues],
         NEW x \in Clients, NEW n \in Nat,
         Total(RefCount(id), qr[x]) = Total(RefCount(id), qs[x]) + n,
         \A c \in Clients \ {x} : Total(RefCount(id), qr[c]) = Total(RefCount(id), qs[c])
  PROVE  /\ ListRefs(qr, id) = ListRefs(qs, id) + n
         /\ ListRefs(qr, id) \in Nat /\ ListRefs(qs, id) \in Nat
<1> DEFINE E == [c \in Clients |-> IF c = x THEN 1..n ELSE {}]
<1>1. /\ IsFiniteSet(1..n) /\ Cardinality(1..n) = n
      /\ IsFiniteSet({}) /\ Cardinality({}) = 0
  <2>1. 1 \in Int /\ n \in Int /\ (IF 1 > n THEN 0 ELSE n - 1 + 1) = n
    OBVIOUS
  <2> QED BY <2>1, FS_Interval, FS_EmptySet
<1>2. ASSUME NEW c \in Clients
      PROVE  /\ IsFiniteSet(E[c])
             /\ Total(RefCount(id), qr[c]) = Total(RefCount(id), qs[c]) + Cardinality(E[c])
  <2>1. CASE c = x
    BY <1>1, <2>1
  <2>2. CASE c # x
    <3>1. Total(RefCount(id), qs[c]) \in Nat
      BY RefCountType
    <3> QED BY <1>1, <2>2, <3>1
  <2> QED BY <2>1, <2>2
<1>3. Pile(Clients, E) = {x} \X (1..n)
  BY DEF Pile
<1>4. Cardinality(Pile(Clients, E)) = n
  <2> DEFINE N == 1..n
  <2>1. IsFiniteSet({x}) /\ Cardinality({x}) = 1 /\ IsFiniteSet(N) /\ Cardinality(N) = n
    BY <1>1, FS_Singleton
  <2>2. Pile(Clients, E) = {x} \X N
    BY <1>3
  <2> HIDE DEF N, E
  <2>3. Cardinality({x} \X N) = 1 * n
    BY <2>1, FS_Product
  <2>4. 1 * n = n
    OBVIOUS
  <2> QED BY <2>2, <2>3, <2>4
<1> HIDE DEF E
<1> QED BY <1>2, <1>4, RefsAdd

-----------------------------------------------------------------------------
(* Counts of the store and what refers to its messages.                     *)

Stock(refs, id) == IF id \in DOMAIN refs THEN refs[id] ELSE 0
IdAt(s, K, id)  == Cardinality({i \in K : s[i].id = id})
Kept(ret, id)   == Cardinality({r \in ret : r.id = id})
Owed(w, id)     == ListRefs(w.q, id) + IdAt(w.disused, DOMAIN w.disused, id) + Kept(w.retained, id)

(* The counts are what refers to the messages.  When it is Strict, only a   *)
(* message in X has a count of 0, which is one that is stored and not yet   *)
(* in a list.  Where the queues have a limit, a message from a client may   *)
(* be dropped and keep it, and so may one of a clean client in the file.    *)
Unlimited == MaxQueued = 0 /\ MaxQueuedBytes = 0

Balanced(Strict, w, X) ==
  /\ w \in Worlds(SoundQueues)
  /\ w.retained = {} \/ \E r \in Stored : w.retained = {r}
  /\ \A id \in Nat : Owed(w, id) = Stock(w.msg_store, id)
  /\ Strict => \A id \in DOMAIN w.msg_store : w.msg_store[id] = 0 => id \in X

(* db__msg_store_deref for each position of a list takes from each count    *)
(* how often the list has the message, as long as only messages of the      *)
(* store are in it, and leaves no message without a reference.              *)
LEMMA DerefStock ==
  ASSUME NEW refs, refs \in [DOMAIN refs -> Int], NEW s, NEW K, IsFiniteSet(K), NEW id
  PROVE  /\ IdAt(s, K, id) \in Nat /\ Stock(refs, id) \in Int
         /\ id \in DOMAIN refs \/ IdAt(s, K, id) = 0 =>
              Stock(Deref(refs, s, K), id) = Stock(refs, id) - IdAt(s, K, id)
         /\ id \in DOMAIN Deref(refs, s, K) /\ Deref(refs, s, K)[id] = 0 =>
              /\ id \in DOMAIN refs /\ refs[id] = 0 /\ IdAt(s, K, id) = 0
<1> DEFINE n == IdAt(s, K, id)
           d == Deref(refs, s, K)
<1>1. n \in Nat
  <2> DEFINE P == {i \in K : s[i].id = id}
  <2>1. P \subseteq K
    OBVIOUS
  <2> HIDE DEF P
  <2>2. IsFiniteSet(P)
    BY <2>1, FS_Subset
  <2>3. Cardinality(P) \in Nat
    BY <2>2, FS_CardinalityType
  <2> QED BY <2>3 DEF IdAt, P
<1>2. id \in DOMAIN d <=> id \in DOMAIN refs /\ (n = 0 \/ refs[id] # n)
  BY DEF Deref, IdAt
<1>3. id \in DOMAIN d => d[id] = refs[id] - n
  BY DEF Deref, IdAt
<1>4. id \in DOMAIN refs => refs[id] \in Int
  OBVIOUS
<1> HIDE DEF n, d
<1>5. Stock(refs, id) \in Int
  BY <1>4 DEF Stock
<1>6. id \in DOMAIN refs \/ n = 0 => Stock(d, id) = Stock(refs, id) - n
  <2>1. CASE id \in DOMAIN d
    BY <1>1, <1>2, <1>3, <1>4, <2>1 DEF Stock
  <2>2. CASE id \in DOMAIN refs /\ id \notin DOMAIN d
    <3>1. refs[id] = n
      BY <1>2, <2>2
    <3>2. n - n = 0
      BY <1>1
    <3> QED BY <2>2, <3>1, <3>2 DEF Stock
  <2>3. CASE id \notin DOMAIN refs
    <3>1. id \notin DOMAIN d
      BY <1>2, <2>3
    <3> QED BY <2>3, <3>1 DEF Stock
  <2> QED BY <2>1, <2>2, <2>3
<1>7. id \in DOMAIN d /\ d[id] = 0 => id \in DOMAIN refs /\ refs[id] = 0 /\ n = 0
  <2>1. SUFFICES ASSUME id \in DOMAIN d, d[id] = 0
                 PROVE  id \in DOMAIN refs /\ refs[id] = 0 /\ n = 0
    OBVIOUS
  <2>2. id \in DOMAIN refs /\ (n = 0 \/ refs[id] # n) /\ refs[id] - n = 0 /\ refs[id] \in Int
    BY <1>2, <1>3, <1>4, <2>1
  <2> QED BY <1>1, <2>2
<1> QED BY <1>1, <1>5, <1>6, <1>7 DEF n, d

(* The messages at some positions of a list, counted by message and by what *)
(* they are stored as.                                                      *)
LEMMA StoresCount ==
  ASSUME NEW s \in Seq(ClientMsg), NEW K \in SUBSET (DOMAIN s), NEW id
  PROVE  IdAt(StoresOf(s), K, id) = RefCount(id)[Keep(s, K)]
<1>1. \A i \in K : StoresOf(s)[i].id = id <=> s[i] \in Refers(id)
  BY DEF StoresOf, Refers
<1>2. {i \in K : StoresOf(s)[i].id = id} = {i \in K : s[i] \in Refers(id)}
  BY <1>1
<1> QED BY <1>2, KeepCounts DEF IdAt, RefCount

(* What a retained message refers to.                                       *)
LEMMA KeptIs ==
  ASSUME NEW id, NEW r
  PROVE  Kept({}, id) = 0 /\ Kept({r}, id) = IF r.id = id THEN 1 ELSE 0
<1>1. {x \in {} : x.id = id} = {}
  OBVIOUS
<1>2. {x \in {r} : x.id = id} = IF r.id = id THEN {r} ELSE {}
  OBVIOUS
<1> QED BY <1>1, <1>2, FS_EmptySet, FS_Singleton DEF Kept

(* The parts of a balanced store.                                           *)
LEMMA BalancedParts ==
  ASSUME NEW Strict, NEW X, NEW w, Balanced(Strict, w, X)
  PROVE  /\ w \in Worlds(SoundQueues) /\ w.q \in [Clients -> SoundQueues]
         /\ w.msg_store \in [DOMAIN w.msg_store -> Int] /\ w.last_db_id \in Nat
         /\ DOMAIN w.msg_store \subseteq 1..w.last_db_id /\ DOMAIN w.msg_store \subseteq Nat
         /\ w.retained \subseteq Stored /\ w.disused \in Seq(Stored)
         /\ \A id \in Nat :
              /\ Owed(w, id) = Stock(w.msg_store, id) /\ Owed(w, id) \in Nat
              /\ Owed(w, id) > 0 => id \in DOMAIN w.msg_store
              /\ ListRefs(w.q, id) \in Nat /\ Kept(w.retained, id) \in Nat
              /\ IdAt(w.disused, DOMAIN w.disused, id) \in Nat
<1>1. /\ w \in Worlds(SoundQueues) /\ w.q \in [Clients -> SoundQueues]
      /\ w.msg_store \in [DOMAIN w.msg_store -> Int] /\ w.last_db_id \in Nat
      /\ DOMAIN w.msg_store \subseteq 1..w.last_db_id
      /\ w.retained \subseteq Stored /\ w.disused \in Seq(Stored)
  BY WorldParts DEF Balanced
<1>2. DOMAIN w.msg_store \subseteq Nat
  BY <1>1
<1>3. ASSUME NEW id \in Nat
      PROVE  /\ Owed(w, id) = Stock(w.msg_store, id) /\ Owed(w, id) \in Nat
             /\ Owed(w, id) > 0 => id \in DOMAIN w.msg_store
             /\ ListRefs(w.q, id) \in Nat /\ Kept(w.retained, id) \in Nat
             /\ IdAt(w.disused, DOMAIN w.disused, id) \in Nat
  <2>1. Kept(w.retained, id) \in Nat
    <3>1. w.retained = {} \/ \E r \in Stored : w.retained = {r}
      BY DEF Balanced
    <3>2. \A r : Kept({}, id) = 0 /\ Kept({r}, id) = IF r.id = id THEN 1 ELSE 0
      BY KeptIs
    <3>3. CASE w.retained = {}
      BY <3>2, <3>3
    <3>4. ASSUME NEW r \in Stored, w.retained = {r} PROVE Kept(w.retained, id) \in Nat
      BY <3>2, <3>4
    <3> QED BY <3>1, <3>3, <3>4
  <2>2. IdAt(w.disused, DOMAIN w.disused, id) \in Nat
    <3>1. IsFiniteSet(DOMAIN w.disused)
      BY <1>1, FiniteDomain
    <3> QED BY <1>1, <3>1, DerefStock
  <2>3. ListRefs(w.q, id) \in Nat
    <3> DEFINE A == [c \in Clients |-> RefAt(w.q[c], id)]
    <3>1. \A c \in Clients : IsFiniteSet(A[c])
      BY <1>1, RefCountType
    <3>2. IsFiniteSet(Clients)
      BY BrokerAssumption
    <3> HIDE DEF A
    <3>3. IsFiniteSet(Pile(Clients, A))
      BY <3>1, <3>2, PileFinite
    <3>4. Cardinality(Pile(Clients, A)) \in Nat
      BY <3>3, FS_CardinalityType
    <3> QED BY <3>4 DEF ListRefs, A
  <2>4. Owed(w, id) = Stock(w.msg_store, id)
    BY DEF Balanced
  <2>5. Owed(w, id) \in Nat
    BY <2>1, <2>2, <2>3 DEF Owed
  <2>6. Owed(w, id) > 0 => id \in DOMAIN w.msg_store
    BY <2>4 DEF Stock
  <2> QED BY <2>1, <2>2, <2>3, <2>4, <2>5, <2>6
<1> QED BY <1>1, <1>2, <1>3

(* Giving a context a queue with the same messages.                         *)
LEMMA SameBalanced ==
  ASSUME NEW Strict, NEW X, NEW w, Balanced(Strict, w, X), NEW c \in Clients, NEW cq \in SoundQueues,
         \A id \in Nat : Total(RefCount(id), cq) = Total(RefCount(id), w.q[c])
  PROVE  Balanced(Strict, [w EXCEPT !.q[c] = cq], X)
<1> DEFINE v == [w EXCEPT !.q[c] = cq]
<1>1. w \in Worlds(SoundQueues) /\ w.q \in [Clients -> SoundQueues]
  BY BalancedParts
<1>2. v \in Worlds(SoundQueues)
  BY <1>1, WorldQueue
<1>3. /\ v.q = [w.q EXCEPT ![c] = cq] /\ v.msg_store = w.msg_store
      /\ v.retained = w.retained /\ v.disused = w.disused
  BY <1>1 DEF Worlds
<1> HIDE DEF v
<1>4. v.q \in [Clients -> SoundQueues]
  BY <1>2, WorldParts
<1>5. ASSUME NEW id \in Nat PROVE ListRefs(v.q, id) = ListRefs(w.q, id)
  <2> DEFINE F == RefCount(id)
  <2>1. \A d \in Clients \ {c} : Total(F, v.q[d]) = Total(F, w.q[d])
    <3>1. \A d \in Clients \ {c} : v.q[d] = w.q[d]
      BY <1>1, <1>3
    <3> QED BY <3>1
  <2>2. Total(F, w.q[c]) \in Nat
    BY <1>1, RefCountType
  <2>3. v.q[c] = cq
    BY <1>1, <1>3
  <2>4. Total(F, v.q[c]) = Total(F, w.q[c]) + 0
    <3>1. Total(F, v.q[c]) = Total(F, w.q[c])
      BY <2>3
    <3> HIDE DEF F
    <3> QED BY <2>2, <3>1
  <2>5. /\ ListRefs(v.q, id) = ListRefs(w.q, id) + 0 /\ ListRefs(w.q, id) \in Nat
    BY <1>1, <1>4, <2>1, <2>4, RefsAt
  <2> QED BY <2>5
<1>6. \A id \in Nat : Owed(v, id) = Owed(w, id)
  BY <1>3, <1>5 DEF Owed
<1>7. Balanced(Strict, v, X)
  BY <1>2, <1>3, <1>6 DEF Balanced
<1> QED BY <1>7 DEF v

(* Removing messages in flight and dereferencing them.                      *)
LEMMA LeaveBalanced ==
  ASSUME NEW Strict, NEW X, NEW w, Balanced(Strict, w, X), NEW c \in Clients, NEW cq \in SoundQueues,
         NEW K \in SUBSET (DOMAIN w.q[c].inflight), Leaves(w.q[c], cq, K)
  PROVE  Balanced(Strict, [w EXCEPT !.q[c] = cq, !.msg_store = DerefMsgs(@, w.q[c].inflight, K)], X)
<1> DEFINE s == w.q[c].inflight
           refs == DerefMsgs(w.msg_store, s, K)
           u == [w EXCEPT !.q[c] = cq]
           v == [u EXCEPT !.msg_store = refs]
<1>1. /\ w \in Worlds(SoundQueues) /\ w.q \in [Clients -> SoundQueues]
      /\ w.msg_store \in [DOMAIN w.msg_store -> Int]
  BY BalancedParts
<1>2. s \in Seq(ClientMsg) /\ IsFiniteSet(K)
  BY <1>1, SoundParts, FiniteDomain
<1>3. /\ refs \in [DOMAIN refs -> Int] /\ DOMAIN refs \subseteq DOMAIN w.msg_store
  BY <1>1, <1>2, DerefMsgsType
<1>4. u \in Worlds(SoundQueues) /\ u.msg_store = w.msg_store
  BY <1>1, WorldQueue DEF Worlds
<1>5. v \in Worlds(SoundQueues)
  <2> HIDE DEF u, refs
  <2> QED BY <1>3, <1>4, WorldRefs
<1>6. /\ v.q = [w.q EXCEPT ![c] = cq] /\ v.msg_store = refs
      /\ v.retained = w.retained /\ v.disused = w.disused
  BY <1>1 DEF Worlds
<1>7. v = [w EXCEPT !.q[c] = cq, !.msg_store = DerefMsgs(@, w.q[c].inflight, K)]
  BY <1>1 DEF Worlds
<1> HIDE DEF v, u
<1>8. v.q \in [Clients -> SoundQueues]
  BY <1>5, WorldParts
<1> DEFINE n(id) == RefCount(id)[Keep(s, K)]
<1>9. ASSUME NEW id \in Nat
      PROVE  n(id) \in Nat /\ ListRefs(v.q, id) \in Nat
             /\ ListRefs(w.q, id) = ListRefs(v.q, id) + n(id)
  <2> DEFINE F == RefCount(id)
  <2>1. \A d \in Clients \ {c} : Total(F, w.q[d]) = Total(F, v.q[d])
    <3>1. \A d \in Clients \ {c} : v.q[d] = w.q[d]
      BY <1>1, <1>6
    <3> QED BY <3>1
  <2>2. StateFree(F) /\ \A t \in Seq(ClientMsg) : F[t] \in Nat
    BY RefCountType
  <2>3. F[Keep(s, K)] \in Nat
    BY <1>2, <2>2, KeepType
  <2>4. Total(F, cq) = Total(F, w.q[c]) - F[Keep(s, K)]
    BY <2>2 DEF Leaves
  <2>5. Total(F, w.q[c]) \in Nat /\ v.q[c] = cq
    BY <1>1, <1>6, RefCountType
  <2>6. Total(F, w.q[c]) = Total(F, v.q[c]) + F[Keep(s, K)]
    <3> DEFINE a == Total(F, w.q[c])
               b == Total(F, v.q[c])
               k == F[Keep(s, K)]
    <3>1. a \in Nat /\ k \in Nat /\ b = a - k
      BY <2>3, <2>4, <2>5
    <3> HIDE DEF a, b, k
    <3>2. a = b + k
      BY <3>1
    <3> QED BY <3>2 DEF a, b, k
  <2>7. /\ ListRefs(w.q, id) = ListRefs(v.q, id) + F[Keep(s, K)] /\ ListRefs(v.q, id) \in Nat
    BY <1>1, <1>8, <2>1, <2>3, <2>6, RefsAt
  <2> QED BY <2>3, <2>7
<1>10. ASSUME NEW id \in Nat
       PROVE  /\ Stock(refs, id) = Stock(w.msg_store, id) - n(id)
              /\ id \in DOMAIN refs /\ refs[id] = 0 => id \in DOMAIN w.msg_store /\ w.msg_store[id] = 0
  <2>1. n(id) = IdAt(StoresOf(s), K, id)
    BY <1>2, StoresCount
  <2>2. n(id) > 0 => id \in DOMAIN w.msg_store
    <3> DEFINE a == ListRefs(w.q, id)
               b == ListRefs(v.q, id)
               k == n(id)
               d == IdAt(w.disused, DOMAIN w.disused, id)
               e == Kept(w.retained, id)
               o == Owed(w, id)
    <3>1. k \in Nat /\ b \in Nat /\ a = b + k
      BY <1>9
    <3>2. d \in Nat /\ e \in Nat /\ o = a + d + e /\ (o > 0 => id \in DOMAIN w.msg_store)
      BY BalancedParts DEF Owed
    <3> HIDE DEF a, b, k, d, e, o
    <3>3. k > 0 => id \in DOMAIN w.msg_store
      BY <3>1, <3>2
    <3> QED BY <3>3 DEF k
  <2>3. refs = Deref(w.msg_store, StoresOf(s), K)
    BY DEF DerefMsgs
  <2>4. n(id) \in Nat
    BY <1>9
  <2> HIDE DEF refs, s, n
  <2>5. id \in DOMAIN w.msg_store \/ IdAt(StoresOf(s), K, id) = 0
    BY <2>1, <2>2, <2>4
  <2> QED BY <1>1, <1>2, <2>1, <2>3, <2>5, DerefStock
<1>11. ASSUME NEW id \in Nat PROVE Owed(v, id) = Stock(v.msg_store, id)
  <2> DEFINE a == ListRefs(w.q, id)
             b == ListRefs(v.q, id)
             k == n(id)
             d == IdAt(w.disused, DOMAIN w.disused, id)
             e == Kept(w.retained, id)
             o == Stock(w.msg_store, id)
             p == Stock(refs, id)
  <2>1. k \in Nat /\ b \in Nat /\ a = b + k /\ p = o - k
    BY <1>9, <1>10
  <2>2. d \in Nat /\ e \in Nat /\ o = a + d + e
    BY BalancedParts DEF Owed
  <2>3. Owed(v, id) = b + d + e /\ Stock(v.msg_store, id) = p
    BY <1>6 DEF Owed
  <2> HIDE DEF a, b, k, d, e, o, p
  <2>4. b + d + e = p
    BY <2>1, <2>2
  <2> QED BY <2>3, <2>4
<1>12. Strict => \A id \in DOMAIN v.msg_store : v.msg_store[id] = 0 => id \in X
  <2>1. SUFFICES ASSUME Strict, NEW id \in DOMAIN v.msg_store, v.msg_store[id] = 0
                 PROVE  id \in X
    OBVIOUS
  <2>2. id \in Nat /\ id \in DOMAIN refs /\ refs[id] = 0
    BY <1>3, <1>6, <2>1, BalancedParts
  <2>3. id \in DOMAIN w.msg_store /\ w.msg_store[id] = 0
    <3> HIDE DEF refs
    <3> QED BY <1>10, <2>2
  <2> QED BY <2>1, <2>3 DEF Balanced
<1>13. Balanced(Strict, v, X)
  <2> HIDE DEF refs, s
  <2> QED BY <1>5, <1>6, <1>11, <1>12 DEF Balanced
<1> QED BY <1>7, <1>13

(* context__add_to_disused: the references of the lists become those of the *)
(* disused context.                                                         *)
LEMMA DiscardBalanced ==
  ASSUME NEW Strict, NEW X, NEW w, Balanced(Strict, w, X), NEW c \in Clients
  PROVE  Balanced(Strict, Discard(w, c), X)
<1> DEFINE a == w.q[c].inflight
           b == w.q[c].queued
           l == StoresOf(a) \o StoresOf(b)
           v == Discard(w, c)
<1>1. /\ w \in Worlds(SoundQueues) /\ w.q \in [Clients -> SoundQueues]
      /\ w.disused \in Seq(Stored)
  BY BalancedParts
<1>2. a \in Seq(ClientMsg) /\ b \in Seq(ClientMsg)
  BY <1>1, SoundParts
<1>3. StoresOf(a) \in Seq(Stored) /\ StoresOf(b) \in Seq(Stored)
  BY <1>2, StoresOfType
<1>4. v \in Worlds(SoundQueues)
  BY <1>1, SoundClosed, DiscardType DEF Closed
<1>5. /\ v.q = [w.q EXCEPT ![c] = EmptyQueue] /\ v.msg_store = w.msg_store
      /\ v.retained = w.retained /\ v.disused = w.disused \o StoresOf(a) \o StoresOf(b)
  BY <1>1 DEF Worlds, Discard
<1> HIDE DEF v
<1>6. v.q \in [Clients -> SoundQueues] /\ EmptyQueue \in SoundQueues
  BY <1>4, WorldParts, SoundClosed DEF Closed, Stable, Serves
<1>7. ASSUME NEW id \in Nat PROVE Owed(v, id) = Owed(w, id)
  <2> DEFINE F == RefCount(id)
             G == Counts(Stored, {s \in Stored : s.id = id})
             n == Total(F, w.q[c])
  <2>1. \A d \in Clients \ {c} : Total(F, w.q[d]) = Total(F, v.q[d])
    <3>1. \A d \in Clients \ {c} : v.q[d] = w.q[d]
      BY <1>1, <1>5
    <3> QED BY <3>1
  <2>2. StateFree(F) /\ (\A t \in Seq(ClientMsg) : F[t] \in Nat) /\ n \in Nat
    BY <1>1, RefCountType
  <2>3. Total(F, v.q[c]) = 0
    <3>1. v.q[c] = EmptyQueue
      BY <1>1, <1>5
    <3>2. F[<<>>] = 0
      <4> HIDE DEF F
      <4> QED BY <2>2 DEF StateFree, Additive
    <3>3. Total(F, EmptyQueue) = F[<<>>] + F[<<>>]
      BY DEF Total, EmptyQueue
    <3> HIDE DEF F
    <3> QED BY <3>1, <3>2, <3>3
  <2>4. n = Total(F, v.q[c]) + n
    <3> HIDE DEF n, F
    <3> QED BY <2>2, <2>3
  <2>5. ListRefs(w.q, id) = ListRefs(v.q, id) + n /\ ListRefs(v.q, id) \in Nat
    BY <1>1, <1>6, <2>1, <2>2, <2>4, RefsAt
  <2>6. /\ Additive(G, Stored) /\ \A t \in Seq(Stored) : G[t] = IdAt(t, DOMAIN t, id)
    <3>1. Additive(G, Stored)
      BY CountsAdditive
    <3>2. ASSUME NEW t \in Seq(Stored) PROVE G[t] = IdAt(t, DOMAIN t, id)
      <4>1. {i \in DOMAIN t : t[i] \in {s \in Stored : s.id = id}} = {i \in DOMAIN t : t[i].id = id}
        OBVIOUS
      <4> QED BY <4>1 DEF Counts, IdAt
    <3> QED BY <3>1, <3>2
  <2>7. ASSUME NEW t \in Seq(ClientMsg) PROVE G[StoresOf(t)] = F[t]
    <3>1. StoresOf(t) \in Seq(Stored) /\ DOMAIN StoresOf(t) = DOMAIN t
      BY StoresOfType DEF StoresOf
    <3>2. \A i \in DOMAIN t : StoresOf(t)[i].id = id <=> t[i] \in Refers(id)
      BY DEF StoresOf, Refers
    <3>3. {i \in DOMAIN t : StoresOf(t)[i].id = id} = {i \in DOMAIN t : t[i] \in Refers(id)}
      BY <3>2
    <3>4. G[StoresOf(t)] = Cardinality({i \in DOMAIN t : t[i] \in Refers(id)})
      BY <2>6, <3>1, <3>3 DEF IdAt
    <3> QED BY <3>4 DEF RefCount, Counts
  <2>8. G[v.disused] = G[w.disused] + G[StoresOf(a)] + G[StoresOf(b)]
    <3> DEFINE x == w.disused
               y == StoresOf(a)
               z == StoresOf(b)
    <3>1. x \in Seq(Stored) /\ y \in Seq(Stored) /\ z \in Seq(Stored)
      BY <1>1, <1>3
    <3>2. v.disused = (x \o y) \o z
      BY <1>5
    <3> HIDE DEF x, y, z, G
    <3>3. x \o y \in Seq(Stored)
      BY <3>1, ConcatProperties
    <3>4. G[x \o y] = G[x] + G[y]
      BY ONLY <2>6, <3>1, AddConcat
    <3>5. G[(x \o y) \o z] = G[x \o y] + G[z]
      BY ONLY <2>6, <3>1, <3>3, AddConcat
    <3>6. G[v.disused] = G[x] + G[y] + G[z]
      BY <3>2, <3>4, <3>5
    <3> QED BY <3>6 DEF x, y, z
  <2>9. G[StoresOf(a)] + G[StoresOf(b)] = n
    <3> HIDE DEF F, G
    <3> QED BY <1>2, <2>7 DEF Total, n
  <2>10. /\ v.disused \in Seq(Stored) /\ G[v.disused] = IdAt(v.disused, DOMAIN v.disused, id)
         /\ G[w.disused] = IdAt(w.disused, DOMAIN w.disused, id)
    BY <1>1, <1>4, <2>6, WorldParts
  <2> DEFINE p == ListRefs(w.q, id)
             r == ListRefs(v.q, id)
             d == IdAt(w.disused, DOMAIN w.disused, id)
             e == IdAt(v.disused, DOMAIN v.disused, id)
             g == G[StoresOf(a)]
             h == G[StoresOf(b)]
             k == Kept(w.retained, id)
  <2>11. p = r + n /\ r \in Nat /\ n \in Nat
    BY <2>2, <2>5
  <2>12. g \in Nat /\ h \in Nat
    <3> HIDE DEF F, G
    <3> QED BY <1>2, <2>2, <2>7
  <2>13. e = d + g + h /\ g + h = n
    <3> HIDE DEF G
    <3> QED BY <2>8, <2>9, <2>10
  <2>14. d \in Nat /\ k \in Nat /\ Owed(w, id) = p + d + k /\ Owed(v, id) = r + e + k
    BY <1>5, BalancedParts DEF Owed
  <2> HIDE DEF p, r, d, e, g, h, k, n
  <2>15. p + d + k = r + e + k
    BY <2>11, <2>12, <2>13, <2>14
  <2> QED BY <2>14, <2>15
<1>8. Balanced(Strict, v, X)
  BY <1>4, <1>5, <1>7 DEF Balanced
<1> QED BY <1>8 DEF v

(* db__message_store: a new message, which nothing refers to yet.           *)
LEMMA StoreMsgBalanced ==
  ASSUME NEW Strict, NEW w, Balanced(Strict, w, {}), NEW s, s.id = w.last_db_id + 1
  PROVE  /\ Balanced(Strict, StoreMsg(w, s), {s.id}) /\ s.id \in DOMAIN StoreMsg(w, s).msg_store
         /\ Owed(w, s.id) = 0 /\ s.id \in Nat
<1> DEFINE v == StoreMsg(w, s)
<1>1. /\ w \in Worlds(SoundQueues) /\ DOMAIN w.msg_store \subseteq 1..w.last_db_id
      /\ w.last_db_id \in Nat
  BY BalancedParts
<1>2. v \in Worlds(SoundQueues)
  BY <1>1, StoreMsgType
<1>3. /\ v.q = w.q /\ v.retained = w.retained /\ v.disused = w.disused
      /\ v.msg_store = [id \in DOMAIN w.msg_store \cup {s.id} |->
                          IF id = s.id THEN 0 ELSE w.msg_store[id]]
  BY <1>1 DEF Worlds, StoreMsg
<1> HIDE DEF v
<1>4. s.id \in Nat /\ s.id \notin DOMAIN w.msg_store
  BY <1>1
<1>5. ASSUME NEW id \in Nat
      PROVE  Owed(v, id) = Owed(w, id) /\ Stock(v.msg_store, id) = Stock(w.msg_store, id)
  BY <1>3, <1>4 DEF Owed, Stock
<1>6. \A id \in DOMAIN v.msg_store : v.msg_store[id] = 0 => id = s.id \/ (id \in DOMAIN w.msg_store
                                                                         /\ w.msg_store[id] = 0)
  BY <1>3
<1>7. Strict => \A id \in DOMAIN v.msg_store : v.msg_store[id] = 0 => id \in {s.id}
  BY <1>6 DEF Balanced
<1>8. Balanced(Strict, v, {s.id})
  BY <1>2, <1>3, <1>5, <1>7 DEF Balanced
<1>9. Owed(w, s.id) = 0
  BY <1>4 DEF Balanced, Stock
<1> QED BY <1>3, <1>4, <1>8, <1>9 DEF v

-----------------------------------------------------------------------------
(* Routing.                                                                 *)

(* A subscriber that takes a message refers to it once more.                *)
LEMMA OfferRefs ==
  ASSUME NEW cq \in SoundQueues, NEW online \in BOOLEAN, NEW s \in Stored, NEW qos \in QoS, NEW id
  PROVE  /\ Offer(cq, online, s, qos) \in SoundQueues
         /\ Total(RefCount(id), Offer(cq, online, s, qos))
              = Total(RefCount(id), cq)
                + (IF Takes(cq, online, qos) /\ s.id = id THEN 1 ELSE 0)
<1> DEFINE F == RefCount(id)
           mid == IF qos = 0 THEN 0 ELSE NextMid(cq.last_mid)
           lm == IF qos = 0 THEN cq.last_mid ELSE mid
           u == [cq EXCEPT !.last_mid = lm]
           m == NewMsg(s, mid, "out", qos)
           r == Offer(cq, online, s, qos)
           st == InsertState(u, online, "out", qos)
<1>1. cq.last_mid \in Nat /\ cq.tally \in Tallies
  BY SoundParts
<1>2. mid \in Nat /\ lm \in Nat
  BY <1>1 DEF NextMid
<1>3. r = Insert(u, online, s, mid, "out", qos)
  BY DEF Offer
<1>4. /\ u \in SoundQueues /\ u.inflight = cq.inflight /\ u.queued = cq.queued
      /\ u.tally = cq.tally
  BY <1>2 DEF SoundQueues
<1>5. r \in SoundQueues
  <2> HIDE DEF u, mid
  <2> QED BY <1>2, <1>3, <1>4, InsertSound
<1>6. Takes(cq, online, qos) <=> st # "dropped"
  BY <1>4 DEF Takes, InsertState
<1>7. StateFree(F) /\ (m \in ClientMsg => F[<<m>>] = IF m.store.id = id THEN 1 ELSE 0)
      /\ Total(F, cq) \in Nat /\ Total(F, u) = Total(F, cq)
  <2>1. StateFree(F) /\ (m \in ClientMsg => F[<<m>>] = IF m.store.id = id THEN 1 ELSE 0)
        /\ Total(F, cq) \in Nat
    BY RefCountType
  <2>2. Total(F, u) = Total(F, cq)
    BY <1>4 DEF Total
  <2> QED BY <2>1, <2>2
<1>8. /\ m \in ClientMsg
      /\ st = "dropped" => r = u
      /\ st # "dropped" => Total(F, r) = Total(F, u) + F[<<m>>]
  <2> HIDE DEF u, mid, F
  <2>1. "out" \in {"in", "out"}
    OBVIOUS
  <2> QED BY <1>2, <1>3, <1>4, <1>7, <2>1, InsertTotal
<1>9. m.store.id = s.id
  BY DEF NewMsg
<1> HIDE DEF F, u, m, r, st
<1>10. CASE st = "dropped"
  BY <1>5, <1>6, <1>7, <1>8, <1>10 DEF r, F
<1>11. CASE st # "dropped"
  <2>1. F[<<m>>] = IF s.id = id THEN 1 ELSE 0
    BY <1>7, <1>8, <1>9
  <2>2. Total(F, r) = Total(F, cq) + (IF Takes(cq, online, qos) /\ s.id = id THEN 1 ELSE 0)
    BY <1>6, <1>7, <1>8, <1>11, <2>1
  <2> QED BY <1>5, <2>2 DEF r, F
<1> QED BY <1>10, <1>11

(* The message s is offered to the contexts in to and taken by those in     *)
(* took.                                                                    *)
Offers(qs, qr, s, qos, to, took) ==
  /\ qs \in [Clients -> SoundQueues] /\ qr \in [Clients -> SoundQueues]
  /\ s \in Stored /\ qos \in QoS
  /\ to \in SUBSET Clients /\ (\A c \in to : leaf[c] # NoLeaf) /\ took \in SUBSET to
  /\ \A c \in to : c \in took <=> Takes(qs[c], Online(c), OutQoS(qos, leaf[c]))
  /\ \A c \in Clients :
       qr[c] = IF c \in to THEN Offer(qs[c], Online(c), s, OutQoS(qos, leaf[c])) ELSE qs[c]

(* sub__messages_queue for the lists: the contexts that take a message      *)
(* refer to it, each of them once.                                          *)
LEMMA RouteRefs ==
  ASSUME SessionTyped, NEW qs, NEW qr, NEW s, NEW qos, NEW to, NEW took,
         Offers(qs, qr, s, qos, to, took)
  PROVE  /\ Cardinality(took) \in Nat
         /\ \A id : /\ ListRefs(qr, id)
                         = ListRefs(qs, id) + (IF s.id = id THEN Cardinality(took) ELSE 0)
                    /\ ListRefs(qr, id) \in Nat /\ ListRefs(qs, id) \in Nat
<1> USE DEF Offers
<1>1. ASSUME NEW c \in to
      PROVE  c \in Clients /\ OutQoS(qos, leaf[c]) \in QoS /\ Online(c) \in BOOLEAN
  <2>1. c \in Clients /\ leaf[c] \in QoS
    BY DEF SessionTyped
  <2> QED BY <2>1, OutQoSType DEF Online
<1>2. ASSUME NEW c \in Clients, NEW id
      PROVE  /\ qr[c] \in SoundQueues
             /\ Total(RefCount(id), qr[c])
                  = Total(RefCount(id), qs[c]) + (IF c \in took /\ s.id = id THEN 1 ELSE 0)
  <2>1. CASE c \in to
    <3>1. qr[c] = Offer(qs[c], Online(c), s, OutQoS(qos, leaf[c]))
      BY <2>1
    <3>2. c \in took <=> Takes(qs[c], Online(c), OutQoS(qos, leaf[c]))
      BY <2>1
    <3> DEFINE o == OutQoS(qos, leaf[c])
               on == Online(c)
    <3>3. o \in QoS /\ on \in BOOLEAN /\ qs[c] \in SoundQueues
      BY <1>1, <2>1
    <3>4. qr[c] = Offer(qs[c], on, s, o) /\ (c \in took <=> Takes(qs[c], on, o))
      BY <3>1, <3>2
    <3> HIDE DEF o, on
    <3>5. /\ Offer(qs[c], on, s, o) \in SoundQueues
          /\ Total(RefCount(id), Offer(qs[c], on, s, o))
               = Total(RefCount(id), qs[c])
                 + (IF Takes(qs[c], on, o) /\ s.id = id THEN 1 ELSE 0)
      BY <3>3, OfferRefs
    <3> QED BY <3>4, <3>5
  <2>2. CASE c \notin to
    <3>1. qr[c] = qs[c] /\ c \notin took
      BY <2>2
    <3>2. Total(RefCount(id), qs[c]) \in Nat
      BY RefCountType
    <3> QED BY <3>1, <3>2
  <2> QED BY <2>1, <2>2
<1>4. IsFiniteSet(Clients) /\ took \subseteq Clients
  BY BrokerAssumption
<1>5. IsFiniteSet(took) /\ Cardinality(took) \in Nat
  BY <1>4, FS_Subset, FS_CardinalityType
<1>6. ASSUME NEW id
      PROVE  /\ ListRefs(qr, id)
                  = ListRefs(qs, id) + (IF s.id = id THEN Cardinality(took) ELSE 0)
             /\ ListRefs(qr, id) \in Nat /\ ListRefs(qs, id) \in Nat
  <2> DEFINE E == [c \in Clients |-> IF c \in took /\ s.id = id THEN {1} ELSE {}]
  <2>1. IsFiniteSet({1}) /\ Cardinality({1}) = 1 /\ IsFiniteSet({}) /\ Cardinality({}) = 0
    BY FS_Singleton, FS_EmptySet
  <2>2. \A c \in Clients : /\ IsFiniteSet(E[c])
                           /\ Cardinality(E[c]) = IF c \in took /\ s.id = id THEN 1 ELSE 0
    BY <2>1
  <2>3. Cardinality(Pile(Clients, E)) = IF s.id = id THEN Cardinality(took) ELSE 0
    <3>1. CASE s.id = id
      <4>1. Pile(Clients, E) = took \X {1}
        BY <1>4, <3>1 DEF Pile
      <4> HIDE DEF E, Offers
      <4>2. Cardinality(took \X {1}) = Cardinality(took) * 1
        BY <1>5, <2>1, FS_Product
      <4> QED BY <1>5, <3>1, <4>1, <4>2
    <3>2. CASE s.id # id
      <4>1. Pile(Clients, E) = {}
        BY <3>2 DEF Pile
      <4> QED BY <2>1, <3>2, <4>1
    <3> QED BY <3>1, <3>2
  <2> HIDE DEF E
  <2>4. \A c \in Clients : /\ IsFiniteSet(E[c])
                           /\ Total(RefCount(id), qr[c])
                                = Total(RefCount(id), qs[c]) + Cardinality(E[c])
    BY <1>2, <2>2
  <2>5. /\ ListRefs(qr, id) = ListRefs(qs, id) + Cardinality(Pile(Clients, E))
        /\ ListRefs(qr, id) \in Nat /\ ListRefs(qs, id) \in Nat
    BY <2>4, RefsAdd
  <2> QED BY <2>3, <2>5
<1> QED BY <1>5, <1>6

(* A list of one.                                                           *)
LEMMA IdAtOne ==
  ASSUME NEW r, NEW id
  PROVE  IdAt(<<r>>, {1}, id) = IF r.id = id THEN 1 ELSE 0
<1>1. {i \in {1} : <<r>>[i].id = id} = IF r.id = id THEN {1} ELSE {}
  OBVIOUS
<1> QED BY <1>1, FS_EmptySet, FS_Singleton DEF IdAt

(* retain__store lets go of the message that was retained before.           *)
LEMMA RetainedStock ==
  ASSUME NEW Strict, NEW X, NEW w, Balanced(Strict, w, X), NEW s \in Stored,
         NEW refs, refs \in [DOMAIN w.msg_store -> Int],
         NEW refs2, refs2 = IF s.retain /\ w.retained # {}
                            THEN Deref(refs, <<CHOOSE r \in w.retained : TRUE>>, {1}) ELSE refs
  PROVE  /\ refs2 \in [DOMAIN refs2 -> Int]
         /\ \A id \in Nat :
              /\ Stock(refs2, id)
                   = Stock(refs, id) - (IF s.retain THEN Kept(w.retained, id) ELSE 0)
              /\ Stock(refs, id) \in Int
              /\ id \in DOMAIN refs2 /\ refs2[id] = 0 => id \in DOMAIN refs /\ refs[id] = 0
<1>1. refs \in [DOMAIN refs -> Int] /\ DOMAIN refs = DOMAIN w.msg_store
  OBVIOUS
<1>2. \A id : Stock(refs, id) \in Int
  BY <1>1 DEF Stock
<1>3. CASE s.retain /\ w.retained # {}
  <2>1. PICK r \in Stored : w.retained = {r}
    BY <1>3 DEF Balanced
  <2>2. (CHOOSE x \in w.retained : TRUE) = r
    BY <2>1
  <2>3. refs2 = Deref(refs, <<r>>, {1})
    BY <1>3, <2>2
  <2>4. IsFiniteSet({1})
    BY FS_Singleton
  <2>5. refs2 \in [DOMAIN refs2 -> Int]
    BY <1>1, <2>3, <2>4, DerefType
  <2>6. ASSUME NEW id \in Nat
        PROVE  /\ Stock(refs2, id) = Stock(refs, id) - Kept(w.retained, id)
               /\ id \in DOMAIN refs2 /\ refs2[id] = 0 => id \in DOMAIN refs /\ refs[id] = 0
    <3>1. Kept(w.retained, id) = IdAt(<<r>>, {1}, id)
      BY <2>1, KeptIs, IdAtOne
    <3>2. Kept(w.retained, id) > 0 => id \in DOMAIN refs
      <4> DEFINE a == ListRefs(w.q, id)
                 b == IdAt(w.disused, DOMAIN w.disused, id)
                 k == Kept(w.retained, id)
      <4>1. a \in Nat /\ b \in Nat /\ k \in Nat /\ (Owed(w, id) > 0 => id \in DOMAIN w.msg_store)
        BY BalancedParts
      <4>2. Owed(w, id) = a + b + k
        BY DEF Owed
      <4> HIDE DEF a, b, k
      <4>3. k > 0 => Owed(w, id) > 0
        BY <4>1, <4>2
      <4> QED BY <1>1, <4>1, <4>3 DEF k
    <3>3. Kept(w.retained, id) \in Nat
      BY BalancedParts
    <3>4. id \in DOMAIN refs \/ IdAt(<<r>>, {1}, id) = 0
      BY <3>1, <3>2, <3>3
    <3> QED BY <1>1, <2>3, <2>4, <3>1, <3>4, DerefStock
  <2> QED BY <1>2, <1>3, <2>5, <2>6
<1>4. CASE ~(s.retain /\ w.retained # {})
  <2>1. refs2 = refs
    BY <1>4
  <2>2. ASSUME NEW id \in Nat PROVE (IF s.retain THEN Kept(w.retained, id) ELSE 0) = 0
    <3>1. CASE s.retain
      <4>1. w.retained = {}
        BY <1>4, <3>1
      <4>2. Kept({}, id) = 0
        BY KeptIs
      <4> QED BY <3>1, <4>1, <4>2
    <3> QED BY <3>1
  <2>3. \A id \in Nat : Stock(refs, id) - 0 = Stock(refs, id)
    BY <1>2
  <2> QED BY <1>1, <1>2, <2>1, <2>2, <2>3
<1> QED BY <1>3, <1>4

(* sub__messages_queue: the message gets a reference for each subscriber    *)
(* that takes it and one when it is retained, the message retained before   *)
(* loses one, and the message is freed when there is none.                  *)
LEMMA RouteBalanced ==
  ASSUME NEW Strict, SessionTyped, NEW w, NEW s \in Stored, Balanced(Strict, w, {s.id}), s.id \in DOMAIN w.msg_store,
         NEW qos \in QoS, NEW skip
  PROVE  Balanced(Strict, Route(w, s, qos, skip), {})
<1> DEFINE to     == {c \in Clients \ skip : leaf[c] # NoLeaf}
           took   == {c \in to : Takes(w.q[c], Online(c), OutQoS(qos, leaf[c]))}
           stays  == s.retain /\ s.len > 0
           one    == IF stays THEN 1 ELSE 0
           t      == Cardinality(took)
           refs   == [w.msg_store EXCEPT ![s.id] = @ + 1 + t + one]
           refs2  == IF s.retain /\ w.retained # {}
                     THEN Deref(refs, <<CHOOSE r \in w.retained : TRUE>>, {1}) ELSE refs
           qs     == [c \in Clients |->
                        IF c \in to THEN Offer(w.q[c], Online(c), s, OutQoS(qos, leaf[c]))
                                    ELSE w.q[c]]
           ret    == IF stays THEN {s} ELSE IF s.retain THEN {} ELSE w.retained
           refs3  == Deref(refs2, <<s>>, {1})
           v      == Route(w, s, qos, skip)
           gone(id) == IF s.retain THEN Kept(w.retained, id) ELSE 0
<1>1. /\ w \in Worlds(SoundQueues) /\ w.q \in [Clients -> SoundQueues]
      /\ w.msg_store \in [DOMAIN w.msg_store -> Int] /\ s.id \in Nat
  BY BalancedParts DEF Stored
<1>owed. \A id \in Nat : /\ Owed(w, id) = Stock(w.msg_store, id)
                       /\ ListRefs(w.q, id) \in Nat /\ Kept(w.retained, id) \in Nat
                       /\ IdAt(w.disused, DOMAIN w.disused, id) \in Nat
  <2> DEFINE X == {s.id}
  <2>1. Balanced(Strict, w, X)
    OBVIOUS
  <2> HIDE DEF X
  <2> QED BY ONLY <2>1, BalancedParts
<1>2. v \in Worlds(SoundQueues)
  BY <1>1, SoundClosed, RouteType DEF Closed
<1>3. /\ v.q = qs /\ v.retained = ret /\ v.msg_store = refs3 /\ v.disused = w.disused
  BY <1>1 DEF Worlds, Route
<1>4. /\ t \in Nat
      /\ \A id : /\ ListRefs(qs, id) = ListRefs(w.q, id) + (IF s.id = id THEN t ELSE 0)
                 /\ ListRefs(qs, id) \in Nat /\ ListRefs(w.q, id) \in Nat
  <2>1. to \in SUBSET Clients /\ (\A c \in to : leaf[c] # NoLeaf) /\ took \in SUBSET to
    OBVIOUS
  <2>2. \A c \in to : c \in took <=> Takes(w.q[c], Online(c), OutQoS(qos, leaf[c]))
    OBVIOUS
  <2>3. \A c \in Clients :
          qs[c] = IF c \in to THEN Offer(w.q[c], Online(c), s, OutQoS(qos, leaf[c])) ELSE w.q[c]
    OBVIOUS
  <2>4. qs \in [Clients -> SoundQueues]
    BY <1>2, <1>3, WorldParts
  <2> HIDE DEF to, took, qs
  <2>5. /\ Cardinality(took) \in Nat
        /\ \A id : /\ ListRefs(qs, id)
                        = ListRefs(w.q, id) + (IF s.id = id THEN Cardinality(took) ELSE 0)
                   /\ ListRefs(qs, id) \in Nat /\ ListRefs(w.q, id) \in Nat
    <3>1. Offers(w.q, qs, s, qos, to, took)
      BY <1>1, <2>1, <2>2, <2>3, <2>4 DEF Offers
    <3> QED BY <3>1, RouteRefs
  <2> QED BY <2>5
<1>5. one \in {0, 1}
  OBVIOUS
<1> HIDE DEF v, t, one, qs
<1>6. /\ refs \in [DOMAIN w.msg_store -> Int]
      /\ \A id \in Nat : Stock(refs, id)
           = Stock(w.msg_store, id) + (IF id = s.id THEN 1 + t + one ELSE 0)
      /\ \A id \in DOMAIN refs : refs[id] = 0 => w.msg_store[id] = 0 \/ id = s.id
  <2>1. refs \in [DOMAIN w.msg_store -> Int]
    BY <1>1, <1>4, <1>5
  <2>2. ASSUME NEW id \in Nat
        PROVE  Stock(refs, id) = Stock(w.msg_store, id) + (IF id = s.id THEN 1 + t + one ELSE 0)
    <3>1. CASE id = s.id
      BY <1>1, <1>4, <1>5, <3>1 DEF Stock
    <3>2. CASE id # s.id
      <4>1. Stock(refs, id) = Stock(w.msg_store, id)
        BY <3>2 DEF Stock
      <4>2. Stock(w.msg_store, id) \in Int
        BY <1>1 DEF Stock
      <4> QED BY <3>2, <4>1, <4>2
    <3> QED BY <3>1, <3>2
  <2> QED BY <2>1, <2>2
<1> HIDE DEF refs
<1>7. /\ refs2 \in [DOMAIN refs2 -> Int]
      /\ \A id \in Nat :
           /\ Stock(refs2, id) = Stock(refs, id) - gone(id)
           /\ Stock(refs, id) \in Int
           /\ id \in DOMAIN refs2 /\ refs2[id] = 0 => id \in DOMAIN refs /\ refs[id] = 0
  <2> DEFINE y == refs2
  <2>1. y = IF s.retain /\ w.retained # {}
            THEN Deref(refs, <<CHOOSE r \in w.retained : TRUE>>, {1}) ELSE refs
    OBVIOUS
  <2> HIDE DEF y
  <2>2. /\ y \in [DOMAIN y -> Int]
        /\ \A id \in Nat :
             /\ Stock(y, id)
                  = Stock(refs, id) - (IF s.retain THEN Kept(w.retained, id) ELSE 0)
             /\ Stock(refs, id) \in Int
             /\ id \in DOMAIN y /\ y[id] = 0 => id \in DOMAIN refs /\ refs[id] = 0
    <3> DEFINE X == {s.id}
    <3>1. Balanced(Strict, w, X) /\ s \in Stored /\ refs \in [DOMAIN w.msg_store -> Int]
      BY <1>6
    <3> HIDE DEF X
    <3> QED BY ONLY <2>1, <3>1, RetainedStock
  <2> QED BY <2>2 DEF y
<1> HIDE DEF refs2
<1>8. ASSUME NEW id \in Nat
      PROVE  /\ gone(id) \in Nat /\ gone(id) <= Kept(w.retained, id)
             /\ Kept(ret, id) = Kept(w.retained, id) - gone(id) + (IF id = s.id THEN one ELSE 0)
  <2>1. Kept(w.retained, id) \in Nat
    BY BalancedParts
  <2>2. Kept({}, id) = 0 /\ Kept({s}, id) = IF s.id = id THEN 1 ELSE 0
    BY KeptIs
  <2>3. CASE stays
    BY <2>1, <2>2, <2>3 DEF one
  <2>4. CASE s.retain /\ ~stays
    BY <2>1, <2>2, <2>4 DEF one
  <2>5. CASE ~s.retain
    BY <2>1, <2>5 DEF one
  <2> QED BY <2>3, <2>4, <2>5
<1> HIDE DEF gone, ret
<1>9. s.id \in DOMAIN refs2
  <2> DEFINE a == Stock(w.msg_store, s.id)
             b == Kept(w.retained, s.id)
             g == gone(s.id)
             z == Stock(refs2, s.id)
             l == ListRefs(w.q, s.id)
             d == IdAt(w.disused, DOMAIN w.disused, s.id)
  <2>1. a = l + d + b /\ l \in Nat /\ d \in Nat /\ b \in Nat
    BY <1>1, <1>owed DEF Owed
  <2>2. g \in Nat /\ g <= b /\ z = Stock(refs, s.id) - g /\ Stock(refs, s.id) = a + (1 + t + one)
    BY <1>1, <1>6, <1>7, <1>8
  <2> HIDE DEF a, b, g, z, l, d
  <2>3. z # 0
    BY <1>4, <1>5, <2>1, <2>2
  <2> QED BY <2>3 DEF z, Stock
<1>10. ASSUME NEW id \in Nat
       PROVE  /\ Stock(refs3, id) = Stock(refs2, id) - (IF id = s.id THEN 1 ELSE 0)
              /\ id \in DOMAIN refs3 /\ refs3[id] = 0 =>
                   id \in DOMAIN refs2 /\ refs2[id] = 0 /\ id # s.id
  <2>1. IdAt(<<s>>, {1}, id) = IF s.id = id THEN 1 ELSE 0
    BY IdAtOne
  <2>2. IsFiniteSet({1})
    BY FS_Singleton
  <2>3. id \in DOMAIN refs2 \/ IdAt(<<s>>, {1}, id) = 0
    BY <1>9, <2>1
  <2> QED BY <1>7, <2>1, <2>2, <2>3, DerefStock
<1> HIDE DEF refs3
<1>11. ASSUME NEW id \in Nat PROVE Owed(v, id) = Stock(v.msg_store, id)
  <2> DEFINE a == Stock(w.msg_store, id)
             b == Kept(w.retained, id)
             g == gone(id)
             l == ListRefs(w.q, id)
             d == IdAt(w.disused, DOMAIN w.disused, id)
             l2 == ListRefs(qs, id)
             b2 == Kept(ret, id)
             x == Stock(refs, id)
             y == Stock(refs2, id)
             z == Stock(refs3, id)
  <2>1. a = l + d + b /\ l \in Nat /\ d \in Nat /\ b \in Nat
    BY <1>owed DEF Owed
  <2>2. Owed(v, id) = l2 + d + b2 /\ Stock(v.msg_store, id) = z
    BY <1>3 DEF Owed
  <2>3. CASE id = s.id
    <3>1. /\ g \in Nat /\ l2 = l + t /\ b2 = b - g + one
          /\ x = a + (1 + t + one) /\ y = x - g /\ z = y - 1
      BY <1>4, <1>6, <1>7, <1>8, <1>10, <2>3
    <3> HIDE DEF a, b, g, l, d, l2, b2, x, y, z
    <3>2. l2 + d + b2 = z
      BY <1>4, <1>5, <2>1, <3>1
    <3> QED BY <2>2, <3>2
  <2>4. CASE id # s.id
    <3>1. /\ g \in Nat /\ l2 = l + 0 /\ b2 = b - g + 0
          /\ x = a + 0 /\ y = x - g /\ z = y - 0
      BY <1>4, <1>6, <1>7, <1>8, <1>10, <2>4
    <3> HIDE DEF a, b, g, l, d, l2, b2, x, y, z
    <3>2. l2 + d + b2 = z
      BY <2>1, <3>1
    <3> QED BY <2>2, <3>2
  <2> QED BY <2>3, <2>4
<1>12. Strict => \A id \in DOMAIN v.msg_store : v.msg_store[id] = 0 => id \in {}
  <2>1. SUFFICES ASSUME Strict, NEW id \in DOMAIN v.msg_store, v.msg_store[id] = 0 PROVE FALSE
    OBVIOUS
  <2>2. id \in Nat
    BY <1>2, <2>1, WorldParts
  <2>3. id \in DOMAIN refs /\ refs[id] = 0 /\ id # s.id
    BY <1>3, <1>7, <1>10, <2>1, <2>2
  <2>4. id \in DOMAIN w.msg_store /\ w.msg_store[id] = 0 /\ id # s.id
    BY <1>6, <2>3
  <2> QED BY <2>1, <2>4 DEF Balanced
<1>13. v.retained = {} \/ \E r \in Stored : v.retained = {r}
  BY <1>3 DEF ret, Balanced
<1>14. Balanced(Strict, v, {})
  BY <1>2, <1>11, <1>12, <1>13 DEF Balanced
<1> QED BY <1>14 DEF v

(* A store that is balanced with fewer exceptions is with more.             *)
LEMMA BalancedMore ==
  ASSUME NEW Strict, NEW w, Balanced(Strict, w, {}), NEW X
  PROVE  Balanced(Strict, w, X)
BY DEF Balanced

(* context__send_will.                                                      *)
LEMMA SendWillBalanced ==
  ASSUME NEW Strict, SessionTyped, NEW w, Balanced(Strict, w, {}), NEW c, NEW skip
  PROVE  Balanced(Strict, SendWill(w, c, skip), {})
<1> DEFINE s == Fresh(w, 0, 0, WillQoS, WillLen, WillRetain, TRUE)
           u == StoreMsg(w, s)
<1>1. WillQoS \in QoS /\ WillLen \in 0..MaxLen /\ WillRetain \in BOOLEAN
  BY BrokerAssumption, LimitsAssumption
<1>2. w \in Worlds(SoundQueues)
  BY BalancedParts
<1>3. s \in Stored /\ s.id = w.last_db_id + 1
  BY <1>1, <1>2, FreshType
<1>4. SendWill(w, c, skip) = IF will[c] THEN Route(u, s, WillQoS, skip) ELSE w
  BY DEF SendWill
<1> HIDE DEF s
<1>5. Balanced(Strict, u, {s.id}) /\ s.id \in DOMAIN u.msg_store
  BY <1>3, StoreMsgBalanced
<1> HIDE DEF u
<1>6. Balanced(Strict, Route(u, s, WillQoS, skip), {})
  BY <1>1, <1>3, <1>5, RouteBalanced
<1> QED BY <1>4, <1>6

-----------------------------------------------------------------------------
(* The handlers.  Each of them leaves the store of the state balanced.      *)

Balance(Strict)  == Balanced(Strict, World, {})
StoreInv(Strict) == Typed(SoundQueues) /\ Balance(Strict)

(* Assigning a balanced record to the variables.                            *)
LEMMA BecomeBalanced ==
  ASSUME NEW Strict, NEW w, Balanced(Strict, w, {}), Become(w)
  PROVE  Balance(Strict)'
<1>1. w \in Worlds(SoundQueues)
  BY BalancedParts
<1>2. w = [q |-> w.q, msg_store |-> w.msg_store, last_db_id |-> w.last_db_id,
           retained |-> w.retained, disused |-> w.disused]
  BY <1>1 DEF Worlds
<1>3. World' = w
  BY <1>2 DEF World, Become
<1> QED BY <1>3 DEF Balance

(* Steps that change none of the variables of the record.                   *)
LEMMA SameBalance ==
  ASSUME NEW Strict, Balance(Strict), UNCHANGED <<q, store>>
  PROVE  Balance(Strict)'
<1>1. World' = World
  BY DEF World, store
<1> QED BY <1>1 DEF Balance

(* do_disconnect.                                                           *)
LEMMA DisconnectedBalanced ==
  ASSUME NEW Strict, NEW w, Balanced(Strict, w, {}), NEW c \in Clients, Disconnected(w, c)
  PROVE  Balance(Strict)'
<1>1. Balanced(Strict, Discard(w, c), {})
  BY DiscardBalanced
<1>2. Become(Discard(w, c)) \/ Become(w)
  BY DEF Disconnected
<1> QED BY <1>1, <1>2, BecomeBalanced

(* handle__connect.                                                         *)
LEMMA ConnectBalanced ==
  ASSUME NEW Strict, StoreInv(Strict), NEW c \in Clients, Connect(c)
  PROVE  Balance(Strict)'
<1>1. PICK cs \in Cleans, wl \in Wills :
        LET found == conn[c] # "none"
            moved == found /\ ~cs /\ ~clean[c]
            world == SendWill(World, c, IF moved THEN {c} ELSE {})
            empty == q[c].inflight = <<>> /\ q[c].queued = <<>>
        IN  Become(IF ~moved THEN Discard(world, c)
                   ELSE IF empty THEN [world EXCEPT !.q[c] = [EmptyQueue EXCEPT !.last_mid = q[c].last_mid]]
                   ELSE [world EXCEPT !.q[c] = Reset(@)])
  BY DEF Connect
<1> DEFINE moved == conn[c] # "none" /\ ~cs /\ ~clean[c]
           world == SendWill(World, c, IF moved THEN {c} ELSE {})
           fresh == [EmptyQueue EXCEPT !.last_mid = q[c].last_mid]
           empty == q[c].inflight = <<>> /\ q[c].queued = <<>>
<1>2. Balanced(Strict, World, {}) /\ SessionTyped /\ q[c] \in SoundQueues /\ World.q = q
  BY DEF StoreInv, Balance, Typed, World
<1>3. Balanced(Strict, world, {})
  BY <1>2, SendWillBalanced
<1>4. moved => world.q[c] = q[c]
  BY <1>2, SkipKeeps, BalancedParts
<1>5. Become(IF ~moved THEN Discard(world, c)
             ELSE IF empty THEN [world EXCEPT !.q[c] = fresh]
             ELSE [world EXCEPT !.q[c] = Reset(world.q[c])])
  BY <1>1
<1> HIDE DEF world
<1>6. Balanced(Strict, Discard(world, c), {})
  BY <1>3, DiscardBalanced
<1>7. ASSUME moved, empty PROVE Balanced(Strict, [world EXCEPT !.q[c] = fresh], {})
  <2>1. fresh \in SoundQueues /\ fresh.inflight = <<>> /\ fresh.queued = <<>>
    <3>1. q[c].last_mid \in Nat
      BY <1>2, SoundParts
    <3>2. EmptyQueue \in SoundQueues
      BY SoundClosed DEF Closed, Stable, Serves
    <3>3. fresh \in SoundQueues
      BY <3>1, <3>2, SoundClosed DEF Closed, Stable, Serves
    <3> QED BY <3>3 DEF EmptyQueue
  <2>2. \A id \in Nat : Total(RefCount(id), fresh) = Total(RefCount(id), world.q[c])
    BY <1>4, <1>7, <2>1 DEF Total
  <2> HIDE DEF fresh
  <2> QED BY <1>3, <2>1, <2>2, SameBalanced
<1>8. ASSUME moved PROVE Balanced(Strict, [world EXCEPT !.q[c] = Reset(world.q[c])], {})
  <2>1. world.q[c] \in SoundQueues
    BY <1>2, <1>4, <1>8
  <2> DEFINE r == Reset(world.q[c])
  <2>2. r \in SoundQueues
    BY <2>1, ResetSound
  <2>3. \A id \in Nat : Total(RefCount(id), r) = Total(RefCount(id), world.q[c])
    <3>1. \A id : StateFree(RefCount(id))
      BY RefCountType
    <3> QED BY <2>1, <3>1, ResetTotal
  <2> HIDE DEF r
  <2>4. Balanced(Strict, [world EXCEPT !.q[c] = r], {})
    BY <1>3, <2>2, <2>3, SameBalanced
  <2> QED BY <2>4 DEF r
<1> HIDE DEF moved, empty, fresh
<1>9. \E w : Balanced(Strict, w, {}) /\ Become(w)
  <2>1. CASE ~moved
    BY <1>5, <1>6, <2>1
  <2>2. CASE moved /\ empty
    BY <1>5, <1>7, <2>2
  <2>3. CASE moved /\ ~empty
    BY <1>5, <1>8, <2>3
  <2> QED BY <2>1, <2>2, <2>3
<1> QED BY <1>9, BecomeBalanced

(* handle__disconnect, a connection that is lost and a session that         *)
(* expires.                                                                 *)
LEMMA LeaveStepBalanced ==
  ASSUME NEW Strict, StoreInv(Strict), NEW c \in Clients, Disconnect(c) \/ ConnectionLost(c) \/ Expire(c)
  PROVE  Balance(Strict)'
<1>1. Balanced(Strict, World, {}) /\ SessionTyped
  BY DEF StoreInv, Balance, Typed
<1>2. Balanced(Strict, SendWill(World, c, {}), {})
  BY <1>1, SendWillBalanced
<1>3. Balanced(Strict, Discard(World, c), {})
  BY <1>1, DiscardBalanced
<1>4. CASE Disconnect(c) \/ ConnectionLost(c)
  BY <1>1, <1>2, <1>4, DisconnectedBalanced DEF Disconnect, ConnectionLost
<1>5. CASE Expire(c)
  BY <1>3, <1>5, BecomeBalanced DEF Expire
<1> QED BY <1>4, <1>5

(* handle__publish for QoS 0 and 1.                                         *)
LEMMA PublishBalanced ==
  ASSUME NEW Strict, StoreInv(Strict), NEW c \in Clients, Publish(c)
  PROVE  Balance(Strict)'
<1>1. PICK qos \in PubQoS \cap {0, 1}, len \in Lens, rt \in Retains :
        LET s == Fresh(World, 0, 0, qos, len, rt, TRUE)
        IN  Become(Route(StoreMsg(World, s), s, qos, {}))
  BY DEF Publish
<1> DEFINE s == Fresh(World, 0, 0, qos, len, rt, TRUE)
           u == StoreMsg(World, s)
<1>2. qos \in QoS /\ len \in 0..MaxLen /\ rt \in BOOLEAN
  BY BrokerAssumption
<1>3. Balanced(Strict, World, {}) /\ SessionTyped
  BY DEF StoreInv, Balance, Typed
<1>4. s \in Stored /\ s.id = World.last_db_id + 1
  BY <1>2, <1>3, BalancedParts, FreshType
<1>5. Become(Route(u, s, qos, {}))
  BY <1>1
<1> HIDE DEF s
<1>6. Balanced(Strict, u, {s.id}) /\ s.id \in DOMAIN u.msg_store
  BY <1>3, <1>4, StoreMsgBalanced
<1> HIDE DEF u
<1>7. Balanced(Strict, Route(u, s, qos, {}), {})
  BY <1>2, <1>3, <1>4, <1>6, RouteBalanced
<1> QED BY <1>5, <1>7, BecomeBalanced

(* The lists of u have n references to the message i more than those of cq. *)
Grows(cq, u, i, n) ==
  \A id \in Nat : Total(RefCount(id), u) = Total(RefCount(id), cq) + (IF id = i THEN n ELSE 0)

(* A context gets another queue, and the count of a message goes up.        *)
Refer(w, c, cq, i, n) ==
  [w EXCEPT !.q[c] = cq, !.msg_store = [w.msg_store EXCEPT ![i] = @ + n]]

(* When it goes up by as much as the references, the store stays balanced.  *)
LEMMA ReferBalanced ==
  ASSUME NEW Strict, NEW X, NEW w, Balanced(Strict, w, X), NEW c \in Clients, NEW cq \in SoundQueues,
         NEW i, i \in DOMAIN w.msg_store, NEW n, n \in {0, 1},
         NEW old, old = w.q[c], Grows(old, cq, i, n),
         NEW Y, X \ {i} \subseteq Y, n = 0 => X \subseteq Y
  PROVE  Balanced(Strict, Refer(w, c, cq, i, n), Y)
<1> DEFINE refs == [w.msg_store EXCEPT ![i] = @ + n]
           u == [w EXCEPT !.q[c] = cq]
           v == [u EXCEPT !.msg_store = refs]
<1>1. /\ w \in Worlds(SoundQueues) /\ w.q \in [Clients -> SoundQueues]
      /\ w.msg_store \in [DOMAIN w.msg_store -> Int] /\ i \in Nat
  BY BalancedParts
<1>2. refs \in [DOMAIN refs -> Int] /\ DOMAIN refs = DOMAIN w.msg_store
  BY <1>1
<1>3. u \in Worlds(SoundQueues) /\ u.msg_store = w.msg_store
  BY <1>1, WorldQueue DEF Worlds
<1>4. v \in Worlds(SoundQueues)
  <2> HIDE DEF u
  <2> QED BY <1>2, <1>3, WorldRefs
<1>5. /\ v.q = [w.q EXCEPT ![c] = cq] /\ v.msg_store = refs
      /\ v.retained = w.retained /\ v.disused = w.disused
  BY <1>1 DEF Worlds
<1>6. v = Refer(w, c, cq, i, n)
  BY <1>1 DEF Worlds, Refer
<1> HIDE DEF v, u
<1>7. v.q \in [Clients -> SoundQueues] /\ v.q[c] = cq
  BY <1>1, <1>4, <1>5, WorldParts
<1>8. ASSUME NEW id \in Nat PROVE Owed(v, id) = Stock(v.msg_store, id)
  <2> DEFINE F == RefCount(id)
             k == IF id = i THEN n ELSE 0
             a == ListRefs(w.q, id)
             b == ListRefs(v.q, id)
             d == IdAt(w.disused, DOMAIN w.disused, id)
             e == Kept(w.retained, id)
             o == Stock(w.msg_store, id)
             p == Stock(refs, id)
  <2>1. k \in Nat
    OBVIOUS
  <2>2. Total(F, v.q[c]) = Total(F, w.q[c]) + k
    BY <1>7 DEF Grows
  <2>3. \A x \in Clients \ {c} : Total(F, v.q[x]) = Total(F, w.q[x])
    <3>1. \A x \in Clients \ {c} : v.q[x] = w.q[x]
      BY <1>1, <1>5
    <3> QED BY <3>1
  <2> HIDE DEF k
  <2>4. b = a + k /\ a \in Nat
    BY <1>1, <1>7, <2>1, <2>2, <2>3, RefsAt
  <2>5. p = o + k
    <3>1. CASE id = i
      BY <1>1, <3>1 DEF Stock, k
    <3>2. CASE id # i
      <4>1. p = o /\ k = 0
        BY <3>2 DEF Stock, k
      <4>2. o \in Int
        BY <1>1 DEF Stock
      <4> HIDE DEF o, p
      <4> QED BY <4>1, <4>2
    <3> QED BY <3>1, <3>2
  <2>6. o = a + d + e /\ d \in Nat /\ e \in Nat /\ Owed(v, id) = b + d + e
        /\ Stock(v.msg_store, id) = p
    BY <1>5, BalancedParts DEF Owed
  <2> HIDE DEF a, b, d, e, o, p
  <2>7. b + d + e = p
    BY <2>1, <2>4, <2>5, <2>6
  <2> QED BY <2>6, <2>7
<1>9. Strict => \A id \in DOMAIN v.msg_store :
                     v.msg_store[id] = 0 => id \in Y
  <2>1. SUFFICES ASSUME Strict, NEW id \in DOMAIN v.msg_store, v.msg_store[id] = 0
                 PROVE  id \in Y
    OBVIOUS
  <2>2. id \in DOMAIN w.msg_store /\ id \in Nat
    BY <1>1, <1>2, <1>5, <2>1, BalancedParts
  <2>3. CASE id # i
    <3>1. w.msg_store[id] = 0
      BY <1>5, <2>1, <2>2, <2>3
    <3> QED BY <2>1, <2>2, <2>3, <3>1 DEF Balanced
  <2>4. CASE id = i
    <3>1. w.msg_store[i] + n = 0
      BY <1>5, <2>1, <2>2, <2>4
    <3>2. w.msg_store[i] = Stock(w.msg_store, i) /\ Stock(w.msg_store, i) \in Nat
      <4>1. Stock(w.msg_store, i) = Owed(w, i) /\ Owed(w, i) \in Nat
        BY <1>1, BalancedParts
      <4> QED BY <4>1 DEF Stock
    <3>3. n = 0 /\ w.msg_store[i] = 0
      BY <3>1, <3>2
    <3> QED BY <2>1, <2>2, <2>4, <3>3 DEF Balanced
  <2> QED BY <2>3, <2>4
<1>10. Balanced(Strict, v, Y)
  BY <1>4, <1>5, <1>8, <1>9 DEF Balanced
<1> QED BY <1>6, <1>10

(* handle__subscribe, with the retained message, and handle__unsubscribe.   *)
LEMMA SubscribeBalanced ==
  ASSUME NEW Strict, StoreInv(Strict), NEW c \in Clients, Subscribe(c) \/ Unsubscribe(c)
  PROVE  Balance(Strict)'
<1>1. /\ Balanced(Strict, World, {}) /\ Balance(Strict) /\ q \in [Clients -> SoundQueues] /\ retained \subseteq Stored
      /\ World.q = q /\ World.msg_store = msg_store /\ World.retained = retained
  BY DEF StoreInv, Balance, Typed, StoreTyped, World
<1>2. CASE Unsubscribe(c)
  BY <1>1, <1>2, SameBalance DEF Unsubscribe
<1>3. CASE Subscribe(c)
  <2>1. PICK qos \in SubQoS :
          LET r   == CHOOSE r \in retained : TRUE
              out == OutQoS(r.qos, qos)
          IN  /\ IF retained = {} THEN UNCHANGED <<q, msg_store>>
                 ELSE /\ q' = [q EXCEPT ![c] = Offer(@, TRUE, r, out)]
                      /\ msg_store' = IF Takes(q[c], TRUE, out)
                                      THEN [msg_store EXCEPT ![r.id] = @ + 1] ELSE msg_store
              /\ UNCHANGED <<last_db_id, retained, disused>>
    BY <1>3 DEF Subscribe
  <2> DEFINE r == CHOOSE r \in retained : TRUE
             out == OutQoS(r.qos, qos)
             cq == Offer(q[c], TRUE, r, out)
             n == IF Takes(q[c], TRUE, out) THEN 1 ELSE 0
             refs == [msg_store EXCEPT ![r.id] = @ + n]
             v == Refer(World, c, cq, r.id, n)
  <2>2. CASE retained = {}
    BY <1>1, <2>1, <2>2, SameBalance DEF store
  <2>3. CASE retained # {}
    <3>1. r \in retained /\ r \in Stored
      BY <1>1, <2>3
    <3>2. r.id \in DOMAIN msg_store /\ r.id \in Nat /\ msg_store[r.id] \in Int
      <4>1. r.id \in Nat
        BY <3>1 DEF Stored
      <4>2. PICK x \in Stored : retained = {x}
        BY <1>1, <2>3 DEF Balanced
      <4>3. r = x
        BY <3>1, <4>2
      <4>4. Kept(retained, r.id) = 1
        BY <4>2, <4>3, KeptIs
      <4> HIDE DEF r
      <4>5. Owed(World, r.id) > 0
        <5>1. /\ ListRefs(World.q, r.id) \in Nat
              /\ IdAt(World.disused, DOMAIN World.disused, r.id) \in Nat
          BY <1>1, <4>1, BalancedParts
        <5> QED BY <1>1, <4>4, <5>1 DEF Owed
      <4>6. r.id \in DOMAIN World.msg_store /\ World.msg_store \in [DOMAIN World.msg_store -> Int]
        BY <1>1, <4>1, <4>5, BalancedParts
      <4> QED BY <1>1, <4>1, <4>6
    <3>3. out \in QoS
      <4>1. r.qos \in QoS /\ qos \in QoS
        BY <3>1, BrokerAssumption DEF Stored
      <4> QED BY <4>1, OutQoSType
    <3>4. q' = [q EXCEPT ![c] = cq] /\ UNCHANGED <<last_db_id, retained, disused>>
      BY <2>1, <2>3
    <3>5. msg_store' = refs
      <4>1. msg_store' = IF Takes(q[c], TRUE, out) THEN [msg_store EXCEPT ![r.id] = @ + 1]
                         ELSE msg_store
        BY <2>1, <2>3
      <4> DEFINE id == r.id
      <4>2. id \in DOMAIN msg_store /\ msg_store[id] \in Int
        BY <3>2
      <4>3. msg_store = [msg_store EXCEPT ![id] = @ + 0]
        <5>1. /\ msg_store \in [DOMAIN msg_store -> Int]
          BY <1>1, BalancedParts
        <5> HIDE DEF id
        <5> QED BY <4>2, <5>1
      <4> HIDE DEF out, r
      <4> QED BY <4>1, <4>3
    <3> HIDE DEF r, out
    <3>6. /\ cq \in SoundQueues
          /\ \A id \in Nat : Total(RefCount(id), cq)
               = Total(RefCount(id), q[c]) + (IF id = r.id THEN n ELSE 0)
      <4>1. q[c] \in SoundQueues /\ TRUE \in BOOLEAN
        BY <1>1
      <4> DEFINE o == q[c]
      <4> HIDE DEF o
      <4>2. ASSUME NEW on \in BOOLEAN, NEW id
            PROVE  /\ Offer(o, on, r, out) \in SoundQueues
                   /\ Total(RefCount(id), Offer(o, on, r, out)) = Total(RefCount(id), o)
                        + (IF Takes(o, on, out) /\ r.id = id THEN 1 ELSE 0)
        <5>1. o \in SoundQueues
          BY <4>1 DEF o
        <5> QED BY <3>1, <3>3, <5>1, OfferRefs
      <4>3. /\ cq \in SoundQueues
            /\ \A id : Total(RefCount(id), cq) = Total(RefCount(id), q[c])
                        + (IF Takes(q[c], TRUE, out) /\ r.id = id THEN 1 ELSE 0)
        BY <4>1, <4>2 DEF o
      <4>4. \A id : (IF Takes(q[c], TRUE, out) /\ r.id = id THEN 1 ELSE 0)
                      = (IF id = r.id THEN n ELSE 0)
        OBVIOUS
      <4> QED BY <4>3, <4>4
    <3>7. n \in {0, 1}
      OBVIOUS
    <3> HIDE DEF cq, n
    <3>8. Balanced(Strict, v, {})
      <4> DEFINE W == World
                 i == r.id
                 X == {}
                 old == q[c]
      <4>1. /\ c \in Clients /\ cq \in SoundQueues /\ n \in {0, 1}
            /\ Balanced(Strict, W, X) /\ i \in DOMAIN W.msg_store
            /\ old = W.q[c] /\ Grows(old, cq, i, n)
            /\ X \ {i} \subseteq X /\ X \subseteq X
        BY <1>1, <3>2, <3>6, <3>7 DEF Grows
      <4> HIDE DEF W, i, X, old
      <4>2. Balanced(Strict, Refer(W, c, cq, i, n), X)
        BY ONLY <4>1, ReferBalanced
      <4> QED BY <4>2 DEF i, W, X
    <3>9. Become(v)
      BY <1>1, <3>4, <3>5 DEF Become, World, Refer
    <3> HIDE DEF v
    <3> QED BY <3>8, <3>9, BecomeBalanced
  <2> QED BY <2>2, <2>3
<1> QED BY <1>2, <1>3

(* db__message_insert of a message from the client, or for it.              *)
LEMMA InsertGrows ==
  ASSUME NEW cq \in SoundQueues, NEW online \in BOOLEAN, NEW s \in Stored, NEW mid \in Nat,
         NEW dir \in {"in", "out"}, NEW qos \in QoS
  PROVE  /\ Insert(cq, online, s, mid, dir, qos) \in SoundQueues
         /\ Grows(cq, Insert(cq, online, s, mid, dir, qos), s.id,
                  IF InsertState(cq, online, dir, qos) = "dropped" THEN 0 ELSE 1)
<1> DEFINE r  == Insert(cq, online, s, mid, dir, qos)
           st == InsertState(cq, online, dir, qos)
           m  == NewMsg(s, mid, dir, qos)
           n  == IF st = "dropped" THEN 0 ELSE 1
<1>1. r \in SoundQueues
  BY InsertSound
<1> HIDE DEF r, n
<1>2. ASSUME NEW id \in Nat
      PROVE  Total(RefCount(id), r) = Total(RefCount(id), cq) + (IF id = s.id THEN n ELSE 0)
  <2> DEFINE F == RefCount(id)
  <2>1. StateFree(F) /\ (m \in ClientMsg => F[<<m>>] = IF m.store.id = id THEN 1 ELSE 0)
        /\ Total(F, cq) \in Nat /\ m.store = s
    BY RefCountType DEF NewMsg
  <2>2. /\ m \in ClientMsg
        /\ st = "dropped" => r = cq
        /\ st # "dropped" => Total(F, r) = Total(F, cq) + F[<<m>>]
    <3> HIDE DEF F, m
    <3>1. r = Insert(cq, online, s, mid, dir, qos)
      BY DEF r
    <3> QED BY <2>1, <3>1, InsertTotal DEF m
  <2> HIDE DEF F, m, st
  <2>3. ASSUME st = "dropped" PROVE Total(F, r) = Total(F, cq) + (IF id = s.id THEN n ELSE 0)
    <3>1. n = 0 /\ Total(F, r) = Total(F, cq)
      BY <2>2, <2>3 DEF n
    <3> QED BY <2>1, <3>1
  <2>4. ASSUME st # "dropped" PROVE Total(F, r) = Total(F, cq) + (IF id = s.id THEN n ELSE 0)
    <3>1. F[<<m>>] = IF id = s.id THEN n ELSE 0
      BY <2>1, <2>2, <2>4 DEF n
    <3> QED BY <2>2, <2>4, <3>1
  <2>5. Total(F, r) = Total(F, cq) + (IF id = s.id THEN n ELSE 0)
    BY <2>3, <2>4
  <2> QED BY <2>5 DEF F
<1>3. Grows(cq, r, s.id, n)
  BY <1>2 DEF Grows
<1> QED BY <1>1, <1>3 DEF r, n

(* A message from a client is dropped only when there is a limit.           *)
LEMMA DroppedLimited ==
  ASSUME NEW cq, InsertState(cq, TRUE, "in", 2) = "dropped"
  PROVE  ~Unlimited
<1>1. ~ReadyForQueue(cq.tally, 2, TRUE)
  <2>1. CASE ReadyForFlight(cq.tally, 2)
    BY <2>1 DEF InsertState
  <2>2. CASE ~ReadyForFlight(cq.tally, 2)
    BY <2>2 DEF InsertState
  <2> QED BY <2>1, <2>2
<1> QED BY <1>1 DEF ReadyForQueue, Unlimited

(* handle__publish for QoS 2.                                               *)
LEMMA PublishQoS2Balanced ==
  ASSUME NEW Strict, Strict => Unlimited, StoreInv(Strict), NEW c \in Clients, NEW mid \in ClientMids, PublishQoS2(c, mid)
  PROVE  Balance(Strict)'
<1>1. PICK p \in Sendable(c, mid) :
    LET dup   == StoreFind(q[c], mid) # {}
        s     == IF p.denied THEN Fresh(World, p.body, mid, 2, 0, FALSE, FALSE)
                             ELSE Fresh(World, p.body, mid, 2, p.len, p.retain, TRUE)
        st    == InsertState(q[c], TRUE, "in", 2)
        new   == StoreMsg(World, s)
        added == [new EXCEPT !.q[c] = Insert(@, TRUE, s, mid, "in", 2),
                             !.msg_store[s.id] = IF st = "dropped" THEN 0 ELSE 1]
    IN  IF ~dup /\ p.denied /\ st # "wait_for_pubrel"
        THEN Disconnected(SendWill(added, c, {}), c)
        ELSE Become(IF dup THEN World ELSE added) /\ UNCHANGED session
  BY DEF PublishQoS2
<1> DEFINE s     == IF p.denied THEN Fresh(World, p.body, mid, 2, 0, FALSE, FALSE)
                                ELSE Fresh(World, p.body, mid, 2, p.len, p.retain, TRUE)
           st    == InsertState(q[c], TRUE, "in", 2)
           new   == StoreMsg(World, s)
           cq    == Insert(q[c], TRUE, s, mid, "in", 2)
           n     == IF st = "dropped" THEN 0 ELSE 1
           added == [new EXCEPT !.q[c] = Insert(@, TRUE, s, mid, "in", 2),
                                !.msg_store[s.id] = IF st = "dropped" THEN 0 ELSE 1]
<1>2. /\ Balanced(Strict, World, {}) /\ SessionTyped /\ q[c] \in SoundQueues /\ q \in [Clients -> SoundQueues]
      /\ World.q = q /\ PeerTyped /\ HistoryTyped
  BY DEF StoreInv, Balance, Typed, World
<1>3. Disconnected(SendWill(added, c, {}), c) \/ Become(World) \/ Become(added)
  BY <1>1
<1>4. s \in Stored /\ s.id = World.last_db_id + 1 /\ mid \in Nat
  <2>1. p \in Publication
    BY <1>2, SendableType
  <2>2. /\ p.body \in Nat /\ p.len \in 0..MaxLen /\ p.retain \in BOOLEAN /\ mid \in Nat /\ 2 \in QoS
        /\ 0 \in 0..MaxLen
    BY <2>1, BrokerAssumption, LimitsAssumption DEF Publication, QoS
  <2>3. World \in Worlds(SoundQueues)
    BY <1>2, BalancedParts
  <2>4. World.last_db_id \in Nat
    BY <2>3, WorldParts
  <2> QED BY <2>2, <2>4 DEF Fresh, Stored
<1>5. new.q = q /\ new.msg_store[s.id] = 0
  BY <1>2 DEF StoreMsg, World
<1>6. cq \in SoundQueues /\ Grows(q[c], cq, s.id, n)
  <2> DEFINE i == "in"
             on == TRUE
             o == 2
  <2>1. i \in {"in", "out"} /\ on \in BOOLEAN /\ o \in QoS
    BY DEF QoS
  <2> HIDE DEF i, on, o, s
  <2>2. /\ Insert(q[c], on, s, mid, i, o) \in SoundQueues
        /\ Grows(q[c], Insert(q[c], on, s, mid, i, o), s.id,
                 IF InsertState(q[c], on, i, o) = "dropped" THEN 0 ELSE 1)
    BY <1>2, <1>4, <2>1, InsertGrows
  <2> QED BY <2>2 DEF i, on, o
<1>7. n \in {0, 1} /\ (n = 0 => ~Unlimited)
  <2>1. st = "dropped" => ~Unlimited
    BY DroppedLimited, Zenon
  <2> HIDE DEF st
  <2> QED BY <2>1
<1>8. added = Refer(new, c, cq, s.id, n)
  <2>1. 0 + n = n
    BY <1>7
  <2> DEFINE x == Insert(q[c], TRUE, s, mid, "in", 2)
             y == IF st = "dropped" THEN 0 ELSE 1
             i == s.id
  <2>2. new.q = q /\ new.msg_store[i] + n = y /\ cq = x
    BY <1>5, <2>1
  <2>3. Refer(new, c, cq, i, n) = [new EXCEPT !.q[c] = cq, !.msg_store = [new.msg_store EXCEPT ![i] = new.msg_store[i] + n]]
    BY DEF Refer
  <2>4. added = [new EXCEPT !.q[c] = Insert(new.q[c], TRUE, s, mid, "in", 2), !.msg_store[i] = y]
    OBVIOUS
  <2>5. Insert(new.q[c], TRUE, s, mid, "in", 2) = x
    BY <2>2
  <2> HIDE DEF x, y, new, i, cq, n, added
  <2>6. "msg_store" \in DOMAIN new /\ "q" \in DOMAIN new
    BY DEF new, StoreMsg, World
  <2>7. added = [new EXCEPT !.q[c] = x, !.msg_store = [new.msg_store EXCEPT ![i] = y]]
    BY <2>4, <2>5
  <2> QED BY <2>2, <2>3, <2>7 DEF i
<1> HIDE DEF added, n, cq, s
<1>9. Balanced(Strict, new, {s.id}) /\ s.id \in DOMAIN new.msg_store
  BY <1>2, <1>4, StoreMsgBalanced
<1> DEFINE W == new
           i == s.id
<1>10. Balanced(Strict, added, {})
  <2>1. Balanced(Strict, W, {i}) /\ i \in DOMAIN W.msg_store /\ Grows(W.q[c], cq, i, n)
    BY <1>5, <1>6, <1>9
  <2>2. added = Refer(W, c, cq, i, n)
    BY <1>8
  <2> HIDE DEF W, i
  <2>3. ASSUME NEW X, NEW Y, X = {i}, X \ {i} \subseteq Y, n = 0 => X \subseteq Y
        PROVE  Balanced(Strict, Refer(W, c, cq, i, n), Y)
    <3> DEFINE old == W.q[c]
    <3>1. /\ Balanced(Strict, W, X) /\ i \in DOMAIN W.msg_store /\ old = W.q[c] /\ Grows(old, cq, i, n)
          /\ c \in Clients /\ cq \in SoundQueues /\ n \in {0, 1}
      BY <1>6, <1>7, <2>1, <2>3
    <3> HIDE DEF old
    <3> QED BY ONLY <2>3, <3>1, ReferBalanced
  <2>4. CASE n = 1
    <3>1. {i} \ {i} \subseteq {} /\ ~(n = 0)
      BY <2>4
    <3> QED BY <2>2, <2>3, <3>1
  <2>5. CASE n = 0
    <3>1. Balanced(Strict, added, {i}) /\ ~Unlimited
      BY <1>7, <2>2, <2>3, <2>5
    <3> QED BY <3>1 DEF Balanced
  <2> QED BY <1>7, <2>4, <2>5
<1>11. Balanced(Strict, SendWill(added, c, {}), {})
  BY <1>2, <1>10, SendWillBalanced
<1> QED BY <1>2, <1>3, <1>10, <1>11, BecomeBalanced, DisconnectedBalanced

(* A message in one of the lists is in the store.                           *)
LEMMA MessageStored ==
  ASSUME NEW Strict, NEW X, NEW w, Balanced(Strict, w, X), NEW c \in Clients,
         NEW i \in DOMAIN (w.q[c].inflight \o w.q[c].queued)
  PROVE  /\ (w.q[c].inflight \o w.q[c].queued)[i].store \in Stored
         /\ (w.q[c].inflight \o w.q[c].queued)[i].store.id \in DOMAIN w.msg_store
<1> DEFINE s == w.q[c].inflight \o w.q[c].queued
           id == s[i].store.id
           A == [d \in Clients |-> RefAt(w.q[d], id)]
           P == Pile(Clients, A)
<1>1. w.q \in [Clients -> SoundQueues]
  BY BalancedParts
<1>2. w.q[c].inflight \in Seq(ClientMsg) /\ w.q[c].queued \in Seq(ClientMsg)
  BY <1>1, SoundParts
<1>3. s[i] \in ClientMsg
  <2>1. s \in Seq(ClientMsg)
    BY <1>2
  <2>2. i \in DOMAIN s
    OBVIOUS
  <2> HIDE DEF s
  <2> QED BY <2>1, <2>2
<1>4. s[i].store \in Stored /\ id \in Nat
  BY <1>3 DEF ClientMsg, Stored
<1>6. i \in RefAt(w.q[c], id)
  BY DEF RefAt
<1>7. <<c, i>> \in P
  <2>1. A[c] = RefAt(w.q[c], id)
    OBVIOUS
  <2> HIDE DEF A, id, s
  <2> QED BY <1>6, <2>1 DEF Pile
<1>8. \A d \in Clients : IsFiniteSet(A[d])
  BY <1>1, RefCountType
<1>9. IsFiniteSet(P)
  <2> HIDE DEF A
  <2> QED BY <1>8, BrokerAssumption, PileFinite
<1>10. ListRefs(w.q, id) = Cardinality(P)
  BY DEF ListRefs
<1> HIDE DEF P, id
<1>11. Cardinality(P) \in Nat /\ Cardinality(P) # 0
  BY <1>7, <1>9, FS_CardinalityType, FS_EmptySet
<1>12. Owed(w, id) > 0
  <2>1. IdAt(w.disused, DOMAIN w.disused, id) \in Nat /\ Kept(w.retained, id) \in Nat
    BY <1>4, BalancedParts
  <2> QED BY <1>10, <1>11, <2>1 DEF Owed
<1>13. id \in DOMAIN w.msg_store
  BY <1>4, <1>12, BalancedParts
<1> QED BY <1>4, <1>13 DEF id

(* So is one in flight.                                                     *)
LEMMA ReferredStored ==
  ASSUME NEW Strict, NEW X, NEW w, Balanced(Strict, w, X), NEW c \in Clients, NEW i \in DOMAIN w.q[c].inflight
  PROVE  /\ w.q[c].inflight[i].store \in Stored
         /\ w.q[c].inflight[i].store.id \in DOMAIN w.msg_store
<1> DEFINE a == w.q[c].inflight
           b == w.q[c].queued
<1>1. w.q \in [Clients -> SoundQueues]
  BY BalancedParts
<1>2. a \in Seq(ClientMsg) /\ b \in Seq(ClientMsg) /\ i \in DOMAIN a
  BY <1>1, SoundParts
<1>3. i \in DOMAIN (a \o b) /\ (a \o b)[i] = a[i]
  <2> HIDE DEF a, b
  <2> QED BY ONLY <1>2
<1> QED BY <1>3, MessageStored

(* handle__pubrel: the message is routed, removed and dereferenced.         *)
LEMMA PubrelBalanced ==
  ASSUME NEW Strict, StoreInv(Strict), NEW c \in Clients, NEW mid \in Nat, NEW read, Pubrel(c, mid, read)
  PROVE  Balance(Strict)'
<1> DEFINE K   == Matching(q[c].inflight, mid, "in")
           hit == q[c].inflight[CHOOSE i \in K : \A j \in K : i <= j].store
           w   == IF K # {} /\ hit.topic THEN Route(World, hit, hit.qos, {}) ELSE World
           cq  == Release(w.q[c], mid)
<1>1. /\ Balanced(Strict, World, {}) /\ SessionTyped /\ q[c] \in SoundQueues /\ q \in [Clients -> SoundQueues]
      /\ World.q = q /\ World \in Worlds(SoundQueues) /\ World.msg_store = msg_store
  <2>1. Balanced(Strict, World, {})
    BY DEF StoreInv, Balance
  <2> QED BY <2>1, BalancedParts DEF StoreInv, Typed, World
<1>2. Become([w EXCEPT !.q[c] = Release(@, mid),
                       !.msg_store = DerefMsgs(@, w.q[c].inflight, K)])
  BY DEF Pubrel
<1>3. K \subseteq DOMAIN q[c].inflight /\ K \subseteq Nat
  <2>1. q[c].inflight \in Seq(ClientMsg)
    BY <1>1, SoundParts
  <2> QED BY <2>1 DEF Matching
<1>4. K # {} => hit \in Stored /\ hit.id \in DOMAIN msg_store
  <2>1. SUFFICES ASSUME K # {} PROVE hit \in Stored /\ hit.id \in DOMAIN msg_store
    OBVIOUS
  <2> DEFINE f == CHOOSE i \in K : \A j \in K : i <= j
             W == World
  <2>2. f \in K
    <3> HIDE DEF K
    <3> QED BY <1>3, <2>1, FirstIn
  <2>3. f \in DOMAIN W.q[c].inflight /\ Balanced(Strict, W, {})
    BY <1>1, <1>3, <2>2
  <2>4. hit = W.q[c].inflight[f] .store /\ W.msg_store = msg_store
    BY <1>1
  <2> HIDE DEF f, W, hit
  <2>5. W.q[c].inflight[f].store \in Stored /\ W.q[c].inflight[f].store.id \in DOMAIN W.msg_store
    BY <2>3, ReferredStored
  <2> QED BY <2>4, <2>5
<1>5. Balanced(Strict, w, {}) /\ Matching(w.q[c].inflight, mid, "in") = K
  <2>1. CASE K # {} /\ hit.topic
    <3>1. hit \in Stored /\ hit.id \in DOMAIN World.msg_store /\ hit.qos \in QoS
      BY <1>1, <1>4, <2>1 DEF Stored
    <3> HIDE DEF hit
    <3>2. Balanced(Strict, World, {hit.id})
      BY <1>1, BalancedMore
    <3>3. Balanced(Strict, Route(World, hit, hit.qos, {}), {})
      BY <1>1, <3>1, <3>2, RouteBalanced
    <3>4. w = Route(World, hit, hit.qos, {})
      BY <2>1
    <3> HIDE DEF w
    <3>5. Matching(Route(World, hit, hit.qos, {}).q[c].inflight, mid, "in")
            = Matching(World.q[c].inflight, mid, "in")
      <4> DEFINE W == World
                 o == hit.qos
                 x == {}
      <4>1. W \in Worlds(SoundQueues) /\ o \in QoS /\ hit \in Stored
        BY <1>1, <3>1
      <4> HIDE DEF W, o, x
      <4>2. Matching(Route(W, hit, o, x).q[c].inflight, mid, "in")
              = Matching(W.q[c].inflight, mid, "in")
        BY <1>1, <4>1, RouteMatching
      <4> QED BY <4>2 DEF W, o, x
    <3>6. Matching(w.q[c].inflight, mid, "in") = K
      BY <1>1, <3>4, <3>5
    <3> QED BY <3>3, <3>4, <3>6
  <2>2. CASE ~(K # {} /\ hit.topic)
    <3>1. w = World
      BY <2>2
    <3> QED BY <1>1, <3>1
  <2> QED BY <2>1, <2>2
<1> HIDE DEF w
<1>6. /\ w.q[c] \in SoundQueues /\ cq \in SoundQueues
      /\ Leaves(w.q[c], cq, Matching(w.q[c].inflight, mid, "in"))
      /\ Matching(w.q[c].inflight, mid, "in") \in SUBSET (DOMAIN w.q[c].inflight)
  <2>1. w.q[c] \in SoundQueues
    <3>1. Balanced(Strict, w, {})
      BY <1>5
    <3>2. w.q \in [Clients -> SoundQueues]
      BY ONLY <3>1, BalancedParts
    <3> QED BY ONLY <3>2, c \in Clients
  <2> QED BY <2>1, ReleaseSound, ReleaseLeaves DEF Matching
<1> DEFINE M == Matching(w.q[c].inflight, mid, "in")
<1>7. Become([w EXCEPT !.q[c] = cq, !.msg_store = DerefMsgs(@, w.q[c].inflight, M)])
  <2>1. [w EXCEPT !.q[c] = Release(@, mid), !.msg_store = DerefMsgs(@, w.q[c].inflight, K)]
        = [w EXCEPT !.q[c] = cq, !.msg_store = DerefMsgs(@, w.q[c].inflight, M)]
    BY <1>5
  <2> HIDE DEF K, cq, M
  <2> QED BY <1>2, <2>1
<1> HIDE DEF M, cq
<1>8. Leaves(w.q[c], cq, M) /\ M \in SUBSET (DOMAIN w.q[c].inflight)
  BY <1>6 DEF M
<1>9. Balanced(Strict, [w EXCEPT !.q[c] = cq, !.msg_store = DerefMsgs(@, w.q[c].inflight, M)], {})
  BY <1>5, <1>6, <1>8, LeaveBalanced
<1> QED BY <1>7, <1>9, BecomeBalanced

(* handle__pubackcomp.                                                      *)
LEMMA PubackcompBalanced ==
  ASSUME NEW Strict, StoreInv(Strict), NEW c \in Clients, NEW mid \in Nat, Pubackcomp(c, mid),
         UNCHANGED <<last_db_id, retained, disused>>
  PROVE  Balance(Strict)'
<1> DEFINE W == World
           K == Matching(W.q[c].inflight, mid, "out")
           cq == Delete(W.q[c], mid, "out")
           v == [W EXCEPT !.q[c] = cq, !.msg_store = DerefMsgs(@, W.q[c].inflight, K)]
<1>1. Balanced(Strict, W, {}) /\ W.q = q /\ q \in [Clients -> SoundQueues]
  BY DEF StoreInv, Balance, Typed, World
<1>2. Become(v)
  BY <1>1 DEF Pubackcomp, Become, World
<1>3. W.q[c] \in SoundQueues
  BY <1>1
<1> HIDE DEF W
<1>4. cq \in SoundQueues /\ Leaves(W.q[c], cq, K)
  BY <1>3, DeleteSound, DeleteLeaves
<1>5. K \in SUBSET (DOMAIN W.q[c].inflight)
  BY DEF Matching
<1> HIDE DEF K, cq
<1>6. Balanced(Strict, v, {})
  BY <1>1, <1>4, <1>5, LeaveBalanced
<1> HIDE DEF v
<1> QED BY <1>2, <1>6, BecomeBalanced

(* handle__pubrec.                                                          *)
LEMMA PubrecBalanced ==
  ASSUME NEW Strict, StoreInv(Strict), NEW c \in Clients, NEW mid \in Nat, Pubrec(c, mid),
         UNCHANGED <<last_db_id, retained, disused>>
  PROVE  Balance(Strict)'
<1> DEFINE W == World
           st == "wait_for_pubcomp"
           cq == Update(W.q[c], mid, "out", st)
           v == [W EXCEPT !.q[c] = cq]
<1>1. Balanced(Strict, W, {}) /\ W.q = q /\ q \in [Clients -> SoundQueues]
  BY DEF StoreInv, Balance, Typed, World
<1>2. Become(v)
  BY <1>1 DEF Pubrec, Become, World
<1>3. W.q[c] \in SoundQueues
  BY <1>1
<1>4. st \in OutStates /\ st \in States /\ st # "publish_qos0"
  BY DEF OutStates, States
<1> HIDE DEF W, st
<1>5. cq \in SoundQueues
  BY <1>3, <1>4, UpdateSound
<1>6. \A id \in Nat : Total(RefCount(id), cq) = Total(RefCount(id), W.q[c])
  <2>1. \A id : StateFree(RefCount(id))
    BY RefCountType
  <2> QED BY <1>3, <1>4, <2>1, UpdateTotal
<1> HIDE DEF cq
<1>7. Balanced(Strict, v, {})
  BY <1>1, <1>5, <1>6, SameBalanced
<1> HIDE DEF v
<1> QED BY <1>2, <1>7, BecomeBalanced

(* A client reads a packet and answers it, or not.                          *)
LEMMA ReadBalanced ==
  ASSUME NEW Strict, StoreInv(Strict), NEW c \in Clients, Read(c)
  PROVE  Balance(Strict)'
<1> DEFINE p == Head(wire[c])
<1>1. Balance(Strict) /\ PeerTyped
  BY DEF StoreInv, Typed
<1>2. wire[c] # <<>> => p.mid \in Nat /\ p.qos \in QoS
  BY <1>1, WireHead
<1>3. ASSUME Unheard(c), UNCHANGED <<last_db_id, retained, disused>> PROVE Balance(Strict)'
  BY <1>1, <1>3, SameBalance DEF Unheard, store
<1>4. CASE ReadPublish(c)
  <2>1. p.qos \in QoS /\ p.mid \in Nat /\ UNCHANGED <<last_db_id, retained, disused>>
    BY <1>2, <1>4 DEF ReadPublish, Reads
  <2>2. p.qos = 0 \/ p.qos = 1 \/ p.qos = 2
    BY <2>1 DEF QoS
  <2>3. \/ UNCHANGED <<q, msg_store>>
        \/ Pubackcomp(c, p.mid)
        \/ Pubrec(c, p.mid)
        \/ Unheard(c)
    BY <1>4, <2>2 DEF ReadPublish
  <2> HIDE DEF p
  <2>4. CASE UNCHANGED <<q, msg_store>>
    BY <1>1, <2>1, <2>4, SameBalance DEF store
  <2> QED BY <1>3, <2>1, <2>3, <2>4, PubackcompBalanced, PubrecBalanced
<1>5. CASE ReadPubrel(c)
  <2>1. p.mid \in Nat /\ (Pubackcomp(c, p.mid) \/ Unheard(c)) /\ UNCHANGED <<last_db_id, retained, disused>>
    BY <1>2, <1>5 DEF ReadPubrel, Reads
  <2> HIDE DEF p
  <2> QED BY <1>3, <2>1, PubackcompBalanced
<1>6. CASE ReadPubrec(c)
  <2>1. /\ p.mid \in Nat
        /\ \/ Pubrel(c, p.mid, Tail(wire[c]))
           \/ Unheard(c) /\ UNCHANGED <<last_db_id, retained, disused>>
    BY <1>2, <1>6 DEF ReadPubrec, Reads
  <2> HIDE DEF p
  <2> QED BY <1>3, <2>1, PubrelBalanced
<1>7. CASE ReadPubcomp(c)
  BY <1>1, <1>7, SameBalance DEF ReadPubcomp
<1> QED BY <1>4, <1>5, <1>6, <1>7 DEF Read

(* A client sends again what it has to.                                     *)
LEMMA ResendBalanced ==
  ASSUME NEW Strict, Strict => Unlimited, StoreInv(Strict), NEW c \in Clients, Resend(c)
  PROVE  Balance(Strict)'
<1>1. PICK mid \in ClientMids : ResendPubrel(c, mid) \/ PublishQoS2(c, mid)
  BY DEF Resend
<1>2. mid \in Nat
  BY BrokerAssumption, LimitsAssumption
<1> QED BY <1>1, <1>2, PubrelBalanced, PublishQoS2Balanced DEF ResendPubrel

(* A write takes from the references of a context those of the messages of  *)
(* QoS 0 it has sent.                                                       *)
LEMMA WriteRefs ==
  ASSUME NEW cq \in SoundQueues, NEW id
  PROVE  LET A == {i \in SentQoS0(cq, Pending(cq)) : cq.inflight[i].store.id = id}
         IN  /\ IsFiniteSet(A)
             /\ Total(RefCount(id), cq) = Total(RefCount(id), Write(cq)) + Cardinality(A)
<1> DEFINE s == cq.inflight
           P == SentQoS0(cq, Pending(cq))
           A == {i \in P : s[i].store.id = id}
           F == RefCount(id)
           k == F[Keep(s, P)]
<1>1. s \in Seq(ClientMsg) /\ P \in SUBSET (DOMAIN s) /\ Leaves(cq, Write(cq), P)
  <2>1. P \in SUBSET (DOMAIN s)
    BY DEF SentQoS0, Pending
  <2> QED BY <2>1, SoundParts, WriteLeaves
<1>2. StateFree(F) /\ Total(F, cq) \in Nat
  BY RefCountType
<1> HIDE DEF s, P
<1>3. A = {i \in P : s[i] \in Refers(id)}
  BY <1>1 DEF Refers
<1>4. IsFiniteSet(A)
  <2>1. A \subseteq P /\ IsFiniteSet(P)
    BY <1>1, FiniteDomain
  <2> HIDE DEF A
  <2> QED BY <2>1, FS_Subset
<1>5. k = Cardinality(A)
  BY <1>1, <1>3, KeepCounts DEF RefCount
<1>6. Cardinality(A) \in Nat
  BY <1>4, FS_CardinalityType
<1> HIDE DEF F, A
<1>7. Total(F, Write(cq)) = Total(F, cq) - k
  BY <1>1, <1>2 DEF Leaves, s
<1> HIDE DEF k
<1>8. Total(F, cq) = Total(F, Write(cq)) + Cardinality(A)
  BY <1>2, <1>5, <1>6, <1>7
<1> QED BY <1>4, <1>8 DEF F, A, P, s

(* context__free_disused and db__message_write: what the disused contexts   *)
(* refer to is dereferenced, and what the writes of all connected contexts  *)
(* have sent of QoS 0.                                                      *)
LEMMA LoopBalanced ==
  ASSUME NEW Strict, StoreInv(Strict), Loop
  PROVE  Balance(Strict)'
<1> DEFINE on   == {c \in Clients : Online(c)}
           K(c) == SentQoS0(q[c], Pending(q[c]))
           pos  == UNION {{c} \X SentQoS0(q[c], Pending(q[c])) : c \in on}
           sent == [x \in UNION {{c} \X SentQoS0(q[c], Pending(q[c])) : c \in on} |->
                      q[x[1]].inflight[x[2]].store]
           kept == Deref(msg_store, disused, DOMAIN disused)
           refs == Deref(kept, sent, DOMAIN sent)
           qs   == [c \in Clients |-> IF c \in on THEN Write(q[c]) ELSE q[c]]
           v    == [q |-> qs, msg_store |-> refs, last_db_id |-> last_db_id,
                    retained |-> retained, disused |-> <<>>]
           d(id) == IdAt(disused, DOMAIN disused, id)
           n(id) == IdAt(sent, DOMAIN sent, id)
<1>1. /\ Balanced(Strict, World, {}) /\ q \in [Clients -> SoundQueues] /\ Typed(SoundQueues)
      /\ World.q = q /\ World.msg_store = msg_store /\ World.disused = disused
      /\ World.retained = retained /\ World.last_db_id = last_db_id
  BY DEF StoreInv, Balance, Typed, World
<1>2. /\ q' = qs /\ msg_store' = refs /\ disused' = <<>>
      /\ UNCHANGED <<last_db_id, retained>>
  BY DEF Loop
<1>3. /\ v.q = qs /\ v.msg_store = refs /\ v.disused = <<>>
      /\ v.retained = retained /\ v.last_db_id = last_db_id
  OBVIOUS
<1>4. Become(v)
  BY <1>2, <1>3 DEF Become
<1>5. v \in Worlds(SoundQueues) /\ qs \in [Clients -> SoundQueues]
  <2>1. q' \in [Clients -> SoundQueues] /\ StoreTyped'
    <3>1. Typed(SoundQueues)'
      BY <1>1, SoundClosed, LoopTypedStep DEF Closed
    <3> QED BY <3>1 DEF Typed
  <2>2. World' \in Worlds(SoundQueues)
    BY <2>1, WorldType DEF StoreTyped, World, Worlds
  <2>3. World' = v
    <3> HIDE DEF qs, refs
    <3> QED BY <1>2 DEF World
  <2> QED BY <1>2, <2>1, <2>2, <2>3
<1>6. /\ msg_store \in [DOMAIN msg_store -> Int] /\ IsFiniteSet(DOMAIN disused)
      /\ disused \in Seq(Stored)
  <2>1. disused \in Seq(Stored) /\ msg_store \in [DOMAIN msg_store -> Int]
    BY <1>1 DEF Typed, StoreTyped
  <2> QED BY <2>1, FiniteDomain
<1>7. ASSUME NEW c \in Clients
      PROVE  /\ K(c) \in SUBSET (DOMAIN q[c].inflight) /\ IsFiniteSet(K(c))
             /\ q[c] \in SoundQueues /\ q[c].inflight \in Seq(ClientMsg)
  <2>1. q[c] \in SoundQueues /\ q[c].inflight \in Seq(ClientMsg)
    BY <1>1, SoundParts
  <2>2. K(c) \in SUBSET (DOMAIN q[c].inflight)
    BY DEF SentQoS0, Pending
  <2> HIDE DEF K
  <2> QED BY <2>1, <2>2, FiniteDomain
<1>8. DOMAIN sent = pos /\ IsFiniteSet(pos)
  <2> DEFINE A == [c \in Clients |-> K(c)]
  <2>1. IsFiniteSet(on) /\ on \subseteq Clients
    BY BrokerAssumption, FS_Subset
  <2>2. \A c \in on : IsFiniteSet(A[c])
    BY <1>7
  <2>3. pos = Pile(on, A)
    BY DEF Pile
  <2> HIDE DEF A, on, pos
  <2>4. IsFiniteSet(Pile(on, A))
    BY <2>1, <2>2, PileFinite
  <2> QED BY <2>3, <2>4 DEF pos
<1>9. kept \in [DOMAIN kept -> Int]
  BY <1>6, DerefType
<1> HIDE DEF v, refs
<1>10. ASSUME NEW id \in Nat
       PROVE  /\ n(id) \in Nat /\ ListRefs(qs, id) \in Nat
              /\ ListRefs(q, id) = ListRefs(qs, id) + n(id)
  <2> DEFINE E == [c \in Clients |-> IF c \in on THEN {i \in K(c) : q[c].inflight[i].store.id = id}
                                     ELSE {}]
  <2>2. ASSUME NEW c \in Clients
        PROVE  /\ IsFiniteSet(E[c])
               /\ Total(RefCount(id), q[c]) = Total(RefCount(id), qs[c]) + Cardinality(E[c])
    <3>1. Total(RefCount(id), q[c]) \in Nat
      BY <1>7, RefCountType
    <3>2. CASE c \notin on
      <4>1. E[c] = {} /\ qs[c] = q[c]
        BY <3>2
      <4> HIDE DEF E, qs
      <4> QED BY <3>1, <4>1, FS_EmptySet
    <3>3. CASE c \in on
      <4>1. E[c] = {i \in K(c) : q[c].inflight[i].store.id = id} /\ qs[c] = Write(q[c])
        BY <3>3
      <4>2. q[c] \in SoundQueues
        BY <1>7
      <4>3. LET A == {i \in K(c) : q[c].inflight[i].store.id = id}
            IN  /\ IsFiniteSet(A)
                /\ Total(RefCount(id), q[c]) = Total(RefCount(id), Write(q[c])) + Cardinality(A)
        BY ONLY <4>2, WriteRefs
      <4> HIDE DEF E, qs, K
      <4> QED BY ONLY <4>1, <4>3
    <3> QED BY <3>2, <3>3
  <2>3. {x \in pos : sent[x].id = id} = Pile(Clients, E)
    <3>1. ASSUME NEW x
          PROVE  x \in {y \in pos : sent[y].id = id} <=> x \in Pile(Clients, E)
      <4>1. x \in pos <=> \E c \in on : x \in {c} \X K(c)
        OBVIOUS
      <4>2. x \in Pile(Clients, E) <=> \E c \in Clients : x \in {c} \X E[c]
        BY DEF Pile
      <4>3. ASSUME NEW c \in on, x \in {c} \X K(c)
            PROVE  sent[x].id = id <=> x \in {c} \X E[c]
        <5>1. x \in pos /\ x[1] = c /\ x[2] \in K(c)
          BY <4>3
        <5>2. sent[x] = q[c].inflight[x[2]].store
          BY <5>1
        <5>3. c \in Clients /\ E[c] = {i \in K(c) : q[c].inflight[i].store.id = id}
          OBVIOUS
        <5> HIDE DEF E, sent, K
        <5> QED BY <4>3, <5>1, <5>2, <5>3
      <4>4. ASSUME NEW c \in Clients, x \in {c} \X E[c]
            PROVE  c \in on /\ x \in {c} \X K(c)
        BY <4>4
      <4> HIDE DEF pos, sent, E, K
      <4> QED BY <4>1, <4>2, <4>3, <4>4
    <3> HIDE DEF pos, sent, E
    <3> QED BY <3>1
  <2>4. n(id) = Cardinality(Pile(Clients, E))
    <3> HIDE DEF sent, E
    <3> QED BY <1>8, <2>3 DEF IdAt
  <2> HIDE DEF E
  <2>5. /\ ListRefs(q, id) = ListRefs(qs, id) + Cardinality(Pile(Clients, E))
        /\ ListRefs(qs, id) \in Nat /\ Cardinality(Pile(Clients, E)) \in Nat
    <3> HIDE DEF qs, on, K, sent, kept, pos
    <3>1. q \in [Clients -> SoundQueues] /\ qs \in [Clients -> SoundQueues]
      BY <1>1, <1>5
    <3>2. \A c \in Clients : /\ IsFiniteSet(E[c])
                             /\ Total(RefCount(id), q[c])
                                  = Total(RefCount(id), qs[c]) + Cardinality(E[c])
      BY <2>2
    <3> QED BY ONLY <3>1, <3>2, RefsAdd
  <2> QED BY <2>4, <2>5
<1>11. ASSUME NEW id \in Nat
       PROVE  /\ Stock(kept, id) = Stock(msg_store, id) - d(id)
              /\ Stock(kept, id) = ListRefs(q, id) + Kept(retained, id)
              /\ Kept(retained, id) \in Nat
              /\ id \in DOMAIN kept /\ kept[id] = 0 => id \in DOMAIN msg_store /\ msg_store[id] = 0
  <2> DEFINE a == ListRefs(q, id)
             b == d(id)
             e == Kept(retained, id)
             o == Stock(msg_store, id)
  <2>1. /\ a \in Nat /\ b \in Nat /\ e \in Nat /\ o = a + b + e
        /\ a + b + e > 0 => id \in DOMAIN msg_store
    <3>1. /\ ListRefs(World.q, id) \in Nat /\ Kept(World.retained, id) \in Nat
          /\ IdAt(World.disused, DOMAIN World.disused, id) \in Nat
          /\ Owed(World, id) = Stock(World.msg_store, id)
          /\ Owed(World, id) > 0 => id \in DOMAIN World.msg_store
      BY <1>1, BalancedParts
    <3> QED BY <1>1, <3>1 DEF Owed
  <2>2. id \in DOMAIN msg_store \/ b = 0
    <3> HIDE DEF a, b, e, o
    <3> QED BY <2>1
  <2>3. /\ Stock(kept, id) = o - b
        /\ id \in DOMAIN kept /\ kept[id] = 0 => id \in DOMAIN msg_store /\ msg_store[id] = 0
    BY <1>6, <2>2, DerefStock
  <2> HIDE DEF a, b, e, o
  <2>4. o - b = a + e
    BY <2>1
  <2> QED BY <2>1, <2>3, <2>4 DEF a, b, e, o
<1> HIDE DEF kept
<1>12. ASSUME NEW id \in Nat
       PROVE  /\ Stock(refs, id) = ListRefs(qs, id) + Kept(retained, id)
              /\ id \in DOMAIN refs /\ refs[id] = 0 => id \in DOMAIN kept /\ kept[id] = 0
  <2> DEFINE a == ListRefs(q, id)
             b == ListRefs(qs, id)
             e == Kept(retained, id)
             k == n(id)
             o == Stock(kept, id)
  <2>1. b \in Nat /\ k \in Nat /\ e \in Nat /\ a = b + k /\ o = a + e
    BY <1>10, <1>11
  <2>2. id \in DOMAIN kept \/ o = 0
    BY DEF Stock
  <2>3. id \in DOMAIN kept \/ k = 0
    <3> HIDE DEF a, b, e, k, o
    <3> QED BY <2>1, <2>2
  <2>4. IsFiniteSet(DOMAIN sent)
    BY <1>8
  <2>5. /\ Stock(refs, id) = o - k
        /\ id \in DOMAIN refs /\ refs[id] = 0 => id \in DOMAIN kept /\ kept[id] = 0
    <3> HIDE DEF sent
    <3> QED BY <1>9, <2>3, <2>4, DerefStock DEF refs
  <2> HIDE DEF a, b, e, k, o
  <2>6. o - k = b + e
    BY <2>1
  <2> QED BY <2>5, <2>6 DEF b, e
<1> HIDE DEF qs
<1>13. ASSUME NEW id \in Nat PROVE Owed(v, id) = Stock(v.msg_store, id)
  <2>1. IdAt(<<>>, DOMAIN <<>>, id) = 0
    <3>1. {i \in DOMAIN <<>> : <<>>[i].id = id} = {}
      OBVIOUS
    <3> QED BY <3>1, FS_EmptySet DEF IdAt
  <2>2. ListRefs(qs, id) \in Nat /\ Kept(retained, id) \in Nat
    BY <1>10, <1>11
  <2> QED BY <1>3, <1>12, <2>1, <2>2 DEF Owed
<1>14. Strict => \A id \in DOMAIN v.msg_store : v.msg_store[id] = 0 => id \in {}
  <2>1. SUFFICES ASSUME Strict, NEW id \in DOMAIN v.msg_store, v.msg_store[id] = 0 PROVE FALSE
    OBVIOUS
  <2>2. id \in Nat
    BY <1>5, <2>1, WorldParts
  <2>3. id \in DOMAIN msg_store /\ msg_store[id] = 0
    BY <1>3, <1>11, <1>12, <2>1, <2>2
  <2> QED BY <1>1, <2>1, <2>3 DEF Balanced
<1>15. v.retained = {} \/ \E r \in Stored : v.retained = {r}
  BY <1>1, <1>3 DEF Balanced
<1>16. Balanced(Strict, v, {})
  BY <1>5, <1>13, <1>14, <1>15 DEF Balanced
<1> QED BY <1>4, <1>16, BecomeBalanced

(* A write that fails, and the will and the disconnection it ends in.       *)
LEMMA WriteFailsBalanced ==
  ASSUME NEW Strict, StoreInv(Strict), NEW c \in Clients, NEW cq \in SoundQueues, NEW P, NEW pubrecs,
         SentQoS0(q[c], P) \in SUBSET (DOMAIN q[c].inflight),
         Leaves(q[c], cq, SentQoS0(q[c], P)), WriteFails(c, cq, P, pubrecs)
  PROVE  Balance(Strict)'
<1> DEFINE W == World
           K == SentQoS0(q[c], P)
           w == [W EXCEPT !.q[c] = cq, !.msg_store = DerefMsgs(@, q[c].inflight, K)]
<1>1. Balanced(Strict, W, {}) /\ W.q = q /\ SessionTyped
  BY DEF StoreInv, Balance, Typed, World
<1>2. Disconnected(SendWill(w, c, {}), c)
  BY DEF WriteFails
<1> HIDE DEF W, K
<1>3. Balanced(Strict, [W EXCEPT !.q[c] = cq, !.msg_store = DerefMsgs(@, W.q[c].inflight, K)], {})
  <2>1. K \in SUBSET (DOMAIN W.q[c].inflight) /\ Leaves(W.q[c], cq, K)
    BY <1>1 DEF K
  <2> QED BY <1>1, <2>1, LeaveBalanced
<1>4. Balanced(Strict, w, {})
  BY <1>1, <1>3
<1> HIDE DEF w
<1>5. Balanced(Strict, SendWill(w, c, {}), {})
  BY <1>1, <1>4, SendWillBalanced
<1> QED BY <1>2, <1>5, DisconnectedBalanced

(* Both places where db__message_write may fail.                            *)
LEMMA LoopFailsBalanced ==
  ASSUME NEW Strict, StoreInv(Strict), NEW c \in Clients, LoopFails(c)
  PROVE  Balance(Strict)'
<1>1. q[c] \in SoundQueues
  BY DEF StoreInv, Typed
<1>2. ASSUME NEW i \in Pending(q[c]) \cup {0},
             WriteFails(c, WriteFailsAt(q[c], i), {j \in Pending(q[c]) : j < i}, <<>>)
      PROVE  Balance(Strict)'
  <2> DEFINE P == {j \in Pending(q[c]) : j < i}
             r == WriteFailsAt(q[c], i)
             n == <<>>
  <2>1. /\ r \in SoundQueues /\ SentQoS0(q[c], P) \in SUBSET (DOMAIN q[c].inflight)
        /\ Leaves(q[c], r, SentQoS0(q[c], P))
    BY <1>1, <1>2, WriteSound, WriteLeaves DEF SentQoS0, Pending
  <2>2. WriteFails(c, r, P, n)
    BY <1>2
  <2> HIDE DEF P, r, n
  <2> QED BY <2>1, <2>2, WriteFailsBalanced
<1>3. ASSUME NEW j \in 1..WriteMoves(q[c]), q[c].queued[j].dir = "in",
             WriteFails(c, WriteFailsAtPubrec(q[c], j), Pending(q[c]), DequeuePubrecs(q[c], j - 1))
      PROVE  Balance(Strict)'
  <2> DEFINE P == Pending(q[c])
             r == WriteFailsAtPubrec(q[c], j)
             n == DequeuePubrecs(q[c], j - 1)
  <2>1. /\ r \in SoundQueues /\ SentQoS0(q[c], P) \in SUBSET (DOMAIN q[c].inflight)
        /\ Leaves(q[c], r, SentQoS0(q[c], P))
    BY <1>1, <1>3, WriteSound, WriteLeaves DEF SentQoS0, Pending
  <2>2. WriteFails(c, r, P, n)
    BY <1>3
  <2> HIDE DEF P, r, n
  <2> QED BY <2>1, <2>2, WriteFailsBalanced
<1> QED BY <1>2, <1>3 DEF LoopFails

-----------------------------------------------------------------------------
(* The store stays balanced.                                                *)

(* At the start nothing is stored and nothing refers to it.                 *)
LEMMA InitBalanced ==
  ASSUME NEW Strict, Init
  PROVE  StoreInv(Strict)
<1> DEFINE none == <<>>
           v == [q |-> q, msg_store |-> none, last_db_id |-> 0, retained |-> {}, disused |-> none]
<1>1. Typed(SoundQueues)
  BY SoundClosed, InitTyped DEF Closed
<1>2. /\ q = [c \in Clients |-> EmptyQueue] /\ msg_store = none /\ last_db_id = 0
      /\ retained = {} /\ disused = none
  BY DEF Init
<1>3. World = v
  <2> HIDE DEF none
  <2> QED BY <1>2 DEF World
<1>4. World \in Worlds(SoundQueues)
  BY <1>1, WorldType DEF Typed
<1>5. DOMAIN none = {}
  OBVIOUS
<1> HIDE DEF none
<1>6. ASSUME NEW id PROVE ListRefs(q, id) = 0
  <2> DEFINE A == [c \in Clients |-> RefAt(q[c], id)]
  <2>1. ASSUME NEW c \in Clients PROVE A[c] = {}
    <3>1. DOMAIN (EmptyQueue.inflight \o EmptyQueue.queued) = {}
      BY DEF EmptyQueue
    <3>2. RefAt(EmptyQueue, id) = {}
      BY <3>1 DEF RefAt
    <3> QED BY <1>2, <3>2
  <2> HIDE DEF A
  <2>2. Pile(Clients, A) = {}
    BY <2>1 DEF Pile
  <2> QED BY <2>2, FS_EmptySet DEF ListRefs, A
<1>7. ASSUME NEW id \in Nat PROVE Owed(v, id) = Stock(v.msg_store, id)
  <2>1. Stock(none, id) = 0
    BY <1>5 DEF Stock
  <2>2. IdAt(none, DOMAIN none, id) = 0
    <3>1. {i \in DOMAIN none : none[i].id = id} = {}
      BY <1>5
    <3> QED BY <3>1, FS_EmptySet DEF IdAt
  <2>3. Kept({}, id) = 0
    BY KeptIs
  <2>4. v.q = q /\ v.msg_store = none /\ v.disused = none /\ v.retained = {}
    OBVIOUS
  <2> HIDE DEF v
  <2> QED BY <1>6, <2>1, <2>2, <2>3, <2>4 DEF Owed
<1>8. v.retained = {} /\ DOMAIN v.msg_store = {}
  BY <1>5
<1> HIDE DEF v
<1>9. Balanced(Strict, v, {})
  BY <1>3, <1>4, <1>7, <1>8 DEF Balanced
<1> QED BY <1>1, <1>3, <1>9 DEF StoreInv, Balance

(* Every step of the broker and its clients leaves the store balanced.      *)
LEMMA StepBalanced ==
  ASSUME NEW Strict, Strict => Unlimited, StoreInv(Strict), [Next]_vars
  PROVE  StoreInv(Strict)'
<1>1. Typed(SoundQueues)'
  BY SoundClosed, StepTyped DEF StoreInv
<1>2. ASSUME UNCHANGED vars
      PROVE  Balance(Strict)'
  BY <1>2, SameBalance DEF vars, StoreInv
<1>3. ASSUME Loop
      PROVE  Balance(Strict)'
  BY <1>3, LoopBalanced
<1>4. ASSUME NEW c \in Clients, Connect(c)
      PROVE  Balance(Strict)'
  BY <1>4, ConnectBalanced
<1>5. ASSUME NEW c \in Clients, Disconnect(c) \/ ConnectionLost(c) \/ Expire(c)
      PROVE  Balance(Strict)'
  BY <1>5, LeaveStepBalanced
<1>6. ASSUME NEW c \in Clients, LoopFails(c)
      PROVE  Balance(Strict)'
  BY <1>6, LoopFailsBalanced
<1>7. ASSUME NEW c \in Clients, Subscribe(c) \/ Unsubscribe(c)
      PROVE  Balance(Strict)'
  BY <1>7, SubscribeBalanced
<1>8. ASSUME NEW c \in Clients, Publish(c)
      PROVE  Balance(Strict)'
  BY <1>8, PublishBalanced
<1>9. ASSUME NEW c \in Clients, NEW mid \in ClientMids, PublishQoS2(c, mid)
      PROVE  Balance(Strict)'
  BY <1>9, PublishQoS2Balanced
<1>10. ASSUME NEW c \in Clients, Resend(c)
       PROVE  Balance(Strict)'
  BY <1>10, ResendBalanced
<1>11. ASSUME NEW c \in Clients, Read(c)
       PROVE  Balance(Strict)'
  BY <1>11, ReadBalanced
<1>12. Balance(Strict)'
  BY <1>2, <1>3, <1>4, <1>5, <1>6, <1>7, <1>8, <1>9, <1>10, <1>11 DEF Next
<1> QED BY <1>1, <1>12 DEF StoreInv

(* The counts of a balanced store are what refers to its messages.          *)
LEMMA BalancedExact ==
  ASSUME NEW Strict, StoreInv(Strict)
  PROVE  RefsExact
<1>1. ASSUME NEW id \in 1..last_db_id
      PROVE  References(id) = IF id \in DOMAIN msg_store THEN msg_store[id] ELSE 0
  <2> DEFINE A == [c \in Clients |-> RefAt(q[c], id)]
             L == {x \in UNION {{c} \X DOMAIN Messages(c) : c \in Clients} :
                     Messages(x[1])[x[2]].store.id = id}
  <2>1. /\ id \in Nat /\ Owed(World, id) = Stock(World.msg_store, id)
        /\ World.q = q /\ World.msg_store = msg_store /\ World.disused = disused
        /\ World.retained = retained
    <3>1. last_db_id \in Nat
      BY DEF StoreInv, Typed, StoreTyped
    <3> QED BY <3>1, BalancedParts DEF StoreInv, Balance, World
  <2>2. L = Pile(Clients, A)
    <3>1. ASSUME NEW x PROVE x \in L <=> x \in Pile(Clients, A)
      <4>1. x \in Pile(Clients, A) <=> \E c \in Clients : x \in {c} \X A[c]
        BY DEF Pile
      <4>2. ASSUME NEW c \in Clients
            PROVE  A[c] = {i \in DOMAIN Messages(c) : Messages(c)[i].store.id = id}
        BY DEF RefAt, Messages
      <4> HIDE DEF A
      <4> QED BY <4>1, <4>2
    <3> HIDE DEF L, A
    <3> QED BY <3>1
  <2>3. ListRefs(q, id) = Cardinality(L)
    <3> HIDE DEF L
    <3> QED BY <2>2 DEF ListRefs
  <2>4. References(id) = ListRefs(q, id) + IdAt(disused, DOMAIN disused, id) + Kept(retained, id)
    BY <2>3 DEF References, IdAt, Kept
  <2>5. Owed(World, id) = ListRefs(q, id) + IdAt(disused, DOMAIN disused, id) + Kept(retained, id)
    BY <2>1 DEF Owed
  <2> QED BY <2>1, <2>4, <2>5 DEF Stock
<1> QED BY <1>1 DEF RefsExact

(* ref_count is, for every limit, setting and number of clients, the number *)
(* of list entries, of live and of disused contexts, and of retained        *)
(* messages that point to the message, and a freed message has none: every  *)
(* db__msg_store_deref of the handlers is of a message that one of them has *)
(* let go of, and none is forgotten.                                        *)
THEOREM ReferencesCounted == Spec => []RefsExact
<1>1. StoreInv(Unlimited) => RefsExact
  BY BalancedExact
<1>2. Init => StoreInv(Unlimited)
  BY InitBalanced
<1>3. StoreInv(Unlimited) /\ [Next]_vars => StoreInv(Unlimited)'
  BY StepBalanced
<1> QED BY <1>1, <1>2, <1>3, PTL DEF Spec

(* Where the queues have no limit no message stays in the store that        *)
(* nothing refers to.  With one the insert of a message from a client may   *)
(* be dropped, and handle__publish then leaves it stored with a count of 0. *)
THEOREM NothingLeaks ==
  ASSUME MaxQueued = 0, MaxQueuedBytes = 0
  PROVE  Spec => []NoLeak
<1>1. ASSUME StoreInv(Unlimited), NEW id \in DOMAIN msg_store
      PROVE  msg_store[id] > 0
  <2>1. /\ World.msg_store = msg_store /\ Balanced(Unlimited, World, {})
    BY <1>1 DEF StoreInv, Balance, World
  <2>2. /\ id \in Nat /\ Owed(World, id) \in Nat /\ Owed(World, id) = Stock(msg_store, id)
    BY <2>1, BalancedParts
  <2>3. Stock(msg_store, id) = msg_store[id]
    BY DEF Stock
  <2>4. msg_store[id] # 0
    BY <2>1 DEF Balanced, Unlimited
  <2> QED BY <2>2, <2>3, <2>4
<1>2. StoreInv(Unlimited) => NoLeak
  BY <1>1 DEF NoLeak
<1>3. Init => StoreInv(Unlimited)
  BY InitBalanced
<1>4. StoreInv(Unlimited) /\ [Next]_vars => StoreInv(Unlimited)'
  BY StepBalanced
<1> QED BY <1>2, <1>3, <1>4, PTL DEF Spec

-----------------------------------------------------------------------------
(* What a file says.                                                        *)

(* A message of a file was in one of the lists.                             *)
FileMsg == InflightMsg \cup QueuedMsg

(* The chunks of a client refer to messages that are in the file.           *)
ChunksFit(ch, stored) ==
  /\ ch \in [last_mid: Nat, msgs: Seq(FileMsg), leaf: QoS \cup {NoLeaf}]
  /\ \A i \in DOMAIN ch.msgs : ch.msgs[i].store.id \in stored

FileFits(f) ==
  /\ f.last_db_id \in Nat /\ f.stored \subseteq 1..f.last_db_id
  /\ f.retained = {} \/ \E r \in Stored : f.retained = {r}
  /\ \A r \in f.retained : r.id \in f.stored
  /\ DOMAIN f.clients \subseteq Clients
  /\ \A c \in DOMAIN f.clients : ChunksFit(f.clients[c], f.stored)

(* A walk that keeps only elements of a set makes a list over it.           *)
LEMMA KeepInto ==
  ASSUME NEW S, NEW s \in Seq(S), NEW K \in SUBSET (DOMAIN s), NEW A, \A i \in K : s[i] \in A
  PROVE  Keep(s, K) \in Seq(A)
<1> DEFINE B == S \ A
           t == Keep(s, K)
<1>1. t \in Seq(S)
  BY KeepType
<1>2. Counts(S, B)[t] = 0
  <2>1. Counts(S, B)[t] = Cardinality({i \in K : s[i] \in B})
    BY KeepCounts
  <2>2. {i \in K : s[i] \in B} = {}
    OBVIOUS
  <2> QED BY <2>1, <2>2, FS_EmptySet
<1> HIDE DEF t
<1>3. \A i \in DOMAIN t : t[i] \notin B
  <2> HIDE DEF B
  <2> QED BY <1>1, <1>2, FewCounted
<1>4. \A i \in DOMAIN t : t[i] \in A
  BY <1>1, <1>3
<1>5. t \in Seq(A)
  BY <1>1, <1>4
<1> QED BY <1>5 DEF t

(* Every message of a file goes into the list that its state belongs to.    *)
LEMMA FileMsgIs ==
  ASSUME NEW m \in FileMsg
  PROVE  /\ m \in ClientMsg
         /\ m.state = "queued" => m \in QueuedMsg
         /\ m.state # "queued" => m \in InflightMsg
BY StatesForAre DEF FileMsg, InflightMsg, QueuedMsg

(* The context of a client that was in the file has sound lists, with the   *)
(* references of the file.                                                  *)
LEMMA RestoredSound ==
  ASSUME NEW ch, NEW stored, ChunksFit(ch, stored)
  PROVE  /\ Restored(ch) \in SoundQueues
         /\ \A id : Total(RefCount(id), Restored(ch)) = RefCount(id)[ch.msgs]
<1> DEFINE s  == ch.msgs
           qd == {i \in DOMAIN s : s[i].state = "queued"}
           a  == Keep(s, DOMAIN s \ qd)
           b  == Keep(s, qd)
<1>1. s \in Seq(FileMsg) /\ ch.last_mid \in Nat
  BY DEF ChunksFit
<1>2. \A i \in DOMAIN s : s[i] \in FileMsg
  BY <1>1
<1>3. s \in Seq(ClientMsg)
  <2>1. FileMsg \subseteq ClientMsg
    BY FileMsgIs
  <2> HIDE DEF s
  <2> QED BY <1>1, <2>1
<1>4. \A i \in qd : s[i] \in QueuedMsg
  BY <1>2, FileMsgIs
<1>5. \A i \in DOMAIN s \ qd : s[i] \in InflightMsg
  BY <1>2, FileMsgIs
<1>6. Restored(ch) = [inflight |-> a, queued |-> b, tally |-> NoTally, last_mid |-> ch.last_mid]
  BY DEF Restored
<1>7. qd \in SUBSET (DOMAIN s) /\ DOMAIN s \ qd \in SUBSET (DOMAIN s)
  OBVIOUS
<1> HIDE DEF s, qd
<1>8. a \in Seq(InflightMsg)
  BY <1>3, <1>5, <1>7, KeepInto
<1>9. b \in Seq(QueuedMsg)
  BY <1>3, <1>4, <1>7, KeepInto
<1>10. \A id : RefCount(id)[b] + RefCount(id)[a] = RefCount(id)[s]
  <2>1. \A id : Additive(RefCount(id), ClientMsg)
    BY RefCountType DEF StateFree
  <2> QED BY <1>3, <2>1, AddKeep
<1>11. a \in Seq(ClientMsg) /\ b \in Seq(ClientMsg)
  BY <1>3, KeepType
<1>12. \A id : RefCount(id)[a] \in Nat /\ RefCount(id)[b] \in Nat
  BY <1>11, RefCountType
<1> HIDE DEF a, b
<1>13. NoTally \in Tallies
  BY DEF NoTally, Tallies
<1>14. Restored(ch) \in SoundQueues
  BY <1>1, <1>6, <1>8, <1>9, <1>13 DEF SoundQueues
<1>15. ASSUME NEW id PROVE Total(RefCount(id), Restored(ch)) = RefCount(id)[s]
  <2>1. Restored(ch).inflight = a /\ Restored(ch).queued = b
    BY <1>6
  <2>2. RefCount(id)[a] + RefCount(id)[b] = RefCount(id)[s]
    BY <1>10, <1>12
  <2> QED BY <2>1, <2>2 DEF Total
<1> QED BY <1>14, <1>15 DEF s
(* The queues that persist__restore makes.                                  *)
QueuesOf(f) ==
  [c \in Clients |-> IF c \in DOMAIN f.clients THEN Restored(f.clients[c]) ELSE EmptyQueue]

(* The positions of the file that refer to a message.                       *)
FileRefs(f, id) ==
  {x \in UNION {{c} \X DOMAIN f.clients[c].msgs : c \in DOMAIN f.clients} :
     f.clients[x[1]].msgs[x[2]].store.id = id}

(* The lists of the restored contexts refer to a message as often as the    *)
(* file does.                                                               *)
LEMMA RestoredRefs ==
  ASSUME NEW f, FileFits(f), NEW id
  PROVE  /\ QueuesOf(f) \in [Clients -> SoundQueues]
         /\ ListRefs(QueuesOf(f), id) = Cardinality(FileRefs(f, id))
         /\ ListRefs(QueuesOf(f), id) \in Nat
<1> DEFINE D  == DOMAIN f.clients
           qs == QueuesOf(f)
           A  == [c \in Clients |-> RefAt(qs[c], id)]
           B  == [c \in Clients |-> IF c \in D THEN {i \in DOMAIN f.clients[c].msgs :
                                                     f.clients[c].msgs[i].store.id = id}
                                               ELSE {}]
           E  == [c \in Clients |-> {}]
<1>1. D \subseteq Clients /\ \A c \in D : ChunksFit(f.clients[c], f.stored)
  BY DEF FileFits
<1>2. ASSUME NEW c \in D
      PROVE  /\ qs[c] \in SoundQueues
             /\ Cardinality(B[c]) = Total(RefCount(id), qs[c])
  <2> DEFINE s == f.clients[c].msgs
             P == {i \in DOMAIN s : s[i].store.id = id}
  <2>1. qs[c] = Restored(f.clients[c]) /\ B[c] = P
    BY <1>1, <1>2 DEF QueuesOf
  <2>2. /\ Restored(f.clients[c]) \in SoundQueues
        /\ Total(RefCount(id), Restored(f.clients[c])) = RefCount(id)[s]
    BY <1>1, <1>2, RestoredSound
  <2>3. s \in Seq(ClientMsg)
    <3>1. FileMsg \subseteq ClientMsg /\ s \in Seq(FileMsg)
      BY <1>1, <1>2, FileMsgIs DEF ChunksFit
    <3> HIDE DEF s
    <3> QED BY <3>1
  <2> HIDE DEF s
  <2>4. P = {i \in DOMAIN s : s[i] \in Refers(id)}
    BY <2>3 DEF Refers
  <2>5. RefCount(id)[s] = Cardinality(P)
    BY <2>3, <2>4 DEF RefCount, Counts
  <2> HIDE DEF P, B, qs
  <2> QED BY <2>1, <2>2, <2>5
<1>3. ASSUME NEW c \in Clients \ D
      PROVE  qs[c] \in SoundQueues /\ A[c] = {} /\ B[c] = {}
  <2>1. qs[c] = EmptyQueue
    BY <1>3 DEF QueuesOf
  <2>2. EmptyQueue \in SoundQueues
    BY SoundClosed DEF Closed, Stable, Serves
  <2>3. DOMAIN (EmptyQueue.inflight \o EmptyQueue.queued) = {}
    BY DEF EmptyQueue
  <2>4. RefAt(EmptyQueue, id) = {}
    BY <2>3 DEF RefAt
  <2>5. A[c] = RefAt(qs[c], id) /\ B[c] = {}
    BY <1>3
  <2> HIDE DEF A, B, qs
  <2> QED BY <2>1, <2>2, <2>4, <2>5
<1>4. qs \in [Clients -> SoundQueues]
  <2>1. \A c \in Clients : qs[c] \in SoundQueues
    BY <1>2, <1>3
  <2>2. DOMAIN qs = Clients /\ qs = [c \in Clients |-> qs[c]]
    BY DEF QueuesOf
  <2> HIDE DEF qs
  <2> QED BY <2>1, <2>2
<1> HIDE DEF qs
<1>5. ASSUME NEW c \in Clients
      PROVE  /\ IsFiniteSet(A[c]) /\ IsFiniteSet(B[c]) /\ IsFiniteSet(E[c])
             /\ Cardinality(A[c]) = Cardinality(B[c]) + Cardinality(E[c])
  <2>1. /\ IsFiniteSet(A[c]) /\ Cardinality(A[c]) = Total(RefCount(id), qs[c])
        /\ Cardinality(A[c]) \in Nat
    BY <1>4, RefCountType
  <2>2. IsFiniteSet(E[c]) /\ Cardinality(E[c]) = 0
    BY FS_EmptySet
  <2>3. IsFiniteSet(B[c])
    <3>1. CASE c \in D
      <4>1. f.clients[c].msgs \in Seq(FileMsg)
        BY <1>1, <3>1 DEF ChunksFit
      <4>2. B[c] \in SUBSET DOMAIN f.clients[c].msgs
        BY <3>1
      <4> HIDE DEF B
      <4> QED BY <4>1, <4>2, FiniteDomain
    <3> QED BY <3>1, FS_EmptySet
  <2>4. Cardinality(A[c]) = Cardinality(B[c])
    <3>1. CASE c \in D
      BY <1>2, <2>1, <3>1
    <3>2. CASE c \notin D
      BY <1>3, <3>2
    <3> QED BY <3>1, <3>2
  <2> HIDE DEF A, B, E
  <2> QED BY <2>1, <2>2, <2>3, <2>4
<1>6. Pile(Clients, E) = {}
  BY DEF Pile
<1>7. Pile(Clients, B) = FileRefs(f, id)
  <2>1. ASSUME NEW x PROVE x \in Pile(Clients, B) <=> x \in FileRefs(f, id)
    <3>1. x \in Pile(Clients, B) <=> \E c \in D : x \in {c} \X B[c]
      <4>1. x \in Pile(Clients, B) <=> \E c \in Clients : x \in {c} \X B[c]
        BY DEF Pile
      <4>2. \A c \in Clients \ D : B[c] = {}
        OBVIOUS
      <4> HIDE DEF B
      <4>3. ASSUME NEW c \in Clients, x \in {c} \X B[c] PROVE c \in D
        BY <4>2, <4>3
      <4> QED BY <1>1, <4>1, <4>3
    <3>2. ASSUME NEW c \in D
          PROVE  B[c] = {i \in DOMAIN f.clients[c].msgs : f.clients[c].msgs[i].store.id = id}
      BY <1>1
    <3> HIDE DEF B
    <3> QED BY <3>1, <3>2 DEF FileRefs
  <2> HIDE DEF B
  <2> QED BY <2>1
<1>8. ListRefs(qs, id) = Cardinality(Pile(Clients, A)) /\ IsFiniteSet(Clients)
  BY BrokerAssumption DEF ListRefs
<1> HIDE DEF A, B, E
<1>9. /\ IsFiniteSet(Pile(Clients, A))
      /\ Cardinality(Pile(Clients, A)) = Cardinality(Pile(Clients, B)) + Cardinality(Pile(Clients, E))
  BY <1>5, <1>8, PileAdds, PileFinite
<1>10. IsFiniteSet(Pile(Clients, B)) /\ Cardinality({}) = 0
  BY <1>5, <1>8, PileFinite, FS_EmptySet
<1>11. Cardinality(Pile(Clients, B)) \in Nat
  BY <1>10, FS_CardinalityType
<1> QED BY <1>4, <1>6, <1>7, <1>8, <1>9, <1>10, <1>11 DEF qs

(* A broker that starts from a file that fits has typed variables, and its  *)
(* counts are the references that it has restored.                          *)
LEMMA StartBalanced ==
  ASSUME Typed(SoundQueues), NEW f, FileFits(f), Start(f)
  PROVE  StoreInv(FALSE)'
<1> DEFINE refs == [id \in f.stored |-> RefsIn(f, id)]
           none == <<>>
           w == [q |-> QueuesOf(f), msg_store |-> refs, last_db_id |-> f.last_db_id,
                 retained |-> f.retained, disused |-> none]
<1>1. /\ f.last_db_id \in Nat /\ f.stored \subseteq 1..f.last_db_id /\ f.retained \subseteq Stored
      /\ DOMAIN f.clients \subseteq Clients
  BY DEF FileFits
<1>2. ASSUME NEW id
      PROVE  /\ QueuesOf(f) \in [Clients -> SoundQueues]
             /\ RefsIn(f, id) = ListRefs(QueuesOf(f), id) + Kept(f.retained, id)
             /\ ListRefs(QueuesOf(f), id) \in Nat
             /\ RefsIn(f, id) \in Nat /\ Kept(f.retained, id) \in Nat
             /\ RefsIn(f, id) = Cardinality(FileRefs(f, id)) + Kept(f.retained, id)
             /\ ~(\E r \in f.retained : r.id = id) => Kept(f.retained, id) = 0
  <2>1. (IF \E r \in f.retained : r.id = id THEN 1 ELSE 0) = Kept(f.retained, id)
    <3>1. CASE f.retained = {}
      BY <3>1, KeptIs
    <3>2. CASE \E r \in Stored : f.retained = {r}
      BY <3>2, KeptIs
    <3> QED BY <3>1, <3>2 DEF FileFits
  <2>2. RefsIn(f, id) = Cardinality(FileRefs(f, id)) + Kept(f.retained, id)
    <3>1. RefsIn(f, id) = Cardinality(FileRefs(f, id)) + (IF \E r \in f.retained : r.id = id THEN 1 ELSE 0)
      BY DEF RefsIn, FileRefs
    <3> QED BY <2>1, <3>1
  <2>3. Kept(f.retained, id) \in Nat
    BY <2>1
  <2> QED BY <2>1, <2>2, <2>3, RestoredRefs
<1>3. Become(w)
  BY DEF Start, Become, QueuesOf
<1>4. refs \in [f.stored -> Int] /\ DOMAIN refs = f.stored
  BY <1>2
<1>5. w \in Worlds(SoundQueues)
  <2>1. f.stored \in SUBSET Nat
    BY <1>1
  <2>2. refs \in UNION {[E -> Int] : E \in SUBSET Nat}
    BY <1>4, <2>1
  <2>3. none \in Seq(Stored) /\ QueuesOf(f) \in [Clients -> SoundQueues]
    BY <1>2
  <2> HIDE DEF refs, none
  <2> QED BY <1>1, <1>4, <2>2, <2>3 DEF Worlds
<1>6. ASSUME NEW id \in Nat PROVE Owed(w, id) = Stock(w.msg_store, id)
  <2>1. IdAt(none, DOMAIN none, id) = 0
    <3>1. {i \in DOMAIN none : none[i].id = id} = {}
      OBVIOUS
    <3> QED BY <3>1, FS_EmptySet DEF IdAt
  <2>2. Owed(w, id) = ListRefs(QueuesOf(f), id) + 0 + Kept(f.retained, id)
    BY <2>1 DEF Owed
  <2>3. Owed(w, id) = RefsIn(f, id)
    <3>1. Kept(f.retained, id) \in Nat
      BY <1>2
    <3> QED BY <1>2, <2>2, <3>1
  <2>4. CASE id \in f.stored
    BY <1>4, <2>3, <2>4 DEF Stock
  <2>5. CASE id \notin f.stored
    <3>1. FileRefs(f, id) = {}
      <4>1. ASSUME NEW c \in DOMAIN f.clients, NEW i \in DOMAIN f.clients[c].msgs
            PROVE  f.clients[c].msgs[i].store.id # id
        BY ONLY FileFits(f), <2>5, <4>1 DEF FileFits, ChunksFit
      <4> QED BY ONLY <4>1 DEF FileRefs
    <3>2. ~ \E r \in f.retained : r.id = id
      BY <2>5 DEF FileFits
    <3>3. Cardinality(FileRefs(f, id)) = 0
      BY <3>1, FS_EmptySet
    <3>4. RefsIn(f, id) = 0
      BY <1>2, <3>2, <3>3
    <3> QED BY <1>4, <2>3, <2>5, <3>4 DEF Stock
  <2> QED BY <2>4, <2>5
<1>7. Balanced(FALSE, w, {})
  <2>1. w.retained = f.retained
    OBVIOUS
  <2> HIDE DEF w
  <2> QED BY <1>5, <1>6, <2>1 DEF Balanced, FileFits
<1>8. Balance(FALSE)'
  <2> HIDE DEF w
  <2> QED BY <1>3, <1>7, BecomeBalanced
<1>9. q' \in [Clients -> SoundQueues] /\ StoreTyped'
  <2> HIDE DEF w
  <2> QED BY <1>3, <1>5, BecomeTyped
<1>10. SessionTyped' /\ LoopTyped'
  <2>1. \A c \in DOMAIN f.clients : f.clients[c].leaf \in QoS \cup {NoLeaf}
    BY DEF FileFits, ChunksFit
  <2> QED BY <2>1 DEF Start, SessionTyped, LoopTyped
<1>11. PeerTyped' /\ HistoryTyped'
  BY DEF Start, Typed, PeerTyped, HistoryTyped, history
<1> QED BY <1>8, <1>9, <1>10, <1>11 DEF StoreInv, Typed

-----------------------------------------------------------------------------
(* What is written.                                                         *)

(* persist__backup writes a file that can be restored.                      *)
LEMMA BackupFits ==
  ASSUME StoreInv(FALSE)
  PROVE  FileFits(Backup)
<1> DEFINE W == World
<1>1. /\ Balanced(FALSE, W, {}) /\ W.q = q /\ W.msg_store = msg_store /\ W.retained = retained
      /\ W.last_db_id = last_db_id
  BY DEF StoreInv, Balance, World
<1> HIDE DEF W
<1>2. /\ last_db_id \in Nat /\ DOMAIN msg_store \subseteq 1..last_db_id
      /\ q \in [Clients -> SoundQueues]
  BY <1>1, BalancedParts
<1>3. /\ Backup.last_db_id = last_db_id /\ Backup.stored = DOMAIN msg_store
      /\ Backup.retained = retained /\ DOMAIN Backup.clients = Durable
      /\ \A c \in Durable : Backup.clients[c] = ClientChunks(q[c], leaf[c])
  BY DEF Backup
<1>4. retained = {} \/ \E r \in Stored : retained = {r}
  BY <1>1 DEF Balanced
<1>5. \A r \in retained : r.id \in DOMAIN msg_store
  <2>1. SUFFICES ASSUME NEW r \in retained PROVE r.id \in DOMAIN msg_store
    OBVIOUS
  <2>2. retained = {r} /\ r \in Stored
    BY <1>4, <2>1
  <2>3. Kept(retained, r.id) = 1 /\ r.id \in Nat
    BY <2>2, KeptIs DEF Stored
  <2>4. /\ ListRefs(q, r.id) \in Nat /\ IdAt(W.disused, DOMAIN W.disused, r.id) \in Nat
        /\ Owed(W, r.id) > 0 => r.id \in DOMAIN msg_store
    BY <1>1, <2>3, BalancedParts
  <2>5. Owed(W, r.id) = ListRefs(q, r.id) + IdAt(W.disused, DOMAIN W.disused, r.id) + 1
    BY <1>1, <2>3 DEF Owed
  <2> QED BY <2>4, <2>5
<1>6. Durable \subseteq Clients
  BY DEF Durable
<1>7. ASSUME NEW c \in Durable PROVE ChunksFit(ClientChunks(q[c], leaf[c]), DOMAIN msg_store)
  <2> DEFINE a == q[c].inflight
             b == q[c].queued
             ch == ClientChunks(q[c], leaf[c])
  <2>1. a \in Seq(InflightMsg) /\ b \in Seq(QueuedMsg) /\ q[c].last_mid \in Nat /\ c \in Clients
    BY <1>2, <1>6, <1>7, SoundParts
  <2>2. leaf[c] \in QoS \cup {NoLeaf}
    BY <2>1 DEF StoreInv, Typed, SessionTyped
  <2>3. ch.last_mid = q[c].last_mid /\ ch.msgs = a \o b /\ ch.leaf = leaf[c]
    BY DEF ClientChunks
  <2>4. \A i \in DOMAIN (a \o b) : (a \o b)[i].store.id \in DOMAIN msg_store
    BY <1>1, <2>1, MessageStored
  <2> HIDE DEF a, b, ch
  <2>5. a \o b \in Seq(FileMsg)
    <3>1. a \in Seq(FileMsg) /\ b \in Seq(FileMsg)
      BY <2>1 DEF FileMsg
    <3> QED BY <3>1
  <2>6. ch \in [last_mid: Nat, msgs: Seq(FileMsg), leaf: QoS \cup {NoLeaf}]
    BY <2>1, <2>2, <2>5 DEF ch, a, b, ClientChunks
  <2>7. ChunksFit(ch, DOMAIN msg_store)
    BY <2>3, <2>4, <2>6 DEF ChunksFit
  <2> QED BY <2>7 DEF ch
<1> QED BY <1>2, <1>3, <1>4, <1>5, <1>6, <1>7 DEF FileFits

(* So is what it leaves when a write fails.                                 *)
LEMMA CutFits ==
  ASSUME NEW f, FileFits(f), DOMAIN f = {"last_db_id", "stored", "clients", "retained"},
         NEW g, CutBackup(f, g)
  PROVE  FileFits(g)
<1>1. ASSUME NEW D \in SUBSET DOMAIN f.clients, NEW h, DOMAIN h = D,
             \A c \in D : ChunksFit(h[c], f.stored), g = [f EXCEPT !.retained = {}, !.clients = h]
      PROVE  FileFits(g)
  <2>1. g.retained = {} /\ g.clients = h /\ g.last_db_id = f.last_db_id /\ g.stored = f.stored
    BY <1>1
  <2>2. D \subseteq Clients
    BY DEF FileFits
  <2> QED BY <1>1, <2>1, <2>2 DEF FileFits
<1>2. ASSUME NEW d \in DOMAIN f.clients, NEW m, NEW lf \in QoS \cup {NoLeaf},
             m = f.clients[d].msgs \/ \E n \in 0..Len(f.clients[d].msgs) : m = SubSeq(f.clients[d].msgs, 1, n),
             NEW ch, ch = [f.clients[d] EXCEPT !.leaf = lf, !.msgs = m]
      PROVE  ChunksFit(ch, f.stored)
  <2> DEFINE s == f.clients[d].msgs
  <2>1. /\ s \in Seq(FileMsg) /\ \A i \in DOMAIN s : s[i].store.id \in f.stored
        /\ f.clients[d] \in [last_mid: Nat, msgs: Seq(FileMsg), leaf: QoS \cup {NoLeaf}]
    BY DEF FileFits, ChunksFit
  <2>2. m = s \/ \E n \in 0..Len(s) : m = SubSeq(s, 1, n)
    BY <1>2
  <2> HIDE DEF s
  <2>3. m \in Seq(FileMsg) /\ \A i \in DOMAIN m : m[i].store.id \in f.stored
    <3>1. ASSUME NEW n \in 0..Len(s), m = SubSeq(s, 1, n)
          PROVE  m \in Seq(FileMsg) /\ \A i \in DOMAIN m : i \in DOMAIN s /\ m[i] = s[i]
      <4>1. SubSeq(s, 1, n) \in Seq(FileMsg)
        BY <2>1, Prefixes
      <4>2. Len(SubSeq(s, 1, n)) = n /\ \A i \in 1..n : SubSeq(s, 1, n)[i] = s[i]
        BY <2>1
      <4> QED BY <2>1, <3>1, <4>1, <4>2
    <3> QED BY <2>1, <2>2, <3>1
  <2>4. ch \in [last_mid: Nat, msgs: Seq(FileMsg), leaf: QoS \cup {NoLeaf}] /\ ch.msgs = m
    BY <1>2, <2>1, <2>3
  <2> QED BY <2>3, <2>4 DEF ChunksFit
<1>3. ASSUME NEW d \in DOMAIN f.clients
      PROVE  f.clients[d].leaf \in QoS \cup {NoLeaf}
  BY DEF FileFits, ChunksFit
<1>4. CASE \E D \in SUBSET DOMAIN f.clients : \E c \in D : \E n \in 0..Len(f.clients[c].msgs) :
             g = [f EXCEPT !.retained = {},
                    !.clients = [d \in D |->
                      [f.clients[d] EXCEPT !.leaf = NoLeaf,
                                           !.msgs = IF d = c THEN SubSeq(@, 1, n) ELSE @]]]
  <2>0. PICK D \in SUBSET DOMAIN f.clients : \E c \in D : \E n \in 0..Len(f.clients[c].msgs) :
             g = [f EXCEPT !.retained = {},
                    !.clients = [d \in D |->
                      [f.clients[d] EXCEPT !.leaf = NoLeaf,
                                           !.msgs = IF d = c THEN SubSeq(@, 1, n) ELSE @]]]
    BY <1>4
  <2>1. PICK c \in D : \E n \in 0..Len(f.clients[c].msgs) :
             g = [f EXCEPT !.retained = {},
                    !.clients = [d \in D |->
                      [f.clients[d] EXCEPT !.leaf = NoLeaf,
                                           !.msgs = IF d = c THEN SubSeq(@, 1, n) ELSE @]]]
    BY <2>0
  <2>n. PICK n \in 0..Len(f.clients[c].msgs) :
             g = [f EXCEPT !.retained = {},
                    !.clients = [d \in D |->
                      [f.clients[d] EXCEPT !.leaf = NoLeaf,
                                           !.msgs = IF d = c THEN SubSeq(@, 1, n) ELSE @]]]
    BY <2>1
  <2> DEFINE m(d) == IF d = c THEN SubSeq(f.clients[d].msgs, 1, n) ELSE f.clients[d].msgs
             h == [d \in D |-> [f.clients[d] EXCEPT !.leaf = NoLeaf, !.msgs = m(d)]]
  <2>2. ASSUME NEW d \in D PROVE ChunksFit(h[d], f.stored)
    <3>1. /\ d \in DOMAIN f.clients /\ NoLeaf \in QoS \cup {NoLeaf}
          /\ m(d) = f.clients[d].msgs
               \/ \E k \in 0..Len(f.clients[d].msgs) : m(d) = SubSeq(f.clients[d].msgs, 1, k)
          /\ h[d] = [f.clients[d] EXCEPT !.leaf = NoLeaf, !.msgs = m(d)]
      BY <2>n
    <3> HIDE DEF h, m
    <3> QED BY <1>2, <3>1
  <2>3. DOMAIN h = D /\ g = [f EXCEPT !.retained = {}, !.clients = h]
    BY <2>n
  <2> HIDE DEF h
  <2> QED BY <1>1, <2>2, <2>3
<1>5. CASE \E L \in SUBSET DOMAIN f.clients :
             g = [f EXCEPT !.retained = {},
                    !.clients = [d \in DOMAIN f.clients |->
                      [f.clients[d] EXCEPT !.leaf = IF d \in L THEN @ ELSE NoLeaf]]]
  <2>1. PICK L \in SUBSET DOMAIN f.clients :
             g = [f EXCEPT !.retained = {},
                    !.clients = [d \in DOMAIN f.clients |->
                      [f.clients[d] EXCEPT !.leaf = IF d \in L THEN @ ELSE NoLeaf]]]
    BY <1>5
  <2> DEFINE lf(d) == IF d \in L THEN f.clients[d].leaf ELSE NoLeaf
             h == [d \in DOMAIN f.clients |-> [f.clients[d] EXCEPT !.leaf = lf(d)]]
  <2>2. ASSUME NEW d \in DOMAIN f.clients PROVE ChunksFit(h[d], f.stored)
    <3>1. /\ lf(d) \in QoS \cup {NoLeaf} /\ h[d] = [f.clients[d] EXCEPT !.leaf = lf(d)]
      BY <1>3, <2>2
    <3> HIDE DEF h, lf
    <3>2. f.clients[d] \in [last_mid: Nat, msgs: Seq(FileMsg), leaf: QoS \cup {NoLeaf}]
      BY <2>2 DEF FileFits, ChunksFit
    <3>3. h[d] = [f.clients[d] EXCEPT !.leaf = lf(d), !.msgs = f.clients[d].msgs]
      BY <3>1, <3>2
    <3> QED BY <1>2, <2>2, <3>1, <3>3
  <2>3. DOMAIN h = DOMAIN f.clients /\ g = [f EXCEPT !.retained = {}, !.clients = h]
    BY <2>1
  <2> HIDE DEF h
  <2> QED BY <1>1, <2>2, <2>3
<1> QED BY <1>4, <1>5 DEF CutBackup

-----------------------------------------------------------------------------
(* The broker with its file.                                                *)

RInv == StoreInv(FALSE) /\ FileFits(file)

(* The initial file is empty.                                               *)
LEMMA InitFits == RInit => RInv
<1>1. FileFits(NoFile)
  BY DEF NoFile, FileFits
<1>2. Init => StoreInv(FALSE)
  BY InitBalanced
<1> QED BY <1>1, <1>2 DEF RInit, RInv

(* The will of a client that is sent when the broker shuts down.            *)
LEMMA LastWillBalanced ==
  ASSUME StoreInv(FALSE), NEW c \in Clients, LastWill(c)
  PROVE  StoreInv(FALSE)'
<1> DEFINE w == SendWill(World, c, {})
<1>1. Typed(SoundQueues) /\ Balanced(FALSE, World, {})
  BY DEF StoreInv, Balance
<1>2. Balanced(FALSE, w, {}) /\ Become(w)
  BY <1>1, SendWillBalanced DEF LastWill, Typed
<1> HIDE DEF w
<1>3. w \in Worlds(SoundQueues)
  BY <1>2, BalancedParts
<1>4. q' \in [Clients -> SoundQueues] /\ StoreTyped'
  BY <1>2, <1>3, BecomeTyped
<1>5. SessionTyped' /\ LoopTyped' /\ PeerTyped' /\ HistoryTyped'
  BY <1>1 DEF LastWill, Typed, SessionTyped, LoopTyped, PeerTyped, HistoryTyped, history
<1>6. Balance(FALSE)'
  BY <1>2, BecomeBalanced
<1> QED BY <1>4, <1>5, <1>6 DEF StoreInv, Typed

(* Every step of the broker, with its saves and restarts, keeps the store   *)
(* balanced and the file fit to start from.                                 *)
LEMMA RStepFits ==
  ASSUME RInv, [RNext]_rvars
  PROVE  RInv'
<1>1. StoreInv(FALSE) /\ FileFits(file) /\ Typed(SoundQueues)
  BY DEF RInv, StoreInv
<1>2. ASSUME UNCHANGED file PROVE FileFits(file)'
  BY <1>1, <1>2
<1>3. ASSUME [Next]_vars, UNCHANGED file PROVE RInv'
  BY <1>1, <1>2, <1>3, StepBalanced DEF RInv
<1>4. ASSUME Stopped PROVE RInv'
  BY <1>1, <1>2, <1>4, StartBalanced DEF RInv, Stopped
<1>5. FileFits(Backup)
  BY <1>1, BackupFits
<1>6. ASSUME Save PROVE RInv'
  <2>1. CASE Survives
    <3>1. file' = Backup \/ CutBackup(Backup, file')
      BY <1>6, <2>1 DEF Save
    <3>2. DOMAIN Backup = {"last_db_id", "stored", "clients", "retained"}
      BY DEF Backup
    <3>3. FileFits(file')
      BY <1>5, <3>1, <3>2, CutFits
    <3>4. StoreInv(FALSE)'
      BY <1>1, <1>6, <2>1, StepBalanced DEF Save
    <3> QED BY <3>3, <3>4 DEF RInv
  <2>2. CASE ~Survives
    BY <1>4, <1>6, <2>2 DEF Save
  <2> QED BY <2>1, <2>2
<1>7. ASSUME Shutdown PROVE RInv'
  <2>1. CASE Survives
    <3>1. file' = Backup /\ Start(file')
      BY <1>7, <2>1 DEF Shutdown
    <3>2. FileFits(file')
      BY <1>5, <3>1
    <3>3. StoreInv(FALSE)'
      BY <1>1, <3>1, <3>2, StartBalanced
    <3> QED BY <3>2, <3>3 DEF RInv
  <2>2. CASE ~Survives
    BY <1>4, <1>7, <2>2 DEF Shutdown
  <2> QED BY <2>1, <2>2
<1>8. ASSUME NEW c \in Clients, LastWill(c) PROVE RInv'
  <2>1. StoreInv(FALSE)'
    BY <1>1, <1>8, LastWillBalanced
  <2> QED BY <1>2, <1>8, <2>1 DEF RInv, LastWill
<1>9. CASE RNext
  BY <1>3, <1>4, <1>6, <1>7, <1>8, <1>9 DEF RNext, Running, Crash
<1>10. CASE UNCHANGED rvars
  BY <1>3, <1>10 DEF rvars
<1> QED BY <1>9, <1>10

(* ref_count is what refers to a message also in a broker that was started  *)
(* from its file, whenever and however the one before it stopped, and also  *)
(* when the write of the file had failed: the counts that persist__restore  *)
(* makes are those of the lists and of the retained message it restores.    *)
THEOREM ReferencesRestored == RSpec => []RefsExact
<1>1. RInv => RefsExact
  BY BalancedExact DEF RInv
<1> QED BY <1>1, InitFits, RStepFits, PTL DEF RSpec

-----------------------------------------------------------------------------
(* The sessions that are in the file.                                       *)

(* What a restart makes of the chunks of a client.                          *)
SessionOf(ch) == [inflight |-> Restored(ch).inflight, queued |-> Restored(ch).queued,
                  last_mid |-> Restored(ch).last_mid, leaf |-> ch.leaf]

SavedInFile ==
  /\ saved = [c \in DOMAIN file.clients |-> SessionOf(file.clients[c])]
  /\ faults \in [saves: Nat, shutdowns: Nat, crashes: Nat]

SInv == RInv /\ SavedInFile

(* The lists that persist__client_messages_write writes one after the other *)
(* are told apart by the states of their messages when they are read.       *)
LEMMA ChunksRestored ==
  ASSUME ~QueueQoS0, NEW cq \in SoundQueues, NEW qos
  PROVE  /\ Restored(ClientChunks(cq, qos)).inflight = cq.inflight
         /\ Restored(ClientChunks(cq, qos)).queued = cq.queued
         /\ Restored(ClientChunks(cq, qos)).last_mid = cq.last_mid
         /\ ClientChunks(cq, qos).leaf = qos
<1> DEFINE a == cq.inflight
           b == cq.queued
           s == a \o b
           qd == {i \in DOMAIN s : s[i].state = "queued"}
           r == Restored(ClientChunks(cq, qos))
<1>1. a \in Seq(InflightMsg) /\ b \in Seq(QueuedMsg) /\ a \in Seq(ClientMsg) /\ b \in Seq(ClientMsg)
  BY SoundParts
<1>2. r.inflight = Keep(s, DOMAIN s \ qd) /\ r.queued = Keep(s, qd) /\ r.last_mid = cq.last_mid
  BY DEF Restored, ClientChunks
<1>3. (\A i \in DOMAIN a : a[i].state # "queued") /\ \A i \in DOMAIN b : b[i].state = "queued"
  <2>1. \A i \in DOMAIN a : a[i] \in InflightMsg
    BY <1>1
  <2>2. \A i \in DOMAIN b : b[i] \in QueuedMsg
    BY <1>1
  <2> HIDE DEF a, b
  <2> QED BY <2>1, <2>2, StatesForAre DEF InflightMsg, QueuedMsg
<1> HIDE DEF a, b
<1>4. qd \in SUBSET (DOMAIN s) /\ \A i \in DOMAIN s : i \in qd <=> i > Len(a)
  <2>1. ASSUME NEW i \in DOMAIN s
        PROVE  s[i].state = "queued" <=> i > Len(a)
    <3>1. CASE i <= Len(a)
      <4>1. i \in DOMAIN a /\ s[i] = a[i]
        BY <1>1, <2>1, <3>1
      <4> QED BY <1>1, <1>3, <2>1, <3>1, <4>1
    <3>2. CASE i > Len(a)
      <4>1. i - Len(a) \in DOMAIN b /\ s[i] = b[i - Len(a)]
        BY <1>1, <2>1, <3>2
      <4> QED BY <1>3, <3>2, <4>1
    <3>3. i \in Nat /\ Len(a) \in Nat
      BY <1>1, <2>1
    <3> QED BY <3>1, <3>2, <3>3
  <2> HIDE DEF s
  <2> QED BY <2>1
<1> HIDE DEF qd, r
<1>5. Keep(s, qd) = b /\ Keep(s, DOMAIN s \ qd) = a
  BY ONLY <1>1, <1>4, KeepParts
<1>6. ClientChunks(cq, qos).leaf = qos
  BY DEF ClientChunks
<1> QED BY <1>2, <1>5, <1>6 DEF a, b, r

(* The file that persist__backup writes holds the durable sessions.         *)
LEMMA BackupSaves ==
  ASSUME ~QueueQoS0, StoreInv(FALSE)
  PROVE  Sessions(Durable, q, leaf)
           = [c \in DOMAIN Backup.clients |-> SessionOf(Backup.clients[c])]
<1>1. DOMAIN Backup.clients = Durable /\ \A c \in Durable : Backup.clients[c] = ClientChunks(q[c], leaf[c])
  BY DEF Backup
<1>2. ASSUME NEW c \in Durable
      PROVE  SessionOf(Backup.clients[c])
               = [inflight |-> q[c].inflight, queued |-> q[c].queued,
                  last_mid |-> q[c].last_mid, leaf |-> leaf[c]]
  <2>1. q[c] \in SoundQueues
    BY DEF StoreInv, Typed, Durable
  <2> QED BY <1>1, <2>1, ChunksRestored DEF SessionOf
<1> QED BY <1>1, <1>2 DEF Sessions

(* A restart gives the sessions of the file.                                *)
LEMMA StartRestores ==
  ASSUME NEW f, FileFits(f), Start(f)
  PROVE  /\ Durable' = DOMAIN f.clients
         /\ Sessions(Durable', q', leaf') = [c \in DOMAIN f.clients |-> SessionOf(f.clients[c])]
<1>1. DOMAIN f.clients \subseteq Clients
  BY DEF FileFits
<1>2. Durable' = DOMAIN f.clients
  BY <1>1 DEF Start, Durable
<1>3. ASSUME NEW c \in DOMAIN f.clients
      PROVE  q'[c] = Restored(f.clients[c]) /\ leaf'[c] = f.clients[c].leaf
  BY <1>1 DEF Start
<1> QED BY <1>2, <1>3 DEF Sessions, SessionOf

(* The initial file holds no session.                                       *)
LEMMA InitSaved == RInit => SInv
<1>1. SUFFICES ASSUME RInit PROVE SavedInFile
  BY InitFits DEF SInv
<1>2. saved = <<>> /\ file.clients = <<>>
  BY <1>1 DEF RInit, NoFile
<1>3. [c \in DOMAIN <<>> |-> SessionOf(file.clients[c])] = <<>>
  OBVIOUS
<1>4. faults \in [saves: Nat, shutdowns: Nat, crashes: Nat]
  BY <1>1 DEF RInit
<1> QED BY <1>2, <1>3, <1>4 DEF SavedInFile

(* A step keeps the durable sessions as they were saved those of the file,  *)
(* and one that restarts the broker gives them back.                        *)
LEMMA RStepSaved ==
  ASSUME ~QueueQoS0, ~WriteErrors, SInv, [RNext]_rvars
  PROVE  /\ SInv'
         /\ Restarted => Durable' = DOMAIN saved' /\ Sessions(Durable', q', leaf') = saved'
<1> DEFINE Back == Durable' = DOMAIN saved' /\ Sessions(Durable', q', leaf') = saved'
<1>1. /\ RInv /\ RInv' /\ StoreInv(FALSE) /\ FileFits(file) /\ FileFits(file')
      /\ faults \in [saves: Nat, shutdowns: Nat, crashes: Nat]
  BY RStepFits DEF SInv, RInv, SavedInFile
<1>2. ASSUME UNCHANGED <<file, saved, faults>>
      PROVE  SavedInFile' /\ ~Restarted
  BY <1>2 DEF SInv, SavedInFile, Restarted
<1>3. ASSUME SavedInFile', Start(file')
      PROVE  Back
  BY <1>1, <1>3, StartRestores DEF SavedInFile
<1>4. ASSUME Stopped
      PROVE  SavedInFile' /\ Back
  <2>1. SavedInFile'
    BY <1>1, <1>4 DEF Stopped, SInv, SavedInFile
  <2>2. Start(file')
    BY <1>4 DEF Stopped
  <2> QED BY <1>3, <2>1, <2>2
<1>5. ASSUME file' = Backup, saved' = Sessions(Durable, q, leaf),
             faults' \in [saves: Nat, shutdowns: Nat, crashes: Nat]
      PROVE  SavedInFile'
  BY <1>1, <1>5, BackupSaves DEF SavedInFile
<1>6. ASSUME Save PROVE SavedInFile' /\ (Restarted => Back)
  <2>1. CASE Survives
    <3>1. /\ file' = Backup /\ saved' = Sessions(Durable, q, leaf)
          /\ faults' = [faults EXCEPT !.saves = @ + 1]
      BY <1>6, <2>1 DEF Save
    <3>2. /\ faults' \in [saves: Nat, shutdowns: Nat, crashes: Nat]
          /\ faults'.shutdowns = faults.shutdowns /\ faults'.crashes = faults.crashes
      BY <1>1, <3>1
    <3> QED BY <1>5, <3>1, <3>2 DEF Restarted
  <2>2. CASE ~Survives
    BY <1>4, <1>6, <2>2 DEF Save
  <2> QED BY <2>1, <2>2
<1>7. ASSUME Shutdown PROVE SavedInFile' /\ (Restarted => Back)
  <2>1. CASE Survives
    <3>1. /\ file' = Backup /\ saved' = Sessions(Durable, q, leaf) /\ Start(file')
          /\ faults' = [faults EXCEPT !.shutdowns = @ + 1]
      BY <1>7, <2>1 DEF Shutdown
    <3>2. faults' \in [saves: Nat, shutdowns: Nat, crashes: Nat]
      BY <1>1, <3>1
    <3>3. SavedInFile'
      BY <1>5, <3>1, <3>2
    <3> QED BY <1>3, <3>1, <3>3
  <2>2. CASE ~Survives
    BY <1>4, <1>7, <2>2 DEF Shutdown
  <2> QED BY <2>1, <2>2
<1>8. ASSUME NEW c \in Clients, LastWill(c) PROVE SavedInFile' /\ ~Restarted
  BY <1>2, <1>8 DEF LastWill
<1>9. ASSUME Running \/ UNCHANGED rvars PROVE SavedInFile' /\ ~Restarted
  BY <1>2, <1>9 DEF Running, rvars
<1> HIDE DEF Back
<1>10. SavedInFile' /\ (Restarted => Back)
  BY <1>4, <1>6, <1>7, <1>8, <1>9 DEF RNext, Crash
<1> QED BY <1>1, <1>10 DEF SInv, Back

(* A broker that starts again has the durable sessions as they were when    *)
(* the file was written, both lists in order, the subscriptions and the     *)
(* last identifiers, if no write of the file failed.  It needs that no      *)
(* message of QoS 0 is queued: ResetVisit gives a queued message the state  *)
(* of one in flight, and such a message would change its list.              *)
THEOREM SessionsRestored ==
  ASSUME ~QueueQoS0, ~WriteErrors
  PROVE  RSpec => RestoredIsSaved
<1>1. SInv /\ [RNext]_rvars => SInv'
  BY RStepSaved
<1>2. SInv /\ [RNext]_rvars
        => [Restarted => Durable' = DOMAIN saved' /\ Sessions(Durable', q', leaf') = saved']_rvars
  BY RStepSaved
<1> QED BY <1>1, <1>2, InitSaved, PTL DEF RSpec, RestoredIsSaved

=============================================================================
