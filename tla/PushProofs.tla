------------------------------ MODULE PushProofs ----------------------------
(***************************************************************************)
(* A theorem about module Push: nobody is given a copy of a message twice  *)
(* when duplicates are off.                                                *)
(***************************************************************************)
EXTENDS Push, TLAPS, FiniteSetTheorems

(* The destination check of db__message_insert: a client that a message was *)
(* added for is one that the message remembers, and it was added once.      *)
Remembered ==
  /\ dest_ids \in [Ids -> SUBSET Clients] /\ added \in [Ids -> [Clients -> Nat]]
  /\ ~allow_duplicate_messages =>
       \A id \in Ids, c \in Clients :
         added[id][c] = 0 \/ (added[id][c] = 1 /\ c \in dest_ids[id])

(* A count goes up for those that take the message, by one.                 *)
LEMMA TookOne ==
  ASSUME NEW c, NEW took
  PROVE  Cardinality({c} \cap took) = IF c \in took THEN 1 ELSE 0
<1>1. CASE c \in took
  <2>1. {c} \cap took = {c}
    BY <1>1
  <2> QED BY <1>1, <2>1, FS_Singleton
<1>2. CASE c \notin took
  <2>1. {c} \cap took = {}
    BY <1>2
  <2> QED BY <1>2, <2>1, FS_EmptySet
<1> QED BY <1>1, <1>2

(* Offering a message to clients adds it only for those that it does not    *)
(* remember, and remembers them: in whatever order messages are routed,     *)
(* released and pushed.                                                     *)
LEMMA SentKeeps ==
  ASSUME Remembered, NEW s, NEW to \in SUBSET Clients, NEW qos,
         Sent(s, Takers(s, to, qos)), allow_duplicate_messages' = allow_duplicate_messages
  PROVE  Remembered'
<1> DEFINE took == Takers(s, to, qos)
<1>1. took \in SUBSET Clients
  BY DEF Takers, Unsent
<1>2. ~allow_duplicate_messages => \A c \in took : c \notin dest_ids[s.id]
  BY DEF Takers, Unsent
<1>3. added' = [added EXCEPT ![s.id] = [c \in Clients |-> @[c] + Cardinality({c} \cap took)]]
  BY DEF Sent
<1>4. dest_ids' = IF allow_duplicate_messages THEN dest_ids
                  ELSE [dest_ids EXCEPT ![s.id] = @ \cup took]
  BY DEF Sent
<1> HIDE DEF took
<1>5. dest_ids' \in [Ids -> SUBSET Clients]
  BY <1>1, <1>4 DEF Remembered
<1>6. \A c \in Clients : Cardinality({c} \cap took) = IF c \in took THEN 1 ELSE 0
  BY TookOne
<1>7. ASSUME NEW id \in Ids, id # s.id
      PROVE  added'[id] = added[id] /\ dest_ids'[id] = dest_ids[id]
  BY <1>3, <1>4, <1>7 DEF Remembered
<1>8. ASSUME s.id \in Ids, NEW c \in Clients
      PROVE  /\ added'[s.id][c] = added[s.id][c] + (IF c \in took THEN 1 ELSE 0)
             /\ ~allow_duplicate_messages => dest_ids'[s.id] = dest_ids[s.id] \cup took
  BY <1>3, <1>4, <1>6, <1>8 DEF Remembered
<1>9. added' \in [Ids -> [Clients -> Nat]]
  <2>1. \A c \in Clients : Cardinality({c} \cap took) \in Nat
    BY <1>6
  <2>2. s.id \in Ids => [c \in Clients |-> added[s.id][c] + Cardinality({c} \cap took)] \in [Clients -> Nat]
    BY <2>1 DEF Remembered
  <2> QED BY <1>3, <2>2 DEF Remembered
<1>10. ASSUME ~allow_duplicate_messages, NEW id \in Ids, NEW c \in Clients
       PROVE  added'[id][c] = 0 \/ (added'[id][c] = 1 /\ c \in dest_ids'[id])
  <2>1. added[id][c] = 0 \/ (added[id][c] = 1 /\ c \in dest_ids[id])
    BY <1>10 DEF Remembered
  <2>2. CASE id # s.id
    BY <1>7, <2>1, <2>2
  <2>3. CASE id = s.id
    BY <1>2, <1>8, <1>10, <2>1, <2>3
  <2> QED BY <2>2, <2>3
<1> QED BY <1>5, <1>9, <1>10 DEF Remembered

(* At the start no message has been added for anybody.                      *)
LEMMA InitRemembered == Init => Remembered
BY DEF Init, Remembered

(* Every step keeps it: a publication, a release by PUBREL and each message *)
(* of a walk of db__message_push are offered, and nothing else counts.      *)
LEMMA NextRemembered == Remembered /\ [Next]_vars => Remembered'
<1> SUFFICES ASSUME Remembered, [Next]_vars PROVE Remembered'
  OBVIOUS
<1>1. Subscribers \in SUBSET Clients /\ Pushers \in SUBSET Clients
  BY PushAssumption DEF PushAssumption
<1>2. ASSUME UNCHANGED <<allow_duplicate_messages, dest_ids, added>> PROVE Remembered'
  BY <1>2 DEF Remembered
<1>3. ASSUME NEW c \in Clients, Publish(c) PROVE Remembered'
  <2> DEFINE s == Message(pubs + 1, 1)
  <2>1. Sent(s, Takers(s, Subscribers, 1)) /\ allow_duplicate_messages' = allow_duplicate_messages
    BY <1>3 DEF Publish, Event, Poll
  <2> HIDE DEF s
  <2> QED BY <1>1, <2>1, SentKeeps
<1>4. ASSUME NEW c \in Clients, NEW mid, Pubrel(c, mid) PROVE Remembered'
  <2> DEFINE K == Matching(q[c].inflight, mid, "in")
             s == q[c].inflight[CHOOSE i \in K : \A j \in K : i <= j].store
  <2>1. Sent(s, Takers(s, Subscribers, 1)) /\ allow_duplicate_messages' = allow_duplicate_messages
    BY <1>4 DEF Pubrel, Event, Poll
  <2> HIDE DEF s
  <2> QED BY <1>1, <2>1, SentKeeps
<1>5. ASSUME Push PROVE Remembered'
  <2> DEFINE s == Here[walk.at].store
  <2>1. Sent(s, Takers(s, Pushers, 0)) /\ allow_duplicate_messages' = allow_duplicate_messages
    BY <1>5 DEF Push
  <2> HIDE DEF s
  <2> QED BY <1>1, <2>1, SentKeeps
<1>6. ASSUME NEW c \in Clients, NEW mid, PublishQoS2(c) \/ Lost(c) \/ Connect(c) \/ Puback(c, mid)
      PROVE  Remembered'
  BY <1>2, <1>6 DEF PublishQoS2, Lost, Connect, Puback, Event, Poll, history
<1>7. ASSUME NEW c \in Clients, MessageWrite(c) \/ MessagePush(c) PROVE Remembered'
  BY <1>2, <1>7 DEF MessageWrite, MessagePush, history
<1>8. ASSUME Iteration \/ PassOver PROVE Remembered'
  BY <1>2, <1>8 DEF Iteration, PassOver, history
<1>9. ASSUME UNCHANGED vars PROVE Remembered'
  BY <1>2, <1>9 DEF vars, history
<1> QED BY <1>3, <1>4, <1>5, <1>6, <1>7, <1>8, <1>9 DEF Next

(* Without allow_duplicate_messages nobody is given a message twice, for    *)
(* any clients, topics they subscribe to, limits and publications: neither  *)
(* as a subscriber of both topics, nor for several clients that are away,   *)
(* nor by a walk that puts copies into the lists that are walked later.     *)
THEOREM NeverTwice == Spec => []SentOnce
<1>1. Remembered => SentOnce
  BY DEF Remembered, SentOnce
<1> QED BY <1>1, InitRemembered, NextRemembered, PTL DEF Spec
=============================================================================
