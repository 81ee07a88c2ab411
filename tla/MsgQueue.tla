------------------------------ MODULE MsgQueue ------------------------------
(***************************************************************************)
(* The message lists of one broker context: src/src/database.c.            *)
(*                                                                         *)
(* A context keeps the messages it is exchanging with its peer in two      *)
(* linked lists (inflight_msgs, queued_msgs), four counters over both      *)
(* lists, and the last message identifier it gave out.  Every function of  *)
(* database.c that changes them is one operator here, from a queue to a    *)
(* queue; the reference counts of the stored messages, which the same      *)
(* functions change, belong to the broker and are in module Broker.        *)
(*                                                                         *)
(* Abstracted: payloads are their length, topics are one topic or NULL,    *)
(* timestamps, the dup flag of a retransmission and the log are left out.  *)
(***************************************************************************)
EXTENDS Integers, Sequences, FiniteSets

CONSTANTS
  MaxInflight,       \* max_inflight_messages, 0: no limit
  MaxInflightBytes,  \* max_inflight_bytes, 0: no limit
  MaxQueued,         \* max_queued_messages, 0: no limit
  MaxQueuedBytes,    \* max_queued_bytes, 0: no limit
  QueueQoS0,         \* queue_qos0_messages
  ULong,             \* the number of values of an unsigned long
  MidMax,            \* the last message identifier, 65535 in the code
  MaxLen             \* bound: the longest payload

ASSUME LimitsAssumption ==
  /\ MaxInflight \in Nat /\ MaxInflightBytes \in Nat
  /\ MaxQueued \in Nat /\ MaxQueuedBytes \in Nat
  /\ QueueQoS0 \in BOOLEAN
  /\ MidMax \in Nat \ {0} /\ MaxLen \in Nat \ {0} /\ ULong \in Nat \ {0}

QoS == 0..2

OutStates == {"publish_qos0", "publish_qos1", "publish_qos2", "wait_for_puback",
              "wait_for_pubrec", "wait_for_pubcomp", "resend_pubrel"}
InStates  == {"wait_for_pubrel", "send_pubrec", "resend_pubcomp"}
States    == OutStates \cup InStates \cup {"queued"}

(* struct mosquitto_msg_store.  topic = FALSE is a NULL topic, the mark of  *)
(* a message that was denied.  body is not in the code: it names the        *)
(* publication a stored message carries, 0 for one that is not followed.    *)
Stored == [id: Nat, body: Nat, source_mid: Nat, qos: QoS, len: 0..MaxLen,
           retain: BOOLEAN, topic: BOOLEAN]

(* struct mosquitto_client_msg, with the stored message it points to.       *)
ClientMsg == [store: Stored, mid: Nat, dir: {"in", "out"}, state: States, qos: QoS]

(* msg_count, msg_count12, msg_bytes, msg_bytes12 of struct mosquitto.      *)
Tallies == [count: Int, count12: Int, bytes: Int, bytes12: Int]

Queues == [inflight: Seq(ClientMsg), queued: Seq(ClientMsg), tally: Tallies, last_mid: Nat]

NoTally    == [count |-> 0, count12 |-> 0, bytes |-> 0, bytes12 |-> 0]
EmptyQueue == [inflight |-> <<>>, queued |-> <<>>, tally |-> NoTally, last_mid |-> 0]

-----------------------------------------------------------------------------
(* Lists and counters.                                                      *)

Least(a, b) == IF a < b THEN a ELSE b

(* The elements of s at the positions of K, in order: what a walk over a    *)
(* list that removes the other elements leaves.                             *)
Keep(s, K) ==
  LET kept[i \in 0..Len(s)] ==
        IF i = 0 THEN <<>>
        ELSE IF i \in K THEN Append(kept[i - 1], s[i]) ELSE kept[i - 1]
  IN  kept[Len(s)]

Mapped(s, F(_)) == [i \in DOMAIN s |-> F(s[i])]

(* What the four counters say of the messages of s: bytes are counted as    *)
(* the pairs of a message and a position in its payload.                    *)
Tally(s) ==
  LET Ones      == {i \in DOMAIN s : s[i].qos > 0}
      Bytes(I)  == {x \in I \X (1..MaxLen) : x[2] <= s[x[1]].store.len}
  IN  [count |-> Len(s), count12 |-> Cardinality(Ones),
       bytes |-> Cardinality(Bytes(DOMAIN s)), bytes12 |-> Cardinality(Bytes(Ones))]

Plus(t, u)  == [f \in DOMAIN t |-> t[f] + u[f]]
Minus(t, u) == [f \in DOMAIN t |-> t[f] - u[f]]

(* mosquitto__mid_generate: a 16-bit counter that skips 0.                  *)
NextMid(last) == IF last >= MidMax THEN 1 ELSE last + 1

-----------------------------------------------------------------------------
(* Admission: db__ready_for_flight and db__ready_for_queue.                 *)

ReadyForFlight(tally, qos) ==
  \/ qos = 0
  \/ /\ MaxInflight = 0 \/ tally.count12 < MaxInflight
     /\ MaxInflightBytes = 0 \/ tally.bytes12 < MaxInflightBytes

(* Mutant: the queue takes one message more than its limit.                 *)
ReadyForQueue_OneMore(tally, qos, online) ==
  MaxQueued = 0 \/ tally.count12 - (IF online THEN MaxInflight ELSE 0) <= MaxQueued

(* The subtraction is one of unsigned longs.                                *)
ReadyForQueue(tally, qos, online) ==
  LET count == (IF qos = 0 THEN tally.count ELSE tally.count12)
               - (IF online THEN MaxInflight ELSE 0)
      bytes == ((IF qos = 0 THEN tally.bytes ELSE tally.bytes12)
                - (IF online THEN MaxInflightBytes ELSE 0)) % ULong
  IN  /\ MaxQueued = 0 \/ count < MaxQueued
      /\ MaxQueuedBytes = 0 \/ bytes < MaxQueuedBytes

PublishState(qos) == CASE qos = 0 -> "publish_qos0"
                       [] qos = 1 -> "publish_qos1"
                       [] qos = 2 -> "publish_qos2"

(* What db__message_insert decides for a message: the state it gets, or     *)
(* that it is dropped.                                                      *)
InsertState(q, online, dir, qos) ==
  IF ~online /\ qos = 0 /\ ~QueueQoS0 THEN "dropped"
  ELSE IF online /\ ReadyForFlight(q.tally, qos)
       THEN IF dir = "out" THEN PublishState(qos) ELSE "wait_for_pubrel"
  ELSE IF ReadyForQueue(q.tally, qos, online) THEN "queued"
  ELSE "dropped"

(* Mutant: a queued message is put at the head of the queue.                *)
Insert_AtHead(q, online, stored, mid, dir, qos) ==
  LET st == InsertState(q, online, dir, qos)
      m  == [store |-> stored, mid |-> mid, dir |-> dir, state |-> st, qos |-> qos]
      t  == Plus(q.tally, Tally(<<m>>))
  IN  CASE st = "dropped" -> q
        [] st = "queued"  -> [q EXCEPT !.queued = <<m>> \o @, !.tally = t]
        [] OTHER          -> [q EXCEPT !.inflight = Append(@, m), !.tally = t]

(* db__message_insert.                                                      *)
Insert(q, online, stored, mid, dir, qos) ==
  LET st == InsertState(q, online, dir, qos)
      m  == [store |-> stored, mid |-> mid, dir |-> dir, state |-> st, qos |-> qos]
      t  == Plus(q.tally, Tally(<<m>>))
  IN  CASE st = "dropped" -> q
        [] st = "queued"  -> [q EXCEPT !.queued = Append(@, m), !.tally = t]
        [] OTHER          -> [q EXCEPT !.inflight = Append(@, m), !.tally = t]

-----------------------------------------------------------------------------
(* Moving queued messages into flight.                                      *)

(* Mutant: a message keeps its state when it is moved.                      *)
Started_KeepsState(m) == m

(* The head of queued_msgs as db__message_dequeue_first appends it to       *)
(* inflight_msgs in the loops of delete, release and write; a message from  *)
(* the client gets its PUBREC there.                                        *)
Started(m) == [m EXCEPT !.state = IF m.dir = "out" THEN PublishState(m.qos)
                                                   ELSE "wait_for_pubrel"]

(* Mutant: the loops let one message more than the window into flight.      *)
Moves_OneMore(q, index) ==
  IF MaxInflight = 0 THEN Len(q.queued)
  ELSE IF index > MaxInflight THEN 0
  ELSE Least(Len(q.queued), MaxInflight - index + 1)

(* How many messages those loops move when they start from msg_index: they  *)
(* look at max_inflight only.                                               *)
Moves(q, index) ==
  IF MaxInflight = 0 THEN Len(q.queued)
  ELSE IF index >= MaxInflight THEN 0
  ELSE Least(Len(q.queued), MaxInflight - index)

Dequeue(q, k) ==
  [q EXCEPT !.inflight = @ \o Mapped(SubSeq(q.queued, 1, k), Started),
            !.queued   = SubSeq(@, k + 1, Len(@))]

(* Mutant: a message from the client is moved without its PUBREC.           *)
DequeuePubrecs_None(q, k) == <<>>

(* The PUBRECs the loop sends on the way, by message identifier.            *)
DequeuePubrecs(q, k) ==
  LET head == SubSeq(q.queued, 1, k)
      ins  == Keep(head, {i \in DOMAIN head : head[i].dir = "in"})
  IN  [i \in DOMAIN ins |-> ins[i].mid]

-----------------------------------------------------------------------------
(* db__message_delete and db__message_release.                              *)

Matching(s, mid, dir) == {i \in DOMAIN s : s[i].mid = mid /\ s[i].dir = dir}

(* Mutant: only the counters of QoS 1 and 2 are adjusted.                   *)
Remove_Only12(q, K) ==
  LET t == Tally(Keep(q.inflight, K))
  IN  [q EXCEPT !.inflight = Keep(@, DOMAIN @ \ K),
                !.tally = [@ EXCEPT !.count12 = @ - t.count12, !.bytes12 = @ - t.bytes12]]

(* The walk over inflight_msgs that calls db__message_remove.               *)
Remove(q, K) ==
  [q EXCEPT !.inflight = Keep(@, DOMAIN @ \ K),
            !.tally    = Minus(@, Tally(Keep(q.inflight, K)))]

(* db__message_delete: the removed messages are not counted in msg_index.   *)
DeleteMoves(q, mid, dir) ==
  LET r == Remove(q, Matching(q.inflight, mid, dir)) IN Moves(r, Len(r.inflight))

Delete(q, mid, dir) ==
  Dequeue(Remove(q, Matching(q.inflight, mid, dir)), DeleteMoves(q, mid, dir))

(* db__message_release counts the removed messages in msg_index.            *)
ReleaseMoves(q) == Moves(q, Len(q.inflight))

(* Mutant: the released message stays in the list.                          *)
Release_Keeps(q, mid) == Dequeue(q, ReleaseMoves(q))

(* db__message_release after the message was routed.                        *)
Release(q, mid) ==
  Dequeue(Remove(q, Matching(q.inflight, mid, "in")), ReleaseMoves(q))

(* db__message_update: the first message that matches.                      *)
Update(q, mid, dir, state) ==
  LET K == Matching(q.inflight, mid, dir)
  IN  IF K = {} THEN q
      ELSE [q EXCEPT !.inflight[CHOOSE i \in K : \A j \in K : i <= j].state = state]

(* Mutant: no message is ever found to be a duplicate.                      *)
StoreFind_None(q, mid) == {}

(* db__message_store_find: by the identifier its source gave the message,   *)
(* in both lists.                                                           *)
StoreFind(q, mid) ==
  {m.store : m \in {m \in {q.inflight[i] : i \in DOMAIN q.inflight}
                            \cup {q.queued[i] : i \in DOMAIN q.queued} :
                      m.dir = "in" /\ m.store.source_mid = mid}}

-----------------------------------------------------------------------------
(* db__message_write.                                                       *)

Sends(m) == m.state \in {"publish_qos0", "publish_qos1", "publish_qos2",
                         "send_pubrec", "resend_pubrel", "resend_pubcomp"}

Pending(q) == {i \in DOMAIN q.inflight : Sends(q.inflight[i])}

(* The state of a message whose packet was sent; one of QoS 0 is removed.   *)
AfterSend(m) ==
  CASE m.state = "publish_qos1" -> [m EXCEPT !.state = "wait_for_puback"]
    [] m.state = "publish_qos2" -> [m EXCEPT !.state = "wait_for_pubrec"]
    [] m.state = "resend_pubrel" -> [m EXCEPT !.state = "wait_for_pubcomp"]
    [] m.state \in {"send_pubrec", "resend_pubcomp"} -> [m EXCEPT !.state = "wait_for_pubrel"]
    [] OTHER -> m

SentQoS0(q, P) == {i \in P : q.inflight[i].state = "publish_qos0"}

(* The walk over inflight_msgs with the packets at positions P sent.        *)
SendAll(q, P) ==
  LET r == Remove(q, SentQoS0(q, P))
      s == [i \in DOMAIN q.inflight |-> IF i \in P THEN AfterSend(q.inflight[i])
                                                   ELSE q.inflight[i]]
  IN  [r EXCEPT !.inflight = Keep(s, DOMAIN s \ SentQoS0(q, P))]

(* Mutant: the second loop of the write is gone.                            *)
WriteMoves_None(q) == 0

(* The second loop starts from the number of messages the walk has seen,    *)
(* the removed ones included; what it moves into flight for the client is   *)
(* sent by the next call.                                                   *)
WriteMoves(q) == Moves(q, Len(q.inflight))

Write(q) == Dequeue(SendAll(q, Pending(q)), WriteMoves(q))

(* A send that fails ends the call: at position i of inflight_msgs, or at   *)
(* the PUBREC of the j-th queued message, which is then already moved.      *)
WriteFailsAt(q, i) == SendAll(q, {j \in Pending(q) : j < i})

WriteFailsAtPubrec(q, j) ==
  LET r == Dequeue(SendAll(q, Pending(q)), j)
  IN  [r EXCEPT !.inflight[Len(r.inflight)].state = "send_pubrec"]

-----------------------------------------------------------------------------
(* db__message_reconnect_reset.                                             *)

(* Mutant: the direction is not looked at.                                  *)
ResetState_AnyDirection(m) == [m EXCEPT !.state = PublishState(m.qos)]

(* Mutant: a message whose PUBREC has come is published again.              *)
ResetState_Republish(m) ==
  IF m.dir = "in" THEN m ELSE [m EXCEPT !.state = PublishState(m.qos)]

ResetState(m) ==
  IF m.dir = "in" THEN m
  ELSE IF m.qos = 2 /\ m.state = "wait_for_pubcomp"
       THEN [m EXCEPT !.state = "resend_pubrel"]
       ELSE [m EXCEPT !.state = PublishState(m.qos)]

(* One turn of the loop over queued_msgs, at position p: the message it     *)
(* visits is counted and, if it is ready, given its publish state, and then *)
(* the HEAD of the list is moved and the loop starts again from the head.   *)
ResetVisit(q, p) ==
  LET m == q.queued[p]
      t == Plus(q.tally, Tally(<<m>>))
      s == [q.queued EXCEPT ![p].state = PublishState(m.qos)]
  IN  IF ReadyForFlight(t, m.qos)
      THEN [q |-> [q EXCEPT !.inflight = Append(@, Head(s)), !.queued = Tail(s), !.tally = t],
            p |-> 1]
      ELSE [q |-> [q EXCEPT !.tally = t], p |-> p + 1]

(* Mutant: the queue of the old context is forgotten.                       *)
Reset_NoQueue(q) ==
  LET s == Mapped(q.inflight, ResetState)
  IN  [q EXCEPT !.inflight = s, !.queued = <<>>, !.tally = Tally(s)]

(* Mutant: every message from the client is left for it to send again.      *)
Reset_NoIncoming(q) ==
  LET s == Keep(q.inflight, {i \in DOMAIN q.inflight : q.inflight[i].dir = "out"})
  IN  [q EXCEPT !.inflight = s, !.tally = Tally(s)]

(* The loop ends after at most L * (L + 1) turns on a list of length L.     *)
Reset(q) ==
  LET s     == Mapped(q.inflight, ResetState)
      first == [q EXCEPT !.inflight = s, !.tally = Tally(s)]
      L     == Len(q.queued)
      turn[n \in 0..(L * (L + 1))] ==
        IF n = 0 THEN [q |-> first, p |-> 1]
        ELSE LET r == turn[n - 1]
             IN  IF r.p > Len(r.q.queued) THEN r ELSE ResetVisit(r.q, r.p)
  IN  turn[L * (L + 1)].q
=============================================================================
