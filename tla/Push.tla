-------------------------------- MODULE Push --------------------------------
(***************************************************************************)
(* db__message_push of src/src/database.c, this broker's own addition.     *)
(*                                                                         *)
(* When the main loop comes to a context that has no socket it walks over  *)
(* the lists of that context and offers each message it has not offered    *)
(* before, with QoS 0, to the subscribers of "topic/push".  A message      *)
(* remembers this in its field push, which nothing sets when the message   *)
(* is allocated.  The walk may append to the list it walks over: a client  *)
(* may subscribe to "topic/push" too.                                      *)
(*                                                                         *)
(* Sessions are durable and stand, with their subscriptions, from the      *)
(* start.  Retained messages, wills and denied messages are left out.      *)
(***************************************************************************)
EXTENDS MsgQueue

CONSTANTS
  Clients,      \* the client identifiers
  Publishers,   \* the clients that publish
  Subscribers,  \* the subscribers of the topic, with QoS 1
  Pushers,      \* the subscribers of topic/push
  PubQoS,       \* the QoS of publications
  MaxPubs,      \* bound: publications of all clients
  MaxConnects   \* bound: CONNECTs of all clients

ASSUME PushAssumption ==
  /\ IsFiniteSet(Clients) /\ Publishers \subseteq Clients /\ Subscribers \subseteq Clients
  /\ Pushers \subseteq Clients /\ PubQoS \subseteq {1, 2}
  /\ MaxPubs \in Nat /\ MaxConnects \in Nat

VARIABLES
  allow_duplicate_messages,  \* the option
  q,          \* the queue of the context of each client
  online,     \* the clients that have a socket
  dest_ids,   \* the clients each stored message was sent to
  turn,       \* the clients whose turn in this iteration of the loop comes yet
  walk,       \* the position of db__message_push
  pubs,       \* how many publications there were, which is db->last_db_id
  connects,   \* how many CONNECTs there were
  incoming,   \* the messages that came with QoS 2
  added       \* how often each message was put into a list for each client

loop    == <<turn, walk>>
history == <<incoming, added>>
vars    == <<allow_duplicate_messages, q, online, dest_ids, loop, pubs, connects, history>>

Ids   == 1..MaxPubs
Lists == {"inflight", "queued"}

NoWalk == [of |-> "nobody", list |-> "none", at |-> 0]
Walks  == {NoWalk} \cup [of: Clients, list: Lists, at: Nat \ {0}]

(* struct mosquitto_client_msg with its field push.                         *)
WithPush(m, b) == [f \in DOMAIN m \cup {"push"} |-> IF f = "push" THEN b ELSE m[f]]

Message(id, qos) == [id |-> id, body |-> id, source_mid |-> id, qos |-> qos, len |-> 1,
                     retain |-> FALSE, topic |-> TRUE]

-----------------------------------------------------------------------------
(* db__message_insert, with what malloc leaves in push.                     *)
Added(cq, on, s, mid, dir, qos, push) ==
  LET st == InsertState(cq, on, dir, qos)
      n  == Insert(cq, on, s, mid, dir, qos)
      l  == IF st = "queued" THEN "queued" ELSE "inflight"
  IN  IF st = "dropped" THEN cq ELSE [n EXCEPT ![l][Len(n[l])] = WithPush(@, push)]

(* Mutant: nobody is passed over.                                           *)
Unsent_All(s, to) == to

(* db__message_insert passes over a client that was sent the message.       *)
Unsent(s, to) == IF allow_duplicate_messages THEN to ELSE to \ dest_ids[s.id]

Takers(s, to, qos) ==
  {c \in Unsent(s, to) : InsertState(q[c], c \in online, "out", qos) # "dropped"}

(* sub__messages_queue: the queues after s was offered to the clients of    *)
(* to.  An identifier is used up even when a client is passed over.         *)
Offered(s, to, qos, push) ==
  [c \in Clients |->
     LET mid == IF qos = 0 THEN 0 ELSE NextMid(q[c].last_mid)
         cq  == IF c \in to /\ qos > 0 THEN [q[c] EXCEPT !.last_mid = mid] ELSE q[c]
     IN  IF c \in Unsent(s, to) THEN Added(cq, c \in online, s, mid, "out", qos, push[c]) ELSE cq]

(* The clients that took s are remembered with it.                          *)
Sent(s, took) ==
  /\ dest_ids' = IF allow_duplicate_messages THEN dest_ids
                 ELSE [dest_ids EXCEPT ![s.id] = @ \cup took]
  /\ added' = [added EXCEPT ![s.id] = [c \in Clients |-> @[c] + Cardinality({c} \cap took)]]
-----------------------------------------------------------------------------
Init ==
  /\ allow_duplicate_messages \in BOOLEAN
  /\ q = [c \in Clients |-> EmptyQueue] /\ online = Clients
  /\ dest_ids = [id \in Ids |-> {}]
  /\ turn = {} /\ walk = NoWalk /\ pubs = 0 /\ connects = 0 /\ incoming = {}
  /\ added = [id \in Ids |-> [c \in Clients |-> 0]]

(* Packets are handled when the loop has gone over the contexts.            *)
Poll     == turn = {} /\ walk = NoWalk /\ UNCHANGED <<allow_duplicate_messages, loop>>
Event(c) == Poll /\ c \in online

(* handle__publish with QoS 1.                                              *)
Publish(c) ==
  LET s == Message(pubs + 1, 1)
  IN  /\ Event(c) /\ c \in Publishers /\ 1 \in PubQoS /\ pubs < MaxPubs /\ pubs' = pubs + 1
      /\ \E push \in [Subscribers -> BOOLEAN] : q' = Offered(s, Subscribers, 1, push)
      /\ Sent(s, Takers(s, Subscribers, 1))
      /\ UNCHANGED <<online, connects, incoming>>

(* handle__publish with QoS 2: the message waits in the list of its         *)
(* publisher for the PUBREL.                                                *)
PublishQoS2(c) ==
  LET s == Message(pubs + 1, 2)
  IN  /\ Event(c) /\ c \in Publishers /\ 2 \in PubQoS /\ pubs < MaxPubs /\ pubs' = pubs + 1
      /\ \E push \in BOOLEAN : q' = [q EXCEPT ![c] = Added(@, TRUE, s, s.id, "in", 2, push)]
      /\ incoming' = incoming \cup {s.id}
      /\ UNCHANGED <<online, dest_ids, connects, added>>

(* handle__pubrel with db__message_release.                                 *)
Pubrel(c, mid) ==
  LET K == Matching(q[c].inflight, mid, "in")
      s == q[c].inflight[CHOOSE i \in K : \A j \in K : i <= j].store
  IN  /\ Event(c) /\ K # {}
      /\ \E push \in [Subscribers -> BOOLEAN] :
           LET r == Offered(s, Subscribers, 1, push)
           IN  q' = [r EXCEPT ![c] = Release(@, mid)]
      /\ Sent(s, Takers(s, Subscribers, 1))
      /\ UNCHANGED <<online, pubs, connects, incoming>>

(* handle__pubackcomp.                                                      *)
Puback(c, mid) ==
  /\ Event(c) /\ \E i \in Matching(q[c].inflight, mid, "out") : q[c].inflight[i].state = "wait_for_puback"
  /\ q' = [q EXCEPT ![c] = Delete(@, mid, "out")]
  /\ UNCHANGED <<online, dest_ids, pubs, connects, history>>

(* do_disconnect, and handle__connect of a session that goes on.            *)
Lost(c) ==
  /\ Event(c) /\ online' = online \ {c}
  /\ UNCHANGED <<q, dest_ids, pubs, connects, history>>

Connect(c) ==
  /\ Poll /\ c \notin online /\ connects < MaxConnects /\ connects' = connects + 1
  /\ online' = online \cup {c} /\ q' = [q EXCEPT ![c] = Reset(@)]
  /\ UNCHANGED <<dest_ids, pubs, history>>

-----------------------------------------------------------------------------
(* An iteration of the loop goes over the contexts, in an order that        *)
(* connections change.                                                      *)
Iteration ==
  /\ turn = {} /\ walk = NoWalk /\ turn' = Clients
  /\ UNCHANGED <<allow_duplicate_messages, q, online, dest_ids, walk, pubs, connects, history>>

Turn(c) == c \in turn /\ walk = NoWalk /\ turn' = turn \ {c}

(* db__message_write for a context with a socket.                           *)
MessageWrite(c) ==
  /\ Turn(c) /\ c \in online /\ q' = [q EXCEPT ![c] = Write(@)]
  /\ UNCHANGED <<allow_duplicate_messages, online, dest_ids, walk, pubs, connects, history>>

(* db__message_push for one without, one message of its lists at a time.    *)
MessagePush(c) ==
  /\ Turn(c) /\ c \notin online /\ walk' = [of |-> c, list |-> "inflight", at |-> 1]
  /\ UNCHANGED <<allow_duplicate_messages, q, online, dest_ids, pubs, connects, history>>

Here == q[walk.of][walk.list]

(* A message that was not offered yet.                                      *)
Push ==
  LET m == Here[walk.at]
  IN  /\ walk # NoWalk /\ walk.at \in DOMAIN Here /\ ~m.push
      /\ \E push \in [Pushers -> BOOLEAN] :
           q' = [Offered(m.store, Pushers, 0, push) EXCEPT ![walk.of][walk.list][walk.at].push = TRUE]
      /\ Sent(m.store, Takers(m.store, Pushers, 0))
      /\ walk' = [walk EXCEPT !.at = @ + 1]
      /\ UNCHANGED <<allow_duplicate_messages, online, turn, pubs, connects, incoming>>

(* Mutant: the queued messages are not walked over.                         *)
PassOver_NoQueue ==
  /\ walk # NoWalk
  /\ \/ walk.at \in DOMAIN Here /\ Here[walk.at].push /\ walk' = [walk EXCEPT !.at = @ + 1]
     \/ walk.at \notin DOMAIN Here /\ walk.list = "inflight"
        /\ walk' = NoWalk
     \/ walk.at \notin DOMAIN Here /\ walk.list = "queued" /\ walk' = NoWalk
  /\ UNCHANGED <<allow_duplicate_messages, q, online, dest_ids, turn, pubs, connects, history>>

(* Mutant: the walk does not get past a message that was offered before.    *)
PassOver_Stays ==
  /\ walk # NoWalk
  /\ \/ walk.at \in DOMAIN Here /\ Here[walk.at].push /\ walk' = walk
     \/ walk.at \notin DOMAIN Here /\ walk.list = "inflight"
        /\ walk' = [walk EXCEPT !.list = "queued", !.at = 1]
     \/ walk.at \notin DOMAIN Here /\ walk.list = "queued" /\ walk' = NoWalk
  /\ UNCHANGED <<allow_duplicate_messages, q, online, dest_ids, turn, pubs, connects, history>>

(* One that was, and the end of a list.                                     *)
PassOver ==
  /\ walk # NoWalk
  /\ \/ walk.at \in DOMAIN Here /\ Here[walk.at].push /\ walk' = [walk EXCEPT !.at = @ + 1]
     \/ walk.at \notin DOMAIN Here /\ walk.list = "inflight"
        /\ walk' = [walk EXCEPT !.list = "queued", !.at = 1]
     \/ walk.at \notin DOMAIN Here /\ walk.list = "queued" /\ walk' = NoWalk
  /\ UNCHANGED <<allow_duplicate_messages, q, online, dest_ids, turn, pubs, connects, history>>

Next ==
  \/ \E c \in Clients : \/ Publish(c) \/ PublishQoS2(c) \/ Lost(c) \/ Connect(c)
                        \/ MessageWrite(c) \/ MessagePush(c)
                        \/ \E mid \in 1..MidMax : Pubrel(c, mid) \/ Puback(c, mid)
  \/ Iteration \/ Push \/ PassOver

Spec == Init /\ [][Next]_vars

(* The loop does not stop.                                                  *)
FairSpec ==
  /\ Spec /\ WF_vars(Iteration) /\ WF_vars(Push) /\ WF_vars(PassOver)
  /\ \A c \in Clients : WF_vars(MessageWrite(c)) /\ WF_vars(MessagePush(c))
-----------------------------------------------------------------------------
(* Without allow_duplicate_messages no client is given a message twice,     *)
(* neither as a subscriber of both topics nor for several clients that      *)
(* are away.                                                                *)
SentOnce == ~allow_duplicate_messages => \A id \in Ids, c \in Clients : added[id][c] <= 1

(* A message that waits for a client that is away is looked at.             *)
Waits(c) == c \notin online
            /\ \E l \in {"inflight", "queued"} : \E i \in DOMAIN q[c][l] : ~q[c][l][i].push
AllOffered == \A c \in Clients : []<>~Waits(c)

(* A walk ends though it may append to the list it walks over.              *)
WalkEnds == walk # NoWalk ~> walk = NoWalk
=============================================================================
