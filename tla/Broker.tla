------------------------------- MODULE Broker -------------------------------
(***************************************************************************)
(* The broker's handling of publications: the handlers of the packets of   *)
(* MQTT 3.1.1 that move messages (src/src/handle_*.c, src/lib/handle_*.c), *)
(* the routing of a message to its subscribers (src/src/subs.c), the       *)
(* sessions of clients that connect, disconnect, are taken over and expire *)
(* (src/src/handle_connect.c, context.c, loop.c) and the store of          *)
(* reference-counted messages they share (src/src/database.c).             *)
(*                                                                         *)
(* The broker is one thread: an iteration of mosquitto_main_loop frees the *)
(* disused contexts, writes the messages of every connected context, and   *)
(* then handles at most one packet of each socket that has one.  A client  *)
(* is an MQTT client that keeps the protocol; it holds one subscription at *)
(* most, on the one topic of the model.  What the client sends is handled  *)
(* or lost in the step that sends it; what the broker sends waits in wire  *)
(* until the client reads it.                                              *)
(***************************************************************************)
EXTENDS MsgQueue

CONSTANTS
  Clients,       \* the client identifiers
  Publishers,    \* the clients that publish
  Subscribers,   \* the clients that subscribe
  PubQoS,        \* the QoS of publications
  SubQoS,        \* the QoS asked for in subscriptions
  Lens,          \* the lengths of payloads
  Retains,       \* the values of the retain flag of publications
  Denials,       \* whether the broker may deny a publication of QoS 2
  Cleans,        \* the values of the clean session flag
  Wills,         \* whether a client may leave a will
  WillQoS,       \* the QoS of wills
  WillLen,       \* the length of their payloads
  WillRetain,    \* whether they are to be retained
  UpgradeQoS,    \* upgrade_outgoing_qos
  Expires,       \* whether persistent_client_expiration is set
  ClientMids,    \* the identifiers clients give their publications of QoS 2
  MaxPubs,       \* bound: publications of all clients
  MaxConnects,   \* bound: CONNECTs of all clients
  MaxSubs        \* bound: SUBSCRIBEs of all clients

ASSUME BrokerAssumption ==
  /\ IsFiniteSet(Clients) /\ Publishers \subseteq Clients /\ Subscribers \subseteq Clients
  /\ PubQoS \subseteq QoS /\ SubQoS \subseteq QoS /\ WillQoS \in QoS
  /\ WillLen \in 0..MaxLen /\ WillRetain \in BOOLEAN
  /\ Lens \subseteq 0..MaxLen
  /\ Retains \subseteq BOOLEAN /\ Denials \subseteq BOOLEAN
  /\ Cleans \subseteq BOOLEAN /\ Wills \subseteq BOOLEAN /\ UpgradeQoS \in BOOLEAN
  /\ Expires \in BOOLEAN
  /\ ClientMids \subseteq 1..MidMax
  /\ MaxPubs \in Nat /\ MaxConnects \in Nat /\ MaxSubs \in Nat

VARIABLES
  q,            \* the queue of the context of each client
  conn,         \* its socket: "none" when there is no context
  clean,        \* its clean_session flag
  leaf,         \* the QoS of its subscription, or NoLeaf
  will,         \* whether it has a will
  msg_store,    \* ref_count of each stored message that is not freed
  last_db_id,   \* db->last_db_id
  retained,     \* the retained message of the topic: a set of at most one
  disused,      \* the messages of the contexts on ll_for_free
  served,       \* the clients whose socket was served in this iteration
  phase,        \* whether the iteration is polling sockets or still writing
  wire,         \* the packets sent to each client and not yet read by it
  client,       \* the protocol state of each client
  pubs,         \* how many publications clients have made
  budget,       \* how many CONNECTs and SUBSCRIBEs they have made
  routed,       \* how often each publication of QoS 2 went to the subscribers
  completed,    \* the publications whose publisher has seen the handshake end
  delivered     \* how often each client was given each publication of QoS 2

session == <<conn, clean, leaf, will>>
store   == <<msg_store, last_db_id, retained, disused>>
history == <<pubs, routed, completed, delivered>>
vars    == <<q, session, store, served, phase, wire, client, budget, history>>

NoLeaf == -1

Phases == {"idle", "publish", "wait_pubrec", "resend_pubrel", "wait_pubcomp"}
Publication == [phase: Phases, body: 0..MaxPubs, len: 0..MaxLen,
                retain: BOOLEAN, denied: BOOLEAN]
Idle == [phase |-> "idle", body |-> 0, len |-> 0, retain |-> FALSE, denied |-> FALSE]

Packets == [type: {"publish", "pubrec", "pubrel", "pubcomp"}, qos: QoS, mid: Nat, body: Nat]
Ack(type, mid) == [type |-> type, qos |-> 0, mid |-> mid, body |-> 0]

Online(c) == conn[c] = "online"

(* A client at the start of a session, and one that is told by the session  *)
(* present flag that its session goes on: what it has sent without an       *)
(* answer it has to send again.                                             *)
NewClient == [pub |-> [m \in ClientMids |-> Idle], rcvd |-> {}]

Again(ph) == CASE ph = "wait_pubrec"  -> "publish"
               [] ph = "wait_pubcomp" -> "resend_pubrel"
               [] OTHER               -> ph

Resumed(cl) ==
  [cl EXCEPT !.pub = [m \in ClientMids |-> [cl.pub[m] EXCEPT !.phase = Again(@)]]]

-----------------------------------------------------------------------------
(* What a handler changes of the queues and the store is computed as a      *)
(* record of these variables, through the calls the handler makes.          *)

World == [q |-> q, msg_store |-> msg_store, last_db_id |-> last_db_id,
          retained |-> retained, disused |-> disused]

Become(w) ==
  /\ q' = w.q /\ msg_store' = w.msg_store /\ last_db_id' = w.last_db_id
  /\ retained' = w.retained /\ disused' = w.disused

(* Mutant: a message whose count reaches 0 is not freed.                    *)
Deref_NoFree(refs, s, K) ==
  [id \in DOMAIN refs |-> refs[id] - Cardinality({i \in K : s[i].id = id})]

(* db__msg_store_deref once for each position of a list in K: the count     *)
(* goes down and the message is freed when it reaches 0.                    *)
Deref(refs, s, K) ==
  LET n(id) == Cardinality({i \in K : s[i].id = id})
  IN  [id \in {i \in DOMAIN refs : n(i) = 0 \/ refs[i] # n(i)} |-> refs[id] - n(id)]

StoresOf(s) == [i \in DOMAIN s |-> s[i].store]

DerefMsgs(refs, s, K) == Deref(refs, StoresOf(s), K)

(* db__message_store: a new message, not yet referenced by a list.          *)
StoreMsg(w, s) ==
  [w EXCEPT !.msg_store  = [id \in DOMAIN @ \cup {s.id} |-> IF id = s.id THEN 0 ELSE @[id]],
            !.last_db_id = s.id]

(* Mutant: the identifier of the store is not counted up.                   *)
Fresh_SameId(w, body, mid, qos, len, retain, topic) ==
  [id |-> w.last_db_id, body |-> body, source_mid |-> mid, qos |-> qos,
   len |-> len, retain |-> retain, topic |-> topic]

Fresh(w, body, mid, qos, len, retain, topic) ==
  [id |-> w.last_db_id + 1, body |-> body, source_mid |-> mid, qos |-> qos,
   len |-> len, retain |-> retain, topic |-> topic]

(* subs__process and retain__process for one subscriber: an identifier is   *)
(* taken even when the message is then dropped.                             *)
Offer(cq, online, s, qos) ==
  LET mid == IF qos = 0 THEN 0 ELSE NextMid(cq.last_mid)
  IN  Insert([cq EXCEPT !.last_mid = IF qos = 0 THEN @ ELSE mid], online, s, mid, "out", qos)

Takes(cq, online, qos) == InsertState(cq, online, "out", qos) # "dropped"

OutQoS(qos, sub_qos) == IF UpgradeQoS THEN sub_qos ELSE Least(qos, sub_qos)

(* Mutant: the message that was retained before is not dereferenced.        *)
Route_KeepsRetained(w, s, qos, skip) ==
  LET to     == {c \in Clients \ skip : leaf[c] # NoLeaf}
      took   == {c \in to : Takes(w.q[c], Online(c), OutQoS(qos, leaf[c]))}
      stays  == s.retain /\ s.len > 0
      refs   == [w.msg_store EXCEPT ![s.id] = @ + 1 + Cardinality(took) + (IF stays THEN 1 ELSE 0)]
  IN  [w EXCEPT !.q = [c \in Clients |->
                         IF c \in to THEN Offer(w.q[c], Online(c), s, OutQoS(qos, leaf[c]))
                                     ELSE w.q[c]],
                !.retained  = IF stays THEN {s} ELSE IF s.retain THEN {} ELSE @,
                !.msg_store = Deref(refs, <<s>>, {1})]

(* sub__messages_queue: the message is retained, offered to every           *)
(* subscriber, and freed if nobody took it.  skip holds the client whose    *)
(* context has no id at that moment.                                        *)
Route(w, s, qos, skip) ==
  LET to     == {c \in Clients \ skip : leaf[c] # NoLeaf}
      took   == {c \in to : Takes(w.q[c], Online(c), OutQoS(qos, leaf[c]))}
      stays  == s.retain /\ s.len > 0
      refs   == [w.msg_store EXCEPT ![s.id] = @ + 1 + Cardinality(took) + (IF stays THEN 1 ELSE 0)]
      refs2  == IF s.retain /\ w.retained # {}
                THEN Deref(refs, <<CHOOSE r \in w.retained : TRUE>>, {1}) ELSE refs
  IN  [w EXCEPT !.q = [c \in Clients |->
                         IF c \in to THEN Offer(w.q[c], Online(c), s, OutQoS(qos, leaf[c]))
                                     ELSE w.q[c]],
                !.retained  = IF stays THEN {s} ELSE IF s.retain THEN {} ELSE @,
                !.msg_store = Deref(refs2, <<s>>, {1})]

(* context__send_will, through db__messages_easy_queue.                     *)
SendWill(w, c, skip) ==
  LET s == Fresh(w, 0, 0, WillQoS, WillLen, WillRetain, TRUE)
  IN  IF will[c] THEN Route(StoreMsg(w, s), s, WillQoS, skip) ELSE w

(* Mutant: the queued messages of the context are not kept to be freed.     *)
Discard_NoQueued(w, c) ==
  [w EXCEPT !.disused = @ \o StoresOf(w.q[c].inflight), !.q[c] = EmptyQueue]

(* context__add_to_disused: the context keeps its messages until it is      *)
(* freed, but nothing reaches it any more because its id is gone.           *)
Discard(w, c) ==
  [w EXCEPT !.disused = @ \o StoresOf(w.q[c].inflight) \o StoresOf(w.q[c].queued),
            !.q[c] = EmptyQueue]

(* do_disconnect once the will is sent.                                     *)
Disconnected(w, c) ==
  /\ Become(IF clean[c] THEN Discard(w, c) ELSE w)
  /\ conn' = [conn EXCEPT ![c] = IF clean[c] THEN "none" ELSE "offline"]
  /\ leaf' = IF clean[c] THEN [leaf EXCEPT ![c] = NoLeaf] ELSE leaf
  /\ will' = [will EXCEPT ![c] = FALSE]
  /\ UNCHANGED clean

-----------------------------------------------------------------------------
Init ==
  /\ q = [c \in Clients |-> EmptyQueue]
  /\ conn = [c \in Clients |-> "none"] /\ clean = [c \in Clients |-> TRUE]
  /\ leaf = [c \in Clients |-> NoLeaf] /\ will = [c \in Clients |-> FALSE]
  /\ msg_store = <<>> /\ last_db_id = 0 /\ retained = {} /\ disused = <<>>
  /\ served = {} /\ phase = "poll"
  /\ wire = [c \in Clients |-> <<>>]
  /\ client = [c \in Clients |-> NewClient]
  /\ pubs = 0 /\ budget = [connects |-> 0, subscribes |-> 0]
  /\ routed = [b \in 1..MaxPubs |-> 0] /\ completed = {}
  /\ delivered = [c \in Clients |-> [b \in 1..MaxPubs |-> 0]]

(* The socket of c has a packet and its turn in this iteration has come.    *)
Event(c) ==
  /\ Online(c) /\ c \notin served /\ phase = "poll"
  /\ served' = served \cup {c} /\ UNCHANGED phase

(* handle__connect.  A context of the same client is taken over: between    *)
(* two sessions that are not clean its messages and its subscription move   *)
(* to the new context, otherwise they are discarded with it.  Its will goes *)
(* out while the new context has no id yet.  The session present flag looks *)
(* at the new connection only.                                              *)
Connect(c) ==
  \E cs \in Cleans, wl \in Wills :
    LET found == conn[c] # "none"
        moved == found /\ ~cs /\ ~clean[c]
        world == SendWill(World, c, IF moved THEN {c} ELSE {})
        empty == q[c].inflight = <<>> /\ q[c].queued = <<>>
    IN  /\ phase = "poll" /\ budget.connects < MaxConnects
        /\ Become(IF ~moved THEN Discard(world, c)
                  ELSE IF empty THEN [world EXCEPT !.q[c] = [EmptyQueue EXCEPT !.last_mid = q[c].last_mid]]
                  ELSE [world EXCEPT !.q[c] = Reset(@)])
        /\ conn' = [conn EXCEPT ![c] = "online"]
        /\ clean' = [clean EXCEPT ![c] = cs]
        /\ leaf' = IF moved THEN leaf ELSE [leaf EXCEPT ![c] = NoLeaf]
        /\ will' = [will EXCEPT ![c] = wl]
        /\ served' = served \cup {c}
        /\ wire' = [wire EXCEPT ![c] = <<>>]
        /\ client' = [client EXCEPT ![c] = IF found /\ ~cs THEN Resumed(@) ELSE NewClient]
        /\ budget' = [budget EXCEPT !.connects = @ + 1]
        /\ UNCHANGED <<phase, history>>

(* handle__disconnect: the will is not sent.                                *)
Disconnect(c) ==
  /\ Event(c)
  /\ Disconnected(World, c)
  /\ UNCHANGED <<wire, client, budget, history>>

(* A read that fails, or a packet against the protocol: do_disconnect.      *)
ConnectionLost(c) ==
  /\ Event(c)
  /\ Disconnected(SendWill(World, c, {}), c)
  /\ UNCHANGED <<wire, client, budget, history>>

(* handle__subscribe: sub__add_recurse sets the leaf, sub__retain_queue     *)
(* sends the retained message, again when the client subscribes again.      *)
Subscribe(c) ==
  \E qos \in SubQoS :
    LET r   == CHOOSE r \in retained : TRUE
        out == OutQoS(r.qos, qos)
    IN  /\ Event(c) /\ c \in Subscribers /\ budget.subscribes < MaxSubs
        /\ leaf' = [leaf EXCEPT ![c] = qos]
        /\ IF retained = {} THEN UNCHANGED <<q, msg_store>>
           ELSE /\ q' = [q EXCEPT ![c] = Offer(@, TRUE, r, out)]
                /\ msg_store' = IF Takes(q[c], TRUE, out)
                                THEN [msg_store EXCEPT ![r.id] = @ + 1] ELSE msg_store
        /\ budget' = [budget EXCEPT !.subscribes = @ + 1]
        /\ UNCHANGED <<conn, clean, will, last_db_id, retained, disused, wire, client, history>>

(* handle__unsubscribe.                                                     *)
Unsubscribe(c) ==
  /\ Event(c) /\ leaf[c] # NoLeaf
  /\ leaf' = [leaf EXCEPT ![c] = NoLeaf]
  /\ UNCHANGED <<q, conn, clean, will, store, wire, client, budget, history>>

(* handle__publish for QoS 0 and 1: the identifier of a publication of      *)
(* QoS 1 is not one that an unfinished publication of QoS 2 uses.           *)
Publish(c) ==
  \E qos \in PubQoS \cap {0, 1}, len \in Lens, rt \in Retains :
    LET s == Fresh(World, 0, 0, qos, len, rt, TRUE)
    IN  /\ Event(c) /\ c \in Publishers /\ pubs < MaxPubs
        /\ Become(Route(StoreMsg(World, s), s, qos, {}))
        /\ pubs' = pubs + 1
        /\ UNCHANGED <<session, wire, client, budget, routed, completed, delivered>>

-----------------------------------------------------------------------------
(* QoS 2 from a client: PUBLISH, PUBREC, PUBREL, PUBCOMP.                   *)

(* What a client may publish under an identifier: a new message, or the one *)
(* whose PUBREC it did not see before it reconnected.                       *)
Sendable(c, mid) ==
  LET p == client[c].pub[mid]
  IN  IF p.phase = "publish" THEN {[p EXCEPT !.phase = "wait_pubrec"]}
      ELSE IF p.phase = "idle" /\ pubs < MaxPubs
      THEN [phase: {"wait_pubrec"}, body: {pubs + 1}, len: Lens, retain: Retains, denied: Denials]
      ELSE {}

(* handle__publish for QoS 2.  A message found under the same identifier    *)
(* makes this one a duplicate, which gets a PUBREC whatever list the first  *)
(* is in; otherwise only a message that goes into flight gets one, and a    *)
(* denied one that does not go into flight ends the connection.             *)
PublishQoS2(c, mid) ==
  \E p \in Sendable(c, mid) :
    LET dup   == StoreFind(q[c], mid) # {}
        s     == IF p.denied THEN Fresh(World, p.body, mid, 2, 0, FALSE, FALSE)
                             ELSE Fresh(World, p.body, mid, 2, p.len, p.retain, TRUE)
        st    == InsertState(q[c], TRUE, "in", 2)
        new   == StoreMsg(World, s)
        added == [new EXCEPT !.q[c] = Insert(@, TRUE, s, mid, "in", 2),
                             !.msg_store[s.id] = IF st = "dropped" THEN 0 ELSE 1]
    IN  /\ Event(c) /\ c \in Publishers /\ 2 \in PubQoS
        /\ client' = [client EXCEPT ![c].pub[mid] = p]
        /\ IF ~dup /\ p.denied /\ st # "wait_for_pubrel"
           THEN Disconnected(SendWill(added, c, {}), c)
           ELSE Become(IF dup THEN World ELSE added) /\ UNCHANGED session
        /\ wire' = IF dup \/ st = "wait_for_pubrel"
                   THEN [wire EXCEPT ![c] = Append(@, Ack("pubrec", mid))] ELSE wire
        /\ pubs' = IF p.body > pubs THEN p.body ELSE pubs
        /\ UNCHANGED <<budget, routed, completed, delivered>>

Acks(type, mids) == [i \in DOMAIN mids |-> Ack(type, mids[i])]

(* handle__pubrel with db__message_release: the message goes to the         *)
(* subscribers unless its topic is NULL, is removed, and a PUBCOMP is sent  *)
(* even when there is no such message.  read is what the client has left to *)
(* read before the answer.                                                  *)
Pubrel(c, mid, read) ==
  LET K   == Matching(q[c].inflight, mid, "in")
      hit == q[c].inflight[CHOOSE i \in K : \A j \in K : i <= j].store
      w   == IF K # {} /\ hit.topic THEN Route(World, hit, hit.qos, {}) ELSE World
      k   == ReleaseMoves(w.q[c])
  IN  /\ Become([w EXCEPT !.q[c] = Release(@, mid),
                          !.msg_store = DerefMsgs(@, w.q[c].inflight, K)])
      /\ routed' = IF K # {} /\ hit.topic THEN [routed EXCEPT ![hit.body] = @ + 1] ELSE routed
      /\ wire' = [wire EXCEPT ![c] = read \o Acks("pubrec", DequeuePubrecs(w.q[c], k))
                                          \o <<Ack("pubcomp", mid)>>]

(* After a reconnection the client sends again the PUBREL whose PUBCOMP it  *)
(* has not seen.                                                            *)
ResendPubrel(c, mid) ==
  /\ Event(c) /\ client[c].pub[mid].phase = "resend_pubrel"
  /\ client' = [client EXCEPT ![c].pub[mid].phase = "wait_pubcomp"]
  /\ Pubrel(c, mid, wire[c])
  /\ UNCHANGED <<session, budget, pubs, completed, delivered>>

-----------------------------------------------------------------------------
(* A client reads a packet.  Its answer is the event of its socket, or is   *)
(* lost when the broker has closed the socket.                              *)

Reads(c, type) == wire[c] # <<>> /\ Head(wire[c]).type = type
Answers(c)     == Event(c)
Unheard(c)     == ~Online(c) /\ UNCHANGED <<served, phase, q, msg_store>>
                  /\ wire' = [wire EXCEPT ![c] = Tail(@)]

(* handle__pubackcomp with db__message_delete.                              *)
Pubackcomp(c, mid) ==
  LET K == Matching(q[c].inflight, mid, "out")
      k == DeleteMoves(q[c], mid, "out")
  IN  /\ q' = [q EXCEPT ![c] = Delete(@, mid, "out")]
      /\ msg_store' = DerefMsgs(msg_store, q[c].inflight, K)
      /\ wire' = [wire EXCEPT ![c] = Tail(@) \o
                   Acks("pubrec", DequeuePubrecs(q[c], k))]

(* handle__pubrec: a PUBREL is sent even when there is no such message.     *)
Pubrec(c, mid) ==
  /\ q' = [q EXCEPT ![c] = Update(@, mid, "out", "wait_for_pubcomp")]
  /\ wire' = [wire EXCEPT ![c] = Append(Tail(@), Ack("pubrel", mid))]
  /\ UNCHANGED msg_store

ReadPublish(c) ==
  LET p   == Head(wire[c])
      new == p.qos = 2 /\ p.mid \notin client[c].rcvd
  IN  /\ Reads(c, "publish")
      /\ CASE p.qos = 0 -> /\ wire' = [wire EXCEPT ![c] = Tail(@)]
                           /\ UNCHANGED <<served, phase, q, msg_store>>
           [] p.qos = 1 -> (Answers(c) /\ Pubackcomp(c, p.mid)) \/ Unheard(c)
           [] p.qos = 2 -> (Answers(c) /\ Pubrec(c, p.mid)) \/ Unheard(c)
      /\ client' = IF new THEN [client EXCEPT ![c].rcvd = @ \cup {p.mid}] ELSE client
      /\ delivered' = IF new /\ p.body # 0
                      THEN [delivered EXCEPT ![c][p.body] = @ + 1] ELSE delivered
      /\ UNCHANGED <<session, last_db_id, retained, disused, budget, pubs, routed, completed>>

ReadPubrel(c) ==
  LET p == Head(wire[c])
  IN  /\ Reads(c, "pubrel")
      /\ (Answers(c) /\ Pubackcomp(c, p.mid)) \/ Unheard(c)
      /\ client' = [client EXCEPT ![c].rcvd = @ \ {p.mid}]
      /\ UNCHANGED <<session, last_db_id, retained, disused, budget, history>>

(* A PUBREC answers the publication whichever connection it was sent on: a  *)
(* client that has not yet sent it again does not.                          *)
ReadPubrec(c) ==
  LET p == Head(wire[c])
  IN  /\ Reads(c, "pubrec")
      /\ client' = IF client[c].pub[p.mid].phase \in {"publish", "wait_pubrec"}
                   THEN [client EXCEPT ![c].pub[p.mid].phase = "wait_pubcomp"] ELSE client
      /\ \/ (Answers(c) /\ Pubrel(c, p.mid, Tail(wire[c])))
         \/ (Unheard(c) /\ UNCHANGED <<last_db_id, retained, disused, routed>>)
      /\ UNCHANGED <<session, budget, pubs, completed, delivered>>

ReadPubcomp(c) ==
  LET p     == Head(wire[c])
      ended == {m \in ClientMids : m = p.mid /\ client[c].pub[m].body # 0
                                             /\ ~client[c].pub[m].denied}
  IN  /\ Reads(c, "pubcomp")
      /\ client' = [client EXCEPT ![c].pub[p.mid] = Idle]
      /\ completed' = completed \cup {client[c].pub[m].body : m \in ended}
      /\ wire' = [wire EXCEPT ![c] = Tail(@)]
      /\ UNCHANGED <<q, session, store, served, phase, budget, pubs, routed, delivered>>

-----------------------------------------------------------------------------
(* The part of an iteration between two polls.                              *)

PacketOf(m) ==
  CASE m.state \in {"publish_qos0", "publish_qos1", "publish_qos2"} ->
         [type |-> "publish", qos |-> m.qos, mid |-> m.mid, body |-> m.store.body]
    [] m.state = "resend_pubrel"  -> Ack("pubrel", m.mid)
    [] m.state = "resend_pubcomp" -> Ack("pubcomp", m.mid)
    [] OTHER                      -> Ack("pubrec", m.mid)

PacketsAt(cq, P) == Mapped(Keep(cq.inflight, P), PacketOf)

(* context__free_disused, then db__message_write for every connected        *)
(* context; the writes touch different queues, so their order is nothing.   *)
Loop ==
  LET on   == {c \in Clients : Online(c)}
      sent == [x \in UNION {{c} \X SentQoS0(q[c], Pending(q[c])) : c \in on} |->
                 q[x[1]].inflight[x[2]].store]
      kept == Deref(msg_store, disused, DOMAIN disused)
  IN  /\ served' = {} /\ phase' = "poll" /\ disused' = <<>>
      /\ q' = [c \in Clients |-> IF c \in on THEN Write(q[c]) ELSE q[c]]
      /\ msg_store' = Deref(kept, sent, DOMAIN sent)
      /\ wire' = [c \in Clients |->
           IF c \in on THEN wire[c] \o PacketsAt(q[c], Pending(q[c]))
                                    \o Acks("pubrec", DequeuePubrecs(q[c], WriteMoves(q[c])))
           ELSE wire[c]]
      /\ UNCHANGED <<session, last_db_id, retained, client, budget, history>>

(* A write that fails, at one of its sends, or a keepalive that ran out     *)
(* before the write (i = 0): do_disconnect.  The contexts that fail come    *)
(* first in the iteration here; then the others are written.                *)
WriteFails(c, cq, P, pubrecs) ==
  LET w == [World EXCEPT !.q[c] = cq,
                         !.msg_store = DerefMsgs(@, q[c].inflight, SentQoS0(q[c], P))]
  IN  /\ Disconnected(SendWill(w, c, {}), c)
      /\ wire' = [wire EXCEPT ![c] = @ \o PacketsAt(q[c], P) \o Acks("pubrec", pubrecs)]

LoopFails(c) ==
  /\ Online(c) /\ phase' = "write" /\ UNCHANGED served
  /\ \/ \E i \in Pending(q[c]) \cup {0} :
           WriteFails(c, WriteFailsAt(q[c], i), {j \in Pending(q[c]) : j < i}, <<>>)
     \/ \E j \in 1..WriteMoves(q[c]) :
           /\ q[c].queued[j].dir = "in"
           /\ WriteFails(c, WriteFailsAtPubrec(q[c], j), Pending(q[c]), DequeuePubrecs(q[c], j - 1))
  /\ UNCHANGED <<client, budget, history>>

(* The expiry of a persistent client that has been offline too long.        *)
Expire(c) ==
  /\ Expires /\ conn[c] = "offline" /\ phase = "poll"
  /\ Become(Discard(World, c))
  /\ conn' = [conn EXCEPT ![c] = "none"] /\ clean' = [clean EXCEPT ![c] = TRUE]
  /\ leaf' = [leaf EXCEPT ![c] = NoLeaf]
  /\ UNCHANGED <<will, served, phase, wire, client, budget, history>>

Read(c)   == ReadPublish(c) \/ ReadPubrel(c) \/ ReadPubrec(c) \/ ReadPubcomp(c)
Resend(c) == \E mid \in ClientMids :
               \/ ResendPubrel(c, mid)
               \/ client[c].pub[mid].phase = "publish" /\ PublishQoS2(c, mid)

Next ==
  \/ Loop
  \/ \E c \in Clients :
       \/ Connect(c) \/ Disconnect(c) \/ ConnectionLost(c) \/ Expire(c) \/ LoopFails(c)
       \/ Subscribe(c) \/ Unsubscribe(c) \/ Publish(c)
       \/ \E mid \in ClientMids : PublishQoS2(c, mid)
       \/ Resend(c) \/ Read(c)

Spec == Init /\ [][Next]_vars

(* The loop runs; a client reads what it is sent and sends again what it    *)
(* has to.  Nobody has to publish, subscribe, connect or fail.              *)
Fairness ==
  /\ WF_vars(Loop)
  /\ \A c \in Clients : WF_vars(Read(c)) /\ WF_vars(Resend(c))

FairSpec == Spec /\ Fairness

-----------------------------------------------------------------------------
(* The types of the variables.                                              *)
TypeOK ==
  /\ q \in [Clients -> Queues]
  /\ conn \in [Clients -> {"none", "online", "offline"}]
  /\ clean \in [Clients -> BOOLEAN] /\ will \in [Clients -> BOOLEAN]
  /\ leaf \in [Clients -> QoS \cup {NoLeaf}]
  /\ last_db_id \in Nat /\ DOMAIN msg_store \subseteq 1..last_db_id
  /\ msg_store \in [DOMAIN msg_store -> Int]
  /\ retained \subseteq Stored /\ disused \in Seq(Stored)
  /\ served \subseteq Clients /\ phase \in {"poll", "write"}
  /\ wire \in [Clients -> Seq(Packets)]
  /\ client \in [Clients -> [pub: [ClientMids -> Publication], rcvd: SUBSET Nat]]
  /\ pubs \in 0..MaxPubs /\ budget \in [connects: Nat, subscribes: Nat]
  /\ routed \in [1..MaxPubs -> Nat] /\ completed \subseteq 1..MaxPubs
  /\ delivered \in [Clients -> [1..MaxPubs -> Nat]]

Messages(c) == q[c].inflight \o q[c].queued

(* Flow control decides by msg_count, msg_count12, msg_bytes and            *)
(* msg_bytes12, which every function of database.c adjusts on its own: they *)
(* are what the two lists hold.                                             *)
CountersExact == \A c \in Clients : q[c].tally = Tally(Messages(c))

(* Every reference to a stored message is counted and no freed message is   *)
(* referenced: ref_count is the number of list entries, of live and of      *)
(* disused contexts, and of retained messages that point to it.             *)
References(id) ==
  Cardinality({x \in UNION {{c} \X DOMAIN Messages(c) : c \in Clients} :
                 Messages(x[1])[x[2]].store.id = id})
  + Cardinality({i \in DOMAIN disused : disused[i].id = id})
  + Cardinality({r \in retained : r.id = id})

RefsExact == \A id \in 1..last_db_id :
               References(id) = IF id \in DOMAIN msg_store THEN msg_store[id] ELSE 0

(* Nothing stays in the store that nothing refers to.                       *)
NoLeak == \A id \in DOMAIN msg_store : msg_store[id] > 0

(* max_inflight_messages: the messages of QoS 1 and 2 that the broker is    *)
(* exchanging with a client at a time.                                      *)
Acked(s) == {i \in DOMAIN s : s[i].qos > 0}

InflightWindow ==
  MaxInflight # 0 => \A c \in Clients : Cardinality(Acked(q[c].inflight)) <= MaxInflight

(* max_queued_messages: what a client holds above the window.               *)
QueueBounded ==
  MaxInflight # 0 /\ MaxQueued # 0 =>
    \A c \in Clients : Cardinality(Acked(Messages(c))) <= MaxInflight + MaxQueued

(* A queued message waits for its turn and is of QoS 1 or 2, one in flight  *)
(* does not wait, for nothing would send it there, and one for the client   *)
(* is in a state of one.                                                    *)
Waiting(m) == m.state = "queued"
NotStuck   == \A c \in Clients : \A i \in DOMAIN q[c].inflight : ~Waiting(q[c].inflight[i])

StatesMatch ==
  /\ NotStuck
  /\ \A c \in Clients :
       /\ \A i \in DOMAIN q[c].queued : Waiting(q[c].queued[i]) /\ q[c].queued[i].qos > 0
       /\ \A i \in DOMAIN q[c].inflight :
            q[c].inflight[i].dir = "out" => q[c].inflight[i].state \in OutStates

(* A message from the client never gets the state of one for it, so it is   *)
(* not sent back.                                                           *)
NeverEchoed == \A c \in Clients : \A i \in DOMAIN q[c].inflight :
                 q[c].inflight[i].dir = "in" => q[c].inflight[i].state \in InStates

(* db__message_store_find and db__message_release take the first message    *)
(* with an identifier: there is never a second one from the same client.    *)
InMidsUnique ==
  \A c \in Clients : \A i, j \in DOMAIN Messages(c) :
    /\ Messages(c)[i].dir = "in" /\ Messages(c)[j].dir = "in"
    /\ Messages(c)[i].mid = Messages(c)[j].mid
    => i = j

(* max_inflight_messages 1 guarantees delivery in order: along what a       *)
(* client still has to read, its inflight list and its queue, the           *)
(* identifiers of the messages of QoS 1 and 2 never go back.                *)
Flow(c) ==
  LET outs(s) == Keep(s, {i \in DOMAIN s : s[i].qos > 0 /\ s[i].dir = "out"})
      pubs_(s) == Keep(s, {i \in DOMAIN s : s[i].qos > 0 /\ s[i].type = "publish"})
      mids(s) == [i \in DOMAIN s |-> s[i].mid]
  IN  mids(pubs_(wire[c])) \o mids(outs(Messages(c)))

InOrder ==
  MaxInflight = 1 => \A c \in Clients : \A i, j \in DOMAIN Flow(c) :
                       i < j => Flow(c)[i] <= Flow(c)[j]

(* QoS 2 from the publisher: a publication goes to the subscribers once at  *)
(* most, and it has gone there when its publisher has seen the PUBCOMP.     *)
RoutedOnce == \A b \in 1..MaxPubs : routed[b] <= 1
CompletedIsRouted == \A b \in completed : routed[b] >= 1

(* QoS 2 to the subscriber: no subscriber is given a publication twice.     *)
DeliveredOnce == \A c \in Clients, b \in 1..MaxPubs : delivered[c][b] <= 1

(* A session that continues loses no message of QoS 1 or 2: one leaves the  *)
(* lists only when the client acknowledges it.                              *)
Outstanding(cq) ==
  {m.mid : m \in {m \in {cq.inflight[i] : i \in DOMAIN cq.inflight}
                         \cup {cq.queued[i] : i \in DOMAIN cq.queued} :
                   m.dir = "out" /\ m.qos > 0}}

SessionKept(c) ==
  /\ conn[c] # "none" /\ conn'[c] # "none"
  /\ budget'.connects = budget.connects \/ (~clean[c] /\ ~clean'[c])

NothingLost ==
  [][\A c \in Clients : SessionKept(c) =>
       \A mid \in Outstanding(q[c]) \ Outstanding(q'[c]) :
         /\ wire[c] # <<>> /\ wire'[c] # wire[c]
         /\ Head(wire[c]).mid = mid /\ Head(wire[c]).type \in {"publish", "pubrel"}]_vars

(* A message of QoS 1 or 2 for a client that stays connected is at last     *)
(* acknowledged: it is not left behind in the queue.                        *)
AllAcknowledged ==
  \A c \in Subscribers, mid \in 1..(MaxPubs + MaxSubs) :
    (Online(c) /\ mid \in Outstanding(q[c])) ~> (~Online(c) \/ mid \notin Outstanding(q[c]))

(* A publication of QoS 2 of a client that stays connected comes to its     *)
(* end, also when the window was full at first: the broker sends the PUBREC *)
(* when it moves the message into flight.                                   *)
HandshakeEnds ==
  \A c \in Publishers, mid \in ClientMids :
    (Online(c) /\ client[c].pub[mid].phase # "idle")
      ~> (~Online(c) \/ client[c].pub[mid].phase = "idle")

-----------------------------------------------------------------------------
(* What the documentation says and the code does not do.                    *)

(* mosquitto.conf(5), max_inflight_bytes: messages of QoS 1 and 2 are       *)
(* allowed in flight until the byte limit is reached, so that all but the   *)
(* last of them are below it.                                               *)
InflightBytesWindow ==
  \A c \in Clients :
    LET s == Keep(q[c].inflight, Acked(q[c].inflight))
    IN  s # <<>> => Tally(SubSeq(s, 1, Len(s) - 1)).bytes12 < MaxInflightBytes

(* mosquitto.conf(5), max_queued_bytes: messages above those in flight are  *)
(* queued until the limit is exceeded.                                      *)
QueuedUntilLimit ==
  \A c \in Clients :
    Online(c) /\ Tally(q[c].queued).bytes12 < MaxQueuedBytes
      => Takes(q[c], TRUE, 1)

(* mqtt(7): QoS 2 is exactly once, so when the handshake with the publisher *)
(* has ended its message was routed or the broker still has it.             *)
CompletedIsKept ==
  \A b \in completed : routed[b] >= 1 \/ \E c \in Clients : \E i \in DOMAIN Messages(c) :
                          Messages(c)[i].dir = "in" /\ Messages(c)[i].store.body = b

(* handle__publish: a message that does not go into flight is no error for  *)
(* which to disconnect the publisher.                                       *)
PublishKeepsConnection ==
  [][\A c \in Clients : Online(c) /\ client'[c].pub # client[c].pub => conn'[c] = "online"]_vars
=============================================================================
