-------------------------------- MODULE Client ------------------------------
(***************************************************************************)
(* The client library (src/lib) with an application that publishes: the    *)
(* lists out_messages and in_messages and the window of messages in flight *)
(* (messages_mosq.c), the handlers of the packets a client receives, and   *)
(* the loop that reconnects after an error (loop.c, connect.c), run by the *)
(* thread that mosquitto_loop_start creates.  In that mode packet__queue   *)
(* only appends to out_packet; the loop writes.                            *)
(*                                                                         *)
(* The application publishes from the callbacks, in the loop's thread, or  *)
(* from a thread of its own.  There the steps of mosquitto_publish after   *)
(* it has released out_message_mutex, and those of mosquitto__reconnect,   *)
(* are actions of their own.                                               *)
(*                                                                         *)
(* The broker at the other end is external.  It keeps its session over     *)
(* connections and follows the protocol.                                   *)
(***************************************************************************)
EXTENDS Integers, Sequences, SequencesExt, FiniteSets, FiniteSetsExt

CONSTANTS
  MaxInflight,   \* max_inflight_messages, 0 for no maximum
  MaxMid,        \* the largest identifier, 65535 in the code
  PeerMids,      \* the same for the identifiers of the broker
  OwnThread,     \* \subseteq BOOLEAN: where the application may publish from
  OutQoS, InQoS, \* the QoS of the messages of the application, of the broker
  MaxPublished, MaxSent,  \* bounds: messages of the application, of the broker
  MaxLosses      \* bound: failed and lost connections

ASSUME ClientAssumption ==
  /\ MaxInflight \in Nat /\ MaxMid \in Nat \ {0} /\ PeerMids \in Nat \ {0}
  /\ OwnThread \subseteq BOOLEAN /\ OutQoS \subseteq {1, 2} /\ InQoS \subseteq {1, 2}
  /\ MaxPublished \in Nat /\ MaxSent \in Nat /\ MaxLosses \in Nat

VARIABLES
  out_messages, in_messages, inflight_messages, last_mid,
  out_packet,   \* current_out_packet and the packets after it
  sock,         \* whether there is a socket
  stage,        \* where the loop's thread is
  pending,      \* what the application's thread has yet to send
  up, down,     \* the packets on their way to the broker, and from it
  link,         \* whether the connection is up
  peer,         \* the broker
  own_thread,   \* whether the application has its own thread
  losses,
  accepted, received, announced,  \* as in Delivery
  sent, arrived \* messages of the broker: their QoS, and the calls of on_message

lib == <<out_messages, in_messages, inflight_messages, last_mid, out_packet, sock, stage, pending>>
net == <<up, down, link>>
outcome == <<accepted, received, announced>>
inward == <<sent, arrived>>
vars == <<lib, net, peer, own_thread, losses, outcome, inward>>

Packet(t, mid, id, qos) == [t |-> t, mid |-> mid, id |-> id, qos |-> qos]
Cmd(t, mid) == Packet(t, mid, 0, 0)
Publish(m) == Packet("PUBLISH", m.mid, m.id, m.qos)

Nobody == [connected |-> FALSE, stored |-> {}, out |-> <<>>, last_mid |-> 0]

Init ==
  /\ out_messages = <<>> /\ in_messages = <<>> /\ inflight_messages = 0 /\ last_mid = 0
  /\ out_packet = <<>> /\ sock = FALSE /\ stage = "closed" /\ pending = <<>>
  /\ up = <<>> /\ down = <<>> /\ link = FALSE /\ peer = Nobody
  /\ own_thread \in OwnThread /\ losses = 0
  /\ accepted = <<>> /\ received = <<>> /\ announced = {} /\ sent = <<>> /\ arrived = <<>>

-----------------------------------------------------------------------------
(* The lists.                                                               *)

(* Mutant: one more than the maximum.                                       *)
HasRoom_OneMore(n) == MaxInflight = 0 \/ n <= MaxInflight

HasRoom(n) == MaxInflight = 0 \/ n < MaxInflight

(* mosquitto__mid_generate: 0 is skipped when it wraps.                     *)
NextMid(n) == (n % MaxMid) + 1

WaitState(qos) == IF qos = 1 THEN "wait_for_puback" ELSE "wait_for_pubrec"

IndexOf(s, mid) == {i \in DOMAIN s : s[i].mid = mid}

(* message__remove sends the waiting messages, in their order, while there  *)
(* is room: i goes if there is after those before it.                       *)
Started(s, n) ==
  {i \in DOMAIN s : /\ s[i].state = "invalid"
                    /\ HasRoom(n + Cardinality({j \in 1..(i - 1) : s[j].state = "invalid"}))}

(* message__reconnect_reset, of the outgoing messages.                      *)
ResetState(m) ==
  IF m.qos = 1 THEN "publish_qos1"
  ELSE IF m.state = "wait_for_pubrec" THEN "publish_qos2"
  ELSE IF m.state = "wait_for_pubcomp" THEN "resend_pubrel" ELSE m.state

Reset(s) ==
  [i \in DOMAIN s |-> [s[i] EXCEPT !.state = IF HasRoom(i - 1) THEN ResetState(s[i]) ELSE "invalid"]]

(* Mutant: a message that has had its PUBREC is not looked at.              *)
Retried_NoPubrel(m) ==
  IF m.state \in {"publish_qos1", "publish_qos2"} THEN <<Publish(m)>> ELSE <<>>

(* message__retry_check: what is sent of a message after a CONNACK.         *)
Retried(m) ==
  CASE m.state \in {"publish_qos1", "publish_qos2"} -> <<Publish(m)>>
    [] m.state \in {"resend_pubrel", "wait_for_pubcomp"} -> <<Cmd("PUBREL", m.mid)>>
    [] OTHER -> <<>>

RetryCheck(s) == FlattenSeq([i \in DOMAIN s |-> Retried(s[i])])

Queue(packets) == out_packet' = out_packet \o packets

-----------------------------------------------------------------------------
(* The application.                                                         *)

(* mosquitto_publish, up to where it releases out_message_mutex, and as far *)
(* as its call of send__publish when it is in a callback: one is possible   *)
(* whenever the loop runs, or has lost its connection.                      *)
MosquittoPublish(qos) ==
  LET mid == NextMid(last_mid)
      room == HasRoom(inflight_messages)
      m == [id |-> Len(accepted) + 1, mid |-> mid, qos |-> qos,
            state |-> IF room THEN WaitState(qos) ELSE "invalid"]
  IN  /\ pending = <<>> /\ Len(accepted) < MaxPublished
      /\ own_thread \/ stage \in {"loop", "closed"}
      /\ last_mid' = mid /\ out_messages' = Append(out_messages, m)
      /\ inflight_messages' = inflight_messages + (IF room THEN 1 ELSE 0)
      /\ IF own_thread
         THEN /\ pending' = IF room THEN <<[at |-> "check", packet |-> Publish(m)]>> ELSE <<>>
              /\ UNCHANGED out_packet
         ELSE /\ Queue(IF room /\ sock THEN <<Publish(m)>> ELSE <<>>)
              /\ UNCHANGED pending
      /\ accepted' = Append(accepted, qos)
      /\ UNCHANGED <<in_messages, sock, stage, net, peer, own_thread, losses,
                     received, announced, inward>>

(* send__publish looks at the socket.  Without one mosquitto_publish        *)
(* returns MOSQ_ERR_NO_CONN, and the message stays in the list.             *)
PublishCheck ==
  /\ pending # <<>> /\ pending[1].at = "check"
  /\ pending' = IF sock THEN <<[pending[1] EXCEPT !.at = "queue"]>> ELSE <<>>
  /\ UNCHANGED <<out_messages, in_messages, inflight_messages, last_mid, out_packet, sock, stage,
                 net, peer, own_thread, losses, outcome, inward>>

(* send__real_publish makes the packet and packet__queue appends it.        *)
PublishSend ==
  /\ pending # <<>> /\ pending[1].at = "queue"
  /\ Queue(<<pending[1].packet>>) /\ pending' = <<>>
  /\ UNCHANGED <<out_messages, in_messages, inflight_messages, last_mid, sock, stage,
                 net, peer, own_thread, losses, outcome, inward>>

-----------------------------------------------------------------------------
(* The loop: a packet that was read.                                        *)

in_packet == Head(down)

Reads(types) ==
  /\ stage = "loop" /\ link /\ down # <<>> /\ in_packet.t \in types /\ down' = Tail(down)
  /\ UNCHANGED <<last_mid, sock, stage, pending, up, link, peer, own_thread, losses,
                 accepted, received, sent>>

HandleConnack ==
  /\ Reads({"CONNACK"})
  /\ Queue(RetryCheck(out_messages))
  /\ UNCHANGED <<out_messages, in_messages, inflight_messages, announced, arrived>>

(* Mutant: the messages that wait are left where they are.                  *)
Removed_NoStart(i) ==
  /\ out_messages' = RemoveAt(out_messages, i) /\ inflight_messages' = inflight_messages - 1
  /\ UNCHANGED out_packet

(* message__remove, of the outgoing message in place i.                     *)
Removed(i) ==
  LET s == RemoveAt(out_messages, i)
      n == inflight_messages - 1
      S == Started(s, n)
  IN  /\ out_messages' = [j \in DOMAIN s |->
           IF j \in S THEN [s[j] EXCEPT !.state = WaitState(s[j].qos)] ELSE s[j]]
      /\ inflight_messages' = n + Cardinality(S)
      /\ Queue(FlattenSeq([j \in DOMAIN s |-> IF j \in S THEN <<Publish(s[j])>> ELSE <<>>]))

(* handle__pubackcomp: the acknowledgement of a message that is not in the  *)
(* list has no effect.                                                      *)
HandlePubackcomp ==
  /\ Reads({"PUBACK", "PUBCOMP"})
  /\ LET S == IndexOf(out_messages, in_packet.mid)
     IN  IF S = {} THEN UNCHANGED <<out_messages, inflight_messages, out_packet, announced>>
         ELSE /\ Removed(Min(S))
              /\ announced' = announced \cup {out_messages[Min(S)].id}
  /\ UNCHANGED <<in_messages, arrived>>

HandlePubrec ==
  /\ Reads({"PUBREC"})
  /\ LET S == IndexOf(out_messages, in_packet.mid)
     IN  out_messages' = IF S = {} THEN out_messages
                         ELSE [out_messages EXCEPT ![Min(S)].state = "wait_for_pubcomp"]
  /\ Queue(<<Cmd("PUBREL", in_packet.mid)>>)
  /\ UNCHANGED <<in_messages, inflight_messages, announced, arrived>>

(* handle__publish.  That the identifier is in the list already is not      *)
(* looked at.                                                               *)
HandlePublish ==
  /\ Reads({"PUBLISH"})
  /\ IF in_packet.qos = 1
     THEN /\ Queue(<<Cmd("PUBACK", in_packet.mid)>>)
          /\ arrived' = Append(arrived, in_packet.id) /\ UNCHANGED in_messages
     ELSE /\ Queue(<<Cmd("PUBREC", in_packet.mid)>>)
          /\ in_messages' = Append(in_messages, [id |-> in_packet.id, mid |-> in_packet.mid])
          /\ UNCHANGED arrived
  /\ UNCHANGED <<out_messages, inflight_messages, announced>>

HandlePubrel ==
  /\ Reads({"PUBREL"})
  /\ LET S == IndexOf(in_messages, in_packet.mid)
     IN  IF S = {} THEN UNCHANGED <<in_messages, arrived>>
         ELSE /\ in_messages' = RemoveAt(in_messages, Min(S))
              /\ arrived' = Append(arrived, in_messages[Min(S)].id)
  /\ Queue(<<Cmd("PUBCOMP", in_packet.mid)>>)
  /\ UNCHANGED <<out_messages, inflight_messages, announced>>

(* packet__write.                                                           *)
Write ==
  /\ stage = "loop" /\ link /\ out_packet # <<>>
  /\ up' = Append(up, Head(out_packet)) /\ out_packet' = Tail(out_packet)
  /\ UNCHANGED <<out_messages, in_messages, inflight_messages, last_mid, sock, stage, pending,
                 down, link, peer, own_thread, losses, outcome, inward>>

(* A read or write fails: mosquitto__loop_rc_handle closes the socket.      *)
LoopError ==
  /\ stage = "loop" /\ ~link
  /\ sock' = FALSE /\ stage' = "closed"
  /\ UNCHANGED <<out_messages, in_messages, inflight_messages, last_mid, out_packet, pending,
                 net, peer, own_thread, losses, outcome, inward>>

-----------------------------------------------------------------------------
(* mosquitto__reconnect.                                                    *)

(* It frees the packets that were not written.                              *)
DropPackets ==
  /\ stage = "closed" /\ out_packet' = <<>> /\ stage' = "dropped"
  /\ UNCHANGED <<out_messages, in_messages, inflight_messages, last_mid, sock, pending,
                 net, peer, own_thread, losses, outcome, inward>>

(* Mutant: a message that the broker has acknowledged is published again.   *)
ReconnectReset_Republish ==
  /\ stage = "dropped" /\ stage' = "reset"
  /\ out_messages' = [i \in DOMAIN out_messages |->
       [Reset(out_messages)[i] EXCEPT !.state = IF @ = "resend_pubrel" THEN "publish_qos2" ELSE @]]
  /\ inflight_messages' = Cardinality({i \in DOMAIN out_messages : HasRoom(i - 1)})
  /\ UNCHANGED <<in_messages, last_mid, out_packet, sock, pending,
                 net, peer, own_thread, losses, outcome, inward>>

(* Mutant: the incoming messages are forgotten.                             *)
ReconnectReset_Forgets ==
  /\ stage = "dropped" /\ stage' = "reset"
  /\ out_messages' = Reset(out_messages) /\ in_messages' = <<>>
  /\ inflight_messages' = Cardinality({i \in DOMAIN out_messages : HasRoom(i - 1)})
  /\ UNCHANGED <<last_mid, out_packet, sock, pending,
                 net, peer, own_thread, losses, outcome, inward>>

(* message__reconnect_reset.  Of the incoming messages it keeps all that    *)
(* are of QoS 2, and there are no others.                                   *)
ReconnectReset ==
  /\ stage = "dropped" /\ stage' = "reset"
  /\ out_messages' = Reset(out_messages)
  /\ inflight_messages' = Cardinality({i \in DOMAIN out_messages : HasRoom(i - 1)})
  /\ UNCHANGED <<in_messages, last_mid, out_packet, sock, pending,
                 net, peer, own_thread, losses, outcome, inward>>

(* net__socket_connect succeeds, or loop_forever tries again.               *)
SocketConnect ==
  /\ stage = "reset" /\ sock' = TRUE /\ link' = TRUE /\ stage' = "connect"
  /\ UNCHANGED <<out_messages, in_messages, inflight_messages, last_mid, out_packet, pending,
                 up, down, peer, own_thread, losses, outcome, inward>>

SocketFails ==
  /\ stage = "reset" /\ losses < MaxLosses /\ losses' = losses + 1 /\ stage' = "closed"
  /\ UNCHANGED <<out_messages, in_messages, inflight_messages, last_mid, out_packet, sock, pending,
                 net, peer, own_thread, outcome, inward>>

SendConnect ==
  /\ stage = "connect" /\ Queue(<<Cmd("CONNECT", 0)>>) /\ stage' = "loop"
  /\ UNCHANGED <<out_messages, in_messages, inflight_messages, last_mid, sock, pending,
                 net, peer, own_thread, losses, outcome, inward>>

LoopThread ==
  \/ HandleConnack \/ HandlePubackcomp \/ HandlePubrec \/ HandlePublish \/ HandlePubrel
  \/ Write \/ LoopError \/ DropPackets \/ ReconnectReset \/ SocketConnect \/ SendConnect

-----------------------------------------------------------------------------
(* The network and the broker, external.                                    *)

Hangup == link' = FALSE /\ up' = <<>> /\ down' = <<>>

(* The connection ends.  What was to be read before could have been.        *)
Lose == /\ link /\ losses < MaxLosses /\ losses' = losses + 1 /\ Hangup
        /\ peer' = [peer EXCEPT !.connected = FALSE]
        /\ UNCHANGED <<lib, own_thread, outcome, inward>>

Forward(m) == IF m.released THEN Cmd("PUBREL", m.mid) ELSE Packet("PUBLISH", m.mid, m.id, m.qos)

(* The message mid has been acknowledged.                                   *)
Cleared(s, mid) == LET S == IndexOf(s, mid) IN IF S = {} THEN s ELSE RemoveAt(s, Min(S))

(* What the broker answers to a packet p of a client that has connected.    *)
Answer(p) ==
  CASE p.t = "PUBLISH" -> Cmd(IF p.qos = 1 THEN "PUBACK" ELSE "PUBREC", p.mid)
    [] p.t = "PUBREL"  -> Cmd("PUBCOMP", p.mid)
    [] OTHER           -> Cmd("PUBREL", p.mid)

(* What it does with p: the identifiers it stores, the messages it holds,   *)
(* and whether it takes a message.                                          *)
Stored(p) ==
  CASE p.t = "PUBLISH" /\ p.qos = 2 -> peer.stored \cup {p.mid}
    [] p.t = "PUBREL" -> peer.stored \ {p.mid}
    [] OTHER -> peer.stored

Held(p) ==
  CASE p.t \in {"PUBACK", "PUBCOMP"} -> Cleared(peer.out, p.mid)
    [] p.t = "PUBREC" -> [i \in DOMAIN peer.out |->
         [peer.out[i] EXCEPT !.released = @ \/ peer.out[i].mid = p.mid]]
    [] OTHER -> peer.out

IsNew(p) == p.t = "PUBLISH" /\ (p.qos = 1 \/ p.mid \notin peer.stored)

PeerReads ==
  LET p == Head(up)
  IN  /\ link /\ up # <<>>
      /\ \/ /\ p.t = "CONNECT" /\ ~peer.connected
            /\ peer' = [peer EXCEPT !.connected = TRUE]
            /\ down' = <<Cmd("CONNACK", 0)>> \o [i \in DOMAIN peer.out |-> Forward(peer.out[i])]
            /\ up' = Tail(up) /\ UNCHANGED <<link, received>>
         \/ /\ p.t # "CONNECT" /\ peer.connected
            /\ received' = IF IsNew(p) THEN Append(received, p.id) ELSE received
            /\ peer' = [peer EXCEPT !.stored = Stored(p), !.out = Held(p)]
            /\ down' = IF p.t \in {"PUBLISH", "PUBREC", "PUBREL"} THEN Append(down, Answer(p)) ELSE down
            /\ up' = Tail(up) /\ UNCHANGED link
         \/ /\ (p.t = "CONNECT") = peer.connected /\ Hangup
            /\ peer' = [peer EXCEPT !.connected = FALSE] /\ UNCHANGED received
      /\ UNCHANGED <<lib, own_thread, losses, accepted, announced, inward>>

PeerSends(qos) ==
  LET mid == (peer.last_mid % PeerMids) + 1
      m   == [id |-> Len(sent) + 1, mid |-> mid, qos |-> qos, released |-> FALSE]
  IN  /\ peer.connected /\ Len(sent) < MaxSent /\ \A i \in DOMAIN peer.out : peer.out[i].mid # mid
      /\ peer' = [peer EXCEPT !.last_mid = mid, !.out = Append(@, m)]
      /\ down' = Append(down, Forward(m)) /\ sent' = Append(sent, qos)
      /\ UNCHANGED <<lib, up, link, own_thread, losses, outcome, arrived>>

Next ==
  \/ \E qos \in OutQoS : MosquittoPublish(qos)
  \/ PublishCheck \/ PublishSend \/ LoopThread \/ SocketFails
  \/ Lose \/ PeerReads \/ \E qos \in InQoS : PeerSends(qos)

Spec == Init /\ [][Next]_vars

(* Both threads run, the loop whenever it has something to do, and the      *)
(* broker answers.                                                          *)
FairSpec == Spec /\ WF_vars(LoopThread) /\ WF_vars(PublishCheck \/ PublishSend) /\ WF_vars(PeerReads)
-----------------------------------------------------------------------------
Waits(i) == out_messages[i].state = "invalid"

(* inflight_messages is the number of messages part way through their flow: *)
(* never more than max_inflight_messages, and a message only waits while    *)
(* there are as many, behind all of them.  Four functions count (queue,     *)
(* remove, reset, and publish by its state), under one lock each.           *)
Window ==
  /\ inflight_messages = Cardinality({i \in DOMAIN out_messages : ~Waits(i)})
  /\ \A i \in DOMAIN out_messages :
       Waits(i) <=> MaxInflight # 0 /\ i > MaxInflight

(* What the library promises of its messages, over lost connections: QoS 2  *)
(* is exactly once if the application publishes from the callbacks.         *)
Delivers == INSTANCE Delivery WITH exact <- ~own_thread
ImplementsDelivery == Delivers!Spec

(* With a window of one, messages reach the broker in the order of the      *)
(* calls, whichever thread makes them and whatever was resent or waited.    *)
InOrder ==
  MaxInflight = 1 =>
    \A i, j \in DOMAIN received : i < j /\ received[j] < received[i] =>
      \E k \in 1..(i - 1) : received[k] = received[j]

(* Connected, and nobody has anything to do.                                *)
Quiet == stage = "loop" /\ link /\ peer.connected /\ out_packet = <<>> /\ up = <<>> /\ down = <<>>
         /\ pending = <<>>

(* mosquitto.h: connecting "will cause the messages to be resent".  When a  *)
(* connection has come to rest, no message is left in the lists.            *)
Resent == Quiet => out_messages = <<>>
(* "This prevents multiple callbacks for the same message" of QoS 2, says   *)
(* handle_pubrel.c.                                                         *)
Copies(id) == Cardinality({i \in DOMAIN arrived : arrived[i] = id})
ArrivesOnce == \A id \in DOMAIN sent : sent[id] = 2 => Copies(id) <= 1

(* What the broker has done with has arrived.                               *)
Arrives == \A id \in DOMAIN sent :
             Copies(id) > 0 \/ \E i \in DOMAIN peer.out : peer.out[i].id = id

(* The broker takes a message of QoS 2 once, whatever thread published it.  *)
ReceivedOnce ==
  \A i, j \in DOMAIN received : received[i] = received[j] /\ accepted[received[i]] = 2 => i = j

(* Once connections hold, every message of the callbacks is announced.      *)
Announced ==
  \A id \in 1..MaxPublished :
    (~own_thread /\ id \in DOMAIN accepted) ~> id \in announced
=============================================================================
