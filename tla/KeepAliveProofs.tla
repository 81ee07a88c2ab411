-------------------------- MODULE KeepAliveProofs --------------------------
(***************************************************************************)
(* Theorems about module KeepAlive, for every keepalive interval and every *)
(* delay of less than half of it.  All that is said of times is linear     *)
(* arithmetic on the clocks of the two sides and the ages of the packets;  *)
(* of the sequences of packets only the members that answer a question are *)
(* spoken of.                                                              *)
(***************************************************************************)
EXTENDS KeepAlive, SequenceTheorems, TLAPS

Kinds == {"CONNECT", "CONNACK", "PINGREQ", "PINGRESP", "other"}
Packets == [t: Kinds, age: Nat]

TypedState ==
  /\ state \in {"closed", "connecting", "connected"}
  /\ waiting \in BOOLEAN /\ due \in BOOLEAN /\ open \in BOOLEAN
  /\ gave_up \subseteq {"client", "broker"}

TypedTimes ==
  idle_in \in Nat /\ left \in 0..keepalive /\ idle \in Nat /\ silent \in Nat \cup {-1}

TypedPackets == up \in Seq(Packets) /\ down \in Seq(Packets)

Typed == TypedState /\ TypedTimes /\ TypedPackets

-----------------------------------------------------------------------------
(* The loop looks at the time before the next write is overdue, and never   *)
(* sleeps longer than until that.                                           *)
Looks ==
  state # "closed" =>
    /\ ~due => left > 0 /\ idle_in + left < 2 * keepalive
    /\ idle_in < 2 * keepalive

(* Packets are no older than MaxDelay while they get through.               *)
Fresh == \A i \in DOMAIN up : up[i].age <= MaxDelay
FreshDown == \A i \in DOMAIN down : down[i].age <= MaxDelay

(* The broker has heard the client since its last write, or has a packet    *)
(* before it that was written a keepalive after the last it has heard.      *)
Heard ==
  open =>
    /\ idle <= keepalive + MaxDelay
    /\ state # "closed" /\ up = <<>> => idle <= keepalive - left
    /\ up # <<>> => idle <= keepalive + up[1].age

(* The client has waited for an answer for less than t seconds: neither of  *)
(* its clocks is further.                                                   *)
Waited(t) == idle_in <= t /\ keepalive - left <= t

(* The question is on its way to the broker, or the answer to the client.   *)
Answered(question, answer) ==
  \/ \E i \in DOMAIN up : up[i].t = question /\ Waited(up[i].age)
  \/ \E i \in DOMAIN down : down[i].t = answer /\ Waited(MaxDelay + down[i].age)

Connecting ==
  state = "connecting" =>
    /\ ~waiting
    /\ \/ /\ Len(up) = 1 /\ down = <<>>
          /\ up[1].t = "CONNECT" /\ Waited(up[1].age)
       \/ /\ up = <<>> /\ Len(down) = 1
          /\ down[1].t = "CONNACK" /\ Waited(MaxDelay + down[1].age)

Pinging == state = "connected" /\ waiting => Answered("PINGREQ", "PINGRESP")

(* What holds while packets get through.                                    *)
Alive == silent = -1 => gave_up = {} /\ Fresh /\ FreshDown /\ Heard /\ Connecting /\ Pinging

(* What holds when nothing does: the clocks have run for as long as it is   *)
(* silent, but for the PINGREQ that sets the client's back once.            *)
Dead ==
  silent >= 0 =>
    /\ up = <<>> /\ down = <<>>
    /\ open => silent <= idle /\ idle <= (keepalive * 3) \div 2 + 1
    /\ state # "closed" /\ ~waiting => silent <= idle_in
    /\ state # "closed" /\ waiting => silent < 2 * keepalive + idle_in

Inv == Typed /\ Looks /\ Alive /\ Dead
-----------------------------------------------------------------------------
(* Facts about the sequences of packets.                                    *)

(* A packet that is sent now is a packet, and has the age 0.                *)
LEMMA PacketType == \A t \in Kinds : Packet(t) \in Packets /\ Packet(t).t = t /\ Packet(t).age = 0
BY DEF Packet, Packets, Kinds

(* A packet that is sent while packets get through is the last.             *)
LEMMA SentParts ==
  ASSUME NEW s \in Seq(Packets), NEW t \in Kinds
  PROVE  /\ Sent(s, t) \in Seq(Packets)
         /\ silent >= 0 => Sent(s, t) = s
         /\ ~(silent >= 0) =>
              /\ Len(Sent(s, t)) = Len(s) + 1 /\ Sent(s, t) # <<>>
              /\ \A i \in 1..Len(s) : Sent(s, t)[i] = s[i]
              /\ Sent(s, t)[Len(s) + 1].t = t /\ Sent(s, t)[Len(s) + 1].age = 0
<1>1. Packet(t) \in Packets /\ Packet(t).t = t /\ Packet(t).age = 0
  BY PacketType
<1> DEFINE p == Packet(t)
<1>2. p \in Packets /\ p.t = t /\ p.age = 0
  BY <1>1
<1> HIDE DEF p
<1>3. Sent(s, t) = IF silent >= 0 THEN s ELSE Append(s, p)
  BY DEF Sent, p
<1>4. /\ Append(s, p) \in Seq(Packets) /\ Len(Append(s, p)) = Len(s) + 1
      /\ \A i \in 1..Len(s) : Append(s, p)[i] = s[i]
      /\ Append(s, p)[Len(s) + 1] = p
  BY <1>2
<1> QED BY <1>2, <1>3, <1>4

(* What reading the first packet of a connection leaves.                    *)
LEMMA TailParts ==
  ASSUME NEW s \in Seq(Packets), s # <<>>
  PROVE  /\ Tail(s) \in Seq(Packets) /\ Len(Tail(s)) = Len(s) - 1 /\ Len(s) \in Nat \ {0}
         /\ \A i \in 1..(Len(s) - 1) : Tail(s)[i] = s[i + 1]
         /\ Head(s) = s[1] /\ s[1] \in Packets
OBVIOUS

(* The age of a packet on its way is a number.                              *)
LEMMA AgeType ==
  ASSUME Typed
  PROVE  /\ \A i \in DOMAIN up : up[i].age \in Nat
         /\ \A i \in DOMAIN down : down[i].age \in Nat
<1>1. up \in Seq(Packets) /\ down \in Seq(Packets)
  BY DEF Typed, TypedPackets
<1>2. (\A i \in DOMAIN up : up[i] \in Packets) /\ \A i \in DOMAIN down : down[i] \in Packets
  BY <1>1
<1> QED BY <1>2 DEF Packets

(* A second makes every packet older and changes nothing else.              *)
LEMMA OlderParts ==
  ASSUME NEW s \in Seq(Packets)
  PROVE  /\ Older(s) \in Seq(Packets) /\ Len(Older(s)) = Len(s)
         /\ s = <<>> => Older(s) = <<>>
         /\ \A i \in 1..Len(s) : Older(s)[i].t = s[i].t /\ Older(s)[i].age = s[i].age + 1
<1>1. \A i \in 1..Len(s) : s[i] \in Packets
  OBVIOUS
<1>2. \A i \in 1..Len(s) : [s[i] EXCEPT !.age = @ + 1] \in Packets
  BY <1>1 DEF Packets
<1>3. Older(s) = [i \in 1..Len(s) |-> [s[i] EXCEPT !.age = @ + 1]]
  BY DEF Older
<1>4. Older(s) \in Seq(Packets) /\ Len(Older(s)) = Len(s)
  BY <1>2, <1>3
<1>5. \A i \in 1..Len(s) : Older(s)[i].t = s[i].t /\ Older(s)[i].age = s[i].age + 1
  BY <1>1, <1>3 DEF Packets
<1> QED BY <1>4, <1>5

-----------------------------------------------------------------------------
(* The invariant holds at the start, and no step ends it.                   *)

(* The invariant holds at the start.                                        *)
LEMMA InitInv == ASSUME Init PROVE Inv
<1> USE KeepAliveAssumption DEF KeepAliveAssumption, Init
<1>1. TypedState
  BY DEF TypedState
<1>5. TypedTimes
  BY DEF TypedTimes
<1>4. TypedPackets
  BY DEF TypedPackets
<1>2. Looks /\ Dead
  BY DEF Looks, Dead
<1>3. Alive
  BY DEF Alive, Fresh, FreshDown, Heard, Connecting, Pinging
<1> QED BY <1>1, <1>2, <1>3, <1>4, <1>5 DEF Inv, Typed

(* A new connection: the time of the keepalive starts anew, and the CONNECT *)
(* is on its way.                                                           *)
LEMMA ReconnectInv == ASSUME Inv, Reconnect PROVE Inv'
<1> USE KeepAliveAssumption DEF KeepAliveAssumption, Reconnect
<1>1. /\ up' \in Seq(Packets) /\ Len(up') = 1 /\ up' # <<>>
      /\ up'[1].t = "CONNECT" /\ up'[1].age = 0
  BY DEF Packet, Packets, Kinds
<1>2. TypedState'
  BY DEF Inv, Typed, TypedState
<1>7. TypedTimes'
  BY DEF TypedTimes
<1>6. TypedPackets'
  BY <1>1 DEF TypedPackets
<1>3. Looks' /\ Dead'
  BY DEF Looks, Dead
<1>4. Fresh' /\ FreshDown' /\ Heard'
  BY <1>1 DEF Fresh, FreshDown, Heard
<1>5. Connecting' /\ Pinging'
  BY <1>1 DEF Connecting, Pinging, Waited
<1> QED BY <1>2, <1>3, <1>4, <1>5, <1>6, <1>7 DEF Inv, Typed, Alive

(* Both ends of a connection that ends stay within their times.             *)
LEMMA EndInv == ASSUME Inv, ClientEnds \/ BrokerEnds PROVE Inv'
<1> USE KeepAliveAssumption DEF KeepAliveAssumption, ClientEnds, BrokerEnds, ClientCloses, client, broker
<1>1. Typed'
  BY DEF Inv, Typed, TypedState, TypedTimes, TypedPackets
<1>4. Looks' /\ Dead'
  BY DEF Inv, Typed, TypedTimes, Looks, Dead
<1>2. ASSUME silent = -1 PROVE Fresh' /\ FreshDown' /\ Heard'
  BY <1>2 DEF Inv, Typed, Alive, Fresh, FreshDown, Heard
<1>3. ASSUME silent = -1 PROVE Connecting' /\ Pinging'
  BY <1>3 DEF Inv, Alive, Connecting, Pinging, Answered, Waited
<1> QED BY <1>1, <1>2, <1>3, <1>4 DEF Inv, Alive

(* The network stops carrying anything, and what was on its way is lost.    *)
LEMMA SilenceInv == ASSUME Inv, Silence PROVE Inv'
<1> USE KeepAliveAssumption DEF KeepAliveAssumption, Silence, client, broker
<1>1. TypedState' /\ TypedTimes'
  BY DEF Inv, Typed, TypedState, TypedTimes
<1>2. TypedPackets'
  BY DEF TypedPackets
<1>3. Looks'
  BY DEF Inv, Looks
<1>4. idle <= (keepalive * 3) \div 2 + 1
  BY DEF Inv, Typed, TypedTimes, Alive, Heard
<1>5. Dead' /\ Alive'
  BY <1>4 DEF Inv, Typed, TypedTimes, Dead, Alive
<1> QED BY <1>1, <1>2, <1>3, <1>5 DEF Inv, Typed

(* The broker does not close before a packet that is on its way is there.   *)
LEMMA BrokerTimesOutInv == ASSUME Inv, BrokerTimesOut PROVE Inv'
<1> USE KeepAliveAssumption DEF KeepAliveAssumption, BrokerTimesOut, client, TooIdle
<1>1. silent # -1
  BY DEF Inv, Typed, TypedTimes, Alive, Heard
<1>2. Typed'
  BY DEF Inv, Typed, TypedState, TypedTimes, TypedPackets
<1>3. Looks' /\ Dead' /\ Alive'
  BY <1>1 DEF Inv, Looks, Dead, Alive
<1> QED BY <1>2, <1>3 DEF Inv

(* A packet that the client writes: what it sets, and that the broker is    *)
(* not too long without it.                                                 *)
LEMMA WrittenParts ==
  ASSUME Inv, NEW t \in Kinds, Written(t)
  PROVE  /\ TypedPackets => up' \in Seq(Packets)
         /\ left' = keepalive
         /\ silent >= 0 => up' = up
         /\ silent = -1 =>
              /\ Len(up') = Len(up) + 1 /\ up' # <<>>
              /\ \A i \in 1..Len(up) : up'[i] = up[i]
              /\ up'[Len(up) + 1].t = t /\ up'[Len(up) + 1].age = 0
              /\ \A i \in DOMAIN up' : up'[i].age <= MaxDelay
              /\ open /\ state # "closed" => idle <= keepalive + up'[1].age
<1> USE KeepAliveAssumption DEF KeepAliveAssumption
<1>1. up \in Seq(Packets) /\ silent \in Nat \cup {-1} /\ left \in 0..keepalive /\ idle \in Nat
  BY DEF Inv, Typed, TypedPackets, TypedTimes
<1>2. up' = Sent(up, t) /\ left' = keepalive
  BY DEF Written
<1>3. up' \in Seq(Packets) /\ (silent >= 0 => up' = up)
  BY <1>1, <1>2, SentParts
<1>4. ASSUME silent = -1
      PROVE  /\ Len(up') = Len(up) + 1 /\ up' # <<>>
             /\ \A i \in 1..Len(up) : up'[i] = up[i]
             /\ up'[Len(up) + 1].t = t /\ up'[Len(up) + 1].age = 0
  BY <1>1, <1>2, <1>4, SentParts
<1>5. ASSUME silent = -1 PROVE \A i \in DOMAIN up' : up'[i].age <= MaxDelay
  <2>1. \A i \in DOMAIN up : up[i].age <= MaxDelay
    BY <1>5 DEF Inv, Alive, Fresh
  <2> QED BY <1>1, <1>3, <1>4, <1>5, <2>1
<1>6. ASSUME silent = -1, open, state # "closed" PROVE idle <= keepalive + up'[1].age
  <2>1. CASE up = <<>>
    BY <1>1, <1>4, <1>6, <2>1 DEF Inv, Alive, Heard
  <2>2. CASE up # <<>>
    BY <1>1, <1>4, <1>6, <2>2 DEF Inv, Alive, Heard
  <2> QED BY <2>1, <2>2
<1> QED BY <1>2, <1>3, <1>4, <1>5, <1>6

(* The client sends a packet, and takes its time for the keepalive.         *)
LEMMA ClientSendsInv == ASSUME Inv, ClientSends PROVE Inv'
<1> USE KeepAliveAssumption DEF KeepAliveAssumption, ClientSends, broker
<1>1. "other" \in Kinds
  BY DEF Kinds
<1>2. Written("other")
  OBVIOUS
<1> HIDE DEF ClientSends
<1>3. TypedState' /\ UNCHANGED <<state, waiting, idle_in, down, open, idle, silent, gave_up>> /\ due' /\ state = "connected"
  BY DEF ClientSends, Inv, Typed, TypedState
<1>4. TypedTimes' /\ TypedPackets'
  BY <1>1, <1>2, <1>3, WrittenParts DEF Inv, Typed, TypedTimes, TypedPackets
<1>5. Looks' /\ Dead'
  BY <1>1, <1>2, <1>3, WrittenParts DEF Inv, Typed, TypedTimes, Looks, Dead
<1>6. ASSUME silent = -1 PROVE Fresh' /\ FreshDown' /\ Heard' /\ Connecting'
  BY <1>1, <1>2, <1>3, <1>6, WrittenParts DEF Inv, Alive, Fresh, FreshDown, Heard, Connecting
<1>7. ASSUME silent = -1, waiting PROVE Answered("PINGREQ", "PINGRESP")'
  <2>1. CASE \E i \in DOMAIN up : up[i].t = "PINGREQ" /\ Waited(up[i].age)
    <3>1. PICK i \in DOMAIN up : up[i].t = "PINGREQ" /\ Waited(up[i].age)
      BY <2>1
    <3>4. Len(up') = Len(up) + 1 /\ \A j \in 1..Len(up) : up'[j] = up[j]
      BY <1>1, <1>2, <1>7, WrittenParts
    <3>5. up \in Seq(Packets) /\ up' \in Seq(Packets)
      BY <1>4 DEF Inv, Typed, TypedPackets
    <3>2. i \in DOMAIN up' /\ up'[i] = up[i] /\ up[i].age \in Nat
      BY <3>1, <3>4, <3>5, AgeType DEF Inv
    <3>3. Waited(up[i].age)'
      BY <1>1, <1>2, <1>3, <3>1, <3>2, WrittenParts DEF Waited
    <3> QED BY <3>1, <3>2, <3>3 DEF Answered, Waited
  <2>2. CASE \E i \in DOMAIN down : down[i].t = "PINGRESP" /\ Waited(MaxDelay + down[i].age)
    <3>1. PICK i \in DOMAIN down : down[i].t = "PINGRESP" /\ Waited(MaxDelay + down[i].age)
      BY <2>2
    <3>2. down[i].age \in Nat
      BY AgeType DEF Inv
    <3>3. Waited(MaxDelay + down[i].age)'
      BY <1>1, <1>2, <1>3, <3>1, <3>2, WrittenParts DEF Waited
    <3> QED BY <1>3, <3>1, <3>3 DEF Answered
  <2> QED BY <1>3, <1>7, <2>1, <2>2 DEF Inv, Alive, Pinging, Answered
<1> QED BY <1>3, <1>4, <1>5, <1>6, <1>7 DEF Inv, Typed, Alive, Pinging

(* With packets that get through the client never finds an answer overdue.  *)
LEMMA NotExpired ==
  ASSUME Inv, silent = -1, state = "connecting" \/ (state = "connected" /\ waiting)
  PROVE  ~Expired
<1> USE KeepAliveAssumption DEF KeepAliveAssumption
<1>1. /\ idle_in \in Nat /\ left \in 0..keepalive
      /\ \A i \in DOMAIN up : up[i].age \in 0..MaxDelay
      /\ \A i \in DOMAIN down : down[i].age \in 0..MaxDelay
  BY AgeType DEF Inv, Typed, TypedTimes, Alive, Fresh, FreshDown
<1>2. ASSUME NEW t \in 0..(2 * MaxDelay), Waited(t) PROVE ~Expired
  BY <1>1, <1>2 DEF Waited, Expired
<1>3. CASE state = "connected" /\ waiting
  <2>1. Answered("PINGREQ", "PINGRESP")
    BY <1>3 DEF Inv, Alive, Pinging
  <2> QED BY <1>1, <1>2, <2>1 DEF Answered
<1>4. CASE state = "connecting"
  <2>1. \/ Len(up) = 1 /\ Waited(up[1].age)
        \/ Len(down) = 1 /\ Waited(MaxDelay + down[1].age)
    BY <1>4 DEF Inv, Alive, Connecting
  <2>2. up \in Seq(Packets) /\ down \in Seq(Packets)
    BY DEF Inv, Typed, TypedPackets
  <2>3. CASE Len(up) = 1 /\ Waited(up[1].age)
    <3>1. 1 \in DOMAIN up
      BY <2>2, <2>3
    <3> QED BY <1>1, <1>2, <2>3, <3>1
  <2>4. CASE Len(down) = 1 /\ Waited(MaxDelay + down[1].age)
    <3>1. 1 \in DOMAIN down
      BY <2>2, <2>4
    <3> QED BY <1>1, <1>2, <2>4, <3>1
  <2> QED BY <2>1, <2>3, <2>4
<1> QED BY <1>3, <1>4

(* mosquitto__check_keepalive sends a PINGREQ, or gives the connection up.  *)
LEMMA CheckKeepaliveInv == ASSUME Inv, CheckKeepalive PROVE Inv'
<1> USE KeepAliveAssumption DEF KeepAliveAssumption, broker
<1>1. "PINGREQ" \in Kinds
  BY DEF Kinds
<1>2. state # "closed" /\ UNCHANGED <<down, open, idle, silent>>
  BY DEF CheckKeepalive
<1>3. CASE ~Expired /\ due' = FALSE /\ UNCHANGED <<state, waiting, idle_in, left, up, gave_up>>
  <2>1. TypedState' /\ TypedTimes' /\ TypedPackets'
    BY <1>2, <1>3 DEF Inv, Typed, TypedState, TypedTimes, TypedPackets
  <2>2. Looks' /\ Dead'
    BY <1>2, <1>3 DEF Inv, Typed, TypedTimes, Looks, Dead, Expired
  <2>3. Alive'
    BY <1>2, <1>3 DEF Inv, Alive, Fresh, FreshDown, Heard, Connecting, Pinging, Answered, Waited
  <2> QED BY <2>1, <2>2, <2>3 DEF Inv, Typed
<1>4. CASE /\ state = "connected" /\ ~waiting
           /\ Written("PINGREQ") /\ waiting' = TRUE /\ idle_in' = 0 /\ due' = FALSE
           /\ UNCHANGED <<state, gave_up>>
  <2>1. TypedState'
    BY <1>2, <1>4 DEF Inv, Typed, TypedState
  <2>2. TypedTimes' /\ TypedPackets'
    BY <1>1, <1>2, <1>4, WrittenParts DEF Inv, Typed, TypedTimes, TypedPackets
  <2>3. Looks' /\ Dead'
    BY <1>1, <1>2, <1>4, WrittenParts DEF Inv, Typed, TypedTimes, Looks, Dead
  <2>4. ASSUME silent = -1 PROVE Fresh' /\ FreshDown' /\ Heard' /\ Connecting'
    BY <1>1, <1>2, <1>4, <2>4, WrittenParts DEF Inv, Alive, Fresh, FreshDown, Heard, Connecting
  <2>5. ASSUME silent = -1 PROVE Answered("PINGREQ", "PINGRESP")'
    <3>1. /\ Len(up) + 1 \in DOMAIN up'
          /\ up'[Len(up) + 1].t = "PINGREQ" /\ up'[Len(up) + 1].age = 0 /\ left' = keepalive
      BY <1>1, <1>4, <2>2, <2>5, WrittenParts DEF Inv, Typed, TypedPackets
    <3>2. idle_in' <= up'[Len(up) + 1].age /\ keepalive - left' <= up'[Len(up) + 1].age
      BY <1>4, <3>1
    <3> QED BY <3>1, <3>2 DEF Answered, Waited
  <2> QED BY <1>2, <1>4, <2>1, <2>2, <2>3, <2>4, <2>5 DEF Inv, Typed, Alive, Pinging
<1>5. CASE /\ Expired /\ ~(state = "connected" /\ ~waiting)
           /\ ClientCloses /\ gave_up' = gave_up \cup {"client"} /\ UNCHANGED up
  <2>1. silent # -1
    <3>1. state = "connecting" \/ (state = "connected" /\ waiting)
      BY <1>2, <1>5 DEF Inv, Typed, TypedState
    <3> QED BY <1>5, <3>1, NotExpired
  <2>2. TypedState' /\ TypedTimes' /\ TypedPackets'
    BY <1>2, <1>5 DEF Inv, Typed, TypedState, TypedTimes, TypedPackets, ClientCloses
  <2>3. Looks' /\ Dead' /\ Alive'
    BY <1>2, <1>5, <2>1 DEF Inv, Looks, Dead, Alive, ClientCloses
  <2> QED BY <2>2, <2>3 DEF Inv, Typed
<1> QED BY <1>3, <1>4, <1>5 DEF CheckKeepalive

(* The client reads a packet from the broker, and clears ping_t on          *)
(* PINGRESP.                                                                *)
LEMMA ClientReadsInv == ASSUME Inv, ClientReads PROVE Inv'
<1> USE KeepAliveAssumption DEF KeepAliveAssumption
<1>1. /\ state # "closed" /\ down # <<>> /\ down' = Tail(down) /\ idle_in' = 0 /\ due' = TRUE
      /\ state' = (IF down[1].t = "CONNACK" THEN "connected" ELSE state)
      /\ waiting' = (waiting /\ down[1].t # "PINGRESP")
      /\ UNCHANGED <<left, up, open, idle, silent, gave_up>>
  BY TailParts DEF ClientReads, broker, Inv, Typed, TypedPackets
<1>2. /\ down' \in Seq(Packets) /\ Len(down') = Len(down) - 1 /\ Len(down) \in Nat \ {0}
      /\ \A i \in 1..(Len(down) - 1) : down'[i] = down[i + 1]
      /\ DOMAIN down = 1..Len(down) /\ DOMAIN down' = 1..(Len(down) - 1)
  BY <1>1, TailParts DEF Inv, Typed, TypedPackets
<1>3. TypedState'
  BY <1>1 DEF Inv, Typed, TypedState
<1>4. TypedTimes' /\ TypedPackets'
  BY <1>1, <1>2 DEF Inv, Typed, TypedTimes, TypedPackets
<1>5. silent = -1
  BY <1>1 DEF Inv, Typed, TypedTimes, Dead
<1>6. Looks' /\ Dead'
  BY <1>1, <1>5 DEF Inv, Looks, Dead
<1>7. Fresh' /\ FreshDown' /\ Heard'
  BY <1>1, <1>2, <1>5 DEF Inv, Alive, Fresh, FreshDown, Heard
<1>8. Connecting'
  <2>1. ASSUME state = "connecting" PROVE state' = "connected" /\ ~waiting'
    BY <1>1, <1>2, <1>5, <2>1 DEF Inv, Alive, Connecting
  <2> QED BY <1>1, <2>1 DEF Connecting
<1>9. ASSUME state' = "connected", waiting' PROVE Answered("PINGREQ", "PINGRESP")'
  <2>1. waiting /\ down[1].t # "PINGRESP"
    BY <1>1, <1>9
  <2>2. state = "connected"
    BY <1>1, <1>5, <2>1 DEF Inv, Typed, TypedState, Alive, Connecting
  <2>3. CASE \E i \in DOMAIN up : up[i].t = "PINGREQ" /\ Waited(up[i].age)
    <3>1. PICK i \in DOMAIN up : up[i].t = "PINGREQ" /\ Waited(up[i].age)
      BY <2>3
    <3>2. Waited(up[i].age)'
      BY <1>1, <3>1, AgeType DEF Waited, Inv
    <3> QED BY <1>1, <3>1, <3>2 DEF Answered
  <2>4. CASE \E i \in DOMAIN down : down[i].t = "PINGRESP" /\ Waited(MaxDelay + down[i].age)
    <3>1. PICK i \in DOMAIN down : down[i].t = "PINGRESP" /\ Waited(MaxDelay + down[i].age)
      BY <2>4
    <3>2. i - 1 \in DOMAIN down' /\ down'[i - 1] = down[i]
      BY <1>2, <2>1, <3>1
    <3>3. idle_in' <= MaxDelay + down[i].age /\ keepalive - left' <= MaxDelay + down[i].age
      BY <1>1, <3>1, AgeType DEF Waited, Inv
    <3> QED BY <3>1, <3>2, <3>3 DEF Answered, Waited
  <2> QED BY <1>5, <2>1, <2>2, <2>3, <2>4 DEF Inv, Alive, Pinging, Answered
<1> QED BY <1>1, <1>3, <1>4, <1>5, <1>6, <1>7, <1>8, <1>9 DEF Inv, Typed, Alive, Pinging

(* The broker sends a packet of its own.                                    *)
LEMMA BrokerSendsInv == ASSUME Inv, BrokerSends PROVE Inv'
<1> USE KeepAliveAssumption DEF KeepAliveAssumption
<1>1. /\ state = "connected" /\ down' = Sent(down, "other")
      /\ UNCHANGED <<state, waiting, idle_in, left, due, up, open, idle, silent, gave_up>>
  BY DEF BrokerSends, client, broker
<1>2. "other" \in Kinds
  BY DEF Kinds
<1>3. /\ down' \in Seq(Packets) /\ (silent >= 0 => down' = down)
      /\ ~(silent >= 0) =>
           /\ Len(down') = Len(down) + 1 /\ \A i \in 1..Len(down) : down'[i] = down[i]
           /\ down'[Len(down) + 1].age = 0
  BY <1>1, <1>2, SentParts DEF Inv, Typed, TypedPackets
<1>4. TypedState' /\ TypedTimes' /\ TypedPackets'
  BY <1>1, <1>3 DEF Inv, Typed, TypedState, TypedTimes, TypedPackets
<1>5. Looks' /\ Dead'
  BY <1>1, <1>3 DEF Inv, Looks, Dead
<1>6. ASSUME silent = -1 PROVE Fresh' /\ Heard' /\ Connecting'
  BY <1>1, <1>6 DEF Inv, Alive, Fresh, Heard, Connecting
<1>7. ASSUME silent = -1 PROVE FreshDown'
  <2>1. /\ Len(down') = Len(down) + 1 /\ \A i \in 1..Len(down) : down'[i] = down[i]
        /\ down'[Len(down) + 1].age = 0
    BY <1>3, <1>7
  <2>2. down \in Seq(Packets) /\ down' \in Seq(Packets)
    BY <1>4 DEF Inv, Typed, TypedPackets
  <2>3. \A i \in DOMAIN down : down[i].age <= MaxDelay
    BY <1>7 DEF Inv, Alive, FreshDown
  <2> QED BY <2>1, <2>2, <2>3 DEF FreshDown
<1>8. ASSUME silent = -1, waiting PROVE Answered("PINGREQ", "PINGRESP")'
  <2>1. \A i \in DOMAIN down : i \in DOMAIN down' /\ down'[i] = down[i]
    <3>1. Len(down') = Len(down) + 1 /\ \A i \in 1..Len(down) : down'[i] = down[i]
      BY <1>3, <1>8
    <3>2. down \in Seq(Packets) /\ down' \in Seq(Packets)
      BY <1>4 DEF Inv, Typed, TypedPackets
    <3> QED BY <3>1, <3>2
  <2> QED BY <1>1, <1>8, <2>1 DEF Inv, Alive, Pinging, Answered, Waited
<1> QED BY <1>1, <1>4, <1>5, <1>6, <1>7, <1>8 DEF Inv, Typed, Alive, Pinging

(* The broker reads a packet, and answers a question.                       *)
LEMMA BrokerReadsInv == ASSUME Inv, BrokerReads PROVE Inv'
<1> USE KeepAliveAssumption DEF KeepAliveAssumption
<1>1. /\ open /\ up # <<>> /\ up' = Tail(up) /\ idle' = 0
      /\ UNCHANGED <<state, waiting, idle_in, left, due, open, silent, gave_up>>
  BY DEF BrokerReads, client
<1>2. /\ up' \in Seq(Packets) /\ Len(up') = Len(up) - 1 /\ Len(up) \in Nat \ {0}
      /\ \A i \in 1..(Len(up) - 1) : up'[i] = up[i + 1]
      /\ DOMAIN up = 1..Len(up) /\ DOMAIN up' = 1..(Len(up) - 1) /\ Head(up) = up[1]
  BY <1>1, TailParts DEF Inv, Typed, TypedPackets
<1>3. silent = -1
  BY <1>1 DEF Inv, Typed, TypedTimes, Dead
<1> DEFINE Replied(t) == /\ Len(down') = Len(down) + 1
                         /\ \A i \in 1..Len(down) : down'[i] = down[i]
                         /\ down'[Len(down) + 1].t = t /\ down'[Len(down) + 1].age = 0
<1>4. /\ down' \in Seq(Packets)
      /\ \/ up[1].t = "CONNECT" /\ Replied("CONNACK")
         \/ up[1].t = "PINGREQ" /\ Replied("PINGRESP")
         \/ up[1].t \notin {"CONNECT", "PINGREQ"} /\ down' = down
  <2>1. down \in Seq(Packets) /\ "CONNACK" \in Kinds /\ "PINGRESP" \in Kinds /\ ~(silent >= 0)
    BY <1>3 DEF Kinds, Inv, Typed, TypedPackets
  <2>2. CASE up[1].t = "CONNECT"
    <3>1. down' = Sent(down, "CONNACK")
      BY <1>2, <2>2 DEF BrokerReads
    <3> QED BY <2>1, <2>2, <3>1, SentParts
  <2>3. CASE up[1].t = "PINGREQ"
    <3>1. down' = Sent(down, "PINGRESP")
      BY <1>2, <2>3 DEF BrokerReads
    <3> QED BY <2>1, <2>3, <3>1, SentParts
  <2>4. CASE up[1].t \notin {"CONNECT", "PINGREQ"}
    <3>1. down' = down
      BY <1>2, <2>4 DEF BrokerReads
    <3> QED BY <2>1, <2>4, <3>1
  <2> QED BY <2>2, <2>3, <2>4
<1>5. TypedState'
  BY <1>1 DEF Inv, Typed, TypedState
<1>6. TypedTimes' /\ TypedPackets'
  BY <1>1, <1>2, <1>4 DEF Inv, Typed, TypedTimes, TypedPackets
<1>7. Looks' /\ Dead'
  BY <1>1, <1>3 DEF Inv, Looks, Dead
<1>8. Fresh' /\ Heard'
  <2>1. \A i \in DOMAIN up' : up'[i].age \in Nat /\ up'[i].age <= MaxDelay
    <3>1. \A i \in DOMAIN up : up[i].age \in Nat /\ up[i].age <= MaxDelay
      BY <1>3, AgeType DEF Inv, Alive, Fresh
    <3>2. ASSUME NEW i \in DOMAIN up' PROVE i + 1 \in DOMAIN up /\ up'[i] = up[i + 1]
      BY <1>2, <3>2
    <3> QED BY <3>1, <3>2
  <2>2. idle' = 0 /\ keepalive - left' >= 0
    BY <1>1, <1>6 DEF TypedTimes
  <2>3. up' # <<>> => idle' <= keepalive + up'[1].age
    BY <1>6, <2>1, <2>2 DEF TypedPackets
  <2> QED BY <2>1, <2>2, <2>3 DEF Fresh, Heard
<1>14. down \in Seq(Packets) /\ down' \in Seq(Packets)
  BY <1>4 DEF Inv, Typed, TypedPackets
<1>9. FreshDown'
  <2>1. \A i \in DOMAIN down : down[i].age <= MaxDelay
    BY <1>3 DEF Inv, Alive, FreshDown
  <2> QED BY <1>4, <1>14, <2>1 DEF FreshDown
<1>10. \A i \in DOMAIN down : i \in DOMAIN down' /\ down'[i] = down[i]
  BY <1>4, <1>14
<1>11. ASSUME state = "connecting"
       PROVE  /\ Len(up) = 1 /\ down = <<>> /\ up[1].t = "CONNECT" /\ up[1].age <= MaxDelay
              /\ up[1].age \in Nat /\ ~waiting /\ Waited(up[1].age)
  BY <1>1, <1>2, <1>3, <1>11, AgeType DEF Inv, Alive, Connecting, Fresh
<1>12. Connecting'
  <2>1. SUFFICES ASSUME state = "connecting" PROVE Connecting'
    BY <1>1 DEF Connecting
  <2>2. up' = <<>> /\ ~waiting'
    BY <1>1, <1>2, <1>11, <2>1
  <2>3. Len(down') = 1 /\ down'[1].t = "CONNACK" /\ down'[1].age = 0
    BY <1>4, <1>11, <2>1
  <2>4. idle_in' <= MaxDelay + down'[1].age /\ keepalive - left' <= MaxDelay + down'[1].age
    BY <1>1, <1>11, <2>1, <2>3 DEF Inv, Typed, TypedTimes, Waited
  <2> QED BY <2>2, <2>3, <2>4 DEF Connecting, Waited
<1>13. ASSUME state = "connected", waiting PROVE Answered("PINGREQ", "PINGRESP")'
  <2>1. CASE \E i \in DOMAIN up : up[i].t = "PINGREQ" /\ Waited(up[i].age)
    <3>1. PICK i \in DOMAIN up : up[i].t = "PINGREQ" /\ Waited(up[i].age)
      BY <2>1
    <3>2. CASE i = 1
      <4>1. /\ Len(down) + 1 \in DOMAIN down' /\ down'[Len(down) + 1].t = "PINGRESP"
            /\ down'[Len(down) + 1].age = 0
        BY <1>4, <3>1, <3>2 DEF Inv, Typed, TypedPackets
      <4>2. up[i].age \in Nat /\ up[i].age <= MaxDelay
        BY <1>3, <3>1, AgeType DEF Inv, Alive, Fresh
      <4>3. idle_in' <= MaxDelay + 0 /\ keepalive - left' <= MaxDelay + 0
        BY <1>1, <3>1, <4>2 DEF Waited, Inv, Typed, TypedTimes
      <4> QED BY <4>1, <4>3 DEF Answered, Waited
    <3>3. CASE i # 1
      <4>1. i - 1 \in DOMAIN up' /\ up'[i - 1] = up[i]
        BY <1>2, <3>1, <3>3
      <4>2. idle_in' <= up[i].age /\ keepalive - left' <= up[i].age
        BY <1>1, <3>1 DEF Waited
      <4> QED BY <3>1, <4>1, <4>2 DEF Answered, Waited
    <3> QED BY <3>2, <3>3
  <2>2. CASE \E i \in DOMAIN down : down[i].t = "PINGRESP" /\ Waited(MaxDelay + down[i].age)
    BY <1>1, <1>10, <2>2 DEF Answered, Waited
  <2> QED BY <1>3, <1>13, <2>1, <2>2 DEF Inv, Alive, Pinging, Answered
<1> QED BY <1>1, <1>5, <1>6, <1>7, <1>8, <1>9, <1>12, <1>13 DEF Inv, Typed, Alive, Pinging

(* A second passes: never before a client whose next write is due, and with *)
(* packets that get through only on a connection that both have.            *)
LEMMA TickInv == ASSUME Inv, Tick PROVE Inv'
<1> USE KeepAliveAssumption DEF KeepAliveAssumption
<1>1. up \in Seq(Packets) /\ down \in Seq(Packets)
  BY DEF Inv, Typed, TypedPackets
<1>2. /\ state # "closed" => ~due
      /\ open => idle <= (keepalive * 3) \div 2
      /\ open => \A i \in DOMAIN up : up[i].age < MaxDelay
      /\ state # "closed" => \A i \in DOMAIN down : down[i].age < MaxDelay
      /\ up' = Older(up) /\ down' = Older(down)
      /\ UNCHANGED <<state, waiting, open, gave_up>>
  BY DEF Tick, TooIdle, Inv, Typed, TypedTimes
<1>3. silent = -1 => state # "closed" /\ open
  BY DEF Tick, Inv, Typed, TypedState
<1>4. silent' = IF silent = -1 THEN -1 ELSE silent + 1
  BY DEF Tick
<1>5. idle' = IF open THEN idle + 1 ELSE idle
  BY DEF Tick
<1>6. /\ state = "closed" => UNCHANGED <<idle_in, left, due>>
      /\ state # "closed" => idle_in' = idle_in + 1 /\ left' = left - 1 /\ due' = (left' <= 0)
  BY DEF Tick
<1>7. /\ up' \in Seq(Packets) /\ Len(up') = Len(up) /\ (up = <<>> => up' = <<>>)
      /\ \A i \in 1..Len(up) : up'[i].t = up[i].t /\ up'[i].age = up[i].age + 1
      /\ DOMAIN up = 1..Len(up) /\ DOMAIN up' = 1..Len(up)
  BY <1>1, <1>2, OlderParts
<1>8. /\ down' \in Seq(Packets) /\ Len(down') = Len(down) /\ (down = <<>> => down' = <<>>)
      /\ \A i \in 1..Len(down) : down'[i].t = down[i].t /\ down'[i].age = down[i].age + 1
      /\ DOMAIN down = 1..Len(down) /\ DOMAIN down' = 1..Len(down)
  BY <1>1, <1>2, OlderParts
<1>9. TypedState'
  <2>1. due' \in BOOLEAN
    <3>1. CASE state = "closed"
      BY <1>6, <3>1 DEF Inv, Typed, TypedState
    <3>2. CASE state # "closed"
      <4>1. due' = (left' <= 0)
        BY <1>6, <3>2
      <4> QED BY ONLY <4>1
    <3> QED BY <3>1, <3>2
  <2> QED BY <1>2, <2>1 DEF Inv, Typed, TypedState
<1>10. state # "closed" => left > 0 /\ idle_in + left < 2 * keepalive
  BY <1>2 DEF Inv, Looks
<1>11. TypedTimes' /\ TypedPackets'
  BY <1>4, <1>5, <1>6, <1>7, <1>8, <1>10 DEF Inv, Typed, TypedTimes, TypedPackets
<1>12. Looks'
  <2>1. SUFFICES ASSUME state # "closed" PROVE Looks'
    BY <1>2 DEF Looks
  <2>2. idle_in' = idle_in + 1 /\ left' = left - 1 /\ idle_in \in Nat /\ left \in 0..keepalive
    BY <1>6, <2>1 DEF Inv, Typed, TypedTimes
  <2>4. left > 0 /\ idle_in + left < 2 * keepalive
    BY <1>10, <2>1
  <2>5. idle_in' + left' < 2 * keepalive /\ idle_in' < 2 * keepalive
    BY <2>2, <2>4
  <2>3. ~due' => left' > 0
    <3>1. due' = (left' <= 0)
      BY <1>6, <2>1
    <3>2. left' \in Int
      BY <2>2
    <3>3. ~due' => ~(left' <= 0)
      BY ONLY <3>1, Zenon
    <3> QED BY <3>2, <3>3
  <2> QED BY <2>3, <2>5 DEF Looks
<1>13. Dead'
  <2>1. SUFFICES ASSUME silent >= 0 PROVE Dead'
    BY <1>4 DEF Dead, Inv, Typed, TypedTimes
  <2>2. silent' = silent + 1
    BY <1>4, <2>1
  <2>3. up' = <<>> /\ down' = <<>>
    BY <1>7, <1>8, <2>1 DEF Inv, Dead
  <2>4. open => silent' <= idle' /\ idle' <= (keepalive * 3) \div 2 + 1
    BY <1>2, <1>5, <2>1, <2>2 DEF Inv, Dead, Typed, TypedTimes
  <2>5. /\ state # "closed" /\ ~waiting => silent' <= idle_in'
        /\ state # "closed" /\ waiting => silent' < 2 * keepalive + idle_in'
    BY <1>6, <2>1, <2>2 DEF Inv, Dead, Typed, TypedTimes
  <2> QED BY <1>2, <2>3, <2>4, <2>5 DEF Dead
<1>14. ASSUME silent = -1 PROVE Fresh' /\ FreshDown'
  BY <1>2, <1>3, <1>7, <1>8, <1>14, AgeType DEF Inv, Fresh, FreshDown
<1>15. ASSUME silent = -1 PROVE Heard'
  <2>1. /\ state # "closed" /\ open /\ idle \in Nat /\ idle' = idle + 1 /\ left \in 0..keepalive
        /\ left' = left - 1 /\ left > 0
    BY <1>3, <1>5, <1>6, <1>10, <1>15 DEF Inv, Typed, TypedTimes
  <2>2. CASE up = <<>>
    <3>1. idle <= keepalive - left
      BY <1>15, <2>1, <2>2 DEF Inv, Alive, Heard
    <3>2. up' = <<>> /\ idle' <= keepalive - left' /\ idle' <= keepalive + MaxDelay
      BY <1>7, <2>1, <2>2, <3>1
    <3> QED BY <3>2 DEF Heard
  <2>3. CASE up # <<>>
    <3>1. 1 \in DOMAIN up /\ up[1].age \in Nat /\ up[1].age < MaxDelay /\ idle <= keepalive + up[1].age
      BY <1>1, <1>2, <1>15, <2>1, <2>3, AgeType DEF Inv, Alive, Heard
    <3>2. up' # <<>> /\ up'[1].age = up[1].age + 1
      BY <1>7, <2>3, <3>1
    <3>3. idle' <= keepalive + up'[1].age /\ idle' <= keepalive + MaxDelay
      BY <2>1, <3>1, <3>2
    <3> QED BY <3>2, <3>3 DEF Heard
  <2> QED BY <2>2, <2>3
<1>16. ASSUME silent = -1
       PROVE  /\ \A i \in DOMAIN up : Waited(up[i].age) =>
                   idle_in' <= up'[i].age /\ keepalive - left' <= up'[i].age
              /\ \A i \in DOMAIN down : Waited(MaxDelay + down[i].age) =>
                   idle_in' <= MaxDelay + down'[i].age /\ keepalive - left' <= MaxDelay + down'[i].age
  <2>1. idle_in' = idle_in + 1 /\ left' = left - 1 /\ idle_in \in Nat /\ left \in 0..keepalive
    BY <1>3, <1>6, <1>16 DEF Inv, Typed, TypedTimes
  <2>2. (\A i \in DOMAIN up : up[i].age \in Nat) /\ \A i \in DOMAIN down : down[i].age \in Nat
    BY AgeType DEF Inv
  <2>3. ASSUME NEW i \in DOMAIN up, Waited(up[i].age)
        PROVE  idle_in' <= up'[i].age /\ keepalive - left' <= up'[i].age
    BY <1>7, <2>1, <2>2, <2>3 DEF Waited
  <2>4. ASSUME NEW i \in DOMAIN down, Waited(MaxDelay + down[i].age)
        PROVE  idle_in' <= MaxDelay + down'[i].age /\ keepalive - left' <= MaxDelay + down'[i].age
    BY <1>8, <2>1, <2>2, <2>4 DEF Waited
  <2> QED BY <2>3, <2>4
<1>17. ASSUME silent = -1 PROVE Connecting'
  <2>1. SUFFICES ASSUME state = "connecting" PROVE Connecting'
    BY <1>2 DEF Connecting
  <2>2. CASE Len(up) = 1 /\ down = <<>> /\ up[1].t = "CONNECT" /\ Waited(up[1].age)
    <3>1. /\ Len(up') = 1 /\ down' = <<>> /\ up'[1].t = "CONNECT"
          /\ idle_in' <= up'[1].age /\ keepalive - left' <= up'[1].age
      BY <1>7, <1>8, <1>16, <1>17, <2>2
    <3>2. ~waiting'
      BY <1>2, <1>17, <2>1 DEF Inv, Alive, Connecting
    <3> QED BY <3>1, <3>2 DEF Connecting, Waited
  <2>3. CASE up = <<>> /\ Len(down) = 1 /\ down[1].t = "CONNACK" /\ Waited(MaxDelay + down[1].age)
    <3>1. /\ Len(down') = 1 /\ up' = <<>> /\ down'[1].t = "CONNACK"
          /\ idle_in' <= MaxDelay + down'[1].age /\ keepalive - left' <= MaxDelay + down'[1].age
      BY <1>7, <1>8, <1>16, <1>17, <2>3
    <3>2. ~waiting'
      BY <1>2, <1>17, <2>1 DEF Inv, Alive, Connecting
    <3> QED BY <3>1, <3>2 DEF Connecting, Waited
  <2> QED BY <1>17, <2>1, <2>2, <2>3 DEF Inv, Alive, Connecting
<1>18. ASSUME silent = -1 PROVE Pinging'
  <2>1. SUFFICES ASSUME state = "connected", waiting PROVE Answered("PINGREQ", "PINGRESP")'
    BY <1>2 DEF Pinging
  <2>2. CASE \E i \in DOMAIN up : up[i].t = "PINGREQ" /\ Waited(up[i].age)
    BY <1>7, <1>16, <1>18, <2>2 DEF Answered, Waited
  <2>3. CASE \E i \in DOMAIN down : down[i].t = "PINGRESP" /\ Waited(MaxDelay + down[i].age)
    BY <1>8, <1>16, <1>18, <2>3 DEF Answered, Waited
  <2> QED BY <1>18, <2>1, <2>2, <2>3 DEF Inv, Alive, Pinging, Answered
<1> QED
  <2>1. silent' = -1 => silent = -1
    BY <1>4 DEF Inv, Typed, TypedTimes
  <2> QED BY <1>2, <1>9, <1>11, <1>12, <1>13, <1>14, <1>15, <1>17, <1>18, <2>1 DEF Inv, Typed, Alive

(* The invariant speaks of nothing but the variables.                       *)
LEMMA StutterInv == ASSUME Inv, UNCHANGED vars PROVE Inv'
BY DEF vars, client, broker, Inv, Typed, TypedState, TypedTimes, TypedPackets, Looks, Alive, Dead, Fresh, FreshDown, Heard, Connecting, Pinging, Answered, Waited

(* Every step keeps the invariant.                                          *)
LEMMA NextInv == ASSUME Inv, [Next]_vars PROVE Inv'
<1>1. CASE Reconnect
  BY <1>1, ReconnectInv
<1>2. CASE ClientSends
  BY <1>2, ClientSendsInv
<1>3. CASE ClientReads
  BY <1>3, ClientReadsInv
<1>4. CASE CheckKeepalive
  BY <1>4, CheckKeepaliveInv
<1>5. CASE ClientEnds \/ BrokerEnds
  BY <1>5, EndInv
<1>6. CASE BrokerReads
  BY <1>6, BrokerReadsInv
<1>7. CASE BrokerSends
  BY <1>7, BrokerSendsInv
<1>8. CASE BrokerTimesOut
  BY <1>8, BrokerTimesOutInv
<1>9. CASE Silence
  BY <1>9, SilenceInv
<1>10. CASE Tick
  BY <1>10, TickInv
<1>11. CASE UNCHANGED vars
  BY <1>11, StutterInv
<1> QED BY <1>1, <1>2, <1>3, <1>4, <1>5, <1>6, <1>7, <1>8, <1>9, <1>10, <1>11 DEF Next

(* The invariant of the keepalive always holds.                             *)
LEMMA InvAlways == Spec => []Inv
<1>1. Init => Inv
  BY InitInv
<1>2. Inv /\ [Next]_vars => Inv'
  BY NextInv
<1> QED BY <1>1, <1>2, PTL DEF Spec

-----------------------------------------------------------------------------
(* For every keepalive interval and every delay of less than half of it:    *)
(* check_keepalive and the loop of the broker close no connection on which  *)
(* packets get through.                                                     *)
THEOREM NeverFalse == Spec => []NoFalseTimeout
<1>1. Inv => NoFalseTimeout
  BY DEF Inv, Typed, TypedTimes, Alive, NoFalseTimeout
<1> QED BY <1>1, InvAlways, PTL

(* And a connection that has fallen silent is given up by the client before *)
(* four intervals are over, whatever it sends, and by the broker one second *)
(* after one and a half.                                                    *)
THEOREM AlwaysDetected == Spec => []Detected
<1>1. ASSUME Inv PROVE Detected
  <2> USE KeepAliveAssumption DEF KeepAliveAssumption
  <2>1. silent >= 4 * keepalive - 1 => state = "closed"
    BY <1>1 DEF Inv, Typed, TypedTimes, TypedState, Looks, Dead
  <2>2. silent > (keepalive * 3) \div 2 + 1 => ~open
    BY <1>1 DEF Inv, Typed, TypedTimes, Dead
  <2> QED BY <2>1, <2>2 DEF Detected
<1> QED BY <1>1, InvAlways, PTL
=============================================================================
