------------------------------ MODULE KeepAlive -----------------------------
(***************************************************************************)
(* The keepalive timers of a client of the library (check_keepalive in     *)
(* src/lib/util_mosq.c, run by its loop) and of the broker (in             *)
(* mosquitto_main_loop), on connections that may fall silent.              *)
(*                                                                         *)
(* Time passes in seconds, the resolution of mosquitto_time.  The times    *)
(* that the code keeps are here how long ago, or how far ahead, they are.  *)
(***************************************************************************)
EXTENDS Integers, Sequences

CONSTANTS
  keepalive,   \* of the client
  MaxDelay,    \* the seconds a packet needs at most
  MaxPackets,  \* bound: packets on their way in a direction
  MaxSilence   \* bound: seconds after a connection fell silent

ASSUME KeepAliveAssumption ==
  /\ keepalive \in Nat \ {0} /\ MaxDelay \in Nat /\ MaxPackets \in Nat \ {0} /\ MaxSilence \in Nat
  /\ 2 * MaxDelay < keepalive

VARIABLES
  state,     \* of the client: "closed", "connecting", "connected"
  waiting,   \* ping_t # 0: a PINGREQ without its PINGRESP
  idle_in,   \* now - last_msg_in
  left,      \* next_msg_out - now
  due,       \* the loop has left select and has not looked at the time yet
  up, down,  \* packets on their way, with their age
  open,      \* whether the broker has the connection
  idle,      \* now - last_msg_in of its context
  silent,    \* how long nothing has got through, -1 if something does
  gave_up    \* who closed the connection because of its timer

vars == <<state, waiting, idle_in, left, due, up, down, open, idle, silent, gave_up>>
client == <<state, waiting, idle_in, left, due>>
broker == <<open, idle>>

Packet(t) == [t |-> t, age |-> 0]

(* A packet is sent.  On a silent connection it does not arrive.            *)
Sent(s, t) == IF silent >= 0 THEN s ELSE Append(s, Packet(t))

(* packet__write sets next_msg_out.                                         *)
Written(t) == up' = Sent(up, t) /\ left' = keepalive

Init == /\ state = "closed" /\ waiting = FALSE /\ idle_in = 0 /\ left = 0 /\ due = FALSE
        /\ up = <<>> /\ down = <<>> /\ open = FALSE /\ idle = 0 /\ silent = -1 /\ gave_up = {}

-----------------------------------------------------------------------------
(* The client.                                                              *)

(* Mutant: a PINGREQ of the last connection is still waited for.            *)
Reconnect_Waiting ==
  /\ state = "closed" /\ state' = "connecting" /\ idle_in' = 0 /\ left' = keepalive /\ due' = TRUE
  /\ up' = <<Packet("CONNECT")>> /\ down' = <<>> /\ open' = TRUE /\ idle' = 0 /\ silent' = -1
  /\ gave_up' = {} /\ UNCHANGED waiting

(* mosquitto__reconnect, to a broker that accepts.                          *)
Reconnect ==
  /\ state = "closed" /\ state' = "connecting" /\ waiting' = FALSE /\ idle_in' = 0
  /\ left' = keepalive /\ due' = TRUE
  /\ up' = <<Packet("CONNECT")>> /\ down' = <<>> /\ open' = TRUE /\ idle' = 0 /\ silent' = -1
  /\ gave_up' = {}

(* A packet that the application caused is written.                         *)
ClientSends ==
  /\ state = "connected" /\ Len(up) < MaxPackets
  /\ Written("other") /\ due' = TRUE
  /\ UNCHANGED <<state, waiting, idle_in, down, broker, silent, gave_up>>

(* packet__read, handle__connack and handle__pingresp.                      *)
ClientReads ==
  /\ state # "closed" /\ down # <<>> /\ down' = Tail(down)
  /\ idle_in' = 0 /\ due' = TRUE
  /\ state' = IF Head(down).t = "CONNACK" THEN "connected" ELSE state
  /\ waiting' = (waiting /\ Head(down).t # "PINGRESP")
  /\ UNCHANGED <<left, up, broker, silent, gave_up>>

(* Mutant: only what the client sends is looked at.                         *)
Expired_OutOnly == left <= 0

Expired == left <= 0 \/ idle_in >= keepalive

(* The client finds no connection.                                          *)
ClientCloses == state' = "closed" /\ due' = FALSE /\ UNCHANGED <<waiting, idle_in, left>>

(* mosquitto__check_keepalive, at the end of mosquitto_loop.                *)
CheckKeepalive ==
  /\ state # "closed" /\ due
  /\ IF ~Expired THEN due' = FALSE /\ UNCHANGED <<state, waiting, idle_in, left, up, gave_up>>
     ELSE IF state = "connected" /\ ~waiting
     THEN /\ Written("PINGREQ") /\ waiting' = TRUE /\ idle_in' = 0 /\ due' = FALSE
          /\ UNCHANGED <<state, gave_up>>
     ELSE /\ ClientCloses /\ gave_up' = gave_up \cup {"client"} /\ UNCHANGED up
  /\ UNCHANGED <<down, broker, silent>>

(* It calls mosquitto_disconnect, meets an error, or reads the end of a     *)
(* connection that the broker has closed.                                   *)
ClientEnds ==
  /\ state # "closed" /\ ClientCloses
  /\ UNCHANGED <<up, down, broker, silent, gave_up>>

-----------------------------------------------------------------------------
(* The broker.                                                              *)

BrokerReads ==
  /\ open /\ up # <<>> /\ up' = Tail(up) /\ idle' = 0
  /\ down' = CASE Head(up).t = "CONNECT" -> Sent(down, "CONNACK")
               [] Head(up).t = "PINGREQ" -> Sent(down, "PINGRESP")
               [] OTHER -> down
  /\ UNCHANGED <<client, open, silent, gave_up>>

BrokerSends ==
  /\ open /\ state = "connected" /\ Len(down) < MaxPackets
  /\ down' = Sent(down, "other")
  /\ UNCHANGED <<client, up, broker, silent, gave_up>>

TooIdle == idle > (keepalive * 3) \div 2

BrokerTimesOut ==
  /\ open /\ TooIdle /\ open' = FALSE /\ gave_up' = gave_up \cup {"broker"}
  /\ UNCHANGED <<client, up, down, idle, silent>>

(* do_disconnect for any other reason, the end the client made among them.  *)
BrokerEnds ==
  /\ open /\ open' = FALSE
  /\ UNCHANGED <<client, up, down, idle, silent, gave_up>>

-----------------------------------------------------------------------------
(* The connection falls silent, for good.                                   *)
Silence ==
  /\ open /\ state # "closed" /\ silent = -1 /\ silent' = 0 /\ up' = <<>> /\ down' = <<>>
  /\ UNCHANGED <<client, broker, gave_up>>

Older(s) == [i \in DOMAIN s |-> [s[i] EXCEPT !.age = @ + 1]]

(* A second passes when nobody has to do anything in this one.  The client  *)
(* sleeps in select until next_msg_out at most; the broker looks at the     *)
(* time in every iteration, ten times a second at least.                    *)
Tick ==
  /\ state # "closed" => ~due
  /\ ~(open /\ TooIdle)
  /\ \A i \in DOMAIN up : open => up[i].age < MaxDelay
  /\ \A i \in DOMAIN down : state # "closed" => down[i].age < MaxDelay
  /\ (state = "closed") = open => silent >= 0
  /\ silent < MaxSilence /\ (state # "closed" \/ open)
  /\ up' = Older(up) /\ down' = Older(down)
  /\ IF state = "closed" THEN UNCHANGED <<idle_in, left, due>>
     ELSE idle_in' = idle_in + 1 /\ left' = left - 1 /\ due' = (left' <= 0)
  /\ idle' = (IF open THEN idle + 1 ELSE idle)
  /\ silent' = IF silent = -1 THEN -1 ELSE silent + 1
  /\ UNCHANGED <<state, waiting, open, gave_up>>

Next == \/ Reconnect \/ ClientSends \/ ClientReads \/ CheckKeepalive \/ ClientEnds
        \/ BrokerReads \/ BrokerSends \/ BrokerTimesOut \/ BrokerEnds
        \/ Silence \/ Tick

Spec == Init /\ [][Next]_vars
-----------------------------------------------------------------------------
(* While packets get through, in MaxDelay seconds at most, neither side     *)
(* ever closes the connection because of its timer, whatever else is sent,  *)
(* and after any number of connections before.                              *)
NoFalseTimeout == gave_up # {} => silent >= 0

(* When nothing gets through any more, the client finds out before four     *)
(* keepalives are over, even if it goes on sending, and the broker in its   *)
(* one and a half and a second.                                             *)
Detected ==
  /\ silent >= 4 * keepalive - 1 => state = "closed"
  /\ silent > (keepalive * 3) \div 2 + 1 => ~open
=============================================================================
