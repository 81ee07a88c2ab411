------------------------------- MODULE Topics -------------------------------
(***************************************************************************)
(* What the broker promises about subscriptions and retained messages,     *)
(* without a tree: each client has filters, each with a QoS, each topic     *)
(* has a retained message or none, and a filter matches a topic as the     *)
(* manual page mqtt(7) defines it.  SubTree implements it.                 *)
(***************************************************************************)
EXTENDS TopicMatch, Integers

CONSTANTS Clients, TopicNames, Filters, QoS, Duplicates

VARIABLES
  filters,   \* the QoS of each client's subscription to each filter, or None
  kept,      \* the QoS of the retained message of each topic, or None
  sent       \* what the last operation sent: how often, for each client

None == -1

Sends  == [TopicNames \X QoS -> Nat]
Silent == [c \in Clients |-> [x \in TopicNames \X QoS |-> 0]]

Lower(a, b) == IF a < b THEN a ELSE b

Init ==
  /\ filters = [c \in Clients |-> [f \in Filters |-> None]]
  /\ kept = [t \in TopicNames |-> None]
  /\ sent = Silent

(* Which filters match which topics.                                        *)
Match == [f \in Filters, t \in TopicNames |-> Matches(f, t)]

(* A subscription brings the retained message of every topic it matches.    *)
Subscribe(c, f, qos) ==
  /\ filters' = [filters EXCEPT ![c][f] = qos]
  /\ UNCHANGED kept
  /\ sent' = [Silent EXCEPT ![c] = [x \in TopicNames \X QoS |->
                IF kept[x[1]] # None /\ Match[f, x[1]] /\ x[2] = Lower(kept[x[1]], qos)
                THEN 1 ELSE 0]]

Unsubscribe(c, f) ==
  /\ filters' = [filters EXCEPT ![c][f] = None]
  /\ sent' = Silent
  /\ UNCHANGED kept

EndSession(c) ==
  /\ filters' = [filters EXCEPT ![c] = [f \in Filters |-> None]]
  /\ sent' = Silent
  /\ UNCHANGED kept

(* A publication goes to each client with a filter that matches: once for   *)
(* each of them, or once in all, in the QoS of one of them.                 *)
Publish(t, qos, retain, empty) ==
  LET match(c) == {f \in Filters : filters[c][f] # None /\ Match[f, t]}
      as(c, q) == Cardinality({f \in match(c) : Lower(qos, filters[c][f]) = q})
  IN  /\ kept' = IF retain THEN [kept EXCEPT ![t] = IF empty THEN None ELSE qos] ELSE kept
      /\ UNCHANGED filters
      /\ \A c \in Clients :
           /\ \A x \in TopicNames \X QoS :
                /\ sent'[c][x] <= IF x[1] = t THEN as(c, x[2]) ELSE 0
                /\ Duplicates => sent'[c][x] = IF x[1] = t THEN as(c, x[2]) ELSE 0
           /\ ~Duplicates =>
                Cardinality({x \in TopicNames \X QoS : sent'[c][x] > 0})
                  = IF match(c) = {} THEN 0 ELSE 1
           /\ ~Duplicates => \A x \in TopicNames \X QoS : sent'[c][x] \in {0, 1}

Next ==
  \/ \E c \in Clients :
       \/ \E f \in Filters : Unsubscribe(c, f) \/ \E qos \in QoS : Subscribe(c, f, qos)
       \/ EndSession(c)
  \/ \E t \in TopicNames, qos \in QoS, retain, empty \in BOOLEAN : Publish(t, qos, retain, empty)

Spec == Init /\ [][Next]_<<filters, kept, sent>>
=============================================================================
