------------------------------- MODULE Delivery -----------------------------
(***************************************************************************)
(* What the client library promises of the messages that an application    *)
(* hands to mosquitto_publish with QoS 1 and 2: each is received by the    *)
(* broker, at least once or exactly once, and only then does on_publish    *)
(* tell the application that it was, once.                                 *)
(***************************************************************************)
EXTENDS Naturals, Sequences

VARIABLES
  exact,      \* whether QoS 2 is exactly once
  accepted,   \* the QoS of each message, in the order of the calls
  received,   \* the messages the broker took, as their numbers in accepted
  announced   \* the messages on_publish was called for

dvars == <<exact, accepted, received, announced>>

Has(s, x) == \E i \in DOMAIN s : s[i] = x

Init == exact \in BOOLEAN /\ accepted = <<>> /\ received = <<>> /\ announced = {}

Accept(qos) == accepted' = Append(accepted, qos) /\ UNCHANGED <<exact, received, announced>>

Receive(id) ==
  /\ exact /\ accepted[id] = 2 => ~Has(received, id)
  /\ received' = Append(received, id) /\ UNCHANGED <<exact, accepted, announced>>

Announce(id) ==
  /\ Has(received, id) /\ id \notin announced
  /\ announced' = announced \cup {id} /\ UNCHANGED <<exact, accepted, received>>

Next == (\E qos \in {1, 2} : Accept(qos)) \/ \E id \in DOMAIN accepted : Receive(id) \/ Announce(id)

Spec == Init /\ [][Next]_dvars
=============================================================================
