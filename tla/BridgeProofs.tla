---------------------------- MODULE BridgeProofs ----------------------------
(***************************************************************************)
(* Theorems about module Bridge, for any number of addresses, any queue    *)
(* and threshold, and hosts that change as often as they like.             *)
(***************************************************************************)
EXTENDS Bridge, TLAPS

(* The types of the variables the proofs are about.                         *)
Typed ==
  /\ start_type \in StartTypes /\ round_robin \in BOOLEAN /\ clean_session \in BOOLEAN
  /\ hosts \in [Addresses -> {"up", "refuses", "silent"}]
  /\ sock \in {"none", "connecting", "up"} /\ to \in Addresses /\ cur_address \in Addresses
  /\ restart_t \in Times /\ lazy_reconnect \in BOOLEAN
  /\ msg_count \in 0..MaxQueued

(* Following the list of addresses stays in the list: the first address,    *)
(* the last one and the one after any address are addresses.                *)
LEMMA AddressType ==
  /\ 0 \in Addresses /\ address_count - 1 \in Addresses
  /\ \A a \in Addresses : a \in Nat /\ Advanced(a) \in Addresses
BY BridgeAssumption DEF BridgeAssumption, Addresses, Advanced

(* The smaller of a count and the bound of the queue is within the bound,   *)
(* and a count within the bound is itself.                                  *)
LEMMA LeastType ==
  \A m \in Nat : Least(m, MaxQueued) \in 0..MaxQueued /\ (m \in 0..MaxQueued => Least(m, MaxQueued) = m)
BY BridgeAssumption DEF BridgeAssumption, Least

(* The variables of the bridge keep their types: this is the induction that *)
(* the theorems about the bridge rest on.                                   *)
LEMMA TypeCorrect == Spec => []Typed
<1> USE BridgeAssumption, AddressType, LeastType DEF BridgeAssumption
<1>1. Init => Typed
  <2> SUFFICES ASSUME Init PROVE Typed
    OBVIOUS
  <2>1. sock \in {"none", "connecting", "up"} /\ lazy_reconnect \in BOOLEAN /\ restart_t \in Times
    BY DEF Init, Times
  <2>2. msg_count \in 0..MaxQueued
    BY DEF Init
  <2> QED BY <2>1, <2>2 DEF Init, Typed
<1>2. Typed /\ [Next]_vars => Typed'
  <2> SUFFICES ASSUME Typed, [Next]_vars PROVE Typed'
    OBVIOUS
  <2> USE DEF Typed, config, primary, Closes, Closed, Times
  <2>1. CASE SetRestart
    BY <2>1 DEF SetRestart
  <2>2. CASE Connect
    <3>1. UNCHANGED config /\ UNCHANGED hosts /\ to' = cur_address /\ restart_t' = "zero"
      BY <2>2 DEF Connect, NextRestart
    <3>2. sock' \in {"none", "connecting", "up"} /\ cur_address' \in Addresses
      BY <2>2 DEF Connect
    <3>3. msg_count' \in 0..MaxQueued
      <4>1. Left + Retained \in Nat
        BY DEF Left
      <4> QED BY <2>2, <4>1 DEF Connect
    <3>4. lazy_reconnect' \in BOOLEAN
      BY <2>2 DEF Connect
    <3> QED BY <3>1, <3>2, <3>3, <3>4
  <2>3. CASE TryPrimary
    BY <2>3 DEF TryPrimary
  <2>4. CASE Connack
    BY <2>4 DEF Connack
  <2>5. CASE Refused \/ Unanswered \/ Lost
    BY <2>5 DEF Refused, Unanswered, Lost
  <2>6. CASE Message
    <3>1. lazy_reconnect' \in BOOLEAN
      BY <2>6 DEF Message
    <3> QED BY <2>6, <3>1 DEF Message
  <2>7. CASE Acknowledged
    BY <2>7 DEF Acknowledged
  <2>8. CASE RestartTime \/ PrimaryTime \/ PrimaryAnswers
    BY <2>8 DEF RestartTime, PrimaryTime, PrimaryAnswers
  <2>9. CASE HostChanges
    BY <2>9 DEF HostChanges
  <2>10. CASE UNCHANGED vars
    BY <2>10 DEF vars
  <2> QED BY <2>1, <2>2, <2>3, <2>4, <2>5, <2>6, <2>7, <2>8, <2>9, <2>10 DEF Next
<1> QED BY <1>1, <1>2, PTL DEF Spec

-----------------------------------------------------------------------------
(* With nothing retained for the other side, the request of a lazy bridge   *)
(* is taken back by the attempt it asks for, and nobody asks while there is *)
(* a connection.                                                            *)
Asked ==
  /\ LazyNeeded
  /\ sock # "none" => ~lazy_reconnect

(* Without retained messages for its topics a lazy bridge is never asked    *)
(* for a connection by anything but its threshold of messages that wait.    *)
THEOREM LazyOnlyWhenNeeded == ASSUME Retained = 0 PROVE Spec => []LazyNeeded
<1> USE BridgeAssumption DEF BridgeAssumption
<1>1. Init => Asked
  <2>1. ~(Retained > 0)
    BY Retained = 0
  <2>2. Init => ~lazy_reconnect
    BY ONLY <2>1, Zenon DEF Init
  <2> QED BY ONLY <2>2 DEF Asked, LazyNeeded
<1>2. Typed /\ Asked /\ [Next]_vars => Asked'
  <2> SUFFICES ASSUME Typed, Asked, [Next]_vars PROVE Asked'
    OBVIOUS
  <2> USE DEF Asked, LazyNeeded, config, primary, Closes, Closed
  <2>1. CASE SetRestart
    BY <2>1 DEF SetRestart
  <2>2. CASE Connect
    <3>1. Left \in 0..MaxQueued /\ Left + Retained = Left
      BY Retained = 0 DEF Left, Typed
    <3>2. msg_count' = Left
      BY <2>2, <3>1, LeastType DEF Connect
    <3>3. ~(msg_count' > Left)
      BY <3>1, <3>2
    <3> QED BY <2>2, <3>3 DEF Connect
  <2>3. CASE TryPrimary
    BY <2>3 DEF TryPrimary
  <2>4. CASE Connack
    BY <2>4 DEF Connack
  <2>5. CASE Refused \/ Unanswered \/ Lost
    BY <2>5 DEF Refused, Unanswered, Lost
  <2>6. CASE Message
    BY <2>6 DEF Message, Wanted, Typed
  <2>7. CASE Acknowledged
    BY <2>7 DEF Acknowledged
  <2>8. CASE RestartTime \/ PrimaryTime \/ PrimaryAnswers
    BY <2>8 DEF RestartTime, PrimaryTime, PrimaryAnswers
  <2>9. CASE HostChanges
    BY <2>9 DEF HostChanges
  <2>10. CASE UNCHANGED vars
    BY <2>10 DEF vars
  <2> QED BY <2>1, <2>2, <2>3, <2>4, <2>5, <2>6, <2>7, <2>8, <2>9, <2>10 DEF Next
<1>3. Asked => LazyNeeded
  BY DEF Asked
<1> QED BY <1>1, <1>2, <1>3, TypeCorrect, PTL DEF Spec

-----------------------------------------------------------------------------
(* Where the next attempt goes: while there is a connection, or none and no *)
(* time is set yet, the address is the one of the last attempt, and once    *)
(* the time is set it is the next.  The way back to the main address is     *)
(* over the last address, from which the next is the main one.              *)
Turn ==
  \/ cur_address = (IF sock = "none" /\ restart_t # "zero" THEN Advanced(to) ELSE to)
  \/ /\ ~round_robin /\ to # 0 /\ sock = "none"
     /\ cur_address = IF restart_t = "zero" THEN address_count - 1 ELSE 0

Turns == Turn /\ (sock # "none" => restart_t = "zero")

(* The address after a is the one after it in a circle.                     *)
LEMMA AdvancedInCircle == \A a \in Addresses : Advanced(a) = (a + 1) % address_count
<1> USE BridgeAssumption DEF BridgeAssumption
<1>1. SUFFICES ASSUME NEW a \in Addresses PROVE Advanced(a) = (a + 1) % address_count
  OBVIOUS
<1>2. a \in Nat /\ a + 1 <= address_count
  BY DEF Addresses
<1>3. CASE a + 1 = address_count
  <2>1. address_count % address_count = 0
    OBVIOUS
  <2> QED BY <1>3, <2>1 DEF Advanced
<1>4. CASE a + 1 < address_count
  <2>1. (a + 1) % address_count = a + 1
    BY <1>2, <1>4
  <2> QED BY <1>4, <2>1 DEF Advanced
<1> QED BY <1>2, <1>3, <1>4

(* When no attempt fails at once, as on a socket that does not wait, the    *)
(* addresses are tried in turn, whatever the hosts do.                      *)
THEOREM InTurn == ASSUME ~AtOnce PROVE Spec => NextTried
<1> USE BridgeAssumption, AddressType DEF BridgeAssumption
<1>1. \A h : Outcomes(h) \subseteq {"pending"} \/ h \notin {"up", "refuses", "silent"}
  BY ~AtOnce DEF Outcomes
<1>2. Init => Turns
  <2> SUFFICES ASSUME Init PROVE Turns
    OBVIOUS
  <2>1. hosts[0] \in {"up", "refuses", "silent"}
    BY DEF Init
  <2>2. sock = "connecting"
    BY <1>1, <2>1 DEF Init
  <2> QED BY <2>2 DEF Init, Turns, Turn
<1>3. Typed /\ Turns /\ [Next]_vars => Turns'
  <2> SUFFICES ASSUME Typed, Turns, [Next]_vars PROVE Turns'
    OBVIOUS
  <2> USE DEF Typed, Turns, Turn, config, primary, Closes, Closed
  <2>1. CASE SetRestart
    BY <2>1 DEF SetRestart, Advanced
  <2>2. CASE Connect
    <3>1. hosts[cur_address] \in {"up", "refuses", "silent"}
      OBVIOUS
    <3>2. sock' = "connecting" /\ UNCHANGED cur_address
      BY <1>1, <2>2, <3>1 DEF Connect
    <3> QED BY <2>2, <3>2 DEF Connect, NextRestart
  <2>3. CASE TryPrimary
    <3>1. "done" \notin Outcomes(hosts[0])
      <4>1. hosts[0] \in {"up", "refuses", "silent"}
        OBVIOUS
      <4> QED BY <1>1, <4>1
    <3> QED BY <2>3, <3>1 DEF TryPrimary
  <2>4. CASE Connack
    BY <2>4 DEF Connack
  <2>5. CASE Refused \/ Unanswered \/ Lost
    BY <2>5 DEF Refused, Unanswered, Lost
  <2>6. CASE Message
    BY <2>6 DEF Message
  <2>7. CASE Acknowledged
    BY <2>7 DEF Acknowledged
  <2>8. CASE RestartTime \/ PrimaryTime \/ PrimaryAnswers
    BY <2>8 DEF RestartTime, PrimaryTime, PrimaryAnswers
  <2>9. CASE HostChanges
    BY <2>9 DEF HostChanges
  <2>10. CASE UNCHANGED vars
    BY <2>10 DEF vars
  <2> QED BY <2>1, <2>2, <2>3, <2>4, <2>5, <2>6, <2>7, <2>8, <2>9, <2>10 DEF Next
<1>4. Typed /\ Turns /\ [Next]_vars =>
        [Connect => \/ to' = (to + 1) % address_count
                    \/ ~round_robin /\ to # 0 /\ to' = 0]_vars
  <2> SUFFICES ASSUME Typed, Turns, Connect
               PROVE  to' = (to + 1) % address_count \/ (~round_robin /\ to # 0 /\ to' = 0)
    BY DEF vars
  <2>1. to' = cur_address /\ sock = "none" /\ restart_t # "zero"
    BY DEF Connect
  <2> QED BY <2>1, AdvancedInCircle DEF Turns, Turn, Typed
<1> QED BY <1>2, <1>3, <1>4, TypeCorrect, PTL DEF Spec, NextTried
=============================================================================
