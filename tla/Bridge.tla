-------------------------------- MODULE Bridge ------------------------------
(***************************************************************************)
(* The connection of a bridge: to which of its addresses it is made, when  *)
(* it is made again, and how a bridge that runs over a secondary address   *)
(* finds its way back to the main one (mosquitto_main_loop in              *)
(* src/src/loop.c and bridge__connect in src/src/bridge.c), built without  *)
(* WITH_ADNS as config.mk has it.                                          *)
(*                                                                         *)
(* Times are 0, ahead of now, or over.  The idle timeout of a lazy bridge  *)
(* is not here because it never passes: the bridge's own PINGREQs put      *)
(* next_msg_out off.                                                       *)
(***************************************************************************)
EXTENDS Integers

CONSTANTS
  address_count,
  StartTypes,      \* which of "automatic", "lazy" and "once" to look at
  threshold,       \* of a lazy bridge
  Retained,        \* how many retained messages match the topics of the bridge
  MaxQueued,       \* max_queued_messages
  AtOnce,          \* whether the outcome of a connection attempt may be known at once
  MaxChanges       \* bound: changes of the hosts, connections lost for other reasons

ASSUME BridgeAssumption ==
  /\ address_count \in Nat \ {0} /\ StartTypes \subseteq {"automatic", "lazy", "once"}
  /\ threshold \in Nat \ {0} /\ Retained \in Nat /\ MaxQueued \in Nat \ {0}
  /\ AtOnce \in BOOLEAN /\ MaxChanges \in Nat

VARIABLES
  start_type, round_robin, clean_session,   \* the configuration
  hosts,                     \* what answers at an address: "up", "refuses", "silent"
  sock,                      \* of the context: "none", "connecting", "up"
  to,                        \* the address of the last attempt
  cur_address, restart_t, lazy_reconnect,
  primary_retry,             \* when to try the main address beside a secondary one
  primary_retry_sock,        \* "none", "pending", "open", "failed"
  msg_count,                 \* the messages that wait for the bridge
  changes

config == <<start_type, round_robin, clean_session>>
primary == <<primary_retry, primary_retry_sock>>
vars == <<config, hosts, sock, to, cur_address, restart_t, lazy_reconnect, primary,
          msg_count, changes>>

Addresses == 0..(address_count - 1)
Times == {"zero", "ahead", "over"}

-----------------------------------------------------------------------------
(* Mutant: the address after the last one.                                  *)
Advanced_NoWrap(a) == a + 1

(* Mutant: the same address again.                                          *)
Advanced_Stays(a) == a

Advanced(a) == IF a + 1 = address_count THEN 0 ELSE a + 1

(* What connect and the first write on the new socket report.               *)
Outcomes(h) == CASE h = "up"      -> {"pending"} \cup (IF AtOnce THEN {"done"} ELSE {})
                 [] h = "refuses" -> {"pending"} \cup (IF AtOnce THEN {"error"} ELSE {})
                 [] h = "silent"  -> {"pending"}

(* Mutant: a message asks for a connection while there is one.              *)
Wanted_Connected(n) == start_type = "lazy" /\ n >= threshold

(* With n messages after an insert (db__message_insert) a lazy bridge is to *)
(* connect.                                                                 *)
Wanted(n) == start_type = "lazy" /\ sock = "none" /\ n >= threshold

Least(m, n) == IF m <= n THEN m ELSE n

Init ==
  /\ start_type \in StartTypes /\ round_robin \in BOOLEAN /\ clean_session \in BOOLEAN
  /\ hosts \in [Addresses -> {"up", "refuses", "silent"}]
  /\ \E r \in Outcomes(hosts[0]) : sock = IF r = "error" THEN "none" ELSE "connecting"
  /\ to = 0 /\ cur_address = 0 /\ restart_t = "zero"
  /\ msg_count = Least(Retained, MaxQueued)
  /\ lazy_reconnect = (start_type = "lazy" /\ Retained > 0 /\ msg_count >= threshold)
  /\ primary_retry = "zero" /\ primary_retry_sock = "none" /\ changes = 0

-----------------------------------------------------------------------------
(* The main loop, for a bridge without a socket.                            *)

(* It sets the time of the next attempt, which goes to the next address.    *)
SetRestart ==
  /\ sock = "none" /\ restart_t = "zero"
  /\ restart_t' = "ahead" /\ cur_address' = Advanced(cur_address)
  /\ UNCHANGED <<config, hosts, sock, to, lazy_reconnect, primary, msg_count, changes>>

(* Mutant: the time of the last attempt is kept.                            *)
NextRestart_Kept == "over"

NextRestart == "zero"

(* Mutant: the main address is not looked at again.                         *)
RetryTime_Never == primary_retry

(* The main address is tried again five seconds after an attempt on another *)
(* one.                                                                     *)
RetryTime == IF ~round_robin /\ cur_address # 0 THEN "ahead" ELSE primary_retry

(* bridge__connect: a clean session starts without messages, the retained   *)
(* ones of its topics are queued, again, and the connection is opened.      *)
Left == IF clean_session THEN 0 ELSE msg_count

Connect ==
  /\ sock = "none"
  /\ \/ start_type = "lazy" /\ restart_t # "zero" /\ lazy_reconnect
     \/ start_type = "automatic" /\ restart_t = "over"
  /\ restart_t' = NextRestart /\ to' = cur_address
  /\ msg_count' = Least(Left + Retained, MaxQueued)
  /\ lazy_reconnect' = (msg_count' > Left /\ Wanted(msg_count'))
  /\ \E r \in Outcomes(hosts[cur_address]) :
        IF r = "error"
        THEN /\ sock' = "none" /\ cur_address' = Advanced(cur_address)
             /\ UNCHANGED primary_retry
        ELSE sock' = "connecting" /\ primary_retry' = RetryTime /\ UNCHANGED cur_address
  /\ UNCHANGED <<config, hosts, primary_retry_sock, changes>>

-----------------------------------------------------------------------------
(* The main loop, for a bridge with a socket.                               *)

(* net__socket_close.                                                       *)
Closed == sock' = "none"

Closes == Closed /\ UNCHANGED <<config, hosts, to, cur_address, restart_t, lazy_reconnect,
                                primary, msg_count>>

(* The main address is tried while a secondary one is in use.  A second     *)
(* socket without an error is taken for a connection, also while it waits.  *)
TryPrimary ==
  /\ sock # "none" /\ ~round_robin /\ cur_address # 0 /\ primary_retry = "over"
  /\ \/ /\ primary_retry_sock = "none" /\ "done" \in Outcomes(hosts[0])
        /\ Closed /\ cur_address' = 0 /\ primary_retry' = "zero" /\ UNCHANGED primary_retry_sock
     \/ /\ primary_retry_sock = "none" /\ "pending" \in Outcomes(hosts[0])
        /\ primary_retry_sock' = "pending" /\ UNCHANGED <<sock, cur_address, primary_retry>>
     \/ /\ primary_retry_sock \in {"pending", "open"}
        /\ Closed /\ cur_address' = address_count - 1
        /\ primary_retry' = "zero" /\ primary_retry_sock' = "none"
     \/ /\ primary_retry_sock = "failed"
        /\ primary_retry_sock' = "none" /\ primary_retry' = "ahead"
        /\ UNCHANGED <<sock, cur_address>>
  /\ UNCHANGED <<config, hosts, to, restart_t, lazy_reconnect, msg_count, changes>>

(* The CONNACK is read.                                                     *)
Connack ==
  /\ sock = "connecting" /\ hosts[to] = "up" /\ sock' = "up"
  /\ UNCHANGED <<config, hosts, to, cur_address, restart_t, lazy_reconnect, primary,
                 msg_count, changes>>

(* A read or a write fails: do_disconnect.                                  *)
Refused == sock # "none" /\ hosts[to] = "refuses" /\ Closes /\ UNCHANGED changes

(* mosquitto__check_keepalive: nothing came back.                           *)
Unanswered == sock # "none" /\ hosts[to] = "silent" /\ Closes /\ UNCHANGED changes

(* A message for the bridge, which is dropped when the queue is full.       *)
Message ==
  /\ msg_count < MaxQueued /\ msg_count' = msg_count + 1
  /\ lazy_reconnect' = (lazy_reconnect \/ Wanted(msg_count'))
  /\ UNCHANGED <<config, hosts, sock, to, cur_address, restart_t, primary, changes>>

(* The other broker acknowledges one.                                       *)
Acknowledged ==
  /\ sock = "up" /\ hosts[to] = "up" /\ msg_count > 0 /\ msg_count' = msg_count - 1
  /\ UNCHANGED <<config, hosts, sock, to, cur_address, restart_t, lazy_reconnect, primary,
                 changes>>

-----------------------------------------------------------------------------
(* Time passes.  A host that is not silent answers within the five seconds  *)
(* of primary_retry.                                                        *)
RestartTime ==
  /\ restart_t = "ahead" /\ restart_t' = "over"
  /\ UNCHANGED <<config, hosts, sock, to, cur_address, lazy_reconnect, primary, msg_count,
                 changes>>

PrimaryTime ==
  /\ primary_retry = "ahead" /\ ~(sock = "connecting" /\ hosts[to] # "silent")
  /\ primary_retry' = "over"
  /\ UNCHANGED <<config, hosts, sock, to, cur_address, restart_t, lazy_reconnect,
                 primary_retry_sock, msg_count, changes>>

(* The second socket meets the main host.                                   *)
PrimaryAnswers ==
  /\ primary_retry_sock = "pending"
  /\ primary_retry_sock' = IF hosts[0] = "up" THEN "open" ELSE "failed"
  /\ UNCHANGED <<config, hosts, sock, to, cur_address, restart_t, lazy_reconnect,
                 primary_retry, msg_count, changes>>

(* A host starts, stops, or stops to answer.                                *)
HostChanges ==
  /\ changes < MaxChanges /\ changes' = changes + 1
  /\ \E a \in Addresses, h \in {"up", "refuses", "silent"} :
        h # hosts[a] /\ hosts' = [hosts EXCEPT ![a] = h]
  /\ UNCHANGED <<config, sock, to, cur_address, restart_t, lazy_reconnect, primary, msg_count>>

(* A connection is lost for another reason.                                 *)
Lost == sock # "none" /\ changes < MaxChanges /\ changes' = changes + 1 /\ Closes

Next == \/ SetRestart \/ Connect \/ TryPrimary \/ Connack \/ Refused \/ Unanswered
        \/ Message \/ Acknowledged \/ RestartTime \/ PrimaryTime \/ PrimaryAnswers
        \/ HostChanges \/ Lost

Spec == Init /\ [][Next]_vars

(* The loop runs ten times a second, time passes, and a host that is up     *)
(* accepts a connection.  Messages and changes are not owed.                *)
FairSpec == /\ Spec
            /\ WF_vars(SetRestart) /\ WF_vars(Connect) /\ WF_vars(TryPrimary)
            /\ WF_vars(Connack) /\ WF_vars(Refused) /\ WF_vars(Unanswered)
            /\ WF_vars(RestartTime) /\ WF_vars(PrimaryTime) /\ WF_vars(PrimaryAnswers)
-----------------------------------------------------------------------------
(* A lazy bridge whose connection has ended is asked for only while its     *)
(* threshold of messages waits: a request of before is not left over, which *)
(* would open a connection for nothing (database.c sets it, bridge.c takes  *)
(* it back).                                                                *)
LazyNeeded == sock = "none" /\ lazy_reconnect => msg_count >= threshold

(* The addresses are tried in turn: an attempt goes to the one after that   *)
(* of the attempt before, or back to the main one when a secondary was in   *)
(* use, whatever failed in between and wherever it did.                     *)
NextTried ==
  [][Connect => \/ to' = (to + 1) % address_count
                \/ ~round_robin /\ to # 0 /\ to' = 0]_vars

(* An automatic bridge is connected again and again while one of its hosts  *)
(* stays up.  For a bridge that does not go round its addresses this takes  *)
(* that no host is silent, or that it is the main one or the first          *)
(* secondary one that stays up.                                             *)
Reconnects ==
  /\ start_type = "automatic"
  /\ \E a \in Addresses :
        <>[](hosts[a] = "up" /\ (round_robin \/ a <= 1 \/ \A b \in Addresses : hosts[b] # "silent"))
  => []<>(sock = "up")

(* What the manual says of the other secondary addresses too: while the     *)
(* host of any stays up, the bridge gets to it.                             *)
AllReconnect ==
  start_type = "automatic" /\ (\E a \in Addresses : <>[](hosts[a] = "up")) => []<>(sock = "up")

(* When its main host stays up, an automatic bridge that does not go round  *)
(* its addresses ends with a connection to it, and keeps that.              *)
MainAgain ==
  start_type = "automatic" /\ ~round_robin /\ <>[](hosts[0] = "up") => <>[](sock = "up" /\ to = 0)
=============================================================================
