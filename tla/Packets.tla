-------------------------------- MODULE Packets -----------------------------
(***************************************************************************)
(* Packets on a connection (src/lib/packet_mosq.c, of the broker and of    *)
(* the library): the list of those to be written, of which any number of   *)
(* bytes may be written at a time, and the packet that is being read, of   *)
(* which any number of bytes may have come.                                *)
(*                                                                         *)
(* A packet is a command, the length of its body in up to MaxCount bytes   *)
(* to the base Base, lowest first, and its body.  Base and MaxCount are    *)
(* 128 and 4 in the code.                                                  *)
(***************************************************************************)
EXTENDS Integers, Sequences, SequencesExt, FiniteSetsExt

CONSTANTS
  Base, MaxCount,
  Packets,     \* the packets that may be queued, as [command, body]
  Capacity,    \* how many bytes may be on their way
  MaxQueued,   \* bound: packets queued on one connection
  MaxReconnects

ASSUME PacketsAssumption ==
  /\ Base \in Nat \ {0, 1} /\ MaxCount \in Nat \ {0} /\ Capacity \in Nat \ {0}
  /\ MaxQueued \in Nat /\ MaxReconnects \in Nat
  /\ Packets \subseteq [command: Nat \ {0}, body: Seq(Nat)]

VARIABLES
  out_packet,          \* the packets to be written
  current_out_packet,  \* <<>>, or the one that is, with what is left of it
  stream,              \* the bytes on their way
  in_packet,           \* what was read of a packet
  failed,              \* whether the reader has given up the connection
  queued, handled,     \* as in Channel
  reconnects

vars == <<out_packet, current_out_packet, stream, in_packet, failed, queued, handled, reconnects>>

(* packet__cleanup.                                                         *)
Cleaned == [command |-> 0, remaining_count |-> 0, remaining_mult |-> 1, remaining_length |-> 0,
            to_process |-> 0, payload |-> <<>>]

Init == /\ out_packet = <<>> /\ current_out_packet = <<>> /\ stream = <<>>
        /\ in_packet = Cleaned /\ failed = FALSE
        /\ queued = <<>> /\ handled = <<>> /\ reconnects = 0

-----------------------------------------------------------------------------
(* packet__alloc: what is left of a length after i turns of its loop, and   *)
(* the bytes that say a length, all but the last with the top bit set.  The *)
(* loop ends after one byte more than a packet may have.                    *)

Quotients(n) ==
  LET left[i \in 0..(MaxCount + 1)] == IF i = 0 THEN n ELSE left[i - 1] \div Base IN left

LengthBytes(n) ==
  LET left  == Quotients(n)
      count == Min({c \in 1..(MaxCount + 1) : left[c] = 0 \/ c = MaxCount + 1})
  IN  [i \in 1..count |-> (left[i - 1] % Base) + IF left[i] > 0 THEN Base ELSE 0]

Bytes(p) == <<p.command>> \o LengthBytes(Len(p.body)) \o p.body

(* Mutant: a length of one byte more is not refused.                        *)
TooLong_Never(p) == Len(LengthBytes(Len(p.body))) > MaxCount + 1

(* A longer one is MOSQ_ERR_PAYLOAD_SIZE.                                   *)
TooLong(p) == Len(LengthBytes(Len(p.body))) > MaxCount

(* packet__queue.                                                           *)
Queue(p) ==
  /\ ~TooLong(p) /\ Len(queued) < MaxQueued
  /\ out_packet' = Append(out_packet, p) /\ queued' = Append(queued, p)
  /\ UNCHANGED <<current_out_packet, stream, in_packet, failed, handled, reconnects>>

(* What is left of it after n bytes.                                        *)
Rest(bytes, n) == SubSeq(bytes, n + 1, Len(bytes))

(* What packet__write takes from the list when it has no packet.            *)
Taken == IF out_packet = <<>> THEN <<>> ELSE Bytes(Head(out_packet))
Left  == IF out_packet = <<>> THEN <<>> ELSE Tail(out_packet)

(* packet__write, as far as one net__write that takes n bytes.  A packet    *)
(* that is done makes way for the next.                                     *)
Write(n) ==
  LET fresh   == current_out_packet = <<>>
      current == IF fresh THEN Taken ELSE current_out_packet
      rest    == IF fresh THEN Left ELSE out_packet
      done    == n = Len(current)
  IN  /\ n \in 1..Len(current) /\ Len(stream) + n <= Capacity
      /\ stream' = stream \o SubSeq(current, 1, n)
      /\ current_out_packet' = IF ~done THEN Rest(current, n)
                               ELSE IF rest = <<>> THEN <<>> ELSE Bytes(Head(rest))
      /\ out_packet' = IF done /\ rest # <<>> THEN Tail(rest) ELSE rest
      /\ UNCHANGED <<in_packet, failed, queued, handled, reconnects>>

-----------------------------------------------------------------------------
(* packet__read, as far as one net__read.                                   *)

(* Mutant: a packet without a body is not complete.                         *)
Complete_NotEmpty(pkt) ==
  IF pkt.to_process = 0 /\ pkt.payload # <<>>
  THEN /\ handled' = Append(handled, [command |-> pkt.command, body |-> pkt.payload])
       /\ in_packet' = Cleaned
  ELSE in_packet' = pkt /\ UNCHANGED handled

(* All data for this packet is read: it is handled, and in_packet cleaned.  *)
Complete(pkt) ==
  IF pkt.to_process = 0
  THEN /\ handled' = Append(handled, [command |-> pkt.command, body |-> pkt.payload])
       /\ in_packet' = Cleaned
  ELSE in_packet' = pkt /\ UNCHANGED handled

ReadCommand ==
  /\ ~failed /\ stream # <<>> /\ in_packet.command = 0
  /\ in_packet' = [in_packet EXCEPT !.command = Head(stream)] /\ stream' = Tail(stream)
  /\ UNCHANGED <<out_packet, current_out_packet, failed, queued, handled, reconnects>>

(* Mutant: the length starts anew in every call.                            *)
Digit_OneCall(byte) == byte % Base

(* What a byte of the length adds to it.                                    *)
Digit(byte) == (byte % Base) * in_packet.remaining_mult

(* remaining_count is minus the number of bytes that were read of the       *)
(* length, until that is complete.                                          *)
ReadLength ==
  LET byte  == Head(stream)
      count == in_packet.remaining_count - 1
      pkt   == [in_packet EXCEPT !.remaining_count = count,
                                 !.remaining_length = @ + Digit(byte),
                                 !.remaining_mult = @ * Base]
  IN  /\ ~failed /\ stream # <<>> /\ in_packet.command # 0 /\ in_packet.remaining_count <= 0
      /\ stream' = Tail(stream)
      /\ IF count < -MaxCount THEN failed' = TRUE /\ UNCHANGED <<in_packet, handled>>
         ELSE /\ UNCHANGED failed
              /\ IF byte >= Base THEN in_packet' = pkt /\ UNCHANGED handled
                 ELSE Complete([pkt EXCEPT !.remaining_count = -count,
                                           !.to_process = pkt.remaining_length])
      /\ UNCHANGED <<out_packet, current_out_packet, queued, reconnects>>

ReadPayload(n) ==
  /\ ~failed /\ n \in 1..Len(stream) /\ n <= in_packet.to_process
  /\ Complete([in_packet EXCEPT !.to_process = @ - n, !.payload = @ \o SubSeq(stream, 1, n)])
  /\ stream' = SubSeq(stream, n + 1, Len(stream))
  /\ UNCHANGED <<out_packet, current_out_packet, failed, queued, reconnects>>

(* A connection ends at any moment.  The side that reconnects frees what it *)
(* had to write and what it has read of a packet, and the other makes a new *)
(* context for the connection.                                              *)
Reconnect ==
  /\ reconnects < MaxReconnects /\ reconnects' = reconnects + 1
  /\ out_packet' = <<>> /\ current_out_packet' = <<>> /\ stream' = <<>>
  /\ in_packet' = Cleaned /\ failed' = FALSE /\ queued' = <<>> /\ handled' = <<>>

Read == ReadCommand \/ ReadLength \/ \E n \in 1..Capacity : ReadPayload(n)
Writes == \E n \in 1..Capacity : Write(n)

Next == (\E p \in Packets : Queue(p)) \/ Writes \/ Read \/ Reconnect

Spec == Init /\ [][Next]_vars
FairSpec == Spec /\ WF_vars(Writes) /\ WF_vars(Read)
-----------------------------------------------------------------------------
(* The reader has the packets that were queued, whatever pieces they came   *)
(* in.                                                                      *)
IsChannel == INSTANCE Channel
ImplementsChannel == IsChannel!Spec

(* The length of a packet that packet__alloc accepts is never too long for  *)
(* packet__read.                                                            *)
NeverFails == ~failed

(* Every packet is handled unless its connection ends.                      *)
AllHandled == \A n \in 1..MaxQueued : Len(queued) >= n ~> (Len(handled) >= n \/ Len(queued) < n)
=============================================================================
