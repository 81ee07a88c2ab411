-------------------------------- MODULE Channel -----------------------------
(* What the packet layer promises: on one connection the other side handles *)
(* the packets that were queued, each whole, in the order they were queued. *)
EXTENDS Naturals, Sequences

CONSTANT Packets

VARIABLES queued,   \* the packets queued since the connection was made
          handled   \* of those, the ones the other side has handled

Init == queued = <<>> /\ handled = <<>>

Queue == \E p \in Packets : queued' = Append(queued, p) /\ UNCHANGED handled

Handle == /\ Len(handled) < Len(queued)
          /\ handled' = Append(handled, queued[Len(handled) + 1]) /\ UNCHANGED queued

NewConnection == queued' = <<>> /\ handled' = <<>>

Next == Queue \/ Handle \/ NewConnection

Spec == Init /\ [][Next]_<<queued, handled>>
=============================================================================
