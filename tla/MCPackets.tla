------------------------------- MODULE MCPackets ----------------------------
(* Module Packets for TLC: bodies around the lengths that need one byte     *)
(* more, to the base 2, of bytes that look like a command and a length.     *)
EXTENDS Packets

Body(n) == [i \in 1..n |-> IF i % 3 = 1 THEN 1 ELSE i % 3]
MCPackets == {[command |-> (n % 3) + 1, body |-> Body(n)] : n \in {0, 1, 2, 4, 15, 16}}
=============================================================================
