------------------------------- MODULE MCClient -----------------------------
(* Module Client for TLC.                                                   *)
EXTENDS Client
=============================================================================
