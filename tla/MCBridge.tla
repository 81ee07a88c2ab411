------------------------------ MODULE MCBridge ------------------------------
(* Module Bridge for TLC.                                                   *)
EXTENDS Bridge
=============================================================================
