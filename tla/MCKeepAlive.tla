----------------------------- MODULE MCKeepAlive ----------------------------
(* Module KeepAlive for TLC.                                                *)
EXTENDS KeepAlive
=============================================================================
