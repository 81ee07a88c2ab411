----------------------------- MODULE MCRestart ------------------------------
(* Module Restart with its constants given in the configurations.           *)
EXTENDS Restart
=============================================================================
