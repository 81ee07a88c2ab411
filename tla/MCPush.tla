-------------------------------- MODULE MCPush ------------------------------
(* Module Push for TLC.                                                     *)
EXTENDS Push
=============================================================================
