------------------------------ MODULE MCBroker ------------------------------
(* Module Broker with its constants given in the configurations.            *)
EXTENDS Broker
=============================================================================
