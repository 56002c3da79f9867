------------------------------ MODULE MCRelay ------------------------------
(***************************************************************************)
(* Relay with two replicas: the calls are made on r1, and the device may    *)
(* connect to either, so that a call is served locally or relayed.          *)
(***************************************************************************)
EXTENDS Relay

CONSTANTS r1, r2

MCReplicas == {r1, r2}
MCHome == [c \in Calls |-> r1]
=============================================================================
