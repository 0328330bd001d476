--------------------------- MODULE MCEventConsumer ---------------------------
(* Instances of EventConsumer for TLC. *)
EXTENDS EventConsumer

CONSTANTS c1, c2
=============================================================================
