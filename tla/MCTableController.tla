-------------------------- MODULE MCTableController --------------------------
(* Instances of TableController for TLC. *)
EXTENDS TableController

CONSTANTS client, address

OneChild == <<address>>
AnyFault == FaultKinds
=============================================================================
