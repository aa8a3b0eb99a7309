-------------------------- MODULE MCUsbtmcTransfers --------------------------
(* Instances of UsbtmcTransfers for TLC. *)
EXTENDS UsbtmcTransfers

AnyFaults == SUBSET FaultKinds
=============================================================================
