--------------------------- MODULE MCPortTransactions ---------------------------
(* Instances of PortTransactions for TLC. *)
EXTENDS PortTransactions
=============================================================================
