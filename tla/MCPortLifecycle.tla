---------------------------- MODULE MCPortLifecycle ----------------------------
(* Instances of PortLifecycle for TLC. *)
EXTENDS PortLifecycle

CONSTANTS reader, writer

ReaderAndWriter == <<reader, writer>>
=============================================================================
