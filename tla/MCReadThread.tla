---------------------------- MODULE MCReadThread ----------------------------
(* Instances of ReadThread for TLC. *)
EXTENDS ReadThread

CONSTANTS f1, f2

TwoFrames == <<f1, f2>>
=============================================================================
