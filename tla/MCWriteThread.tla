---------------------------- MODULE MCWriteThread ---------------------------
(* Instances of WriteThread for TLC. *)
EXTENDS WriteThread

CONSTANTS f1, f2

TwoFrames == <<f1, f2>>
AllConfigs == [interframe : BOOLEAN, bytewise : BOOLEAN]
=============================================================================
