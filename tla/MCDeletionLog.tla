---------------------------- MODULE MCDeletionLog ---------------------------
(* DeletionLog for TLC: three files, two of which the readable side has. *)
EXTENDS DeletionLog
=============================================================================
