----------------------------- MODULE MCCallbacks ----------------------------
(* Callbacks for TLC: two calls at a time, two files of one byte at most.  *)
EXTENDS Callbacks
=============================================================================
