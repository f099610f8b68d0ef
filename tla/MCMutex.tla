------------------------------ MODULE MCMutex -------------------------------
(* The mutex for TLC: three calls of LockedFS and a client of tryLock.     *)
EXTENDS Mutex
=============================================================================
