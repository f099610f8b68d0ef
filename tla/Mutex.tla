-------------------------------- MODULE Mutex -------------------------------
(***************************************************************************)
(* The per-path mutex and its clients.  A call of LockedFS awaits          *)
(* lock(path), then the operation of the inner file system, then unlocks;  *)
(* an operation that rejects leaves without unlocking.  A client of        *)
(* tryLock owns the path when it answers true, and unlocks it.  unlock     *)
(* hands the path over to the first waiter by a timer, and the path stays  *)
(* locked in between.  Nothing in the repository calls tryLock, and lock   *)
(* of a free path is never resolved: with no Triers no call of LockedFS    *)
(* ever runs.  What is said here of owners is said of the class.           *)
(***************************************************************************)
EXTENDS Sequences, Naturals

CONSTANTS
    Calls,    \* asynchronous calls
    Triers,   \* the ones that use tryLock instead of lock
    Paths,    \* paths they are about
    Free      \* what _locks holds for a path that is not locked

ASSUME CallsAssumption == Triers \subseteq Calls

ASSUME FreeAssumption == Free \notin Seq(Calls)

VARIABLES
    _locks,   \* the waiting resolvers of every locked path
    state,    \* where each call is
    pathOf    \* the path of each call

vars == <<_locks, state, pathOf>>

(* "waiting": its promise of lock is not resolved; "resuming": the timer   *)
(* that will resolve it is set; "running": it owns its path; "failed": its *)
(* operation was rejected.                                                 *)
States == {"idle", "waiting", "resuming", "running", "failed"}

(* The type of the variables. *)
TypeOK ==
    /\ _locks \in [Paths -> Seq(Calls) \union {Free}]
    /\ state \in [Calls -> States]
    /\ pathOf \in [Calls -> Paths]

Init ==
    /\ _locks = [x \in Paths |-> Free]
    /\ state = [c \in Calls |-> "idle"]
    /\ pathOf \in [Calls -> Paths]

-----------------------------------------------------------------------------
Locked(x) == _locks[x] # Free

(* lock: on a locked path the resolver is queued.  On a free path the path *)
(* is locked, and the promise is never resolved.                           *)
lock(c, x) ==
    /\ state[c] = "idle" /\ c \notin Triers
    /\ _locks' = [_locks EXCEPT ![x] = IF Locked(x) THEN Append(@, c) ELSE <<>>]
    /\ state' = [state EXCEPT ![c] = "waiting"]
    /\ pathOf' = [pathOf EXCEPT ![c] = x]

(* Where tryLock answers false its client goes away. *)
tryLock(c, x) ==
    /\ state[c] = "idle" /\ c \in Triers
    /\ ~Locked(x)
    /\ _locks' = [_locks EXCEPT ![x] = <<>>]
    /\ state' = [state EXCEPT ![c] = "running"]
    /\ pathOf' = [pathOf EXCEPT ![c] = x]

(* Mutant of unlock: the path is free until the timer has run.             *)
unlockEarly(c) ==
    LET x == pathOf[c]
        q == _locks[x]
    IN  /\ state[c] = "running"
        /\ UNCHANGED pathOf
        /\ _locks' = [_locks EXCEPT ![x] = Free]
        /\ state' = [d \in Calls |->
                        IF d = c THEN "idle"
                        ELSE IF Locked(x) /\ q # <<>> /\ d = Head(q) THEN "resuming"
                        ELSE state[d]]

(* Mutant of unlock: the waiters go with the list they are in.             *)
unlockForgets(c) ==
    /\ state[c] = "running"
    /\ _locks' = [_locks EXCEPT ![pathOf[c]] = Free]
    /\ state' = [state EXCEPT ![c] = "idle"]
    /\ UNCHANGED pathOf

(* unlock, at the end of a call.  With a waiter the path is not unlocked:  *)
(* the timer is set that will resolve the waiter's promise.                *)
unlock(c) ==
    LET x == pathOf[c]
        q == _locks[x]
    IN  /\ state[c] = "running"
        /\ UNCHANGED pathOf
        /\ IF q = <<>>
           THEN /\ _locks' = [_locks EXCEPT ![x] = Free]
                /\ state' = [state EXCEPT ![c] = "idle"]
           ELSE /\ _locks' = [_locks EXCEPT ![x] = Tail(q)]
                /\ state' = [state EXCEPT ![c] = "idle", ![Head(q)] = "resuming"]

(* The timer resolves the promise, and the call goes on. *)
Timer(c) ==
    /\ state[c] = "resuming"
    /\ state' = [state EXCEPT ![c] = "running"]
    /\ UNCHANGED <<_locks, pathOf>>

(* The operation of the inner file system rejects: the exception leaves    *)
(* the method of LockedFS before its unlock.                               *)
Reject(c) ==
    /\ state[c] = "running" /\ c \notin Triers
    /\ state' = [state EXCEPT ![c] = "failed"]
    /\ UNCHANGED <<_locks, pathOf>>

Next == \E c \in Calls :
    \/ \E x \in Paths : lock(c, x) \/ tryLock(c, x)
    \/ unlock(c)
    \/ Timer(c)
    \/ Reject(c)

Spec == Init /\ [][Next]_vars

(* A timer fires, and an operation of the inner file system ends, one way  *)
(* or the other.  Nothing obliges anybody to start a call.                 *)
Fairness == \A c \in Calls : WF_vars(Timer(c)) /\ WF_vars(unlock(c) \/ Reject(c))

FairSpec == Spec /\ Fairness

-----------------------------------------------------------------------------
Owns(c) == state[c] \in {"resuming", "running"}

(* One call at most owns a path, and while it does, which includes the     *)
(* time between unlock and the timer it sets, the path is locked: a call   *)
(* that comes in between cannot take it, and unlock never throws.          *)
MutualExclusion ==
    \A c \in Calls : Owns(c) =>
        /\ Locked(pathOf[c])
        /\ \A d \in Calls : Owns(d) /\ pathOf[d] = pathOf[c] => d = c

Queued(c) ==
    state[c] = "waiting" /\ \E i \in 1 .. Len(_locks[pathOf[c]]) : _locks[pathOf[c]][i] = c

(* A call that waits behind an owner gets its turn, whatever calls arrive  *)
(* after it, unless a call on its path fails before.                       *)
ServedInTurn ==
    \A c \in Calls :
        (\E d \in Calls : Owns(d) /\ pathOf[d] = pathOf[c] /\ Queued(c))
            ~> (state[c] = "running"
                  \/ \E d \in Calls : state[d] = "failed" /\ pathOf[d] = pathOf[c])

(* A call of LockedFS gets its turn: the mutex starves nobody.             *)
NoStarvation == \A c \in Calls : state[c] = "waiting" ~> state[c] # "waiting"
=============================================================================
