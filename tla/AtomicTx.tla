------------------------------ MODULE AtomicTx ------------------------------
(***************************************************************************)
(* What a read-write transaction on a key-value store promises its user    *)
(* (the interface SyncKeyValueRWTransaction): the changes made through it  *)
(* are kept all together by commit or dropped all together by abort.       *)
(***************************************************************************)
CONSTANTS Keys, Vals, Absent

Stored == Vals \union {Absent}

VARIABLES
    open,   \* a transaction is running
    db,     \* the contents the store has without that transaction
    work    \* the contents the transaction sees

vars == <<open, db, work>>

Init == open = FALSE /\ db \in [Keys -> Stored] /\ work = db

Begin == ~open /\ open' = TRUE /\ work' = db /\ UNCHANGED db

Change(k, v) == open /\ work' = [work EXCEPT ![k] = v] /\ UNCHANGED <<open, db>>

Commit == open /\ open' = FALSE /\ db' = work /\ UNCHANGED work

Abort == open /\ open' = FALSE /\ work' = db /\ UNCHANGED db

Next ==
    \/ Begin
    \/ \E k \in Keys, v \in Stored : Change(k, v)
    \/ Commit
    \/ Abort

Spec == Init /\ [][Next]_vars
=============================================================================
