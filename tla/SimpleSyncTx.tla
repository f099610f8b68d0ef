---------------------------- MODULE SimpleSyncTx ----------------------------
(***************************************************************************)
(* SimpleSyncRWTransaction over an InMemoryStore.  The transaction writes  *)
(* straight into the store and remembers enough to undo it: the first      *)
(* value it saw under each key (originalData) and the keys it may have     *)
(* changed (modifiedKeys).  A key can be stashed by a read, by a write, or *)
(* by a read that a write follows, and a put may be refused (overwrite is  *)
(* false and the key exists) or throw (a store that is full) after the key *)
(* was already marked as modified.                                         *)
(***************************************************************************)
EXTENDS FiniteSets

CONSTANTS
    Keys,      \* keys of the store
    Vals,      \* byte arrays the store can hold
    Absent,    \* what the store's get answers for a key it does not hold
    Unstashed  \* marks a key originalData has no property for

ASSUME MarkersAreNoValues ==
    Absent \notin Vals /\ Unstashed \notin Vals /\ Absent # Unstashed

Stored == Vals \union {Absent}

VARIABLES
    store,         \* InMemoryStore.store
    open,          \* a transaction object is in use
    originalData,  \* its stash
    modifiedKeys   \* its list of keys (the order is never observed)

vars == <<store, open, originalData, modifiedKeys>>

(* The type of the variables: what is stashed for a key that was not       *)
(* stashed, the marker of that, never reaches the store.                   *)
TypeOK ==
    /\ store \in [Keys -> Stored]
    /\ open \in BOOLEAN
    /\ originalData \in [Keys -> Stored \union {Unstashed}]
    /\ modifiedKeys \in SUBSET Keys

Init ==
    /\ store \in [Keys -> Stored]
    /\ open = FALSE
    /\ originalData = [k \in Keys |-> Unstashed]
    /\ modifiedKeys = {}

-----------------------------------------------------------------------------
StashHas(k) == originalData[k] # Unstashed

(* Mutant of stashOldValue: a later value replaces the first one.          *)
stashOldValueAlways(k) == [originalData EXCEPT ![k] = store[k]]

(* Only the earliest value a key had in this transaction is kept.          *)
stashOldValue(k) ==
    IF StashHas(k) THEN originalData ELSE [originalData EXCEPT ![k] = store[k]]

(* Mutant of markModified: the key is listed, its value is not stashed.    *)
markModifiedOnly(k) ==
    /\ modifiedKeys' = modifiedKeys \union {k}
    /\ originalData' = originalData

(* The store is only consulted for a key that is in neither list yet. *)
markModified(k) ==
    /\ modifiedKeys' = modifiedKeys \union {k}
    /\ originalData' = IF k \in modifiedKeys THEN originalData ELSE stashOldValue(k)

beginTransaction ==
    /\ ~open
    /\ open' = TRUE
    /\ originalData' = [k \in Keys |-> Unstashed]
    /\ modifiedKeys' = {}
    /\ UNCHANGED store

get(k) ==
    /\ open
    /\ originalData' = stashOldValue(k)
    /\ UNCHANGED <<store, open, modifiedKeys>>

(* InMemoryStore.put: an existing key is only replaced on request. *)
StorePut(k, v, overwrite) ==
    IF ~overwrite /\ store[k] # Absent THEN store ELSE [store EXCEPT ![k] = v]

put(k, v, overwrite) ==
    /\ open
    /\ markModified(k)
    /\ store' = StorePut(k, v, overwrite)
    /\ UNCHANGED open

(* The put of a store that is full: the exception leaves put after the key *)
(* was marked; the caller is still to abort.                               *)
putThrows(k) ==
    /\ open
    /\ markModified(k)
    /\ UNCHANGED <<store, open>>

del(k) ==
    /\ open
    /\ markModified(k)
    /\ store' = [store EXCEPT ![k] = Absent]
    /\ UNCHANGED open

commit ==
    /\ open
    /\ open' = FALSE
    /\ UNCHANGED <<store, originalData, modifiedKeys>>

(* Mutant of Rollback: every key is put back, not the modified ones alone. *)
RollbackOfAll == [k \in Keys |-> originalData[k]]

(* The contents abort puts back: a key that had no value is deleted, any   *)
(* other gets its first value again.                                       *)
Rollback == [k \in Keys |-> IF k \in modifiedKeys THEN originalData[k] ELSE store[k]]

abort ==
    /\ open
    /\ open' = FALSE
    /\ store' = Rollback
    /\ UNCHANGED <<originalData, modifiedKeys>>

Next ==
    \/ beginTransaction
    \/ \E k \in Keys : get(k) \/ del(k) \/ putThrows(k)
    \/ \E k \in Keys, v \in Vals, overwrite \in BOOLEAN : put(k, v, overwrite)
    \/ commit
    \/ abort

Spec == Init /\ [][Next]_vars

-----------------------------------------------------------------------------
(* While a transaction runs, the stash is exact: a key it may have changed *)
(* has a stashed value, and a stashed key it has not changed still has the *)
(* stashed value in the store (stashOldValue and markModified never keep a *)
(* value that the transaction wrote itself).                               *)
StashExact ==
    open => /\ \A k \in modifiedKeys : StashHas(k)
            /\ \A k \in Keys \ modifiedKeys : StashHas(k) => originalData[k] = store[k]

(* The store's contents without the transaction are those abort would      *)
(* restore.                                                                *)
Atomic ==
    INSTANCE AtomicTx WITH work <- store, db <- IF open THEN Rollback ELSE store

(* Commit keeps and abort drops all the changes of a transaction together: *)
(* the code's transaction, which writes in place, implements AtomicTx.     *)
AtomicSpec == Atomic!Spec
=============================================================================
