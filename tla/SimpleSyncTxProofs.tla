------------------------- MODULE SimpleSyncTxProofs -------------------------
(***************************************************************************)
(* Proofs about SimpleSyncTx for every set of keys and values: typing, the *)
(* exactness of the stash, and from both the implementation of AtomicTx.   *)
(* Typing is not inductive alone: that abort stores only values or Absent  *)
(* needs every modified key to have a stashed value.                       *)
(***************************************************************************)
EXTENDS SimpleSyncTx, TLAPS

Inv == TypeOK /\ StashExact

LEMMA MarkModified ==
    ASSUME NEW k \in Keys, Inv, open, markModified(k)
    PROVE  /\ modifiedKeys' = modifiedKeys \union {k}
           /\ originalData' \in [Keys -> Stored \union {Unstashed}]
           /\ originalData'[k] \in Stored
           /\ \A j \in Keys : StashHas(j) => originalData'[j] = originalData[j]
           /\ \A j \in Keys \ {k} : originalData'[j] = originalData[j]
           /\ k \notin modifiedKeys => originalData'[k] = store[k]
BY MarkersAreNoValues
   DEF Inv, TypeOK, StashExact, StashHas, markModified, stashOldValue, Stored

LEMMA StashOldValue ==
    ASSUME NEW k \in Keys, TypeOK
    PROVE  /\ stashOldValue(k) \in [Keys -> Stored \union {Unstashed}]
           /\ stashOldValue(k)[k] # Unstashed
           /\ \A j \in Keys : \/ stashOldValue(k)[j] = originalData[j]
                              \/ ~StashHas(j) /\ stashOldValue(k)[j] = store[j]
<1>1. CASE StashHas(k)
  BY <1>1 DEF TypeOK, StashHas, stashOldValue
<1>2. CASE ~StashHas(k)
  <2>1. stashOldValue(k) = [originalData EXCEPT ![k] = store[k]]
    BY <1>2 DEF stashOldValue
  <2>2. store[k] \in Stored /\ store[k] # Unstashed
    BY MarkersAreNoValues DEF TypeOK, Stored
  <2>3. QED
    BY <1>2, <2>1, <2>2 DEF TypeOK
<1>3. QED
  BY <1>1, <1>2

LEMMA StorePutType ==
    ASSUME NEW k \in Keys, NEW v \in Vals, NEW overwrite \in BOOLEAN, TypeOK
    PROVE  /\ StorePut(k, v, overwrite) \in [Keys -> Stored]
           /\ \A j \in Keys \ {k} : StorePut(k, v, overwrite)[j] = store[j]
BY DEF TypeOK, StorePut, Stored

(* The three operations that mark a key and then write under that key only *)
(* (put, del and the put that throws) preserve the invariant.              *)
LEMMA ChangeKeepsInv ==
    ASSUME NEW k \in Keys, Inv, open, open' = open, markModified(k),
           store' \in [Keys -> Stored],
           \A j \in Keys \ {k} : store'[j] = store[j]
    PROVE  Inv'
<1>1. TypeOK'
  BY MarkModified DEF Inv, TypeOK
<1>2. StashExact'
  BY MarkModified, MarkersAreNoValues DEF Inv, TypeOK, StashExact, StashHas, Stored
<1>3. QED
  BY <1>1, <1>2 DEF Inv

LEMMA RollbackType ==
    ASSUME Inv, open
    PROVE  Rollback \in [Keys -> Stored]
<1>1. ASSUME NEW k \in Keys PROVE k \in modifiedKeys => originalData[k] \in Stored
  BY DEF Inv, TypeOK, StashExact, StashHas
<1>2. QED
  BY <1>1 DEF Inv, TypeOK, Rollback

LEMMA InvNext == Inv /\ [Next]_vars => Inv'
<1> SUFFICES ASSUME Inv, [Next]_vars PROVE Inv'
  OBVIOUS
<1>1. CASE beginTransaction
  BY <1>1 DEF Inv, TypeOK, StashExact, StashHas, beginTransaction
<1>2. ASSUME NEW k \in Keys, get(k) PROVE Inv'
  <2>1. TypeOK'
    BY <1>2, StashOldValue DEF Inv, TypeOK, get
  <2>2. StashExact'
    BY <1>2, StashOldValue DEF Inv, TypeOK, StashExact, StashHas, get
  <2>3. QED
    BY <2>1, <2>2 DEF Inv
<1>3. ASSUME NEW k \in Keys, del(k) PROVE Inv'
  <2>1. store' \in [Keys -> Stored] /\ \A j \in Keys \ {k} : store'[j] = store[j]
    BY <1>3 DEF Inv, TypeOK, del, Stored
  <2>2. QED
    BY <1>3, <2>1, ChangeKeepsInv DEF del
<1>4. ASSUME NEW k \in Keys, putThrows(k) PROVE Inv'
  BY <1>4, ChangeKeepsInv DEF putThrows, Inv, TypeOK
<1>5. ASSUME NEW k \in Keys, NEW v \in Vals, NEW o \in BOOLEAN, put(k, v, o)
      PROVE  Inv'
  BY <1>5, ChangeKeepsInv, StorePutType DEF put, Inv
<1>6. CASE commit
  BY <1>6 DEF Inv, TypeOK, StashExact, commit
<1>7. CASE abort
  BY <1>7, RollbackType DEF Inv, TypeOK, StashExact, abort
<1>8. CASE UNCHANGED vars
  BY <1>8 DEF Inv, TypeOK, StashExact, StashHas, vars
<1>9. QED
  BY <1>1, <1>2, <1>3, <1>4, <1>5, <1>6, <1>7, <1>8 DEF Next

LEMMA InvAlways == Spec => []Inv
<1>1. Init => Inv
  BY DEF Init, Inv, TypeOK, StashExact
<1>2. QED
  BY <1>1, InvNext, PTL DEF Spec

(* In every state the variables have the types the class declares: what    *)
(* abort puts back is always a value or the lack of one (TypeOK).          *)
THEOREM TypeCorrect == Spec => []TypeOK
BY InvAlways, PTL DEF Inv

(* While a transaction runs, its stash holds of every key it may have      *)
(* changed exactly the value from before, whatever was read, written,      *)
(* deleted or refused in whatever order (StashExact).                      *)
THEOREM StashIsExact == Spec => []StashExact
BY InvAlways, PTL DEF Inv

-----------------------------------------------------------------------------
(* Refinement, one lemma per kind of step.                                 *)

LEMMA InitMaps == Init => Atomic!Init
BY DEF Init, Atomic!Init, Atomic!Stored, Stored

(* A change moves what the transaction sees and not what abort restores.   *)
LEMMA ChangeMaps ==
    ASSUME NEW k \in Keys, Inv, open, open' = open, markModified(k),
           store' \in [Keys -> Stored],
           \A j \in Keys \ {k} : store'[j] = store[j]
    PROVE  \E v \in Stored : Atomic!Change(k, v)
<1>1. store' = [store EXCEPT ![k] = store'[k]] /\ store'[k] \in Stored
  BY DEF Inv, TypeOK
<1>2. Rollback' = Rollback
  <2>1. ASSUME NEW j \in Keys, j \in modifiedKeys
        PROVE  originalData'[j] = originalData[j] /\ j \in modifiedKeys'
    BY <2>1, MarkModified DEF Inv, StashExact
  <2>2. ASSUME NEW j \in Keys, j \notin modifiedKeys
        PROVE  (IF j \in modifiedKeys' THEN originalData'[j] ELSE store'[j]) = store[j]
    BY <2>2, MarkModified
  <2>3. QED
    BY <2>1, <2>2 DEF Rollback
<1>3. QED
  BY <1>1, <1>2 DEF Atomic!Change

LEMMA StepMaps == Inv /\ Inv' /\ [Next]_vars => [Atomic!Next]_(Atomic!vars)
<1> SUFFICES ASSUME Inv, Inv', [Next]_vars PROVE [Atomic!Next]_(Atomic!vars)
  OBVIOUS
<1> USE DEF Atomic!Next, Atomic!vars, Atomic!Stored, Stored
<1>1. CASE beginTransaction
  <2>1. Rollback' = store
    BY <1>1 DEF beginTransaction, Rollback, Inv, TypeOK
  <2>2. QED
    BY <1>1, <2>1 DEF beginTransaction, Atomic!Begin
<1>2. ASSUME NEW k \in Keys, get(k) PROVE UNCHANGED Atomic!vars
  <2>1. \A j \in modifiedKeys : originalData'[j] = originalData[j]
    BY <1>2, StashOldValue DEF get, Inv, TypeOK, StashExact
  <2>2. Rollback' = Rollback
    BY <1>2, <2>1 DEF get, Rollback
  <2>3. QED
    BY <1>2, <2>2 DEF get
<1>3. ASSUME NEW k \in Keys, del(k) PROVE Atomic!Next
  <2>1. store' \in [Keys -> Stored] /\ \A j \in Keys \ {k} : store'[j] = store[j]
    BY <1>3 DEF Inv, TypeOK, del
  <2>2. QED
    BY <1>3, <2>1, ChangeMaps DEF del
<1>4. ASSUME NEW k \in Keys, putThrows(k) PROVE Atomic!Next
  BY <1>4, ChangeMaps DEF putThrows, Inv, TypeOK
<1>5. ASSUME NEW k \in Keys, NEW v \in Vals, NEW o \in BOOLEAN, put(k, v, o)
      PROVE  Atomic!Next
  BY <1>5, ChangeMaps, StorePutType DEF put, Inv
<1>6. CASE commit
  BY <1>6 DEF commit, Atomic!Commit
<1>7. CASE abort
  BY <1>7 DEF abort, Atomic!Abort
<1>8. CASE UNCHANGED vars
  BY <1>8 DEF vars, Rollback
<1>9. QED
  BY <1>1, <1>2, <1>3, <1>4, <1>5, <1>6, <1>7, <1>8 DEF Next

(* The transaction that writes in place and undoes on abort implements the *)
(* all-or-nothing transaction, for every store.                            *)
THEOREM Implements == Spec => AtomicSpec
BY InvAlways, InitMaps, StepMaps, PTL DEF Spec, AtomicSpec, Atomic!Spec
=============================================================================
