----------------------------- MODULE MutexProofs -----------------------------
(***************************************************************************)
(* Mutual exclusion of the per-path mutex, for any calls and paths.  What  *)
(* makes it inductive is what the queues hold: calls that wait, each once, *)
(* and for that path.                                                      *)
(***************************************************************************)
EXTENDS Mutex, TLAPS

QueuesWait ==
    \A x \in Paths : Locked(x) =>
        \A i \in 1 .. Len(_locks[x]) :
            /\ state[_locks[x][i]] = "waiting"
            /\ pathOf[_locks[x][i]] = x
            /\ \A j \in 1 .. Len(_locks[x]) : _locks[x][i] = _locks[x][j] => i = j

Inv == TypeOK /\ QueuesWait /\ MutualExclusion

(* The queue of a locked path is a sequence of calls. *)
LEMMA QueueType ==
    ASSUME TypeOK, NEW x \in Paths, Locked(x)
    PROVE  _locks[x] \in Seq(Calls)
BY DEF TypeOK, Locked

(* The empty queue and a shorter or longer one are no Free marker. *)
LEMMA QueueIsNotFree == \A q \in Seq(Calls) : q # Free
BY FreeAssumption

(* A call that is not waiting is in no queue. *)
LEMMA OnlyWaitersQueue ==
    ASSUME TypeOK, QueuesWait, NEW c \in Calls, state[c] # "waiting",
           NEW x \in Paths, Locked(x), NEW i \in 1 .. Len(_locks[x])
    PROVE  _locks[x][i] # c
BY DEF QueuesWait

LEMMA InitInv == Init => Inv
<1> SUFFICES ASSUME Init PROVE Inv
  OBVIOUS
<1>1. TypeOK
  BY DEF Init, TypeOK, States
<1>2. QueuesWait
  BY DEF Init, QueuesWait, Locked
<1>3. MutualExclusion
  BY DEF Init, MutualExclusion, Owns
<1> QED BY <1>1, <1>2, <1>3 DEF Inv

(* lock: a call that joins a queue, or the first of an empty one. *)
LEMMA LockInv ==
    ASSUME Inv, NEW c \in Calls, NEW x \in Paths, lock(c, x)
    PROVE  Inv'
<1> USE DEF Inv
<1>0. \A q \in Seq(Calls) : q # Free
  BY QueueIsNotFree
<1> DEFINE q == IF Locked(x) THEN Append(_locks[x], c) ELSE <<>>
<1>1. q \in Seq(Calls)
  BY QueueType
<1>2. /\ _locks' = [_locks EXCEPT ![x] = q]
      /\ state' = [state EXCEPT ![c] = "waiting"]
      /\ pathOf' = [pathOf EXCEPT ![c] = x]
      /\ state[c] = "idle"
  BY DEF lock
<1>3. TypeOK'
  <2> HIDE DEF q
  <2> QED BY <1>1, <1>2 DEF TypeOK, States
<1>4. \A y \in Paths : _locks'[y] = IF y = x THEN q ELSE _locks[y]
  <2> HIDE DEF q
  <2> QED BY <1>2 DEF TypeOK
<1>5. \A d \in Calls : /\ state'[d] = IF d = c THEN "waiting" ELSE state[d]
                       /\ pathOf'[d] = IF d = c THEN x ELSE pathOf[d]
  BY <1>2 DEF TypeOK
<1>6. ASSUME NEW y \in Paths, Locked(y)', NEW i \in 1 .. Len(_locks'[y])
      PROVE  /\ state'[_locks'[y][i]] = "waiting"
             /\ pathOf'[_locks'[y][i]] = y
             /\ \A j \in 1 .. Len(_locks'[y]) : _locks'[y][i] = _locks'[y][j] => i = j
  <2>1. CASE y # x
    <3>1. Locked(y) /\ _locks'[y] = _locks[y]
      BY <2>1, <1>4, <1>6 DEF Locked
    <3>2. _locks[y] \in Seq(Calls) /\ \A j \in 1 .. Len(_locks[y]) : _locks[y][j] \in Calls
      BY <3>1, QueueType
    <3>3. \A j \in 1 .. Len(_locks[y]) : _locks[y][j] # c
      BY <3>1, <1>2, OnlyWaitersQueue
    <3> QED BY <3>1, <3>2, <3>3, <1>5, <1>6 DEF QueuesWait
  <2>2. CASE y = x /\ Locked(x)
    <3>1. /\ _locks[x] \in Seq(Calls)
          /\ \A j \in 1 .. Len(_locks[x]) : _locks[x][j] \in Calls
      BY <2>2, QueueType
    <3>2. \A j \in 1 .. Len(_locks[x]) : _locks[x][j] # c
      BY <2>2, <1>2, OnlyWaitersQueue
    <3>3. _locks'[y] = Append(_locks[x], c)
      BY <2>2, <1>4
    <3>4. /\ Len(_locks'[y]) = Len(_locks[x]) + 1
          /\ _locks'[y][Len(_locks[x]) + 1] = c
          /\ \A j \in 1 .. Len(_locks[x]) : _locks'[y][j] = _locks[x][j]
      BY <3>1, <3>3
    <3>5. \A j \in 1 .. Len(_locks[x]) :
            /\ state[_locks[x][j]] = "waiting" /\ pathOf[_locks[x][j]] = x
            /\ \A k \in 1 .. Len(_locks[x]) : _locks[x][j] = _locks[x][k] => j = k
      BY <2>2 DEF QueuesWait
    <3>6. Len(_locks[x]) \in Nat
      BY <3>1
    <3>7. \A j \in 1 .. Len(_locks'[y]) :
            j = Len(_locks[x]) + 1 \/ j \in 1 .. Len(_locks[x])
      BY <3>4, <3>6
    <3>8. ASSUME NEW j \in 1 .. Len(_locks'[y]), _locks'[y][i] = _locks'[y][j]
          PROVE  i = j
      <4>1. CASE i = Len(_locks[x]) + 1
        BY <3>2, <3>4, <3>7, <3>8, <4>1
      <4>2. CASE i \in 1 .. Len(_locks[x])
        BY <3>2, <3>4, <3>5, <3>7, <3>8, <4>2
      <4> QED BY <1>6, <3>7, <4>1, <4>2
    <3>9. _locks'[y][i] \in Calls
      BY <1>6, <3>1, <3>4, <3>7
    <3>10. state'[_locks'[y][i]] = "waiting" /\ pathOf'[_locks'[y][i]] = x
      BY <1>5, <1>6, <3>4, <3>5, <3>7, <3>9
    <3> QED BY <2>2, <3>8, <3>10
  <2>3. CASE y = x /\ ~Locked(x)
    <3>1. _locks'[y] = <<>>
      BY <2>3, <1>4
    <3> QED BY <3>1, <1>6
  <2> QED BY <2>1, <2>2, <2>3
<1>7. QueuesWait'
  BY <1>6 DEF QueuesWait
<1>8. \A d \in Calls : Owns(d)' => Owns(d) /\ pathOf'[d] = pathOf[d] /\ d # c
  BY <1>2, <1>5 DEF Owns
<1>9. \A y \in Paths : Locked(y) => Locked(y)'
  <2> HIDE DEF q
  <2> QED BY <1>0, <1>1, <1>4 DEF Locked
<1>10. MutualExclusion'
  BY <1>8, <1>9, <1>2 DEF MutualExclusion, TypeOK
<1> QED BY <1>3, <1>7, <1>10

(* tryLock: only a path that nobody owns is free. *)
LEMMA TryLockInv ==
    ASSUME Inv, NEW c \in Calls, NEW x \in Paths, tryLock(c, x)
    PROVE  Inv'
<1> USE DEF Inv
<1>0. \A q \in Seq(Calls) : q # Free
  BY QueueIsNotFree
<1>1. /\ state[c] = "idle" /\ ~Locked(x)
      /\ _locks' = [_locks EXCEPT ![x] = <<>>]
      /\ state' = [state EXCEPT ![c] = "running"]
      /\ pathOf' = [pathOf EXCEPT ![c] = x]
  BY DEF tryLock
<1>2. TypeOK'
  BY <1>1 DEF TypeOK, States
<1>3. \A y \in Paths : _locks'[y] = IF y = x THEN <<>> ELSE _locks[y]
  BY <1>1 DEF TypeOK
<1>4. \A d \in Calls : /\ state'[d] = IF d = c THEN "running" ELSE state[d]
                       /\ pathOf'[d] = IF d = c THEN x ELSE pathOf[d]
  BY <1>1 DEF TypeOK
<1>5. ASSUME NEW y \in Paths, Locked(y)', NEW i \in 1 .. Len(_locks'[y])
      PROVE  /\ state'[_locks'[y][i]] = "waiting"
             /\ pathOf'[_locks'[y][i]] = y
             /\ \A j \in 1 .. Len(_locks'[y]) : _locks'[y][i] = _locks'[y][j] => i = j
  <2>1. y # x /\ Locked(y) /\ _locks'[y] = _locks[y]
    BY <1>3, <1>5 DEF Locked
  <2>2. \A j \in 1 .. Len(_locks[y]) : _locks[y][j] \in Calls /\ _locks[y][j] # c
    BY <2>1, <1>1, QueueType, OnlyWaitersQueue
  <2> QED BY <2>1, <2>2, <1>4, <1>5 DEF QueuesWait
<1>6. QueuesWait'
  BY <1>5 DEF QueuesWait
<1>7. \A d \in Calls : Owns(d) => pathOf[d] # x
  BY <1>1 DEF MutualExclusion
<1>8. \A y \in Paths : Locked(y) => Locked(y)'
  BY <1>1, <1>3 DEF Locked
<1>9. Locked(x)'
  BY <1>0, <1>3, <<>> \in Seq(Calls) DEF Locked
<1>10. \A d \in Calls : d # c => (Owns(d)' <=> Owns(d)) /\ pathOf'[d] = pathOf[d]
  BY <1>4 DEF Owns
<1>11. MutualExclusion'
  BY <1>4, <1>7, <1>8, <1>9, <1>10 DEF MutualExclusion, TypeOK
<1> QED BY <1>2, <1>6, <1>11

(* unlock: the path goes to the head of its queue, or is free.  *)
LEMMA UnlockInv ==
    ASSUME Inv, NEW c \in Calls, unlock(c)
    PROVE  Inv'
<1> USE DEF Inv
<1>0. \A q \in Seq(Calls) : q # Free
  BY QueueIsNotFree
<1> DEFINE x == pathOf[c]
           q == _locks[x]
<1>1. state[c] = "running" /\ pathOf' = pathOf /\ x \in Paths
  BY DEF unlock, TypeOK
<1>2. Locked(x) /\ q \in Seq(Calls)
  BY <1>1, QueueType DEF MutualExclusion, Owns
<1>3. \A y \in Paths : Locked(y) =>
        \A i \in 1 .. Len(_locks[y]) : _locks[y][i] \in Calls /\ _locks[y][i] # c
  BY <1>1, QueueType, OnlyWaitersQueue
<1>4. \A d \in Calls : Owns(d) /\ pathOf[d] = x => d = c
  BY <1>1 DEF MutualExclusion, Owns
<1>5. CASE q = <<>>
  <2>1. /\ _locks' = [_locks EXCEPT ![x] = Free]
        /\ state' = [state EXCEPT ![c] = "idle"]
    BY <1>5 DEF unlock
  <2>2. TypeOK'
    BY <1>1, <2>1 DEF TypeOK, States
  <2>3. \A y \in Paths : _locks'[y] = IF y = x THEN Free ELSE _locks[y]
    BY <2>1 DEF TypeOK
  <2>4. \A d \in Calls : state'[d] = IF d = c THEN "idle" ELSE state[d]
    BY <2>1 DEF TypeOK
  <2>5. ASSUME NEW y \in Paths, Locked(y)', NEW i \in 1 .. Len(_locks'[y])
        PROVE  /\ state'[_locks'[y][i]] = "waiting"
               /\ pathOf'[_locks'[y][i]] = y
               /\ \A j \in 1 .. Len(_locks'[y]) : _locks'[y][i] = _locks'[y][j] => i = j
    <3>1. Locked(y) /\ _locks'[y] = _locks[y]
      BY <2>3, <2>5 DEF Locked
    <3> QED BY <3>1, <1>1, <1>3, <2>4, <2>5 DEF QueuesWait
  <2>6. QueuesWait'
    BY <2>5 DEF QueuesWait
  <2>7. \A d \in Calls : Owns(d)' => Owns(d) /\ pathOf[d] # x
    BY <1>4, <2>4 DEF Owns
  <2>8. MutualExclusion'
    BY <1>1, <2>3, <2>7 DEF MutualExclusion, Locked, TypeOK
  <2> QED BY <2>2, <2>6, <2>8
<1>6. CASE q # <<>>
  <2> DEFINE h == Head(q)
  <2>1. /\ _locks' = [_locks EXCEPT ![x] = Tail(q)]
        /\ state' = [state EXCEPT ![c] = "idle", ![h] = "resuming"]
    BY <1>6 DEF unlock
  <2>2. /\ Tail(q) \in Seq(Calls) /\ Len(q) \in Nat \ {0}
        /\ h = q[1] /\ 1 \in 1 .. Len(q)
        /\ Len(Tail(q)) = Len(q) - 1
        /\ \A i \in 1 .. Len(Tail(q)) : Tail(q)[i] = q[i + 1]
    BY <1>2, <1>6
  <2>3. h \in Calls /\ h # c /\ state[h] = "waiting" /\ pathOf[h] = x
    BY <1>1, <1>2, <1>3, <2>2 DEF QueuesWait
  <2>4. TypeOK'
    <3> HIDE DEF h, q, x
    <3> QED BY <1>1, <2>1, <2>2 DEF TypeOK, States
  <2>5. \A y \in Paths : _locks'[y] = IF y = x THEN Tail(q) ELSE _locks[y]
    <3> HIDE DEF h, q, x
    <3> QED BY <2>1 DEF TypeOK
  <2>6. \A d \in Calls :
          state'[d] = IF d = h THEN "resuming" ELSE IF d = c THEN "idle" ELSE state[d]
    <3> HIDE DEF h, q, x
    <3> QED BY <2>1, <2>3 DEF TypeOK
  <2>7. ASSUME NEW y \in Paths, Locked(y)', NEW i \in 1 .. Len(_locks'[y])
        PROVE  /\ state'[_locks'[y][i]] = "waiting"
               /\ pathOf'[_locks'[y][i]] = y
               /\ \A j \in 1 .. Len(_locks'[y]) : _locks'[y][i] = _locks'[y][j] => i = j
    <3>1. CASE y # x
      <4>1. Locked(y) /\ _locks'[y] = _locks[y]
        BY <3>1, <2>5, <2>7 DEF Locked
      <4>2. \A j \in 1 .. Len(_locks[y]) :
              _locks[y][j] \in Calls \ {c} /\ pathOf[_locks[y][j]] = y
        BY <4>1, <1>3 DEF QueuesWait
      <4>3. \A j \in 1 .. Len(_locks[y]) : _locks[y][j] # h
        BY <4>2, <2>3, <3>1
      <4> QED BY <4>1, <4>2, <4>3, <1>1, <2>6, <2>7 DEF QueuesWait
    <3>2. CASE y = x
      <4>1. _locks'[y] = Tail(q)
        BY <3>2, <2>5
      <4>2. \A j \in 1 .. Len(q) :
              /\ q[j] \in Calls \ {c} /\ state[q[j]] = "waiting" /\ pathOf[q[j]] = x
              /\ \A k \in 1 .. Len(q) : q[j] = q[k] => j = k
        BY <1>1, <1>2, <1>3 DEF QueuesWait
      <4>3. \A j \in 1 .. Len(Tail(q)) : j + 1 \in 1 .. Len(q) /\ j \in Nat /\ j + 1 # 1
        BY <2>2
      <4> HIDE DEF h, q, x
      <4>4. \A j \in 1 .. Len(Tail(q)) : Tail(q)[j] \in Calls \ {c, h}
        BY <2>2, <4>2, <4>3
      <4> QED BY <4>1, <4>2, <4>3, <4>4, <3>2, <1>1, <2>2, <2>6, <2>7
    <3> QED BY <3>1, <3>2
  <2>8. QueuesWait'
    BY <2>7 DEF QueuesWait
  <2>9. \A d \in Calls : Owns(d)' => d = h \/ (Owns(d) /\ pathOf[d] # x)
    BY <1>4, <2>6 DEF Owns
  <2>10. \A y \in Paths : Locked(y) => Locked(y)'
    <3> HIDE DEF h, q, x
    <3> QED BY <1>0, <2>2, <2>5 DEF Locked
  <2>11. MutualExclusion'
    BY <1>1, <1>2, <2>3, <2>9, <2>10 DEF MutualExclusion, TypeOK
  <2> QED BY <2>4, <2>8, <2>11
<1> QED BY <1>5, <1>6

(* The timer and a rejection change no queue. *)
LEMMA OtherInv ==
    ASSUME Inv, NEW c \in Calls, Timer(c) \/ Reject(c)
    PROVE  Inv'
<1> USE DEF Inv
<1>1. /\ _locks' = _locks /\ pathOf' = pathOf
      /\ Owns(c)
      /\ state' \in [Calls -> States]
      /\ state'[c] # "waiting"
      /\ \A d \in Calls : d # c => state'[d] = state[d]
  BY DEF Timer, Reject, Owns, TypeOK, States
<1>2. TypeOK'
  BY <1>1 DEF TypeOK
<1>3. \A y \in Paths : Locked(y) =>
        \A i \in 1 .. Len(_locks[y]) : _locks[y][i] \in Calls /\ _locks[y][i] # c
  BY <1>1, QueueType, OnlyWaitersQueue DEF Owns
<1>4. QueuesWait'
  BY <1>1, <1>3 DEF QueuesWait, Locked
<1>5. \A d \in Calls : Owns(d)' => Owns(d)
  BY <1>1 DEF Owns
<1>6. MutualExclusion'
  BY <1>1, <1>5 DEF MutualExclusion, Locked, TypeOK
<1> QED BY <1>2, <1>4, <1>6

(* No two calls own a path at a time, and an owned path is locked, for any *)
(* number of calls and paths: Mutex.unlock hands a path over without a gap *)
(* between the timer it sets and the waiter's turn.                        *)
THEOREM Exclusion == Spec => [](TypeOK /\ MutualExclusion)
<1>1. Init => Inv
  BY InitInv
<1>2. Inv /\ [Next]_vars => Inv'
  <2> SUFFICES ASSUME Inv, [Next]_vars PROVE Inv'
    OBVIOUS
  <2>1. CASE Next
    BY <2>1, LockInv, TryLockInv, UnlockInv, OtherInv DEF Next
  <2>2. CASE UNCHANGED vars
    BY <2>2 DEF vars, Inv, TypeOK, QueuesWait, MutualExclusion, Owns, Locked
  <2> QED BY <2>1, <2>2
<1>3. Inv => TypeOK /\ MutualExclusion
  BY DEF Inv
<1> QED BY <1>1, <1>2, <1>3, PTL DEF Spec

=============================================================================
