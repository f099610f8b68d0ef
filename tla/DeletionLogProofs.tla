-------------------------- MODULE DeletionLogProofs -------------------------
(***************************************************************************)
(* The safety of the deletion log, for any set of files.  The invariant    *)
(* adds to the properties how far the one write there can be has come: a   *)
(* write that has not stored its text yet holds the whole log, unless the  *)
(* log has changed since; one that has stored it has left that in the file.*)
(***************************************************************************)
EXTENDS DeletionLog, TLAPS

(* How far write w has come, and what is therefore in the file. *)
Progress(w) ==
    /\ w.stage \in {"opening", "emptied"} /\ ~behind => w.content = log
    /\ w.stage \in {"written", "settled"} /\ ~behind /\ ~lost => disk = log
    /\ w.stage = "failed" => lost

WriterInv ==
    /\ pending /\ Len(writes) = 1 => Progress(writes[1])
    /\ Settled => disk = log

Inv ==
    /\ TypeOK
    /\ log = deleted
    /\ OneWriter
    /\ WriterInv
    /\ gone \intersect writable = {}
    /\ GoneStaysGone

(* Sequences of writes that are empty or have one element. *)
LEMMA ShortSeqs ==
    /\ <<>> \in Seq(Writes) /\ Len(<<>>) = 0
    /\ \A s \in Seq(Writes) : /\ Len(s) \in Nat
                              /\ Len(s) = 0 <=> s = <<>>
                              /\ \A i \in 1 .. Len(s) : s[i] \in Writes
OBVIOUS

LEMMA InitInv == Init => Inv
<1> SUFFICES ASSUME Init PROVE Inv
  OBVIOUS
<1>1. TypeOK
  BY PathsAssumption, ShortSeqs DEF Init, TypeOK
<1>2. writes = <<>> /\ Len(writes) = 0
  BY DEF Init
<1>3. OneWriter /\ WriterInv
  BY <1>2 DEF Init, OneWriter, WriterInv, Settled
<1>4. GoneStaysGone
  BY DEF Init, GoneStaysGone
<1> QED BY <1>1, <1>3, <1>4 DEF Init, Inv

(* Under OneWriter a pending update has exactly one write. *)
LEMMA TheWrite ==
    ASSUME TypeOK, OneWriter
    PROVE  /\ Len(writes) \in {0, 1}
           /\ pending => Len(writes) = 1 /\ writes[1] \in Writes
           /\ ~pending => writes = <<>>
<1>1. writes \in Seq(Writes) /\ Len(writes) \in Nat /\ Len(writes) <= 1
  BY ShortSeqs DEF TypeOK, OneWriter
<1>2. Len(writes) \in {0, 1}
  <2>1. \A n \in Nat : n <= 1 => n \in {0, 1}
    OBVIOUS
  <2> QED BY <1>1, <2>1
<1>3. ~pending => writes = <<>>
  BY DEF OneWriter
<1>4. pending => Len(writes) # 0
  BY <1>1, ShortSeqs DEF OneWriter
<1>5. Len(writes) = 1 => writes[1] \in Writes
  BY <1>1, ShortSeqs
<1> QED BY <1>2, <1>3, <1>4, <1>5

(* updateLog keeps everything but what depends on the operation around it. *)
LEMMA UpdateLogInv ==
    ASSUME Inv, NEW text \in SUBSET Paths, updateLog(text),
           deleted' = text, disk' = disk, lost' = lost
    PROVE  /\ log' \in SUBSET Paths /\ pending' \in BOOLEAN /\ needed' \in BOOLEAN
           /\ behind' \in BOOLEAN
           /\ writes' \in Seq(Writes)
           /\ log' = deleted'
           /\ OneWriter'
           /\ WriterInv'
<1>1. CASE pending
  <2>1. /\ needed' = TRUE /\ pending' = pending /\ writes' = writes
        /\ log' = text /\ behind' = TRUE
    BY <1>1 DEF updateLog
  <2>2. OneWriter'
    BY <2>1 DEF OneWriter, Inv
  <2>3. WriterInv'
    <3>1. ~Settled'
      BY <2>1 DEF Settled
    <3>2. ASSUME Len(writes) = 1, pending PROVE Progress(writes[1])'
      BY <2>1, <3>2 DEF Progress, WriterInv, Inv
    <3> QED BY <2>1, <3>1, <3>2 DEF WriterInv
  <2> QED BY <2>1, <2>2, <2>3 DEF Inv, TypeOK
<1>2. CASE ~pending
  <2>1. /\ pending' = TRUE /\ needed' = needed /\ log' = text /\ behind' = FALSE
        /\ writes' = Append(writes, Write(text, "opening"))
    BY <1>2 DEF updateLog
  <2>2. writes = <<>>
    BY <1>2, TheWrite DEF Inv
  <2>3. writes' = <<Write(text, "opening")>>
    BY <2>1, <2>2
  <2>4. /\ Len(writes') = 1 /\ writes' # <<>>
        /\ writes'[1].content = text /\ writes'[1].stage = "opening"
        /\ writes' \in Seq(Writes)
    <3>1. Write(text, "opening") \in Writes
      BY DEF Write, Writes, Stages
    <3> QED BY <2>3, <3>1 DEF Write
  <2>5. OneWriter'
    BY <2>1, <2>4 DEF OneWriter
  <2>6. WriterInv'
    BY <2>1, <2>4 DEF WriterInv, Progress, Settled
  <2> QED BY <2>1, <2>4, <2>5, <2>6 DEF Inv, TypeOK
<1>3. pending \in BOOLEAN
  BY DEF Inv, TypeOK
<1> QED BY <1>1, <1>2, <1>3

LEMMA OperationInv ==
    ASSUME Inv,
           \/ ThrowStored
           \/ \E p \in Paths : unlinkSync(p) \/ Create(p)
           \/ \E text \in SUBSET Readable : restoreDeletionLog(text)
    PROVE  Inv'
<1>1. CASE ThrowStored
  BY <1>1 DEF ThrowStored, Inv, TypeOK, OneWriter, WriterInv, Progress, Settled,
              GoneStaysGone, Visible, history
<1>2. ASSUME NEW p \in Paths, unlinkSync(p), p \in Readable /\ p \notin deleted
      PROVE  Inv'
  <2>1. /\ deleted' = log \union {p} /\ updateLog(log \union {p})
        /\ writable' = writable \ {p}
        /\ gone' = gone \union {p} /\ back' = back \ {p}
        /\ disk' = disk /\ error' = error /\ lost' = lost
    BY <1>2 DEF unlinkSync, Inv
  <2>2. log \union {p} \in SUBSET Paths
    BY DEF Inv, TypeOK
  <2>3. TypeOK'
    BY <2>1, <2>2, UpdateLogInv DEF TypeOK, Inv
  <2>4. GoneStaysGone'
    BY <2>1 DEF GoneStaysGone, Visible, Inv
  <2> QED BY <2>1, <2>2, <2>3, <2>4, UpdateLogInv DEF Inv
<1>3. ASSUME NEW p \in Paths, unlinkSync(p), ~(p \in Readable /\ p \notin deleted)
      PROVE  Inv'
  <2>1. /\ UNCHANGED <<deleted, log, pending, needed, writes, disk, error, lost, behind>>
        /\ writable' = writable \ {p}
        /\ gone' = gone \union {p} /\ back' = back \ {p}
    BY <1>3 DEF unlinkSync
  <2>2. TypeOK'
    BY <2>1 DEF TypeOK, Inv
  <2>3. GoneStaysGone'
    BY <2>1, <1>3 DEF GoneStaysGone, Visible, Inv
  <2> QED BY <2>1, <2>2, <2>3 DEF Inv, OneWriter, WriterInv, Progress, Settled
<1>4. ASSUME NEW p \in Paths, Create(p)
      PROVE  Inv'
  BY <1>4 DEF Create, memory, Inv, TypeOK, OneWriter, WriterInv, Progress, Settled,
              GoneStaysGone, Visible
<1>5. ASSUME NEW text \in SUBSET Readable, restoreDeletionLog(text)
      PROVE  Inv'
  <2>1. /\ deleted' = text /\ updateLog(text)
        /\ gone' = gone /\ back' = gone \ text
        /\ writable' = writable /\ disk' = disk /\ error' = error /\ lost' = lost
    BY <1>5 DEF restoreDeletionLog
  <2>2. text \in SUBSET Paths
    BY PathsAssumption
  <2>3. TypeOK'
    BY <2>1, <2>2, UpdateLogInv DEF TypeOK, Inv
  <2>4. GoneStaysGone'
    BY <2>1 DEF GoneStaysGone, Visible, Inv
  <2> QED BY <2>1, <2>2, <2>3, <2>4, UpdateLogInv DEF Inv
<1> QED BY <1>1, <1>2, <1>3, <1>4, <1>5

(* The steps of a write. *)
LEMMA WriterStepInv ==
    ASSUME Inv, WriterStep
    PROVE  Inv'
<1>0. PICK i \in 1 .. Len(writes) :
        Open(i) \/ Store(i) \/ Break(i) \/ Then(i) \/ Catch(i) \/ Finally(i)
  BY DEF WriterStep
<1>1. /\ pending /\ Len(writes) = 1 /\ writes # <<>> /\ i = 1
      /\ writes[1] \in Writes /\ writes \in Seq(Writes) /\ pending \in BOOLEAN
  <2>1. TypeOK /\ OneWriter
    BY DEF Inv
  <2>2. writes \in Seq(Writes) /\ pending \in BOOLEAN
    BY <2>1, Zenon DEF TypeOK
  <2>3. Len(writes) # 0 /\ writes # <<>>
    BY <1>0, <2>2, ShortSeqs
  <2>4. pending
    BY <2>1, <2>2, <2>3, Zenon DEF OneWriter
  <2>5. Len(writes) = 1 /\ writes[1] \in Writes
    BY <2>1, <2>4, TheWrite, Zenon
  <2>6. i = 1
    BY <1>0, <2>5
  <2> QED BY <2>2, <2>3, <2>4, <2>5, <2>6, Zenon
<1>2. Open(1) \/ Store(1) \/ Break(1) \/ Then(1) \/ Catch(1) \/ Finally(1)
  BY <1>0, <1>1
<1>3. Progress(writes[1])
  BY <1>1 DEF Inv, WriterInv
<1>4. ASSUME NEW stage \in Stages, Goes(1, stage)
      PROVE  /\ writes' \in Seq(Writes)
             /\ Len(writes') = 1 /\ Len(writes') <= 1 /\ writes' # <<>>
             /\ writes'[1].stage = stage
             /\ writes'[1].content = writes[1].content
  <2>1. writes' = [writes EXCEPT ![1].stage = stage]
    BY <1>4 DEF Goes
  <2>2. [writes[1] EXCEPT !.stage = stage] \in Writes
    BY <1>1 DEF Writes
  <2>3. writes' \in Seq(Writes) /\ Len(writes') = 1
    BY <1>1, <2>1, <2>2
  <2>4. writes'[1] = [writes[1] EXCEPT !.stage = stage]
    BY <1>1, <2>1
  <2>5. Len(writes') <= 1
    <3>1. 1 <= 1
      OBVIOUS
    <3> QED BY <2>3, <3>1, Zenon
  <2>6. writes' # <<>>
    <3>1. 1 # 0
      OBVIOUS
    <3> QED BY <2>3, <3>1, ShortSeqs, Zenon
  <2> QED BY <1>1, <2>3, <2>4, <2>5, <2>6 DEF Writes
<1>5. GoneStaysGone'
  BY <1>2 DEF Inv, GoneStaysGone, Visible, Open, Store, Break, Then, Catch, Finally, history
<1>6. /\ log' = log /\ deleted' = deleted /\ writable' = writable
      /\ behind' = behind /\ gone' = gone
  BY <1>2 DEF history, Open, Store, Break, Then, Catch, Finally
<1>7. CASE Open(1)
  <2>1. Goes(1, "emptied") /\ "emptied" \in Stages /\ At(1, "opening")
    BY <1>7 DEF Open, Stages
  <2>2. TypeOK'
    BY <1>4, <1>7, <2>1 DEF Open, Inv, TypeOK, history
  <2>3. pending'
    BY <1>1, <1>7 DEF Open
  <2>4. OneWriter'
    BY <1>4, <2>1, <2>3, Zenon DEF OneWriter
  <2>5. Progress(writes[1])'
    BY <1>3, <1>4, <1>6, <1>7, <2>1 DEF Progress, Open, At, history
  <2>6. WriterInv'
    BY <1>1, <2>3, <2>5 DEF WriterInv, Settled
  <2> QED BY <1>5, <1>6, <2>2, <2>4, <2>6 DEF Inv
<1>8. CASE Store(1)
  <2>1. Goes(1, "written") /\ "written" \in Stages /\ At(1, "emptied")
    BY <1>8 DEF Store, Stages
  <2>2. TypeOK'
    <3>1. writes[1].content \in SUBSET Paths
      BY <1>1 DEF Writes
    <3>2. disk' \in SUBSET Paths
      BY <1>8, <3>1 DEF Store
    <3> QED BY <1>4, <1>8, <2>1, <3>2 DEF Store, Inv, TypeOK
  <2>3. pending'
    BY <1>1, <1>8 DEF Store
  <2>4. OneWriter'
    BY <1>4, <2>1, <2>3, Zenon DEF OneWriter
  <2>5. Progress(writes[1])'
    BY <1>3, <1>4, <1>6, <1>8, <2>1 DEF Progress, Store, At
  <2>6. WriterInv'
    BY <1>1, <2>3, <2>5 DEF WriterInv, Settled
  <2> QED BY <1>5, <1>6, <2>2, <2>4, <2>6 DEF Inv
<1>9. CASE Break(1)
  <2>1. Goes(1, "failed") /\ "failed" \in Stages
    BY <1>9 DEF Break, Stages
  <2>2. TypeOK'
    BY <1>4, <1>9, <2>1 DEF Break, Inv, TypeOK
  <2>3. pending'
    BY <1>1, <1>9 DEF Break
  <2>4. OneWriter'
    BY <1>4, <2>1, <2>3, Zenon DEF OneWriter
  <2>5. Progress(writes[1])'
    BY <1>3, <1>4, <1>6, <1>9, <2>1 DEF Progress, Break
  <2>6. WriterInv'
    BY <1>1, <2>3, <2>5 DEF WriterInv, Settled
  <2> QED BY <1>5, <1>6, <2>2, <2>4, <2>6 DEF Inv
<1>10. CASE Then(1)
  <2>1. Goes(1, "settled") /\ "settled" \in Stages /\ At(1, "written")
    BY <1>10 DEF Then, Stages
  <2>2. TypeOK'
    BY <1>4, <1>10, <2>1 DEF Then, Inv, TypeOK, history
  <2>3. pending'
    BY <1>1, <1>10 DEF Then
  <2>4. OneWriter'
    BY <1>4, <2>1, <2>3, Zenon DEF OneWriter
  <2>5. Progress(writes[1])'
    BY <1>3, <1>4, <1>6, <1>10, <2>1 DEF Progress, Then, At, history
  <2>6. WriterInv'
    BY <1>1, <2>3, <2>5 DEF WriterInv, Settled
  <2> QED BY <1>5, <1>6, <2>2, <2>4, <2>6 DEF Inv
<1>11. CASE Catch(1)
  <2>1. Goes(1, "settled") /\ "settled" \in Stages /\ At(1, "failed")
    BY <1>11 DEF Catch, Stages
  <2>2. TypeOK'
    BY <1>4, <1>11, <2>1 DEF Catch, Inv, TypeOK, history
  <2>3. pending'
    BY <1>1, <1>11 DEF Catch
  <2>4. OneWriter'
    BY <1>4, <2>1, <2>3, Zenon DEF OneWriter
  <2>5. Progress(writes[1])'
    BY <1>3, <1>4, <1>6, <1>11, <2>1 DEF Progress, Catch, At, history
  <2>6. WriterInv'
    BY <1>1, <2>3, <2>5 DEF WriterInv, Settled
  <2> QED BY <1>5, <1>6, <2>2, <2>4, <2>6 DEF Inv
<1>12. CASE Finally(1)
  <2>1. writes' = <<>> /\ Len(writes') = 0 /\ writes' \in Seq(Writes)
    <3>1. writes' = [j \in 1 .. 0 |-> IF j < 1 THEN writes[j] ELSE writes[j + 1]]
      BY <1>1, <1>12 DEF Finally, Without
    <3> QED BY <3>1, ShortSeqs
  <2>2. pending' = FALSE /\ disk' = disk /\ lost' = lost
    BY <1>12 DEF Finally, history
  <2>3. TypeOK'
    BY <1>12, <2>1 DEF Finally, Inv, TypeOK, history
  <2>4. OneWriter'
    BY <2>1, <2>2 DEF OneWriter
  <2>5. writes[1].stage = "settled"
    BY <1>12 DEF Finally, At
  <2>6. WriterInv'
    BY <1>3, <1>6, <2>1, <2>2, <2>5 DEF WriterInv, Progress, Settled
  <2> QED BY <1>5, <1>6, <2>3, <2>4, <2>6 DEF Inv
<1> QED BY <1>2, <1>7, <1>8, <1>9, <1>10, <1>11, <1>12

LEMMA RemountInv ==
    ASSUME Inv, Remount
    PROVE  Inv'
<1>1. writes' = <<>> /\ Len(writes') = 0 /\ writes' \in Seq(Writes)
  BY ShortSeqs DEF Remount
<1>2. TypeOK'
  BY <1>1 DEF Remount, Inv, TypeOK
<1>3. OneWriter' /\ WriterInv'
  BY <1>1 DEF Remount, OneWriter, WriterInv
<1>4. GoneStaysGone'
  <2>1. CASE Settled
    <3>1. deleted' = deleted
      BY <2>1 DEF Remount, Inv, WriterInv
    <3> QED BY <2>1, <3>1 DEF Remount, Inv, GoneStaysGone, Visible
  <2>2. CASE ~Settled
    <3>1. /\ gone' \ back' \subseteq deleted'
          /\ gone' = gone /\ writable' = writable
      BY <2>2 DEF Remount
    <3> QED BY <3>1 DEF Inv, GoneStaysGone, Visible
  <2> QED BY <2>1, <2>2
<1> QED BY <1>2, <1>3, <1>4 DEF Inv, Remount

LEMMA InvAlways == Spec => []Inv
<1>1. Inv /\ [Next]_vars => Inv'
  <2> SUFFICES ASSUME Inv, [Next]_vars PROVE Inv'
    OBVIOUS
  <2>1. CASE Next
    BY <2>1, OperationInv, WriterStepInv, RemountInv DEF Next
  <2>2. CASE UNCHANGED vars
    BY <2>2 DEF vars, memory, history, Inv, TypeOK, OneWriter, WriterInv, Progress,
                Settled, GoneStaysGone, Visible
  <2> QED BY <2>1, <2>2
<1> QED BY <1>1, InitInv, PTL DEF Spec

(* For any files: updateLog never has two writes of the deletion log at a  *)
(* time, through its then, catch and finally (OneWriter of the runs).      *)
THEOREM WritesAreSerial == Spec => []OneWriter
BY InvAlways, PTL DEF Inv

(* For any files: where no write of the log is under way, none has failed  *)
(* since the last that succeeded, and that one began after the last        *)
(* delete, the log file holds all deletes, so that mounting again changes  *)
(* nothing (SettledIsPersistent of the runs).                              *)
THEOREM LogIsSafe == Spec => []SettledIsPersistent
<1>1. Inv => SettledIsPersistent
  BY DEF Inv, WriterInv, SettledIsPersistent
<1> QED BY <1>1, InvAlways, PTL

(* For any files: a file that unlinkSync took away stays out of sight      *)
(* until it is made again, through any number of mounts; only a restored   *)
(* log without it, or the page left before the log was in its file, can    *)
(* bring it back (GoneStaysGone of the runs).                              *)
THEOREM UnlinkedStayGone == Spec => []GoneStaysGone
BY InvAlways, PTL DEF Inv
=============================================================================
