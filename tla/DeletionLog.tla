----------------------------- MODULE DeletionLog ----------------------------
(***************************************************************************)
(* How UnlockedOverlayFS deletes what is on the file system it only reads: *)
(* deleted paths are kept in memory and in a log, and the log is written   *)
(* to a file of the writable file system, asynchronously and as a whole.   *)
(* Two flags are to see to it that one write runs at a time and that the   *)
(* last one holds everything.  The operations are the synchronous ones,    *)
(* which callers may make between any two steps of such a write.           *)
(*                                                                         *)
(* The log is the set of its paths (its text only grows, or is replaced),  *)
(* the file of the log is what would be parsed from it, and a path stands  *)
(* for a file whose directory exists on the writable side.                 *)
(***************************************************************************)
EXTENDS Naturals, Sequences

CONSTANTS
    Paths,      \* files
    Readable    \* the ones the readable file system has

ASSUME PathsAssumption == Readable \subseteq Paths

VARIABLES
    writable,   \* the files of the writable file system
    disk,       \* what its deletion log file holds
    deleted,    \* _deletedFiles
    log,        \* _deleteLog
    pending,    \* _deleteLogUpdatePending
    needed,     \* _deleteLogUpdateNeeded
    error,      \* _deleteLogError # null
    writes,     \* the writes of the log that have not come to their finally
    lost,       \* history: a write failed and none succeeded since
    behind,     \* history: the log has changed since the last write began
    gone,       \* history: files that were unlinked and not made again
    back        \* history: the ones of these that came back otherwise: by a
                \*   restored log without them, or with the page left before
                \*   the log was in its file

memory  == <<deleted, log, pending, needed, error, writes>>
history == <<lost, behind, gone, back>>
vars    == <<writable, disk, memory, history>>

(* A write of the log: writeFile opens the file with 'w', which empties    *)
(* it, then writes, then closes; then, catch and finally follow.           *)
Stages == {"opening", "emptied", "written", "failed", "settled"}

Write(content, stage) == [content |-> content, stage |-> stage]

Writes == [content : SUBSET Paths, stage : Stages]

(* The type of the variables. *)
TypeOK ==
    /\ writable \in SUBSET Paths /\ disk \in SUBSET Paths
    /\ deleted \in SUBSET Paths /\ log \in SUBSET Paths
    /\ pending \in BOOLEAN /\ needed \in BOOLEAN /\ error \in BOOLEAN
    /\ writes \in Seq(Writes)
    /\ lost \in BOOLEAN /\ behind \in BOOLEAN
    /\ gone \in SUBSET Paths /\ back \in SUBSET gone

(* The file system is mounted: _initialize has read the log. *)
Init ==
    /\ writable \in SUBSET Paths
    /\ disk \in SUBSET Readable
    /\ deleted = disk /\ log = disk
    /\ pending = FALSE /\ needed = FALSE /\ error = FALSE
    /\ writes = <<>>
    /\ lost = FALSE /\ behind = FALSE
    /\ gone = {} /\ back = {}

-----------------------------------------------------------------------------
(* existsSync *)
Visible(p) == p \in writable \/ (p \in Readable /\ p \notin deleted)

(* Mutant of updateLog: only what is new is written. *)
updateLogAddition(newLog) ==
    /\ log' = newLog
    /\ behind' = pending
    /\ IF pending
       THEN needed' = TRUE /\ UNCHANGED <<pending, writes>>
       ELSE /\ pending' = TRUE
            /\ writes' = Append(writes, Write(newLog \ log, "opening"))
            /\ UNCHANGED needed

(* updateLog, with the log as it is after the addition. *)
updateLog(newLog) ==
    /\ log' = newLog
    /\ behind' = pending
    /\ IF pending
       THEN needed' = TRUE /\ UNCHANGED <<pending, writes>>
       ELSE /\ pending' = TRUE
            /\ writes' = Append(writes, Write(newLog, "opening"))
            /\ UNCHANGED needed

(* checkInitialized, at the head of every operation: the error of a write  *)
(* is thrown once, at whoever comes next.                                  *)
ThrowStored ==
    /\ error
    /\ error' = FALSE
    /\ UNCHANGED <<writable, disk, deleted, log, pending, needed, writes, history>>

(* Mutant of unlinkSync: a file that was on the writable side is not       *)
(* looked for again.                                                       *)
unlinkSyncOneSide(p) ==
    /\ ~error /\ Visible(p)
    /\ writable' = writable \ {p}
    /\ IF p \notin writable
       THEN deleted' = deleted \union {p} /\ updateLog(log \union {p})
       ELSE UNCHANGED <<deleted, log, pending, needed, writes, behind>>
    /\ gone' = gone \union {p} /\ back' = back \ {p}
    /\ UNCHANGED <<disk, error, lost>>

(* unlinkSync: what is still there once it is gone from the writable side  *)
(* goes to the log (deletePath).                                           *)
unlinkSync(p) ==
    /\ ~error /\ Visible(p)
    /\ writable' = writable \ {p}
    /\ IF p \in Readable /\ p \notin deleted
       THEN deleted' = deleted \union {p} /\ updateLog(log \union {p})
       ELSE UNCHANGED <<deleted, log, pending, needed, writes, behind>>
    /\ gone' = gone \union {p} /\ back' = back \ {p}
    /\ UNCHANGED <<disk, error, lost>>

(* openSync to write, or to append and close: the file is made on, or      *)
(* copied to, the writable side.  The path stays deleted.                  *)
Create(p) ==
    /\ ~error
    /\ writable' = writable \union {p}
    /\ gone' = gone \ {p} /\ back' = back \ {p}
    /\ UNCHANGED <<disk, memory, lost, behind>>

(* restoreDeletionLog(text) with _reparseDeletionLog *)
restoreDeletionLog(text) ==
    /\ deleted' = text
    /\ updateLog(text)
    /\ back' = gone \ text
    /\ UNCHANGED <<writable, disk, error, lost, gone>>

-----------------------------------------------------------------------------
(* The steps of write i. *)
At(i, stage) == writes[i].stage = stage

Goes(i, stage) == writes' = [writes EXCEPT ![i].stage = stage]

Open(i) ==
    /\ At(i, "opening") /\ Goes(i, "emptied")
    /\ disk' = {}
    /\ UNCHANGED <<writable, deleted, log, pending, needed, error, history>>

Store(i) ==
    /\ At(i, "emptied") /\ Goes(i, "written")
    /\ disk' = writes[i].content
    /\ lost' = FALSE
    /\ UNCHANGED <<writable, deleted, log, pending, needed, error, behind, gone, back>>

Break(i) ==
    /\ At(i, "opening") \/ At(i, "emptied")
    /\ Goes(i, "failed")
    /\ lost' = TRUE
    /\ UNCHANGED <<writable, disk, deleted, log, pending, needed, error, behind, gone, back>>

(* Mutant of Then: the write is over, so another may start at once.        *)
ThenStartsNext(i) ==
    /\ At(i, "written")
    /\ IF needed
       THEN /\ needed' = FALSE
            /\ writes' = Append([writes EXCEPT ![i].stage = "settled"], Write(log, "opening"))
       ELSE Goes(i, "settled") /\ UNCHANGED needed
    /\ UNCHANGED <<writable, disk, deleted, log, pending, error, history>>

(* The handler of then: it clears the flag and calls updateLog(''), which  *)
(* finds that an update is pending and sets the flag again.                *)
Then(i) ==
    /\ At(i, "written") /\ Goes(i, "settled")
    /\ UNCHANGED <<writable, disk, deleted, log, pending, error, needed, history>>

Catch(i) ==
    /\ At(i, "failed") /\ Goes(i, "settled")
    /\ error' = TRUE
    /\ UNCHANGED <<writable, disk, deleted, log, pending, needed, history>>

Without(i) ==
    [j \in 1 .. Len(writes) - 1 |-> IF j < i THEN writes[j] ELSE writes[j + 1]]

(* Mutant of Finally: the flag is only reset after a write that succeeded. *)
FinallyOnSuccess(i) ==
    /\ At(i, "settled")
    /\ writes' = Without(i)
    /\ pending' = (pending /\ error)
    /\ UNCHANGED <<writable, disk, deleted, log, needed, error, history>>

Finally(i) ==
    /\ At(i, "settled")
    /\ writes' = Without(i)
    /\ pending' = FALSE
    /\ UNCHANGED <<writable, disk, deleted, log, needed, error, history>>

(* No write is under way, none has failed since the last that succeeded,   *)
(* and that one began after the last change of the log.                    *)
Settled == ~pending /\ ~lost /\ ~behind

(* The page is left, at any time, and the file systems mounted again: what *)
(* was in memory is lost, and _initialize reads the log.                   *)
Remount ==
    /\ deleted' = disk /\ log' = disk
    /\ pending' = FALSE /\ needed' = FALSE /\ error' = FALSE
    /\ writes' = <<>>
    /\ lost' = FALSE /\ behind' = FALSE
    /\ back' = IF Settled THEN back ELSE gone \ disk
    /\ UNCHANGED <<writable, disk, gone>>

WriterStep == \E i \in 1 .. Len(writes) :
    Open(i) \/ Store(i) \/ Break(i) \/ Then(i) \/ Catch(i) \/ Finally(i)

Next ==
    \/ ThrowStored
    \/ \E p \in Paths : unlinkSync(p) \/ Create(p)
    \/ \E text \in SUBSET Readable : restoreDeletionLog(text)
    \/ WriterStep
    \/ Remount

Spec == Init /\ [][Next]_vars

(* A request to the writable file system is answered, one way or the       *)
(* other, and the handlers of a settled promise run.                       *)
FairSpec == Spec /\ WF_vars(WriterStep)

-----------------------------------------------------------------------------
(* At most one write of the log runs at a time, from the call of writeFile *)
(* to its finally: two would overwrite one file in any order.              *)
OneWriter == Len(writes) <= 1 /\ (pending <=> writes # <<>>)

(* Once the log is settled its file holds it, however many writes came     *)
(* before, and it holds what is deleted: mounting again changes nothing.   *)
SettledIsPersistent == Settled => disk = log /\ log = deleted

(* A file that was unlinked, on whichever side it was, is out of sight     *)
(* until it is made again, also after any number of mounts: what can bring *)
(* it back is a restored log that lacks it, or leaving the page before the *)
(* log was in its file, and nothing else.                                  *)
GoneStaysGone == \A p \in gone \ back : ~Visible(p)

(* A scheduled update of the log comes to an end, if it fails as well.     *)
UpdateEnds == pending ~> ~pending

(* Once no update is pending and none has failed, what was deleted is      *)
(* still deleted after mounting again.                                     *)
PersistedWhenDone ==
    ~pending /\ ~error /\ ~lost => (gone \ back) \intersect Readable \subseteq disk
=============================================================================
