------------------------------ MODULE Callbacks ------------------------------
(***************************************************************************)
(* The callback API, and the descriptors of the promise API below it, over *)
(* files of the asynchronous key-value file system.  A call of a function  *)
(* does its work on an open file at once; its promise is settled, and its  *)
(* callback is called, later.  Storing a file takes a transaction of the   *)
(* store, which runs them one after the other; fsync awaits it, close does *)
(* not.  Contents are told apart by the number of the last write that is   *)
(* in them, and by their length.  Every open file has a path of its own,   *)
(* is writable, and is not in synchronous mode.                            *)
(***************************************************************************)
EXTENDS Naturals, Sequences, FiniteSets

LOCAL INSTANCE Functions

CONSTANTS
    Calls,     \* calls that are under way at a time
    FirstFd,   \* the descriptor of the first file
    MaxFiles,  \* bound: files opened
    MaxVer,    \* bound: changes of files
    MaxSize,   \* bound: bytes in a file
    MaxSyncs   \* bound: transactions at a time

NoCall == "none"

ASSUME CallbackAssumption ==
    /\ FirstFd \in Nat \ {0} /\ MaxFiles \in Nat
    /\ MaxVer \in Nat /\ MaxSize \in Nat /\ MaxSyncs \in Nat
    /\ NoCall \notin Calls

VARIABLES
    files,    \* the open files, in the order they were opened in
    fdMap,    \* the file of every descriptor
    nextFd,   \* the next descriptor
    calls,    \* what became of every call
    syncs,    \* transactions that store files
    closing,  \* files close was called for
    late,     \* files changed while they were being stored or closed
    refused   \* files whose close the store has rejected

vars == <<files, fdMap, nextFd, calls, syncs, closing, late, refused>>

FileIds == 1 .. Len(files)

Contents == [ver : Nat, len : 0 .. MaxSize]

Files == [ver : Nat, size : 0 .. MaxSize, dirty : BOOLEAN,
          kept : [ver : Nat, len : 0 .. MaxSize, size : 0 .. MaxSize]]

(* What a call is waiting for: the file system to open a file, an          *)
(* operation on a path, a transaction, close; then its promise is settled, *)
(* with success or not, and handlers are to run; its callback may have     *)
(* thrown.  "answered": nobody waits for it any more, as at the start.     *)
Stages == {"opening", "path", "storing", "closing", "ok", "err", "thrown", "answered"}

Init ==
    /\ files = <<>> /\ fdMap = <<>> /\ nextFd = FirstFd
    /\ calls = [c \in Calls |-> [stage |-> "answered", fd |-> 0]]
    /\ syncs = <<>> /\ closing = {} /\ late = {} /\ refused = {}

-----------------------------------------------------------------------------
(* A function of the API is called, and its promise is as far as this. *)
MayCall(c) == calls[c].stage = "answered"

Begun(c, stage) == [calls EXCEPT ![c].stage = stage]

Settled(c, stage) == IF c = NoCall THEN calls ELSE [calls EXCEPT ![c].stage = stage]

(* fd2file throws, and the promise is rejected. *)
BadFd(c, fd) ==
    /\ MayCall(c) /\ fd \notin DOMAIN fdMap
    /\ calls' = Begun(c, "err")
    /\ UNCHANGED <<files, fdMap, nextFd, syncs, closing, late, refused>>

UnderWay(f) == f \in closing \/ \E i \in 1 .. Len(syncs) : syncs[i].file = f

(* The buffer of a file is replaced: what is to be stored stays behind,    *)
(* though its size will be that of the stats when it is stored.  (What     *)
(* truncate leaves shares its bytes with the old buffer; a version does    *)
(* not tell.)                                                              *)
Detached(f) ==
    [i \in 1 .. Len(syncs) |->
        IF syncs[i].file = f /\ syncs[i].own
        THEN [syncs[i] EXCEPT !.own = FALSE, !.data = [ver |-> files[f].ver, len |-> files[f].size]]
        ELSE syncs[i]]

(* PreloadFile.write and truncate of a file of an asynchronous file system *)
Changes(f, n) ==
    /\ SumFunction([g \in FileIds |-> files[g].ver]) < MaxVer
    /\ files' = [files EXCEPT ![f].ver = @ + 1, ![f].size = n, ![f].dirty = TRUE]
    /\ syncs' = IF n # files[f].size THEN Detached(f) ELSE syncs
    /\ late' = IF UnderWay(f) THEN late \union {f} ELSE late
    /\ UNCHANGED <<fdMap, nextFd, closing, refused>>

MayStore(f) == files[f].dirty => Len(syncs) < MaxSyncs

(* _sync is called: its transaction is begun. *)
Storing(f, c) ==
    Append(syncs, [file |-> f, call |-> c, own |-> TRUE, taken |-> FALSE,
                   data |-> [ver |-> 0, len |-> 0], size |-> 0])

-----------------------------------------------------------------------------
(* The functions of the callback API on descriptors. *)
Open(c) ==
    /\ MayCall(c) /\ calls' = Begun(c, "opening")
    /\ UNCHANGED <<files, fdMap, nextFd, syncs, closing, late, refused>>

(* The file system has opened the file, or has not. *)
NewFile(n) ==
    [ver |-> 0, size |-> n, dirty |-> FALSE, kept |-> [ver |-> 0, len |-> n, size |-> n]]

AddedFdStuck(f) ==  \* mutant of AddedFd: the counter stays
    /\ fdMap' = [d \in DOMAIN fdMap \union {nextFd} |-> IF d = nextFd THEN f ELSE fdMap[d]]
    /\ nextFd' = nextFd
AddedFdReused(f) ==  \* mutant of AddedFd: as many as there are, whatever their numbers
    LET fd == FirstFd + Cardinality(DOMAIN fdMap)
    IN  /\ fdMap' = [d \in DOMAIN fdMap \union {fd} |-> IF d = fd THEN f ELSE fdMap[d]]
        /\ nextFd' = nextFd + 1
AddedFd(f) ==
    /\ fdMap' = [d \in DOMAIN fdMap \union {nextFd} |-> IF d = nextFd THEN f ELSE fdMap[d]]
    /\ nextFd' = nextFd + 1

OpenEnds(c) ==
    /\ calls[c].stage = "opening"
    /\ \/ /\ Len(files) < MaxFiles
          /\ \E n \in 0 .. MaxSize : files' = Append(files, NewFile(n))
          /\ AddedFd(Len(files) + 1)
          /\ calls' = Settled(c, "ok")
       \/ calls' = Settled(c, "err") /\ UNCHANGED <<files, fdMap, nextFd>>
    /\ UNCHANGED <<syncs, closing, late, refused>>

Write(c, fd) ==
    \/ BadFd(c, fd)
    \/ /\ MayCall(c) /\ fd \in DOMAIN fdMap
       /\ \E n \in files[fdMap[fd]].size .. MaxSize : Changes(fdMap[fd], n)
       /\ calls' = Begun(c, "ok")

(* ftruncate passes no callback on: no call waits for its end.             *)
Ftruncate(fd) ==
    /\ fd \in DOMAIN fdMap
    /\ \E n \in 0 .. MaxSize : Changes(fdMap[fd], n)
    /\ UNCHANGED calls

(* read and fstat succeed, fchmod, fchown and futimes are not supported;   *)
(* none changes anything.                                                  *)
ReadOrSet(c, fd) ==
    \/ BadFd(c, fd)
    \/ /\ MayCall(c) /\ fd \in DOMAIN fdMap
       /\ \E stage \in {"ok", "err"} : calls' = Begun(c, stage)
       /\ UNCHANGED <<files, fdMap, nextFd, syncs, closing, late, refused>>

(* fsync, and fdatasync, which does the same. *)
FsyncClean(c, fd) ==  \* mutant of Fsync: the file is not dirty from here on
    \/ BadFd(c, fd)
    \/ /\ MayCall(c) /\ fd \in DOMAIN fdMap /\ MayStore(fdMap[fd])
       /\ IF files[fdMap[fd]].dirty
          THEN calls' = Begun(c, "storing") /\ syncs' = Storing(fdMap[fd], c)
          ELSE calls' = Begun(c, "ok") /\ UNCHANGED syncs
       /\ files' = [files EXCEPT ![fdMap[fd]].dirty = FALSE]
       /\ UNCHANGED <<fdMap, nextFd, closing, late, refused>>
Fsync(c, fd) ==
    \/ BadFd(c, fd)
    \/ /\ MayCall(c) /\ fd \in DOMAIN fdMap /\ MayStore(fdMap[fd])
       /\ IF files[fdMap[fd]].dirty
          THEN calls' = Begun(c, "storing") /\ syncs' = Storing(fdMap[fd], c)
          ELSE calls' = Begun(c, "ok") /\ UNCHANGED syncs
       /\ UNCHANGED <<files, fdMap, nextFd, closing, late, refused>>

(* close calls sync and does not await it; the descriptor goes a step      *)
(* later.                                                                  *)
Close(c, fd) ==
    \/ BadFd(c, fd)
    \/ /\ MayCall(c) /\ fd \in DOMAIN fdMap /\ MayStore(fdMap[fd])
       /\ calls' = [calls EXCEPT ![c] = [stage |-> "closing", fd |-> fd]]
       /\ syncs' = IF files[fdMap[fd]].dirty THEN Storing(fdMap[fd], NoCall) ELSE syncs
       /\ closing' = closing \union {fdMap[fd]}
       /\ UNCHANGED <<files, fdMap, nextFd, late, refused>>

CloseEnds(c) ==
    /\ calls[c].stage = "closing"
    /\ fdMap' = [d \in DOMAIN fdMap \ {calls[c].fd} |-> fdMap[d]]
    /\ calls' = [calls EXCEPT ![c] = [stage |-> "ok", fd |-> 0]]
    /\ UNCHANGED <<files, nextFd, syncs, closing, late, refused>>

(* The functions on paths: what they do is left to the modules of the file *)
(* systems; their promises are settled by and by.                          *)
OnPath(c) ==
    /\ MayCall(c) /\ calls' = Begun(c, "path")
    /\ UNCHANGED <<files, fdMap, nextFd, syncs, closing, late, refused>>

PathEnds(c) ==
    /\ calls[c].stage = "path"
    /\ \E stage \in {"ok", "err"} : calls' = Settled(c, stage)
    /\ UNCHANGED <<files, fdMap, nextFd, syncs, closing, late, refused>>

-----------------------------------------------------------------------------
(* The store.  _sync looks the path up, and then takes the size from the   *)
(* stats as they are, and the bytes of the buffer it was called with.      *)
TakeData ==
    LET s == Head(syncs)
    IN  /\ syncs # <<>> /\ ~s.taken
        /\ syncs' = [syncs EXCEPT ![1].taken = TRUE, ![1].own = FALSE,
                        ![1].size = files[s.file].size,
                        ![1].data = IF s.own THEN [ver |-> files[s.file].ver,
                                                   len |-> files[s.file].size] ELSE @]
        /\ UNCHANGED <<files, fdMap, nextFd, calls, closing, late, refused>>

(* The transaction has ended: the file is reset to clean. *)
Stored ==
    LET s == Head(syncs)
    IN  /\ syncs # <<>> /\ s.taken
        /\ files' = [files EXCEPT ![s.file].dirty = FALSE,
                        ![s.file].kept = [ver |-> s.data.ver, len |-> s.data.len,
                                          size |-> s.size]]
        /\ calls' = Settled(s.call, "ok")
        /\ syncs' = Tail(syncs)
        /\ UNCHANGED <<fdMap, nextFd, closing, late, refused>>

(* A request is rejected, and the transaction aborted: the call fails; a   *)
(* close has nobody to tell.                                               *)
RejectedUnsettled ==  \* mutant of Rejected
    LET s == Head(syncs)
    IN  /\ syncs # <<>>
        /\ refused' = IF s.call = NoCall THEN refused \union {s.file} ELSE refused
        /\ syncs' = <<[s EXCEPT !.taken = FALSE]>> \o Tail(syncs)
        /\ UNCHANGED <<files, fdMap, nextFd, calls, closing, late>>
Rejected ==
    LET s == Head(syncs)
    IN  /\ syncs # <<>>
        /\ calls' = Settled(s.call, "err")
        /\ refused' = IF s.call = NoCall THEN refused \union {s.file} ELSE refused
        /\ syncs' = Tail(syncs)
        /\ UNCHANGED <<files, fdMap, nextFd, closing, late>>

(* The handlers of a settled promise: then(() => cb()).catch(cb).  A       *)
(* callback that throws when it is called for a success is called again.   *)
Handler(c) ==
    /\ \/ calls[c].stage \in {"ok", "err", "thrown"} /\ calls' = Settled(c, "answered")
       \/ calls[c].stage = "ok" /\ calls' = Settled(c, "thrown")
    /\ UNCHANGED <<files, fdMap, nextFd, syncs, closing, late, refused>>

-----------------------------------------------------------------------------
Fds == FirstFd .. nextFd - 1

Call(c) ==
    \/ Open(c) \/ OnPath(c)
    \/ \E fd \in Fds : Write(c, fd) \/ ReadOrSet(c, fd) \/ Fsync(c, fd) \/ Close(c, fd)

Store == TakeData \/ Stored \/ Rejected

Next ==
    \/ \E c \in Calls :
          Call(c) \/ OpenEnds(c) \/ PathEnds(c) \/ CloseEnds(c) \/ Handler(c)
    \/ \E fd \in Fds : Ftruncate(fd)
    \/ Store

Spec == Init /\ [][Next]_vars

(* The store and the file systems answer, and the handlers of what is      *)
(* settled run.  Nobody has to call anything.                              *)
Fairness ==
    /\ WF_vars(Store)
    /\ \A c \in Calls : WF_vars(OpenEnds(c) \/ PathEnds(c) \/ CloseEnds(c) \/ Handler(c))

FairSpec == Spec /\ Fairness

-----------------------------------------------------------------------------
(* The types of the variables: every descriptor in the map was given out,  *)
(* and the calls that wait for a transaction are those the transactions    *)
(* were begun for.                                                         *)
CallbacksTypeOK ==
    /\ files \in Seq(Files)
    /\ DOMAIN fdMap \subseteq Fds /\ \A fd \in DOMAIN fdMap : fdMap[fd] \in FileIds
    /\ \A c \in Calls : calls[c].stage \in Stages /\ calls[c].fd \in Fds \union {0}
    /\ \A i \in 1 .. Len(syncs) : syncs[i].file \in FileIds /\ syncs[i].data \in Contents
    /\ {syncs[i].call : i \in 1 .. Len(syncs)} \ {NoCall}
          = {c \in Calls : calls[c].stage = "storing"}
    /\ closing \union late \union refused \subseteq FileIds

(* A file that nobody closed can be reached: closing another one, or the   *)
(* same one twice with other calls in between, takes no descriptor from    *)
(* it, and none is given out again while it is in use.                     *)
FilesReachable ==
    \A f \in FileIds \ closing :
        Cardinality({fd \in DOMAIN fdMap : fdMap[fd] = f}) = 1

(* What was written to a file gets to the store: it is there, with its     *)
(* size, or it will be when a transaction under way has ended, or the file *)
(* is still open and dirty for the next sync.  The exceptions are the ones *)
(* the store rejects after close, and changes made while the file was      *)
(* being stored or closed: those may be marked clean and are lost, or      *)
(* leave the size of one buffer with the bytes of another.                 *)
WritesKept ==
    \A f \in FileIds \ (late \union refused) :
        /\ files[f].kept.len = files[f].kept.size
        /\ \/ files[f].kept = [ver |-> files[f].ver, len |-> files[f].size, size |-> files[f].size]
           \/ \E i \in 1 .. Len(syncs) : syncs[i].file = f
           \/ files[f].dirty /\ f \notin closing

(* Every call that passes its callback on answers it in the end, whatever  *)
(* other calls do to its file in between, and also where the store or the  *)
(* file system fails.                                                      *)
CallsAnswered ==
    \A c \in Calls : calls[c].stage # "answered" ~> calls[c].stage = "answered"
=============================================================================
