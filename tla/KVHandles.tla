------------------------------ MODULE KVHandles ------------------------------
(***************************************************************************)
(* Files held open (PreloadFile, SyncKeyValueFile) and the descriptors of  *)
(* the synchronous API, over the file system SyncKVFS.  An open file keeps *)
(* its path, a copy of its stats and a buffer.  The in-memory store keeps  *)
(* and hands out the very arrays it was given, so a buffer may be the      *)
(* array that is in the store under some keys and that other open files    *)
(* hold: such holders are the sets in shared.  All of them see the array   *)
(* from its start (truncating makes a view of its first bytes).            *)
(***************************************************************************)
EXTENDS SyncKVFS

CONSTANTS
    FirstFd,  \* the descriptor of the first file
    MaxFd,    \* bound: descriptors given out
    MaxPos    \* bound: positions

ASSUME FdAssumption ==
    FirstFd \in Nat /\ MaxFd \in Nat /\ FirstFd <= MaxFd + 1 /\ MaxPos \in Nat

VARIABLES
    fdMap,   \* the open files by their descriptor
    nextFd,  \* the next descriptor
    shared   \* holders (keys and descriptors) of one array, where they are several

hvars == <<store, ret, fdMap, nextFd, shared>>

Handles == [path : Paths, flag : Flags, pos : Nat, size : Nat, mode : Perms,
            uid : Uids, buf : Seq(Bytes), dirty : BOOLEAN]

Fds == FirstFd .. MaxFd

HandleErrors == Errors \union {"EBADF", "EINVAL", "ENOTSUP"}

(* The types of the variables: every descriptor that is open was given     *)
(* out, and an array with several holders has one group of them.           *)
HandlesTypeOK ==
    /\ store \in Stores /\ ret \in HandleErrors \union {"ok"}
    /\ nextFd \in FirstFd .. MaxFd + 1
    /\ DOMAIN fdMap \subseteq FirstFd .. nextFd - 1
    /\ \A fd \in DOMAIN fdMap : fdMap[fd] \in Handles
    /\ \A g \in shared :
          /\ g \subseteq Used(store) \union DOMAIN fdMap
          /\ \A h \in shared : g \intersect h # {} => g = h

HInit == Init /\ fdMap = <<>> /\ nextFd = FirstFd /\ shared = {}

-----------------------------------------------------------------------------
(* An operation goes from a world (store, open files, shared arrays) to a  *)
(* world and an answer.                                                    *)
World == [st |-> store, fds |-> fdMap, sh |-> shared]

Answer(w, r) == [w |-> w, ret |-> r]

(* A world in which file fd is in another state, and maybe shares its      *)
(* array with others than before.                                          *)
Changed(w, fd, h, sh) == [st |-> w.st, fds |-> [w.fds EXCEPT ![fd] = h], sh |-> sh]

Leave(sh, c) == {g \in {h \ {c} : h \in sh} : Cardinality(g) > 1}

(* Holder c takes the array of holder d. *)
Join(sh, c, d) ==
    LET rest == Leave(sh, c)
        g    == (UNION {h \in rest : d \in h}) \union {c, d}
    IN  {h \in rest : d \notin h} \union {g}

Holders(sh, c) == (UNION {h \in sh : c \in h}) \union {c}

(* What is deleted from the store holds nothing any more. *)
Purge(sh, st) == {g \in {h \ (Ids \ Used(st)) : h \in sh} : Cardinality(g) > 1}

(* Bytes from a position on, inside the array.                             *)
Poke(b, at, data) ==
    [i \in 1 .. Len(b) |-> IF i > at /\ i <= at + Len(data) THEN data[i - at] ELSE b[i]]

PokeCell(c, at, data) == IF c.kind = "bytes" THEN Data(Poke(c.val, at, data)) ELSE c

(* All holders of the array of descriptor fd see what is written in it.    *)
PokeAll(w, fd, at, data) ==
    LET hs == Holders(w.sh, fd)
    IN  [st  |-> [k \in Ids |-> IF k \in hs THEN PokeCell(w.st[k], at, data) ELSE w.st[k]],
         fds |-> [d \in DOMAIN w.fds |->
                    IF d \in hs THEN [w.fds[d] EXCEPT !.buf = Poke(@, at, data)]
                    ELSE w.fds[d]],
         sh  |-> w.sh]

-----------------------------------------------------------------------------
isSynchronous(flag) == flag \in {"rs", "rs+"}

getPos(h) == IF isAppendable(h.flag) THEN h.size ELSE h.pos

(* An inode with the size, mode, type and owner of a file's stats.         *)
Restat(i, h) == [i EXCEPT !.size = h.size, !.mode = h.mode, !.type = "file", !.uid = h.uid]

(* _syncSync: the path is looked up again, whatever it leads to now gets   *)
(* the buffer, the very array, and what the stats say.                     *)
StoreBufferMissing(w, fd) ==  \* mutant of StoreBuffer: names are not looked up
    LET h == w.fds[fd]
        n == FindId(w.st, h.path)
        m == IF n \in Ids THEN n ELSE FindId(w.st, dirname(h.path))
    IN  IF INodeError(w.st, m) # "ok" THEN Answer(w, INodeError(w.st, m))
        ELSE Answer([w EXCEPT
                !.st = [@ EXCEPT
                    ![w.st[m].id] = Data(h.buf),
                    ![m].size = h.size, ![m].type = "file"],
                !.fds[fd].dirty = FALSE], "ok")
StoreBufferNewId(w, fd) ==  \* mutant of StoreBuffer: the old data stays behind
    LET h == w.fds[fd]
        n == FindId(w.st, h.path)
        i == CHOOSE k \in Ids : randomUUID(Used(w.st)) = {k} \/ randomUUID(Used(w.st)) = {}
    IN  IF INodeError(w.st, n) # "ok" THEN Answer(w, INodeError(w.st, n))
        ELSE Answer([w EXCEPT
                !.st = [@ EXCEPT
                    ![i] = Data(h.buf), ![n].id = i,
                    ![n].size = h.size, ![n].mode = h.mode, ![n].uid = h.uid],
                !.fds[fd].dirty = FALSE], "ok")
StoreBuffer(w, fd) ==
    LET h == w.fds[fd]
        n == FindId(w.st, h.path)
    IN  IF INodeError(w.st, n) # "ok" THEN Answer(w, INodeError(w.st, n))
        ELSE Answer([st  |-> [w.st EXCEPT ![w.st[n].id] = Data(h.buf), ![n] = Restat(@, h)],
                     fds |-> [w.fds EXCEPT ![fd] = [h EXCEPT !.dirty = FALSE]],
                     sh  |-> Join(w.sh, w.st[n].id, fd)], "ok")

(* SyncKeyValueFile.syncSync *)
syncSync(w, fd) == IF w.fds[fd].dirty THEN StoreBuffer(w, fd) ELSE Answer(w, "ok")

MaySync(w, fd) ==
    IF isSynchronous(w.fds[fd].flag) THEN syncSync(w, fd) ELSE Answer(w, "ok")

(* The buffer is written in place, or replaced by a larger one. *)
Written(w, fd, data, at) ==
    LET h    == w.fds[fd]
        end  == at + Len(data)
        size == IF end > h.size THEN end ELSE h.size
    IN  IF end > h.size /\ end > Len(h.buf)
        THEN Changed(w, fd, [h EXCEPT !.size = size, !.buf = Overlay(@, at, data)],
                     Leave(w.sh, fd))
        ELSE LET v == PokeAll(w, fd, at, data)
             IN  Changed(v, fd, [v.fds[fd] EXCEPT !.size = size], v.sh)

Dirtied(w, fd) == Changed(w, fd, [w.fds[fd] EXCEPT !.dirty = TRUE], w.sh)

(* PreloadFile.writeSync marks the file dirty before it looks at its flag, *)
(* and moves the position by the length of the whole buffer.               *)
handleWriteShort(w0, fd, data, at) ==  \* mutant of handleWrite: the size is not kept
    LET w == Dirtied(w0, fd)
        r == [Written(w, fd, data, at) EXCEPT !.fds[fd].size = w0.fds[fd].size]
    IN  IF ~isWriteable(w.fds[fd].flag) THEN Answer(w, "EPERM") ELSE Answer(r, "ok")
handleWrite(w0, fd, data, at) ==
    LET w == Dirtied(w0, fd)
        r == Written(w, fd, data, at)
    IN  IF ~isWriteable(w.fds[fd].flag) THEN Answer(w, "EPERM")
        ELSE IF at + Len(data) > Len(r.fds[fd].buf) THEN Answer(r, "Error")
        ELSE IF isSynchronous(w.fds[fd].flag) THEN syncSync(r, fd)
        ELSE Answer(Changed(r, fd,
                [r.fds[fd] EXCEPT !.pos = at + Len(r.fds[fd].buf)], r.sh), "ok")

(* PreloadFile.truncateSync: longer with zeros, or a view of the first     *)
(* bytes of the array.                                                     *)
handleTruncate(w0, fd, len) ==
    LET w == Dirtied(w0, fd)
        h == w.fds[fd]
        zeros == [i \in 1 .. len - Len(h.buf) |-> 0]
        grown == handleWrite(w, fd, zeros, Len(h.buf))
    IN  IF ~isWriteable(h.flag) THEN Answer(w, "EPERM")
        ELSE IF len > Len(h.buf)
        THEN IF grown.ret # "ok" THEN grown ELSE MaySync(grown.w, fd)
        ELSE MaySync(Changed(w, fd,
                [h EXCEPT !.size = len, !.buf = SubSeq(@, 1, len)], w.sh), fd)

(* Uint8Array.slice(0, to). *)
FirstBytes(b, to) ==
    LET n == IF to >= 0 THEN to ELSE Len(b) + to
    IN  SubSeq(b, 1, IF n < 0 THEN 0 ELSE IF n > Len(b) THEN Len(b) ELSE n)

(* PreloadFile.readSync into the start of a buffer of len bytes.  The      *)
(* position in the file and the offset in the buffer are mixed up: the     *)
(* first bytes of the file go to where the position says.                  *)
handleRead(w, fd, len, at) ==
    LET h == w.fds[fd]
        n == IF at + len > h.size THEN h.size - at ELSE len
    IN  IF ~isReadable(h.flag) THEN Answer(w, "EPERM")
        ELSE IF at + Len(FirstBytes(h.buf, n)) > len THEN Answer(w, "Error")
        ELSE Answer(Changed(w, fd, [h EXCEPT !.pos = at + n], w.sh), "ok")

(* chmodSync, chownSync and utimesSync of an open file: the metadata of    *)
(* this file system do not say that it supports properties.                *)
chmodSync(w, fd, mode) == Answer(w, "ENOTSUP")

chownSync(w, fd, uid) == Answer(w, "ENOTSUP")

(* closeSync of the API: a file that cannot be stored stays open. *)
closeUnsaved(w, fd) ==  \* mutant of close
    Answer([w EXCEPT !.fds = [d \in DOMAIN @ \ {fd} |-> @[d]],
                     !.sh = Leave(@, fd)], syncSync(w, fd).ret)
close(w, fd) ==
    LET r == syncSync(w, fd)
    IN  IF r.ret # "ok" THEN r
        ELSE Answer([st  |-> r.w.st,
                     fds |-> [d \in DOMAIN r.w.fds \ {fd} |-> r.w.fds[d]],
                     sh  |-> Leave(r.w.sh, fd)], "ok")

-----------------------------------------------------------------------------
Take(r) ==
    /\ WithinBounds(r.w.st)
    /\ \A fd \in DOMAIN r.w.fds :
          Len(r.w.fds[fd].buf) <= MaxLen /\ r.w.fds[fd].pos <= MaxPos
    /\ store' = r.w.st /\ fdMap' = r.w.fds /\ shared' = r.w.sh /\ ret' = r.ret
    /\ UNCHANGED nextFd

(* An operation of the file system while files are open. *)
FsStep(r) ==
    /\ Apply(r)
    /\ shared' = Purge(shared, r.st)
    /\ UNCHANGED <<fdMap, nextFd>>

HMkdir(p, mode, cred) ==
    \E new \in NewIds(store) : FsStep(mkdirSync(store, p, mode, cred, new))

HUnlink(p, cred) == FsStep(unlinkSync(store, p, cred))

HRmdir(p, cred) == FsStep(rmdirSync(store, p, cred))

HRename(p, q, cred) == q # <<>> /\ FsStep(renameSync(store, p, q, cred))

(* openSync of the API: the file's buffer is the array in the store.       *)
Opened(r, p, flag) ==
    LET n == FindId(r.st, p)
        i == r.st[n]
    IN  [st |-> r.st,
         fds |-> [d \in DOMAIN fdMap \union {nextFd} |->
            IF d # nextFd THEN fdMap[d]
            ELSE [path |-> p, flag |-> flag, pos |-> 0, size |-> i.size, mode |-> i.mode,
                  uid |-> i.uid, buf |-> Text(r.st[i.id]), dirty |-> FALSE]],
         sh |-> Join(Purge(shared, r.st), nextFd, i.id)]

Open(p, flag, mode, cred) ==
    /\ nextFd <= MaxFd
    /\ ~IsDirPath(p)
    /\ \E new \in NewIds(store) :
          LET r == openSync(store, p, flag, mode, cred, new)
              w == Opened(r, p, flag)
          IN  IF r.ret # "ok" THEN FsStep(r)
              ELSE /\ Apply(r)
                   /\ fdMap' = w.fds /\ shared' = w.sh
                   /\ nextFd' = nextFd + 1

(* Callers do not store an open file where a directory is by now.          *)
OntoFile(fd) == fdMap[fd].dirty => ~IsDirPath(fdMap[fd].path)

IsOpen(fd) == fd \in DOMAIN fdMap

(* fd2file throws for a descriptor that is not open.                       *)
BadFd(fd) == ~IsOpen(fd) /\ ret' = "EBADF" /\ UNCHANGED <<store, fdMap, nextFd, shared>>

Write(fd, data, position) ==
    /\ IsOpen(fd)
    /\ isSynchronous(fdMap[fd].flag) => ~IsDirPath(fdMap[fd].path)
    /\ Take(handleWrite(World, fd, data,
            IF position = NoPosition THEN getPos(fdMap[fd]) ELSE position))

(* ftruncateSync *)
FtruncateUnchecked(fd, len) ==  \* mutant of Ftruncate: lengths below zero pass
    /\ IsOpen(fd)
    /\ isSynchronous(fdMap[fd].flag) => ~IsDirPath(fdMap[fd].path)
    /\ Take(handleTruncate(World, fd, len))
Ftruncate(fd, len) ==
    /\ IsOpen(fd)
    /\ isSynchronous(fdMap[fd].flag) => ~IsDirPath(fdMap[fd].path)
    /\ Take(IF len < 0 THEN Answer(World, "EINVAL") ELSE handleTruncate(World, fd, len))

Read(fd, len, position) ==
    /\ IsOpen(fd)
    /\ Take(handleRead(World, fd, len,
            IF position = NoPosition THEN getPos(fdMap[fd]) ELSE position))

(* fsyncSync and fdatasyncSync *)
Fsync(fd) == IsOpen(fd) /\ OntoFile(fd) /\ Take(syncSync(World, fd))

Fchmod(fd, mode) == IsOpen(fd) /\ Take(chmodSync(World, fd, mode))

Fchown(fd, uid) == IsOpen(fd) /\ Take(chownSync(World, fd, uid))

Close(fd) == IsOpen(fd) /\ OntoFile(fd) /\ Take(close(World, fd))

FsNext ==
    \E p \in UsedPaths, cred \in Users :
        \/ \E mode \in Modes :
              \/ HMkdir(p, mode, cred)
              \/ \E flag \in WriteFlags : Open(p, flag, mode, cred)
        \/ HUnlink(p, cred)
        \/ HRmdir(p, cred)
        \/ \E q \in UsedPaths : HRename(p, q, cred)

FdNext ==
    \E fd \in Fds :
        \/ \E at \in {NoPosition} \union 0 .. MaxLen - 1 :
              \/ \E data \in Contents : Write(fd, data, at)
              \/ \E len \in 1 .. MaxLen : Read(fd, len, at)
        \/ \E len \in -1 .. MaxLen : Ftruncate(fd, len)
        \/ \E mode \in Modes : Fchmod(fd, mode)
        \/ \E uid \in Uids : Fchown(fd, uid)
        \/ Fsync(fd)
        \/ Close(fd)
        \/ BadFd(fd)

HSpec == HInit /\ [][FsNext \/ FdNext]_hvars

-----------------------------------------------------------------------------
(* The node graph is sound, whatever becomes of the paths of open files.   *)
GraphSound == NoDangling /\ NoLeak

(* The size in an inode is the length of the data, and the size an open    *)
(* file has in its stats is that of its buffer, whatever file's stats a    *)
(* stale descriptor writes into which inode: otherwise PreloadFile refuses *)
(* to open the file.                                                       *)
SizesExact == SizeExact /\ \A fd \in DOMAIN fdMap : fdMap[fd].size = Len(fdMap[fd].buf)

(* The kind of what a path leads to. *)
KindAt(p) ==
    LET n == FindId(store, p) IN IF n \in InodeIds(store) THEN store[n].type ELSE "none"

(* What is done with open files creates, removes and moves nothing: a file *)
(* that was unlinked or renamed does not come back when it is stored or    *)
(* closed.                                                                 *)
NamesSurvive ==
    [][store' # store /\ fdMap' # fdMap /\ nextFd' = nextFd
          => \A p \in TreePaths : KindAt(p)' = KindAt(p)]_hvars

(* Nothing written is forgotten: when an open file stops being dirty, or   *)
(* goes, its path leads to a file with its bytes.                          *)
SavedWhenClean ==
    [][fdMap' # fdMap => \A fd \in DOMAIN fdMap :
          LET open == fd \in DOMAIN fdMap'
              h    == IF open THEN fdMap'[fd] ELSE fdMap[fd]
              n    == FindId(store', h.path)
          IN  fdMap[fd].dirty /\ (open => ~h.dirty)
                => n \in Ids /\ store'[store'[n].id] = Data(h.buf)]_hvars
=============================================================================
