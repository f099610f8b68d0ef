------------------------------ MODULE SyncKVFS ------------------------------
(***************************************************************************)
(* SyncKeyValueFileSystem: a directory tree in a synchronous key-value     *)
(* store.  Every operation of the file system is one action, for the code  *)
(* runs it to its end without giving way to any other; the calls that open *)
(* a file and close it again (writeFileSync, appendFileSync, truncateSync) *)
(* are one action too.  An operation is written as a function from the     *)
(* store to what it leaves in the store and what it answers, "ok" or the   *)
(* error it throws.                                                        *)
(***************************************************************************)
EXTENDS KVNodes, Integers, FiniteSets

CONSTANTS
    MaxDepth,        \* longest path the callers use
    MaxNodes,        \* bound: inodes in the store, one of them the root's
    MaxLen,          \* bound: bytes in a file
    Contents,        \* byte sequences that are written at once
    Modes,           \* permissions that are asked for
    Users,           \* credentials of the callers
    WriteFlags,      \* flags files are written with
    WriteToDirs,     \* whether callers write to what is a directory
    randomUUID(_)    \* the ids the generator may give beside those in use

ASSUME ParameterAssumption ==
    /\ MaxDepth \in Nat /\ MaxNodes \in Nat \ {0} /\ MaxLen \in Nat
    /\ Contents \subseteq Seq(Bytes)
    /\ Modes \subseteq Perms
    /\ Users \subseteq Creds
    /\ WriteFlags \subseteq Flags
    /\ WriteToDirs \in BOOLEAN

ASSUME UUIDAssumption == \A S \in SUBSET Ids : randomUUID(S) \subseteq Ids \ S

VARIABLES
    store,  \* the contents of the key-value store
    ret     \* what the last operation answered

vars == <<store, ret>>

Done(s) == [st |-> s, ret |-> "ok"]

Fail(s, e) == [st |-> s, ret |-> e]

(* Pairs of unused keys, for the data and for the inode of a new node.     *)
NewIds(s) == UNION {{<<i, j>> : j \in randomUUID(Used(s) \union {i})} :
                       i \in randomUUID(Used(s))}

-----------------------------------------------------------------------------
(* makeRootDirectory in an empty store; the root belongs to the root user, *)
(* and anybody may do anything in it.                                      *)
makeRootDirectory(i) ==
    [k \in Ids |-> IF k = Root THEN Inode(i, RootSize, "dir", 0 .. 8, 0, 0)
                   ELSE IF k = i THEN Listing(NoEntries) ELSE Absent]

(* The type of the variables: in particular what an inode points to is one *)
(* of the kinds of data, and a size is never negative.                     *)
TypeOK == store \in Stores /\ ret \in Errors \union {"ok"}

Init ==
    /\ \E i \in randomUUID({Root}) : store = makeRootDirectory(i)
    /\ ret = "ok"

-----------------------------------------------------------------------------
(* commitNewFile.  The bit it asks for in the parent is the one the code   *)
(* calls Write, bit 2.                                                     *)
commitNewFile(s, p, type, mode, cred, data, new) ==
    LET d == FindId(s, dirname(p))
        f == basename(p)
    IN  IF ListingError(s, d) # "ok" THEN Fail(s, ListingError(s, d))
        ELSE IF ~Access(s, d, {2}, cred) THEN Fail(s, "EACCES")
        ELSE IF p = <<>> \/ entries(s, d)[f] # NoEntry THEN Fail(s, "EEXIST")
        ELSE Done([s EXCEPT
                ![new[1]] = data,
                ![new[2]] = Inode(new[1], DataLen(data), type, mode, cred.uid, cred.gid),
                ![s[d].id] = Listing([entries(s, d) EXCEPT ![f] = new[2]])])

mkdirSync(s, p, mode, cred, new) ==
    commitNewFile(s, p, "dir", mode, cred, Listing(NoEntries), new)

createFileSync(s, p, mode, cred, new) ==
    commitNewFile(s, p, "file", mode, cred, Data(<<>>), new)

(* A listing without one of its names. *)
KeptListed(list, f) == list                   \* mutant of Unlisted
Unlisted(list, f) == [list EXCEPT ![f] = NoEntry]

(* A store without node n, its data first.                                 *)
InodeDeleted(s, n) == [s EXCEPT ![n] = Absent]  \* mutant of Deleted
Deleted(s, n) == [s EXCEPT ![s[n].id] = Absent, ![n] = Absent]

removeEntry(s, p, isDir, cred) ==
    LET d == FindId(s, dirname(p))
        f == basename(p)
        n == entries(s, d)[f]
    IN  IF ListingError(s, d) # "ok" THEN Fail(s, ListingError(s, d))
        ELSE IF n = NoEntry THEN Fail(s, "ENOENT")
        ELSE IF INodeError(s, n) # "ok" THEN Fail(s, INodeError(s, n))
        ELSE IF ~Access(s, n, W_OK, cred) THEN Fail(s, "EACCES")
        ELSE IF ~isDir /\ s[n].type = "dir" THEN Fail(s, "EISDIR")
        ELSE IF isDir /\ s[n].type # "dir" THEN Fail(s, "ENOTDIR")
        ELSE Done([Deleted(s, n) EXCEPT ![s[d].id] = Listing(Unlisted(entries(s, d), f))])

(* Mutant of unlinkSync: the directory is noticed when it is gone.         *)
unlinkSyncLateCheck(s, p, cred) ==
    LET r == removeEntry(s, p, FALSE, cred)
    IN  IF r.ret # "EISDIR" THEN r
        ELSE Fail(removeEntry(s, p, TRUE, cred).st, "EISDIR")

unlinkSync(s, p, cred) == removeEntry(s, p, FALSE, cred)

(* rmdirSync reads the directory in a transaction of its own first.        *)
rmdirSync(s, p, cred) ==
    LET n == FindId(s, p)
    IN  IF INodeError(s, n) # "ok" THEN Fail(s, INodeError(s, n))
        ELSE IF ~Access(s, n, R_OK, cred) THEN Fail(s, "EACCES")
        ELSE IF ListingError(s, n) # "ok" THEN Fail(s, ListingError(s, n))
        ELSE IF entries(s, n) # NoEntries THEN Fail(s, "ENOTEMPTY")
        ELSE removeEntry(s, p, TRUE, cred)

(* What is wrong with putting a node under newPath, in the order of the    *)
(* code's checks; list is the new parent's listing.                        *)
TargetErrorAnyNode(s, list, f) ==  \* mutant of TargetError
    IF list[f] = NoEntry THEN "ok" ELSE INodeError(s, list[f])
TargetError(s, list, f) ==
    IF list[f] = NoEntry THEN "ok"
    ELSE IF INodeError(s, list[f]) # "ok" THEN INodeError(s, list[f])
    ELSE IF s[list[f]].type # "file" THEN "EPERM" ELSE "ok"

(* The two listings renameSync writes and the file it deletes.  The moved  *)
(* name is gone from the old listing before the new one is looked at, and  *)
(* a directory that is both parents is only read once, and written twice   *)
(* with the same text.                                                     *)
Moved(s, oldPath, newPath) ==
    LET oldDir  == FindId(s, dirname(oldPath))
        newDir  == FindId(s, dirname(newPath))
        oldName == basename(oldPath)
        newName == basename(newPath)
        oldList == Unlisted(entries(s, oldDir), oldName)
        newList == IF dirname(newPath) = dirname(oldPath) THEN oldList
                   ELSE entries(s, newDir)
        target  == newList[newName]
        cleared == IF target = NoEntry THEN s ELSE Deleted(s, target)
    IN  IF TargetError(s, newList, newName) # "ok"
        THEN Fail(s, TargetError(s, newList, newName))
        ELSE Done([cleared EXCEPT
                ![s[oldDir].id] = Listing(oldList),
                ![s[newDir].id] =
                    Listing([newList EXCEPT ![newName] = entries(s, oldDir)[oldName]])])

(* (newParent + '/').indexOf(oldPath + '/') is 0: for "/" the left-hand    *)
(* string is "//", which only "/" itself matches, and "/" matches nothing  *)
(* else.                                                                   *)
IsInsideItself(oldPath, newParent) ==
    IF oldPath = <<>> \/ newParent = <<>> THEN oldPath = newParent
    ELSE IsAtOrAbove(oldPath, newParent)

renameSync(s, oldPath, newPath, cred) ==
    LET oldDir == FindId(s, dirname(oldPath))
        newDir == FindId(s, dirname(newPath))
    IN  IF ListingError(s, oldDir) # "ok" THEN Fail(s, ListingError(s, oldDir))
        ELSE IF ~Access(s, oldDir, W_OK, cred) THEN Fail(s, "EACCES")
        ELSE IF entries(s, oldDir)[basename(oldPath)] = NoEntry THEN Fail(s, "ENOENT")
        ELSE IF IsInsideItself(oldPath, dirname(newPath)) THEN Fail(s, "EBUSY")
        ELSE IF ListingError(s, newDir) # "ok" THEN Fail(s, ListingError(s, newDir))
        ELSE Moved(s, oldPath, newPath)

-----------------------------------------------------------------------------
(* openFileSync, with the check PreloadFile's constructor makes of a file  *)
(* that can be read: its size is the length of its data.                   *)
openFileSync(s, p, flag, cred) ==
    LET n == FindId(s, p)
    IN  IF INodeError(s, n) # "ok" THEN Fail(s, INodeError(s, n))
        ELSE IF ~Access(s, n, getMode(flag), cred) THEN Fail(s, "EACCES")
        ELSE IF s[s[n].id].kind = "absent" THEN Fail(s, "ENOENT")
        ELSE IF isReadable(flag) /\ s[n].size # DataLen(s[s[n].id]) THEN Fail(s, "Error")
        ELSE Done(s)

(* openSync of SynchronousFileSystem where statSync throws, whatever the   *)
(* reason: the path counts as one that does not exist.                     *)
openMissing(s, p, flag, mode, cred, new) ==
    LET d == FindId(s, dirname(p))
    IN  IF pathNotExistsAction(flag) = "THROW_EXCEPTION" THEN Fail(s, "ENOENT")
        ELSE IF INodeError(s, d) # "ok" THEN Fail(s, INodeError(s, d))
        ELSE IF ~Access(s, d, R_OK, cred) THEN Fail(s, "EACCES")
        ELSE IF s[d].type # "dir" THEN Fail(s, "ENOTDIR")
        ELSE createFileSync(s, p, mode, cred, new)

(* openSync where the path exists.  The mode a new file is to have is also *)
(* the access that is asked for.  Truncating deletes the file and creates  *)
(* another with its mode, and each of the two can fail by itself.          *)
openExisting(s, p, flag, mode, cred, new) ==
    LET n == FindId(s, p)
        u == unlinkSync(s, p, cred)
    IN  IF ~Access(s, n, mode, cred) THEN Fail(s, "EACCES")
        ELSE CASE pathExistsAction(flag) = "THROW_EXCEPTION" -> Fail(s, "EEXIST")
               [] pathExistsAction(flag) = "TRUNCATE_FILE" ->
                    IF u.ret # "ok" THEN u
                    ELSE createFileSync(u.st, p, s[n].mode, cred, new)
               [] OTHER -> openFileSync(s, p, flag, cred)

openSync(s, p, flag, mode, cred, new) ==
    LET n == FindId(s, p)
    IN  IF INodeError(s, n) = "ok" /\ Access(s, n, R_OK, cred)
        THEN openExisting(s, p, flag, mode, cred, new)
        ELSE openMissing(s, p, flag, mode, cred, new)

(* A listing's text that was written into is no listing any more.          *)
Rewritten(c, b) == IF Data(b) = Data(Text(c)) THEN c ELSE Data(b)

(* closeSync of a dirty file: _syncSync looks the path up again, stores    *)
(* the buffer and updates the inode from the file's stats, of which only   *)
(* the size can differ here.                                               *)
syncFileStaleSize(s, p, b, size) ==  \* mutant of syncFile
    LET n == FindId(s, p)
    IN  IF INodeError(s, n) # "ok" THEN Fail(s, INodeError(s, n))
        ELSE Done([s EXCEPT ![s[n].id] = Rewritten(s[s[n].id], b)])
syncFileSizeOffByOne(s, p, b, size) ==  \* mutant of syncFile
    LET n == FindId(s, p)
    IN  IF INodeError(s, n) # "ok" THEN Fail(s, INodeError(s, n))
        ELSE Done([s EXCEPT ![s[n].id] = Rewritten(s[s[n].id], b), ![n].size = size - 1])
syncFile(s, p, b, size) ==
    LET n == FindId(s, p)
    IN  IF INodeError(s, n) # "ok" THEN Fail(s, INodeError(s, n))
        ELSE Done([s EXCEPT ![s[n].id] = Rewritten(s[s[n].id], b), ![n].size = size])

(* writeSync and closeSync on the file a successful openSync left at p.  A *)
(* file that was opened to append writes at its size when no position is   *)
(* given, any other at its start.  The buffer only grows if the size does, *)
(* so a write that ends within a size larger than the buffer throws a      *)
(* RangeError; a file that is not writeable throws too.  Both are closed   *)
(* unchanged.                                                              *)
NoPosition == -1

WriteAndClose(s, p, flag, data, position) ==
    LET n   == FindId(s, p)
        b   == Text(s[s[n].id])
        at  == IF position # NoPosition THEN position
               ELSE IF isAppendable(flag) THEN s[n].size ELSE 0
        end == at + Len(data)
    IN  IF INodeError(s, n) # "ok" THEN Fail(s, INodeError(s, n))
        ELSE IF ~isWriteable(flag) THEN Fail(s, "EPERM")
        ELSE IF end > Len(b) /\ end <= s[n].size THEN Fail(s, "Error")
        ELSE syncFile(s, p, Overlay(b, at, data),
                      IF end > s[n].size THEN end ELSE s[n].size)

writeFileSync(s, p, data, flag, mode, cred, new) ==
    LET o == openSync(s, p, flag, mode, cred, new)
    IN  IF o.ret # "ok" THEN o ELSE WriteAndClose(o.st, p, flag, data, 0)

appendFileSync(s, p, data, flag, mode, cred, new) ==
    LET o == openSync(s, p, flag, mode, cred, new)
    IN  IF o.ret # "ok" THEN o ELSE WriteAndClose(o.st, p, flag, data, NoPosition)

(* truncateSync opens with r+, asking for the access bits of 0o644; beyond *)
(* the end it writes zeros.                                                *)
truncateSync(s, p, len, cred, new) ==
    LET o == openSync(s, p, "r+", {2, 5, 7, 8}, cred, new)
        n == FindId(s, p)
        b == Text(s[s[n].id])
    IN  IF o.ret # "ok" THEN o
        ELSE IF len > Len(b)
        THEN WriteAndClose(s, p, "r+", [i \in 1 .. len - Len(b) |-> 0], Len(b))
        ELSE syncFile(s, p, SubSeq(b, 1, len), len)

-----------------------------------------------------------------------------
(* The bounds: a store holds at most MaxNodes inodes, a file at most       *)
(* MaxLen bytes.  An operation that would exceed them is not called.       *)
WithinBounds(s) ==
    /\ Cardinality(InodeIds(s)) <= MaxNodes
    /\ \A k \in Ids : s[k].kind = "bytes" => Len(s[k].val) <= MaxLen

Apply(r) ==
    /\ WithinBounds(r.st)
    /\ store' = r.st
    /\ ret' = r.ret

UsedPaths == UNION {[1 .. n -> Names] : n \in 0 .. MaxDepth}

IsDirPath(p) ==
    LET n == FindId(store, p)
    IN  INodeError(store, n) = "ok" /\ store[n].type = "dir"

Mkdir(p, mode, cred) ==
    \E new \in NewIds(store) : Apply(mkdirSync(store, p, mode, cred, new))

WriteFile(p, data, flag, mode, cred) ==
    /\ WriteToDirs \/ ~IsDirPath(p)
    /\ \E new \in NewIds(store) : Apply(writeFileSync(store, p, data, flag, mode, cred, new))

AppendFile(p, data, flag, mode, cred) ==
    /\ WriteToDirs \/ ~IsDirPath(p)
    /\ \E new \in NewIds(store) : Apply(appendFileSync(store, p, data, flag, mode, cred, new))

Truncate(p, len, cred) ==
    /\ WriteToDirs \/ ~IsDirPath(p)
    /\ \E new \in NewIds(store) : Apply(truncateSync(store, p, len, cred, new))

Unlink(p, cred) == Apply(unlinkSync(store, p, cred))

Rmdir(p, cred) == Apply(rmdirSync(store, p, cred))

(* Callers do not rename to "/": it would make an entry without a name,    *)
(* which commitNewFile takes care not to make.                             *)
Rename(oldPath, newPath, cred) ==
    /\ newPath # <<>>
    /\ Apply(renameSync(store, oldPath, newPath, cred))

(* empty clears the store and makes the root again.                        *)
Empty == \E i \in randomUUID({Root}) : Apply(Done(makeRootDirectory(i)))

Next ==
    \/ \E p \in UsedPaths, cred \in Users :
          \/ \E mode \in Modes :
                \/ Mkdir(p, mode, cred)
                \/ \E data \in Contents, flag \in WriteFlags :
                      \/ WriteFile(p, data, flag, mode, cred)
                      \/ AppendFile(p, data, flag, mode, cred)
          \/ \E len \in 0 .. MaxLen : Truncate(p, len, cred)
          \/ Unlink(p, cred)
          \/ Rmdir(p, cred)
          \/ \E q \in UsedPaths : Rename(p, q, cred)
    \/ Empty

Spec == Init /\ [][Next]_vars

-----------------------------------------------------------------------------
(* All the paths a tree of at most MaxNodes nodes can have. *)
TreePaths == UNION {[1 .. n -> Names] : n \in 0 .. MaxNodes - 1}

(* No operation, in any sequence, leaves a loose end: the root stays, an   *)
(* inode always has its data, and a listing never names a node that is     *)
(* gone (removeEntry and renameSync delete nodes and rewrite listings with *)
(* separate puts).                                                         *)
NoDangling == NoDanglingIn(store)

(* Nodes stay in one place each: after renameSync no node is named twice,  *)
(* and no two nodes ever write to the same data.                           *)
NoSharing == NoSharingIn(store)

(* Nothing leaks: every key of the store is the inode or the data of a     *)
(* node that some path leads to.  Replacing a file by renameSync, deleting *)
(* and truncating leave nothing behind, and no directory is moved below    *)
(* itself, out of reach.                                                   *)
NoLeak ==
    \A k \in Used(store) : \E p \in TreePaths :
        LET n == FindId(store, p)
        IN  n \in Ids /\ (k = n \/ k = store[n].id)

(* The size in the inode of a file is the length of its data, after every  *)
(* write, append and truncation: otherwise PreloadFile refuses to open it. *)
SizeExact ==
    \A n \in InodeIds(store) :
        store[n].type = "file" => store[n].size = DataLen(store[store[n].id])

(* What a path leads to. *)
NodeAt(p) ==
    LET n == FindId(store, p)
    IN  IF n \notin Ids THEN [kind |-> "none"]
        ELSE IF store[n].type = "dir" THEN [kind |-> "dir"]
        ELSE [kind |-> "file", val |-> store[store[n].id].val]

(* The file at p is gone and nothing else has changed.  cred may write to  *)
(* the file, but not to its directory.                                     *)
LosesFile(p, cred) ==
    LET n == FindId(store, p)
        d == FindId(store, dirname(p))
    IN  /\ NodeAt(p).kind = "file" /\ NodeAt(p)'.kind = "none"
        /\ \A q \in TreePaths \ {p} : NodeAt(q)' = NodeAt(q)
        /\ \A k \in Ids \ {n, store[n].id, store[d].id} : store'[k] = store[k]
        /\ Access(store, n, W_OK, cred) /\ ~Access(store, d, {2}, cred)

(* An operation that throws has changed nothing, for whoever calls and     *)
(* although some delete a file before they create or overwrite one.  The   *)
(* one exception is the open that truncates: it takes the right to write   *)
(* to the file to delete it, and the right to write to the directory to    *)
(* make it again; who has only the first is refused with the file gone.    *)
FailureIsClean ==
    [][ret' \in Errors =>
        \/ UNCHANGED store
        \/ ret' = "EACCES" /\ \E p \in TreePaths, cred \in Users : LosesFile(p, cred)]_vars

Tree == INSTANCE FileTree WITH
            TreePaths <- TreePaths, tree <- [p \in TreePaths |-> NodeAt(p)]

(* The operations implement a directory tree, as FileTree defines it: what *)
(* a path leads to is what the last successful call made it lead to, and   *)
(* no call changes what other paths lead to.                               *)
TreeSpec == Tree!Spec
=============================================================================
