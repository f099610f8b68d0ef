----------------------------- MODULE OverlayTree ----------------------------
(***************************************************************************)
(* UnlockedOverlayFS: the tree that a writable file system, a read-only    *)
(* one below it and a set of deleted paths make together.  Every           *)
(* synchronous operation is one action.  It is written as a function from  *)
(* the writable tree and the deleted paths to what it leaves of them, also *)
(* when it throws in the middle; which error it throws makes no difference *)
(* here.  How the deleted paths reach the log is in DeletionLog.           *)
(*                                                                         *)
(* The two file systems are trees as FileTree has them, and do what a      *)
(* SyncKVFS does; everybody may do everything in them.                     *)
(***************************************************************************)
EXTENDS Access, SequencesExt

CONSTANTS
    TreePaths,    \* the paths, sequences of names, closed under Parent
    Bytes,        \* values of a byte
    Contents,     \* what is written at once
    MaxLen,       \* bound: bytes in a file
    Readables,    \* what the read-only tree may be
    WriteFlags,   \* flags for writing at the start
    AppendFlags,  \* flags for appending
    RenameDirs    \* whether callers rename directories

VARIABLES
    readable,  \* the read-only tree
    writable,  \* the writable tree
    deleted,   \* paths p with _deletedFiles[p] = true
    ret        \* what the last operation answered

vars == <<readable, writable, deleted, ret>>

None    == [kind |-> "none"]
Dir     == [kind |-> "dir"]
File(v) == [kind |-> "file", val |-> v]
Files   == [kind : {"file"}, val : Seq(Bytes)]

dirname(p)      == IF p = <<>> THEN <<>> ELSE SubSeq(p, 1, Len(p) - 1)
childrenOf(p)   == {q \in TreePaths : q # <<>> /\ dirname(q) = p}
Within(q, p)    == Len(p) <= Len(q) /\ SubSeq(q, 1, Len(p)) = p

(* Where x goes when old, at or above x, becomes new. *)
Rebased(x, old, new) == new \o SubSeq(x, Len(old) + 1, Len(x))

IsTree(t) ==
    /\ t \in [TreePaths -> {None, Dir} \union Files]
    /\ t[<<>>] = Dir
    /\ \A p \in TreePaths : t[p] # None => t[dirname(p)] = Dir

(* An operation's state: the writable tree w, the deleted paths, and how   *)
(* it has gone so far.                                                     *)
Here == [w |-> writable, del |-> deleted, ret |-> "ok"]

Throw(s) == [s EXCEPT !.ret = "error"]

-----------------------------------------------------------------------------
(* The writable file system. *)
writableMkdir(s, p) ==
    IF p = <<>> \/ s.w[p] # None \/ s.w[dirname(p)] # Dir THEN Throw(s)
    ELSE [s EXCEPT !.w[p] = Dir]

writableWrite(s, p, val) ==
    IF s.w[p] = Dir \/ s.w[dirname(p)] # Dir THEN Throw(s)
    ELSE [s EXCEPT !.w[p] = File(val)]

writableUnlink(s, p) ==
    IF s.w[p] \in {None, Dir} THEN Throw(s) ELSE [s EXCEPT !.w[p] = None]

writableRmdir(s, p) ==
    IF p = <<>> \/ s.w[p] # Dir \/ \E q \in childrenOf(p) : s.w[q] # None THEN Throw(s)
    ELSE [s EXCEPT !.w[p] = None]

writableRename(s, old, new) ==
    IF Within(dirname(new), old) \/ s.w[dirname(new)] # Dir \/ s.w[new] = Dir THEN Throw(s)
    ELSE [s EXCEPT !.w =
            [x \in TreePaths |->
                IF Within(x, old) THEN None
                ELSE IF ~Within(x, new) THEN s.w[x]
                ELSE LET y == Rebased(x, new, old)
                     IN  IF y \in TreePaths THEN s.w[y] ELSE None]]

-----------------------------------------------------------------------------
statSync(s, p) ==
    IF s.w[p] # None THEN s.w[p] ELSE IF p \in s.del THEN None ELSE readable[p]

existsSync(s, p) == statSync(s, p) # None

(* readdirSync of a directory.  The path it looks up among the deleted     *)
(* ones is p + '/' + name, which for the root is none of them.             *)
readdirSyncUnfiltered(s, p) ==  \* mutant of readdirSync
    {q \in childrenOf(p) : s.w[q] # None \/ readable[q] # None}
readdirSync(s, p) ==
    {q \in childrenOf(p) :
        s.w[q] # None \/ (readable[q] # None /\ (p = <<>> \/ q \notin s.del))}

deletePath(s, p) == [s EXCEPT !.del = @ \union {p}]

(* The missing ones of the directories above p, the highest first; one     *)
(* that does not exist in the overlay either ends it.                      *)
createParentDirectories(s, p) ==
    LET Make(t, i) ==
            LET q == SubSeq(p, 1, i)
            IN  IF t.ret = "error" \/ t.w[q] # None THEN t
                ELSE IF existsSync(t, q) THEN writableMkdir(t, q) ELSE Throw(t)
    IN  FoldLeft(Make, s, [i \in 1 .. Len(p) - 1 |-> i])

(* openSync, a write and closeSync.  A file that is opened for what it has *)
(* is read from where it is; what was on the read-only side is then an     *)
(* OverlayFile, and closing it puts it on the writable one (_syncSync).    *)
openAndWrite(s, p, flag, data) ==
    LET found   == existsSync(s, p)
        action  == IF found THEN pathExistsAction(flag) ELSE pathNotExistsAction(flag)
        parents == createParentDirectories(s, p)
    IN  IF action = "THROW_EXCEPTION" THEN Throw(s)
        ELSE IF parents.ret = "error" THEN parents
        ELSE writableWrite(parents, p, IF action = "NOP" THEN statSync(s, p).val \o data ELSE data)

mkdirSync(s, p) ==
    LET parents == createParentDirectories(s, p)
    IN  IF existsSync(s, p) THEN Throw(s)
        ELSE IF parents.ret = "error" THEN parents ELSE writableMkdir(parents, p)

(* Mutant of unlinkSync: what was on the writable side is not looked for   *)
(* on the other.                                                           *)
unlinkSyncOneSide(s, p) ==
    IF ~existsSync(s, p) THEN Throw(s)
    ELSE IF s.w[p] # None THEN writableUnlink(s, p) ELSE deletePath(s, p)
(* Mutant of unlinkSync: every deleted path goes to the log.               *)
unlinkSyncLogsAll(s, p) ==
    LET upper == IF s.w[p] # None THEN writableUnlink(s, p) ELSE s
    IN  IF ~existsSync(s, p) THEN Throw(s)
        ELSE IF upper.ret = "error" THEN upper ELSE deletePath(upper, p)
unlinkSync(s, p) ==
    LET upper == IF s.w[p] # None THEN writableUnlink(s, p) ELSE s
    IN  IF ~existsSync(s, p) THEN Throw(s)
        ELSE IF upper.ret = "error" \/ ~existsSync(upper, p) THEN upper
        ELSE deletePath(upper, p)

(* rmdirSync.  The writable directory is gone when the other one turns out *)
(* not to be empty.                                                        *)
rmdirSyncUnchecked(s, p) ==  \* mutant of rmdirSync
    LET upper == IF s.w[p] # None THEN writableRmdir(s, p) ELSE s
    IN  IF ~existsSync(s, p) THEN Throw(s)
        ELSE IF upper.ret = "error" \/ ~existsSync(upper, p) THEN upper
        ELSE deletePath(upper, p)
rmdirSync(s, p) ==
    LET upper == IF s.w[p] # None THEN writableRmdir(s, p) ELSE s
    IN  IF ~existsSync(s, p) THEN Throw(s)
        ELSE IF upper.ret = "error" \/ ~existsSync(upper, p) THEN upper
        ELSE IF statSync(upper, p) # Dir \/ readdirSync(upper, p) # {} THEN Throw(upper)
        ELSE deletePath(upper, p)

(* chmodSync, chownSync and utimesSync: operateOnWritable copies what is   *)
(* only on the read-only side; the directories above are made for a file   *)
(* and not for a directory.  The writable file system then answers that it *)
(* supports none of these, and the copy is all that is left of the call.   *)
chmodSync(s, p) ==
    IF ~existsSync(s, p) \/ s.w[p] # None THEN Throw(s)
    ELSE IF statSync(s, p) = Dir THEN Throw(writableMkdir(s, p))
    ELSE Throw(openAndWrite(s, p, "w", readable[p].val))

(* The end of renameSync. *)
unlinkOld(s, old, new) ==
    IF s.ret = "error" \/ old = new \/ ~existsSync(s, old) THEN s ELSE unlinkSync(s, old)

(* renameSync of a file: it is copied, and then deleted. *)
renameFileLateCheck(s, old, new) ==  \* mutant of renameFile
    IF statSync(s, new) = Dir THEN Throw(unlinkOld(s, old, new))
    ELSE unlinkOld(openAndWrite(s, new, "w", statSync(s, old).val), old, new)
renameFile(s, old, new) ==
    IF statSync(s, new) = Dir THEN Throw(s)
    ELSE unlinkOld(openAndWrite(s, new, "w", statSync(s, old).val), old, new)

(* The writable part of a directory moves first; if it has none, it gets   *)
(* one at its new place.                                                   *)
moveWritable(s, old, new) ==
    IF s.w[old] # None THEN writableRename(s, old, new)
    ELSE IF s.w[new] = None THEN writableMkdir(s, new) ELSE s

(* renameSync.  Of a directory, every name the read-only side has in it is *)
(* then renamed the same way, whether or not the overlay shows it there.   *)
RECURSIVE renameSync(_, _, _)
renameSync(s, old, new) ==
    LET moved == moveWritable(s, old, new)
        MoveChild(t, q) ==
            IF t.ret = "error" THEN t ELSE renameSync(t, q, Rebased(q, old, new))
        names == SetToSeq({q \in childrenOf(old) : readable[q] # None})
    IN  IF ~existsSync(s, old) THEN Throw(s)
        ELSE IF statSync(s, old) # Dir THEN renameFile(s, old, new)
        ELSE IF old = new THEN s
        ELSE IF /\ existsSync(s, new)
                /\ statSync(s, new) # Dir \/ readdirSync(s, new) # {} THEN Throw(s)
        ELSE IF moved.ret = "error" THEN moved
        ELSE IF readable[old] \in Files THEN Throw(moved)
        ELSE unlinkOld(FoldLeft(MoveChild, moved, names), old, new)

-----------------------------------------------------------------------------
Init ==
    /\ readable \in Readables
    /\ writable = [p \in TreePaths |-> IF p = <<>> THEN Dir ELSE None]
    /\ deleted = {}
    /\ ret = "ok"

Apply(r) ==
    /\ writable' = r.w /\ deleted' = r.del /\ ret' = r.ret
    /\ UNCHANGED readable

(* Callers make nothing below what they see as a file.                     *)
UnderDir(p) == \A i \in 1 .. Len(p) - 1 : statSync(Here, SubSeq(p, 1, i)) \in {None, Dir}

(* Callers write to files, of at most MaxLen bytes.                        *)
WriteFile(p, data, flag) ==
    /\ statSync(Here, p) # Dir /\ UnderDir(p)
    /\ Apply(openAndWrite(Here, p, flag, data))

AppendFile(p, data, flag) ==
    /\ statSync(Here, p) # Dir /\ UnderDir(p)
    /\ existsSync(Here, p) => Len(statSync(Here, p).val \o data) <= MaxLen
    /\ Apply(openAndWrite(Here, p, flag, data))

Mkdir(p) == UnderDir(p) /\ Apply(mkdirSync(Here, p))

(* Callers do not unlink a directory that only the read-only side has: it  *)
(* would be deleted and what it holds would stay.                          *)
Unlinkable(p) == statSync(Here, p) # Dir \/ writable[p] = Dir

Unlink(p) == Unlinkable(p) /\ Apply(unlinkSync(Here, p))

Rmdir(p) == Apply(rmdirSync(Here, p))

Chmod(p) == Apply(chmodSync(Here, p))

(* A rename is called for if what moves stays within TreePaths. *)
Renamable(old, new) ==
    /\ new # <<>> /\ UnderDir(new)
    /\ statSync(Here, old) = Dir => RenameDirs
    /\ \A x \in TreePaths :
          /\ Within(x, old)
          /\ writable[x] # None \/ readable[x] # None
          => Rebased(x, old, new) \in TreePaths

Rename(old, new) == Renamable(old, new) /\ Apply(renameSync(Here, old, new))

Next ==
    \E p \in TreePaths :
        \/ \E data \in Contents :
              \/ \E flag \in WriteFlags : WriteFile(p, data, flag)
              \/ \E flag \in AppendFlags : AppendFile(p, data, flag)
        \/ Mkdir(p)
        \/ Unlink(p)
        \/ Rmdir(p)
        \/ Chmod(p)
        \/ \E q \in TreePaths : Rename(p, q)

Spec == Init /\ [][Next]_vars

-----------------------------------------------------------------------------
(* The types: the writable side is a tree, and only what the read-only     *)
(* side has is ever recorded as deleted (deletePath is called for what     *)
(* still exists once it is gone from the writable side).                   *)
TypeOK ==
    /\ readable \in Readables
    /\ IsTree(writable)
    /\ deleted \subseteq {p \in TreePaths : readable[p] # None}
    /\ ret \in {"ok", "error"}

Merged == [p \in TreePaths |-> statSync(Here, p)]

Tree == INSTANCE FileTree WITH tree <- Merged

(* The overlay is a directory tree for its users: however its nodes are    *)
(* spread over two sides, every call makes one of the changes FileTree     *)
(* knows, and none lets something hidden on the read-only side reappear.   *)
TreeSteps == [][Tree!Next]_Merged

(* readdirSync of a directory other than the root lists what exists in it, *)
(* on whichever side, without what was deleted.                            *)
ListsWhatExists ==
    \A p \in TreePaths :
        p # <<>> /\ statSync(Here, p) = Dir
            => readdirSync(Here, p) = {q \in childrenOf(p) : existsSync(Here, q)}

(* A rename that succeeds moves what is at its old path, with everything   *)
(* below it and all contents as they were, and leaves nothing behind       *)
(* ("Write newPath using oldPath's contents, delete oldPath").             *)
RenameMoves ==
    \A old, new \in TreePaths :
        Renamable(old, new) /\ old # new =>
            LET r == renameSync(Here, old, new)
            IN  r.ret = "ok" =>
                    \A x \in TreePaths :
                        Within(x, old) /\ existsSync(Here, x) =>
                            /\ ~existsSync(r, x)
                            /\ statSync(r, Rebased(x, old, new)) = statSync(Here, x)

(* A call that throws, and be it after it copied directories or removed    *)
(* one on the writable side, changes nothing that its users see.           *)
FailureIsClean == [][ret' = "error" => UNCHANGED Merged]_vars
=============================================================================
