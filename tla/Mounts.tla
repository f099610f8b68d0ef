------------------------------- MODULE Mounts -------------------------------
(***************************************************************************)
(* The mount table and the calls on paths, as the synchronous and the      *)
(* promise API offer them.  A call makes its path absolute, finds the file *)
(* system whose mount point the path begins with, and hands it the rest.   *)
(* File systems are synchronous key-value file systems (Volume), or        *)
(* FolderAdapters that show a folder of one.  A call of the promise API    *)
(* awaits between looking whether its path exists, making it real, calling *)
(* the file system and, where that opened a file, closing it: other calls  *)
(* come in between.  One call of the promise API is under way at a time.   *)
(***************************************************************************)
EXTENDS Volume, FiniteSets

CONSTANTS
    Volumes,      \* the key-value file systems
    DefaultRoot,  \* the one that is mounted in the root when the module is loaded
    Adapters,     \* the FolderAdapters
    Wrapped,      \* the file system an adapter wraps
    Folder,       \* and the folder of it that it shows
    MountCalls,   \* the points and file systems that mount is called with
    Mappings,     \* what initialize is called with, sequences of such
    Unavailable,  \* others there, whose class says that it is not available
    Inputs,       \* paths, as the callers of the synchronous API write them
    AsyncInputs,  \* paths, as the callers of the promise API write them
    SyncRenames,  \* what the former rename, sequences of the old and the new path
    Renames,      \* and the latter
    Data,         \* what is written
    MaxLen,       \* bound: bytes in a file
    MaxNodes      \* bound: nodes in all the file systems

ASSUME MountsAssumption ==
    /\ Wrapped \in [Adapters -> Volumes] /\ DefaultRoot \in Volumes
    /\ Unavailable \cap (Volumes \union Adapters) = {}
    /\ \A a \in Adapters : isAbsolute(Folder[a])
    /\ Data \subseteq Seq(Bytes) /\ MaxLen \in Nat /\ MaxNodes \in Nat

VARIABLES
    mounts,   \* the mount table, from strings to file systems
    ready,    \* the adapters that have been created
    trees,    \* what the key-value file systems hold
    pending,  \* the call of the promise API that is under way, if one is
    last      \* the call that ended with this step, and its answer

vars == <<mounts, ready, trees, pending, last>>

-----------------------------------------------------------------------------
(* The paths that callers write, and what becomes of each.                 *)
Given ==
    Inputs \union AsyncInputs
    \union UNION {{pair[1], pair[2]} : pair \in SyncRenames \union Renames}

normalizePath == [s \in Given |->
    IF s = <<>> THEN [ans |-> "EINVAL", path |-> s] ELSE [ans |-> "ok", path |-> resolve(<<s>>)]]

(* resolveFS: the longest mount point of a table that the string begins    *)
(* with.                                                                   *)
resolveFSShortest(table, path) ==  \* mutant of resolveFS
    LET fit   == {pt \in DOMAIN table : IsPrefix(pt, path)}
        point == CHOOSE pt \in fit : \A x \in fit : Len(pt) <= Len(x)
        rest  == IF Len(point) > 1 THEN Slice(path, Len(point)) ELSE path
    IN  IF fit = {} THEN [ans |-> "EIO"]
        ELSE [ans |-> "ok", fs |-> table[point], point |-> point,
              path |-> IF rest = <<>> THEN Root ELSE rest]
resolveFS(table, path) ==
    LET fit   == {pt \in DOMAIN table : IsPrefix(pt, path)}
        point == CHOOSE pt \in fit : \A x \in fit : Len(pt) >= Len(x)
        rest  == IF Len(point) > 1 THEN Slice(path, Len(point)) ELSE path
    IN  IF fit = {} THEN [ans |-> "EIO"]
        ELSE [ans |-> "ok", fs |-> table[point], point |-> point,
              path |-> IF rest = <<>> THEN Root ELSE rest]

-----------------------------------------------------------------------------
(* What a key-value file system does for a call; and the flags of the      *)
(* files that three of them open.                                          *)
Flag == [writeFile |-> "w", appendFile |-> "a", truncate |-> "r+"]

Perform(t, name, x, arg) ==
    CASE name \in {"stat", "access"} -> Find(t, x)
      [] name = "exists" -> IF Fails(Find(t, x)) THEN Throws(t, "false", <<>>) ELSE Done(t)
      [] name = "readFile"   -> ReadFile(t, x)
      [] name = "open"       -> Opened(t, x, arg)
      [] name \in DOMAIN Flag -> Rewritten(t, x, Flag[name], arg)
      [] name = "unlink"     -> removeEntry(t, x, FALSE)
      [] name = "mkdir"      -> Added(t, x, Dir)
      [] name = "rmdir"      -> Rmdir(t, x)
      [] name = "readdir"    -> Listing(t, x)
      [] name \in {"link", "symlink", "readlink", "utimes"} -> Throws(t, "ENOTSUP", <<>>)

(* FolderAdapter: these methods go to the wrapped file system, with the    *)
(* folder before the path; the others are those of BaseFileSystem.  The    *)
(* synchronous ones put the path in an error back into the adapter's terms.*)
WrappedMethods == {"stat", "open", "unlink", "rmdir", "mkdir", "readdir", "exists", "truncate",
                   "readFile", "writeFile", "appendFile", "utimes", "readlink", "link", "symlink"}

(* What is left of a path behind a mount point, wherever that may end; and *)
(* what a key-value file system makes of it, as it is or with the folder   *)
(* of an adapter before it.                                                *)
Rests ==
    {Root} \union
    UNION {{Slice(normalizePath[s].path, i) : i \in 0 .. Len(normalizePath[s].path) - 1} : s \in Given}

InVolume == [w \in Rests |-> Located(w)]
InFolder == [a \in Adapters, w \in Rests |-> Located(join(<<Folder[a], w>>))]

translateErrorNot(folder, at) == at  \* mutant of translateError
translateError(folder, at) == IF at = <<>> THEN at ELSE Root \o relative(folder, at)

wrapFunction(t, a, name, w, arg, sync) ==
    LET Translated(r) == IF sync THEN [r EXCEPT !.at = translateError(Folder[a], @)] ELSE r
    IN  IF name \notin WrappedMethods THEN Throws(t, "ENOTSUP", <<>>)
        ELSE Translated(Perform(t, name, InFolder[a, w], arg))

(* Where a path leads: to a key-value file system, and what that gets.     *)
VolumeOf(fs) == IF fs \in Volumes THEN fs ELSE Wrapped[fs]

Reached(table, path) ==
    LET r == resolveFS(table, path)
    IN  [vol |-> VolumeOf(r.fs),
         x   |-> IF r.fs \in Volumes THEN InVolume[r.path] ELSE InFolder[r.fs, r.path]]

(* A call at a path that is absolute already: the file systems after it,   *)
(* the mount point it went by, and its answer.                             *)
Outcome(ts, point, a) == [trees |-> ts, point |-> point, a |-> a]

Refused(ts, ans) == Outcome(ts, <<>>, Throws(Bare, ans, <<>>))

CallAt(ts, name, path, arg, sync) ==
    LET r == resolveFS(mounts, path)
        v == VolumeOf(r.fs)
        Performed(a) == Outcome([ts EXCEPT ![v] = a.t], r.point, a)
    IN  IF r.ans # "ok" THEN Refused(ts, r.ans)
        ELSE Performed(IF r.fs \in Volumes THEN Perform(ts[v], name, InVolume[r.path], arg)
                       ELSE wrapFunction(ts[v], r.fs, name, r.path, arg, sync))

(* doOp of the synchronous API.  Of links to follow there are none, so the *)
(* real path of what exists is the path.                                   *)
doOpSync(ts, name, s, arg) ==
    LET n == normalizePath[s]
    IN  IF n.ans # "ok" THEN Refused(ts, n.ans) ELSE CallAt(ts, name, n.path, arg, TRUE)

-----------------------------------------------------------------------------
NoArg == <<>>

Ended(name, s, to, arg, sync, o) ==
    [name |-> name, s |-> s, to |-> to, arg |-> arg, sync |-> sync, point |-> o.point,
     ans |-> o.a.ans, at |-> o.a.at, bytes |-> o.a.bytes, list |-> o.a.list]

NoCall == Ended("none", Root, Root, NoArg, TRUE, Refused(trees, "none"))

Idle == [stage |-> "none", name |-> "none"]

Nodes(ts) == Cardinality({x \in Volumes \X Ways : ts[x[1]][x[2]] # None})

Fits(ts) ==
    /\ Nodes(ts) <= MaxNodes
    /\ \A v \in Volumes, p \in Ways : IsFile(ts[v][p]) => Len(ts[v][p].val) <= MaxLen

(* The call ends, with this outcome. *)
Ends(name, s, to, arg, sync, o) ==
    /\ Fits(o.trees)
    /\ trees' = o.trees
    /\ last' = Ended(name, s, to, arg, sync, o)
    /\ UNCHANGED <<mounts, ready>>

(* Callers do not append to a directory nor cut it short, which would      *)
(* overwrite its listing; nor make a directory, by a call or by mounting,  *)
(* of a file that a call of the promise API is still to open for that.     *)
LeadsToDir(table, ts, path) ==
    LET to == Reached(table, path)
    IN  /\ resolveFS(table, path).ans = "ok"
        /\ to.x.rooted /\ ts[to.vol][to.x.way] = Dir

NotOntoDir(name, s) ==
    name \in {"appendFile", "truncate"} /\ normalizePath[s].ans = "ok" =>
        ~LeadsToDir(mounts, trees, normalizePath[s].path)

KeepsOff ==
    \A ts \in {trees'}, table \in {mounts'} :
        pending.name \in {"appendFile", "truncate"} /\ pending.stage # "close" =>
            ~LeadsToDir(table, ts, pending.path)

(* Under readdir, the mount points that are one name below the path.       *)
MountEntriesEmpty(path) ==  \* mutant of MountEntries
    {f \in {Slice(pt, Len(path)) : pt \in {x \in DOMAIN mounts : IsPrefix(path, x)}} :
        ~Contains(f, Sep)}
MountEntries(path) ==
    {f \in {Slice(pt, Len(path)) : pt \in {x \in DOMAIN mounts : IsPrefix(path, x)}} :
        f # <<>> /\ ~Contains(f, Sep)}

WithMounts(name, o, path) ==
    IF name # "readdir" \/ Fails(o.a) THEN o
    ELSE [o EXCEPT !.a.list = @ \union MountEntries(path)]

(* A call of a function on a path. *)
Request(name, s, arg) == [name |-> name, s |-> s, arg |-> arg]

existsSync(s)       == Request("exists", s, NoArg)
statSync(s)         == Request("stat", s, NoArg)
accessSync(s)       == Request("access", s, NoArg)
readFileSync(s)     == Request("readFile", s, NoArg)
writeFileSync(s, b) == Request("writeFile", s, b)
appendFileSync(s, b) == Request("appendFile", s, b)
truncateSync(s, b)  == Request("truncate", s, b)
unlinkSync(s)       == Request("unlink", s, NoArg)
mkdirSync(s)        == Request("mkdir", s, NoArg)
rmdirSync(s)        == Request("rmdir", s, NoArg)
readdirSync(s)      == Request("readdir", s, NoArg)
linkSync(s)         == Request("link", s, NoArg)
symlinkSync(s)      == Request("symlink", s, NoArg)
readlinkSync(s)     == Request("readlink", s, NoArg)
utimesSync(s)       == Request("utimes", s, NoArg)

Sync(r) ==
    /\ NotOntoDir(r.name, r.s)
    /\ Ends(r.name, r.s, r.s, r.arg, TRUE,
            WithMounts(r.name, doOpSync(trees, r.name, r.s, r.arg), normalizePath[r.s].path))
    /\ UNCHANGED pending /\ KeepsOff

(* renameSync.  The two results of resolveFS are never the same object, so *)
(* the file is always read, written anew and unlinked.                     *)
renameSync(s, q) ==
    LET Unlinked(written) ==
            IF Fails(written.a) THEN written ELSE doOpSync(written.trees, "unlink", s, NoArg)
        Moved(read) ==
            IF Fails(read.a) THEN read
            ELSE Unlinked(doOpSync(read.trees, "writeFile", q, read.a.bytes))
    IN  /\ Ends("rename", s, q, NoArg, TRUE, Moved(doOpSync(trees, "readFile", s, NoArg)))
        /\ UNCHANGED pending /\ KeepsOff

-----------------------------------------------------------------------------
(* The promise API.  doOp looks whether the path exists and awaits; makes  *)
(* it real, if it did, and awaits; and then calls the file system, which   *)
(* for writeFile, appendFile and truncate opens the file, awaits, changes  *)
(* what the file holds in memory, and writes it back with the close.  What *)
(* is removed meanwhile makes realpath and the close throw.                *)
NoFile == [vol |-> DefaultRoot, x |-> Located(Root), bytes |-> <<>>]

Op(name, s, path, arg) ==
    [stage |-> "exists", name |-> name, s |-> s, path |-> path, arg |-> arg,
     file |-> NoFile, then |-> "done", old |-> path, new |-> path]

Looked(op) ==
    LET Found(o) ==
            IF Fails(o.a) /\ o.a.ans # "false"
            THEN /\ pending' = Idle
                 /\ Ends(op.name, op.s, op.s, op.arg, FALSE, o)
            ELSE /\ pending' = [op EXCEPT !.stage = IF Fails(o.a) THEN "call" ELSE "realpath"]
                 /\ last' = NoCall /\ UNCHANGED <<mounts, ready, trees>>
    IN  Found(CallAt(trees, "exists", op.path, NoArg, FALSE))

Promise(r) ==
    LET n == normalizePath[r.s]
    IN  /\ pending = Idle /\ NotOntoDir(r.name, r.s)
        /\ IF n.ans # "ok"
           THEN /\ Ends(r.name, r.s, r.s, r.arg, FALSE, Refused(trees, n.ans))
                /\ UNCHANGED pending
           ELSE Looked(Op(r.name, r.s, n.path, r.arg))

(* Without following links, nothing is awaited before the call.            *)
PromiseNow(r) ==
    LET n == normalizePath[r.s]
    IN  /\ pending = Idle /\ UNCHANGED pending
        /\ Ends(r.name, r.s, r.s, r.arg, FALSE,
                IF n.ans # "ok" THEN Refused(trees, n.ans)
                ELSE CallAt(trees, r.name, n.path, r.arg, FALSE))

exists(s)        == Request("exists", s, NoArg)
stat(s)          == Request("stat", s, NoArg)
lstat(s)         == Request("stat", s, NoArg)
access(s)        == Request("access", s, NoArg)
readFile(s)      == Request("readFile", s, NoArg)
writeFile(s, b)  == Request("writeFile", s, b)
appendFile(s, b) == Request("appendFile", s, b)
truncate(s, b)   == Request("truncate", s, b)
unlink(s)        == Request("unlink", s, NoArg)
mkdir(s)         == Request("mkdir", s, NoArg)
rmdir(s)         == Request("rmdir", s, NoArg)
readdir(s)       == Request("readdir", s, NoArg)
link(s)          == Request("link", s, NoArg)
symlink(s)       == Request("symlink", s, NoArg)
readlink(s)      == Request("readlink", s, NoArg)
utimes(s)        == Request("utimes", s, NoArg)

(* rename awaits readFile, writeFile and unlink, one after the other.      *)
rename(s, q) ==
    LET old == resolve(<<s>>)
        new == resolve(<<q>>)
    IN  /\ pending = Idle
        /\ Looked([Op("readFile", s, old, NoArg) EXCEPT !.then = "writeFile", !.new = new])

(* realpath. *)
MakeReal ==
    LET Real(o) ==
            IF Fails(o.a)
            THEN /\ pending' = Idle
                 /\ Ends(pending.name, pending.s, pending.s, pending.arg, FALSE, o)
            ELSE /\ pending' = [pending EXCEPT !.stage = "call"]
                 /\ last' = NoCall /\ UNCHANGED <<mounts, ready, trees>>
    IN  pending.stage = "realpath" /\ Real(CallAt(trees, "stat", pending.path, NoArg, FALSE))

LookAgain == pending.stage = "exists" /\ Looked(pending)

(* The call, and what rename goes on with.                                 *)
Continued(o) ==
    IF Fails(o.a) \/ pending.then = "done" THEN Idle
    ELSE IF pending.then = "writeFile"
    THEN [Op("writeFile", pending.new, pending.new, o.a.bytes)
            EXCEPT !.then = "unlink", !.old = pending.old]
    ELSE [Op("unlink", pending.old, pending.old, NoArg) EXCEPT !.stage = "call"]

GoesOn(o) ==
    /\ pending' = Continued(o)
    /\ Ends(pending.name, pending.s, pending.s, pending.arg, FALSE,
            WithMounts(pending.name, o, pending.path))

PerformNow ==
    /\ pending.stage = "call" /\ pending.name \notin DOMAIN Flag
    /\ GoesOn(CallAt(trees, pending.name, pending.path, pending.arg, FALSE))

Open ==
    LET flag == Flag[pending.name]
        o    == CallAt(trees, "open", pending.path, flag, FALSE)
        to   == Reached(mounts, pending.path)
        held == Buffer(o.a.t[to.x.way].val, flag, pending.arg)
    IN  /\ pending.stage = "call" /\ pending.name \in DOMAIN Flag
        /\ IF Fails(o.a) THEN GoesOn(o)
           ELSE /\ Len(held) <= MaxLen
                /\ pending' = [pending EXCEPT !.stage = "close",
                                 !.file = [vol |-> to.vol, x |-> to.x, bytes |-> held]]
                /\ Ends("open", pending.s, pending.s, pending.arg, FALSE, o)

Close ==
    LET f == pending.file
        a == syncSync(trees[f.vol], f.x, f.bytes)
    IN  /\ pending.stage = "close"
        /\ GoesOn(Outcome([trees EXCEPT ![f.vol] = a.t], <<>>, a))

-----------------------------------------------------------------------------
(* The mount table. *)
MountPoint(s) == resolve(<<IF isAbsolute(s) THEN s ELSE Root \o s>>)

Mounted(m, pt, fs) == [x \in DOMAIN m \union {pt} |-> IF x = pt THEN fs ELSE m[x]]
Unmounted(m, pt)   == [x \in DOMAIN m \ {pt} |-> m[x]]

TableChanges(m, name, s, ans) ==
    /\ mounts' = m
    /\ last' = Ended(name, s, s, NoArg, TRUE, Refused(trees, ans))
    /\ UNCHANGED <<ready, trees, pending>> /\ KeepsOff

Usable == Volumes \union ready

mountAsGiven(s, fs) ==  \* mutant of mount
    /\ fs \in Usable
    /\ IF s \in DOMAIN mounts THEN TableChanges(mounts, "mount", s, "EINVAL")
       ELSE TableChanges(Mounted(mounts, s, fs), "mount", s, "ok")
mount(s, fs) ==
    /\ fs \in Usable
    /\ IF MountPoint(s) \in DOMAIN mounts THEN TableChanges(mounts, "mount", s, "EINVAL")
       ELSE TableChanges(Mounted(mounts, MountPoint(s), fs), "mount", s, "ok")

umount(s) ==
    IF MountPoint(s) \notin DOMAIN mounts THEN TableChanges(mounts, "umount", s, "EINVAL")
    ELSE TableChanges(Unmounted(mounts, MountPoint(s)), "umount", s, "ok")

(* initialize: the root goes, if the mapping has one, and the mapping is   *)
(* mounted up to the first file system that is not available or point that *)
(* is in use; what is mounted by then stays, and the root stays away.      *)
initialize(mapping) ==
    LET points == {mapping[i].point : i \in 1 .. Len(mapping)}
        start  == IF Root \in points THEN Unmounted(mounts, Root) ELSE mounts
        Step(acc, e) ==
            IF acc.ans # "ok" THEN acc
            ELSE IF e.fs \in Unavailable \/ MountPoint(e.point) \in DOMAIN acc.m
            THEN [acc EXCEPT !.ans = "EINVAL"]
            ELSE [acc EXCEPT !.m = Mounted(@, MountPoint(e.point), e.fs)]
        end    == FoldLeft(Step, [m |-> start, ans |-> "ok"], mapping)
    IN  /\ \A i \in 1 .. Len(mapping) : mapping[i].fs \in Usable \union Unavailable
        /\ IF Root \in points /\ Root \notin DOMAIN mounts
           THEN TableChanges(mounts, "initialize", Root, "EINVAL")
           ELSE TableChanges(end.m, "initialize", Root, end.ans)

(* A FolderAdapter is created: it makes its folder.  That throws where the *)
(* folder is there already, and then there is no adapter.                  *)
CreateAdapter(a) ==
    LET r == Added(trees[Wrapped[a]], Located(Folder[a]), Dir)
        o == Outcome([trees EXCEPT ![Wrapped[a]] = r.t], <<>>, r)
    IN  /\ a \notin ready /\ Fits(o.trees)
        /\ trees' = o.trees
        /\ ready' = IF Fails(r) THEN ready ELSE ready \union {a}
        /\ last' = Ended("adapter", Folder[a], Folder[a], NoArg, FALSE, o)
        /\ UNCHANGED <<mounts, pending>> /\ KeepsOff

-----------------------------------------------------------------------------
(* The default root has been mounted. *)
Init ==
    /\ mounts = [pt \in {Root} |-> DefaultRoot]
    /\ ready = {} /\ pending = Idle
    /\ trees = [v \in Volumes |-> Bare]
    /\ last = NoCall

(* What only reads answers the same whether or not a call of the promise   *)
(* API is under way, and is called when none is.                           *)
Reads(s) ==
    {existsSync(s), statSync(s), accessSync(s), readFileSync(s), readdirSync(s),
     linkSync(s), symlinkSync(s), readlinkSync(s), utimesSync(s)}

Writes(s) ==
    {unlinkSync(s), mkdirSync(s), rmdirSync(s)}
    \union UNION {{writeFileSync(s, b), appendFileSync(s, b), truncateSync(s, b)} : b \in Data}

Followed(s) ==
    {stat(s), access(s), readFile(s), readdir(s), mkdir(s), rmdir(s), utimes(s)}
    \union UNION {{writeFile(s, b), appendFile(s, b), truncate(s, b)} : b \in Data}

NotFollowed(s) == {exists(s), lstat(s), unlink(s), link(s), symlink(s), readlink(s)}

SyncCalls ==
    \/ \E s \in Inputs : \/ pending = Idle /\ \E r \in Reads(s) : Sync(r)
                        \/ \E r \in Writes(s) : Sync(r)
    \/ \E pair \in SyncRenames : renameSync(pair[1], pair[2])

PromiseCalls == \E s \in AsyncInputs :
    \/ \E r \in Followed(s) : Promise(r)
    \/ \E r \in NotFollowed(s) : PromiseNow(r)

Next ==
    \/ SyncCalls
    \/ PromiseCalls
    \/ \E pair \in Renames : rename(pair[1], pair[2])
    \/ LookAgain \/ MakeReal \/ PerformNow \/ Open \/ Close
    \/ \E call \in MountCalls : mount(call.point, call.fs) \/ umount(call.point)
    \/ \E mapping \in Mappings : initialize(mapping)
    \/ \E a \in Adapters : CreateAdapter(a)

Spec == Init /\ [][Next]_vars

-----------------------------------------------------------------------------
Answers == {"none", "ok", "false", "EINVAL", "EIO", "ENOENT", "ENOTDIR", "EISDIR", "EEXIST",
            "ENOTEMPTY", "ENOTSUP", "Error"}

(* The types of the variables: in particular every mount point is the one  *)
(* absolute string of its names, or no path would ever begin with it, and  *)
(* the trees are trees.                                                    *)
MountsTypeOK ==
    /\ \A pt \in DOMAIN mounts : StringOf(Way(pt)) = pt /\ mounts[pt] \in Usable
    /\ ready \subseteq Adapters
    /\ trees \in [Volumes -> Trees]
    /\ \A v \in Volumes : \A p \in Ways :
          p # <<>> /\ trees[v][p] # None => trees[v][Parent(p)] = Dir
    /\ last.ans \in Answers

(* Where a path leads, by its names: of the mount points at or above it    *)
(* the lowest, and what lies below that.                                   *)
LeadsBy(s, pt) ==
    /\ pt \in DOMAIN mounts /\ IsPrefix(Way(pt), Way(s))
    /\ \A x \in DOMAIN mounts : IsPrefix(Way(x), Way(s)) => Len(Way(pt)) >= Len(Way(x))

PointAbove(s) == CHOOSE pt \in DOMAIN mounts : LeadsBy(s, pt)

Place(s) ==
    LET pt   == PointAbove(s)
        rest == Slice(Way(s), Len(Way(pt)))
        fs   == mounts[pt]
    IN  IF fs \in Volumes THEN [vol |-> fs, way |-> rest]
        ELSE [vol |-> Wrapped[fs], way |-> Way(Folder[fs]) \o rest]

(* A path goes astray where the longest mount point its string begins with *)
(* ends within a name: with a mount at /a, the path /ab.                   *)
Astray(s) ==
    LET path == StringOf(Way(s))
        fit  == {pt \in DOMAIN mounts : IsPrefix(pt, path)}
    IN  \E pt \in fit : /\ ~IsPrefix(Way(pt), Way(s))
                        /\ \A x \in fit : Len(x) <= Len(pt)

NodeAt(pl) == trees[pl.vol][pl.way]

Changed(pl, node) == trees' = [trees EXCEPT ![pl.vol][pl.way] = node]

(* What a file holds after writeFile, appendFile or truncate.              *)
Intended(name, old, arg) ==
    CASE name = "writeFile"  -> arg
      [] name = "appendFile" -> IF old = None THEN arg ELSE old.val \o arg
      [] name = "truncate"   ->
            IF Len(arg) <= Len(old.val) THEN SubSeq(old.val, 1, Len(arg))
            ELSE old.val \o [i \in 1 .. Len(arg) - Len(old.val) |-> "0"]

(* What a call is to do, where its path leads by its names; and the open   *)
(* of the file of a call of the promise API, which is to find that file,   *)
(* empty it or make it, and hold what its close is to write.               *)
Does(c) ==
    LET pl  == Place(c.s)
        to  == Place(c.to)
        old == NodeAt(pl)
        f   == pending'.file
    IN  CASE c.name = "mkdir" -> old = None /\ Changed(pl, Dir)
          [] c.name \in DOMAIN Flag ->
                /\ IF c.name = "truncate" THEN IsFile(old) ELSE old # Dir
                /\ Changed(pl, File(Intended(c.name, old, c.arg)))
          [] c.name = "open" ->
                /\ f.vol = pl.vol /\ f.x.way = pl.way
                /\ f.bytes = Intended(pending.name, old, c.arg)
                /\ IF old = None \/ pending.name = "writeFile" THEN Changed(pl, File(<<>>))
                   ELSE UNCHANGED trees
                /\ old # Dir /\ (pending.name = "truncate" => old # None)
          [] c.name = "unlink" -> IsFile(old) /\ Changed(pl, None)
          [] c.name = "rmdir" ->
                old = Dir /\ Children(trees[pl.vol], pl.way) = {} /\ Changed(pl, None)
          [] c.name = "rename" /\ pl # to ->
                /\ IsFile(old) /\ NodeAt(to) # Dir
                /\ trees' = [[trees EXCEPT ![to.vol][to.way] = old] EXCEPT ![pl.vol][pl.way] = None]
          [] c.name = "readFile" -> UNCHANGED trees /\ (IsFile(old) => c.bytes = old.val)
          [] c.name = "adapter" -> \E v \in Volumes :
                trees[v][Way(c.s)] = None /\ trees' = [trees EXCEPT ![v][Way(c.s)] = Dir]
          [] c.name \in {"stat", "access", "exists", "readdir"} -> UNCHANGED trees /\ old # None
          [] OTHER -> TRUE

(* The close of such a file writes it where it was opened, whatever was    *)
(* called or mounted since, if there is a node by then; nothing stays      *)
(* below a directory that it writes over.                                  *)
Closes(c) == ~c.sync /\ c.name \in DOMAIN Flag /\ pending.stage = "close"

WritesBack ==
    LET f     == pending.file
        below == {p \in Ways : p # f.x.way /\ IsPrefix(f.x.way, p)}
    IN  /\ trees[f.vol][f.x.way] # None
        /\ trees' = [trees EXCEPT ![f.vol] =
              [p \in Ways |-> IF p = f.x.way THEN File(f.bytes)
                              ELSE IF p \in below THEN None ELSE @[p]]]

(* A call that succeeds has done what it is to do where its path leads by  *)
(* its names, however the path is written and whatever is mounted where    *)
(* and called between its awaits, and nothing anywhere else, if its paths  *)
(* do not go astray.  A call that throws has done nothing, but for what    *)
(* the open of a call of the promise API did before its close threw.       *)
(* (renameSync onto the file itself removes it, and of an empty directory  *)
(* writes a file before it fails.)                                         *)
ActsInPlace ==
    [][LET c == last'
           astray == Astray(c.s) \/ Astray(c.to)
       IN  CASE c.ans # "ok" ->
                   UNCHANGED trees \/ (c.name = "rename" /\ (astray \/ NodeAt(Place(c.s)) = Dir))
             [] c.ans = "ok" /\ Closes(c) -> WritesBack
             [] OTHER -> astray \/ Does(c)]_vars

(* readdir lists what is there: every node of the directory and, for the   *)
(* root, every mount point one name below it; and beyond these only names  *)
(* that lead to a mount point, or would if the path ended with a slash: of *)
(* a file system at /ab, readdir of /a lists b.                            *)
ListsWhatIsThere ==
    [][LET c    == last'
           dir  == StringOf(Way(c.s))
           pl   == Place(c.s)
           here == {f \in Names : Append(pl.way, f) \in Ways /\ trees[pl.vol][Append(pl.way, f)] # None}
           cut  == {f \in c.list : f # <<>> /\ dir \o f \in DOMAIN mounts}
           top  == {f \in Names : dir = Root /\ Root \o f \in DOMAIN mounts}
       IN  c.name = "readdir" /\ c.ans = "ok" /\ ~Astray(c.s) =>
              here \union top \subseteq c.list /\ c.list \subseteq here \union cut]_vars

(* The path in an error of the synchronous API is that of the call or of a *)
(* directory above it, in the terms of the file system that is mounted:    *)
(* an adapter does not answer in those of the file system it wraps.  (Of a *)
(* path that does not go astray.)                                          *)
ErrorsNamePath ==
    [][LET c == last'
       IN  c.sync /\ Len(c.at) > 0 /\ c.name # "rename" /\ ~Astray(c.s) =>
              IsPrefix(Way(c.point) \o Way(c.at), Way(c.s))]_vars
=============================================================================
