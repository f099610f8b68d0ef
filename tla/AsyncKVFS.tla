------------------------------ MODULE AsyncKVFS -----------------------------
(***************************************************************************)
(* AsyncKeyValueFileSystem: the tree of KVNodes in an asynchronous store,  *)
(* with a cache from paths to node ids.  A call does its first steps at    *)
(* once (it looks in the cache, drops what it is going to remove), begins  *)
(* a transaction and awaits; the store runs the transactions one after     *)
(* another in the order they were begun, as IndexedDB does.  What a call   *)
(* does next, another transaction with it, follows when the one before has *)
(* ended: other calls come in between.  The closing of a file is not       *)
(* awaited: its transaction is left behind in the queue.                   *)
(***************************************************************************)
EXTENDS KVNodes, Integers, FiniteSets

CONSTANTS
    UsedPaths,       \* paths the callers use
    MaxNodes,        \* bound: inodes in the store
    MaxLen,          \* bound: bytes in a file
    MaxQueue,        \* bound: transactions waiting
    CacheSize,       \* limit of the LRU cache, where there is one
    FileNames,       \* names the callers use for files, the others for directories
    WriteFlags,      \* flags files are written with
    Modes,           \* permissions that are asked for
    Users,           \* credentials of the callers
    randomUUID(_)    \* the ids the generator may give beside those in use

ASSUME AsyncAssumption ==
    /\ UsedPaths \subseteq Paths /\ MaxNodes \in Nat \ {0} /\ MaxLen \in Nat /\ MaxQueue \in Nat
    /\ CacheSize \in Nat /\ CacheSize > 1
    /\ FileNames \subseteq Names /\ WriteFlags \subseteq Flags \ {"rs", "rs+"}
    /\ Modes \subseteq Perms /\ Users \subseteq Creds /\ Users # {}
    /\ \A S \in SUBSET Ids : randomUUID(S) \subseteq Ids \ S

VARIABLES
    store,    \* what the transactions that have ended left in the store
    cached,   \* whether there is a cache (cacheSize > 0)
    cacheOn,  \* whether _cache is set: it is not while a rename is under way
    cache,    \* its entries, the one used last first
    queue,    \* transactions that were begun and have not ended
    ret,      \* what the last call to end answered
    raced     \* history: paths that were dropped from the cache to be unlinked
              \* while a lookup that may put them back was waiting

vars == <<store, cached, cacheOn, cache, queue, ret, raced>>

-----------------------------------------------------------------------------
(* The LRU cache. *)
Entry(p, n) == [path |-> p, id |-> n]

Has(c, p) == \E i \in 1 .. Len(c) : c[i].path = p

At(c, p) == CHOOSE i \in 1 .. Len(c) : c[i].path = p

Value(c, p) == c[At(c, p)].id

lruRemoveNothing(c, p) == c  \* mutant of lruRemove
lruRemove(c, p) ==
    IF Has(c, p) THEN SubSeq(c, 1, At(c, p) - 1) \o SubSeq(c, At(c, p) + 1, Len(c)) ELSE c

lruSetUnbounded(c, p, n) == <<Entry(p, n)>> \o lruRemove(c, p)  \* mutant of lruSet
lruSet(c, p, n) ==
    <<Entry(p, n)>> \o
        IF Has(c, p) THEN lruRemove(c, p)
        ELSE SubSeq(c, 1, IF Len(c) < CacheSize THEN Len(c) ELSE CacheSize - 1)

lruGet(c, p) == IF Has(c, p) THEN lruSet(c, p, Value(c, p)) ELSE c

-----------------------------------------------------------------------------
Prefix(p, i) == SubSeq(p, 1, i)

(* The start of _findINode, before its first await: from the path upwards, *)
(* the first that the cache has; the root is known without it, and only    *)
(* looked up there for itself.                                             *)
Begin(on, c, p) ==
    LET known == {i \in 1 .. Len(p) : Has(c, Prefix(p, i))}
        level == CHOOSE i \in known : \A j \in known : j <= i
    IN  IF on /\ known # {}
        THEN [from |-> level, id |-> Value(c, Prefix(p, level)),
              cache |-> lruGet(c, Prefix(p, level))]
        ELSE [from |-> 0, id |-> Root,
              cache |-> IF on /\ p = <<>> THEN lruSet(c, p, Root) ELSE c]

(* The rest of it, in the transaction: the ids of the path from where the  *)
(* start found something, or the error that stops there.                   *)
Found(s, p, b) ==
    LET node[i \in b.from .. Len(p)] ==
            IF i = b.from THEN b.id ELSE Child(s, node[i - 1], p[i])
    IN  node

FoundId(s, p, b) == Found(s, p, b)[Len(p)]

(* What was found is put into the cache, if there is one by now. *)
Remembered(c, s, p, b) ==
    LET node == Found(s, p, b)
        after[i \in b.from .. Len(p)] ==
            IF i = b.from THEN c
            ELSE IF node[i] \in Ids THEN lruSet(after[i - 1], Prefix(p, i), node[i])
            ELSE after[i - 1]
    IN  IF cacheOn THEN after[Len(p)] ELSE c

-----------------------------------------------------------------------------
(* What is to be done with a file once it is open.                         *)
ToWrite(data)   == [do |-> "write", data |-> data, len |-> 0]
ToAppend(data)  == [do |-> "append", data |-> data, len |-> 0]
ToTruncate(len) == [do |-> "truncate", data |-> <<>>, len |-> len]
ToRead          == [do |-> "read", data |-> <<>>, len |-> 0]

(* A transaction in the queue: the step of the call it belongs to, with    *)
(* the path it looks up and what the start of the lookup found.            *)
Tx(step, p, look, b) ==
    [step |-> step, p |-> p, look |-> look, from |-> b.from, id |-> b.id,
     q |-> <<>>, flag |-> "r", mode |-> {}, want |-> ToRead, buf |-> <<>>,
     stats |-> [mode |-> {}, uid |-> 0], saved |-> FALSE, cred |-> CHOOSE u \in Users : TRUE]

tx == Head(queue)

InUse == Used(store) \union {cache[i].id : i \in 1 .. Len(cache)}
            \union {queue[i].id : i \in 1 .. Len(queue)}

NewIds == UNION {{<<i, j>> : j \in randomUUID(InUse \union {i})} : i \in randomUUID(InUse)}

(* The lookup of the transaction that runs, and the cache after it. *)
Node == FoundId(store, tx.look, tx)

Known == Remembered(cache, store, tx.look, tx)

(* A transaction ends with this in the store; the call has answered, or    *)
(* goes on with another one.                                               *)
Ends(st, answer) ==
    /\ store' = st /\ ret' = answer /\ cache' = Known
    /\ queue' = Tail(queue)
    /\ UNCHANGED <<cached, cacheOn, raced>>

GoesOn(st, next) ==
    LET b == Begin(cacheOn, Known, next.look)
    IN  /\ store' = st /\ cache' = b.cache
        /\ queue' = Tail(queue) \o <<[next EXCEPT !.from = b.from, !.id = b.id]>>
        /\ UNCHANGED <<cached, cacheOn, ret, raced>>

Fails(e) == Ends(store, e)

-----------------------------------------------------------------------------
(* stat *)
StatError(n, cred) ==
    IF INodeError(store, n) # "ok" THEN INodeError(store, n)
    ELSE IF ~Access(store, n, R_OK, cred) THEN "EACCES" ELSE "ok"

Stat == tx.step = "stat" /\ Fails(StatError(Node, tx.cred))

(* commitNewFile: what is wrong, and the store with the new node. *)
NewFileError ==
    LET f == basename(tx.p)
    IN  IF ListingError(store, Node) # "ok" THEN ListingError(store, Node)
        ELSE IF ~Access(store, Node, W_OK, tx.cred) THEN "EACCES"
        ELSE IF tx.p = <<>> \/ entries(store, Node)[f] # NoEntry THEN "EEXIST"
        ELSE "ok"

commitNewFile(type, data, new) ==
    [store EXCEPT
        ![new[1]] = data,
        ![new[2]] = Inode(new[1], DataLen(data), type, tx.mode, tx.cred.uid, tx.cred.gid),
        ![store[Node].id] = Listing([entries(store, Node) EXCEPT ![basename(tx.p)] = new[2]])]

Mkdir ==
    /\ tx.step = "mkdir"
    /\ IF NewFileError # "ok" THEN Fails(NewFileError)
       ELSE \E new \in NewIds : Ends(commitNewFile("dir", Listing(NoEntries), new), "ok")

(* removeEntry; its first step, at the call, was to drop the path from the *)
(* cache.                                                                  *)
RemoveError(isDir) ==
    LET n == entries(store, Node)[basename(tx.p)]
    IN  IF ListingError(store, Node) # "ok" THEN ListingError(store, Node)
        ELSE IF n = NoEntry THEN "ENOENT"
        ELSE IF INodeError(store, n) # "ok" THEN INodeError(store, n)
        ELSE IF ~Access(store, n, W_OK, tx.cred) THEN "EACCES"
        ELSE IF ~isDir /\ store[n].type = "dir" THEN "EISDIR"
        ELSE IF isDir /\ store[n].type # "dir" THEN "ENOTDIR"
        ELSE "ok"

DeletedNode(s, n) == [s EXCEPT ![n] = Absent]  \* mutant of Deleted
Deleted(s, n) == [s EXCEPT ![s[n].id] = Absent, ![n] = Absent]

Removed ==
    LET list == entries(store, Node)
        f    == basename(tx.p)
    IN  [Deleted(store, list[f]) EXCEPT
            ![store[Node].id] = Listing([list EXCEPT ![f] = NoEntry])]

removeEntry(isDir) ==
    IF RemoveError(isDir) # "ok" THEN Fails(RemoveError(isDir)) ELSE Ends(Removed, "ok")

Unlink == tx.step = "unlink" /\ removeEntry(FALSE)

(* rmdir reads the directory in one transaction, and removes it in another. *)
DirEntry(p, cred) ==
    LET b == Begin(cacheOn, lruRemove(Known, p), dirname(p))
    IN  /\ store' = store /\ cache' = b.cache
        /\ queue' = Tail(queue) \o <<[Tx("rmdir", p, dirname(p), b) EXCEPT !.cred = cred]>>
        /\ UNCHANGED <<cached, cacheOn, ret, raced>>

ReadDir ==
    LET e == IF StatError(Node, tx.cred) # "ok" THEN StatError(Node, tx.cred)
             ELSE ListingError(store, Node)
    IN  /\ tx.step = "readdir"
        /\ IF e # "ok" THEN Fails(e)
           ELSE IF entries(store, Node) # NoEntries THEN Fails("ENOTEMPTY")
           ELSE DirEntry(tx.p, tx.cred)

Rmdir == tx.step = "rmdir" /\ removeEntry(TRUE)

(* rename.  Its first step, at the call, was to empty the cache and take   *)
(* it away; it is given back when the transaction is over.                 *)
Returned(st, answer) ==
    /\ store' = st /\ ret' = answer
    /\ cache' = Known /\ cacheOn' = (cacheOn \/ tx.saved)
    /\ queue' = Tail(queue)
    /\ UNCHANGED <<cached, raced>>

IsInsideItself(oldPath, newParent) ==
    IF oldPath = <<>> \/ newParent = <<>> THEN oldPath = newParent
    ELSE IsAtOrAbove(oldPath, newParent)

(* The listing the new name goes into: the old one where they are the same *)
(* directory's, not read again with the old name still in it.              *)
NewListingReadAgain(newDir, oldList) == entries(store, newDir)  \* mutant of NewListing
NewListing(newDir, oldList) ==
    IF dirname(tx.q) = dirname(tx.p) THEN oldList ELSE entries(store, newDir)

Moved(oldDir, newDir) ==
    LET oldName == basename(tx.p)
        newName == basename(tx.q)
        oldList == [entries(store, oldDir) EXCEPT ![oldName] = NoEntry]
        newList == NewListing(newDir, oldList)
        target  == newList[newName]
        cleared == IF target = NoEntry THEN store ELSE Deleted(store, target)
    IN  IF target # NoEntry /\ INodeError(store, target) # "ok"
        THEN Returned(store, INodeError(store, target))
        ELSE IF target # NoEntry /\ store[target].type # "file" THEN Returned(store, "EPERM")
        ELSE Returned([cleared EXCEPT
                ![store[oldDir].id] = Listing(oldList),
                ![store[newDir].id] =
                    Listing([newList EXCEPT ![newName] = entries(store, oldDir)[oldName]])], "ok")

Rename ==
    LET newDir == IF dirname(tx.q) = dirname(tx.p) THEN Node
                  ELSE FoundId(store, dirname(tx.q), Begin(cacheOn, Known, dirname(tx.q)))
    IN  /\ tx.step = "rename"
        /\ IF ListingError(store, Node) # "ok" THEN Returned(store, ListingError(store, Node))
           ELSE IF ~Access(store, Node, W_OK, tx.cred) THEN Returned(store, "EACCES")
           ELSE IF entries(store, Node)[basename(tx.p)] = NoEntry THEN Returned(store, "ENOENT")
           ELSE IF IsInsideItself(tx.p, dirname(tx.q)) THEN Returned(store, "EBUSY")
           ELSE IF ListingError(store, newDir) # "ok"
           THEN Returned(store, ListingError(store, newDir))
           ELSE Moved(Node, newDir)

-----------------------------------------------------------------------------
(* open.  Whatever fails in its try block, the wish not to find the file   *)
(* and the truncation included, counts as the file not being there.        *)
NotFound ==
    IF pathNotExistsAction(tx.flag) = "THROW_EXCEPTION" THEN Fails("ENOENT")
    ELSE GoesOn(store, [tx EXCEPT !.step = "parentStat", !.look = dirname(tx.p)])

OpenStat ==
    /\ tx.step = "openStat"
    /\ IF StatError(Node, tx.cred) # "ok" \/ pathExistsAction(tx.flag) = "THROW_EXCEPTION"
       THEN NotFound
       ELSE GoesOn(store, [tx EXCEPT !.step = "openFile"])

(* openFile, with the check of PreloadFile's constructor. *)
OpenError ==
    IF INodeError(store, Node) # "ok" THEN INodeError(store, Node)
    ELSE IF ~Access(store, Node, getMode(tx.flag), tx.cred) THEN "EACCES"
    ELSE IF store[store[Node].id].kind = "absent" THEN "ENOENT"
    ELSE IF isReadable(tx.flag) /\ store[Node].size # DataLen(store[store[Node].id]) THEN "Error"
    ELSE "ok"

Buffer(b, want) ==
    CASE want.do = "write"  -> Overlay(b, 0, want.data)
      [] want.do = "append" -> Overlay(b, Len(b), want.data)
      [] OTHER              -> [i \in 1 .. want.len |-> IF i <= Len(b) THEN b[i] ELSE 0]

(* The file is open, with what b holds: writeFile, appendFile and truncate *)
(* change it and close it, which begins a transaction nobody waits for; to *)
(* read it begins none.  A file that may not be written is stored as it is.*)
Use(st, stats, b) ==
    LET bytes == IF isWriteable(tx.flag) THEN Buffer(b, tx.want) ELSE b
        start == Begin(cacheOn, Known, tx.p)
    IN  IF tx.want.do = "read" THEN Ends(st, "ok")
        ELSE /\ store' = st /\ cache' = start.cache
             /\ queue' = Append(Tail(queue),
                    [Tx("close", tx.p, tx.p, start) EXCEPT !.buf = bytes, !.stats = stats])
             /\ ret' = IF isWriteable(tx.flag) THEN "ok" ELSE "EPERM"
             /\ UNCHANGED <<cached, cacheOn, raced>>

StatsOf(inode) == [mode |-> inode.mode, uid |-> inode.uid]

OpenFile ==
    LET truncating == pathExistsAction(tx.flag) = "TRUNCATE_FILE"
    IN  /\ tx.step = "openFile"
        /\ IF OpenError # "ok" THEN IF truncating THEN NotFound ELSE Fails(OpenError)
           ELSE IF truncating
           THEN GoesOn(store, [tx EXCEPT !.step = "truncated", !.stats = StatsOf(store[Node])])
           ELSE Use(store, StatsOf(store[Node]), Text(store[store[Node].id]))

ParentStat ==
    /\ tx.step = "parentStat"
    /\ IF StatError(Node, tx.cred) # "ok" THEN Fails(StatError(Node, tx.cred))
       ELSE IF store[Node].type # "dir" THEN Fails("ENOTDIR")
       ELSE GoesOn(store, [tx EXCEPT !.step = "create"])

Create ==
    /\ tx.step = "create"
    /\ IF NewFileError # "ok" THEN Fails(NewFileError)
       ELSE \E new \in NewIds : 
              Use(commitNewFile("file", Data(<<>>), new),
                  [mode |-> tx.mode, uid |-> tx.cred.uid], <<>>)

(* An inode with the size, mode and owner of a file's stats.               *)
Restat(i, size, stats) == [i EXCEPT !.size = size, !.mode = stats.mode, !.uid = stats.uid]

(* _sync: the buffer and the stats go to whatever the path leads to by now. *)
Stored(b) ==
    [store EXCEPT ![store[Node].id] = Data(b), ![Node] = Restat(@, Len(b), tx.stats)]

(* The sync that ends a truncation in open. *)
Truncated ==
    /\ tx.step = "truncated"
    /\ IF INodeError(store, Node) # "ok" THEN NotFound
       ELSE Use(Stored(<<>>), tx.stats, <<>>)

(* The sync of a close: where it fails it is an unhandled rejection. *)
Close ==
    /\ tx.step = "close"
    /\ IF INodeError(store, Node) # "ok" THEN Fails(INodeError(store, Node))
       ELSE Ends(Stored(tx.buf), "ok")

-----------------------------------------------------------------------------
(* empty clears the store, and makes the root again in a transaction.      *)
Clear ==
    /\ tx.step = "clear"
    /\ store' = [k \in Ids |-> Absent]
    /\ queue' = Append(Tail(queue), [tx EXCEPT !.step = "makeRoot"])
    /\ UNCHANGED <<cached, cacheOn, cache, ret, raced>>

rootOf(s, i) ==
    [s EXCEPT ![i] = Listing(NoEntries), ![Root] = Inode(i, RootSize, "dir", 0 .. 8, 0, 0)]

makeRootDirectory ==
    /\ tx.step = "makeRoot"
    /\ IF store[Root] # Absent THEN Ends(store, "ok")
       ELSE \E i \in randomUUID(InUse \union {Root}) : Ends(rootOf(store, i), "ok")

(* A request of a transaction is rejected, which changes nothing in the    *)
(* store: the call fails; open takes it for a file that is not there.      *)
Rejects ==
    LET caught == \/ tx.step \in {"openStat", "truncated"}
                  \/ tx.step = "openFile" /\ pathExistsAction(tx.flag) = "TRUNCATE_FILE"
    IN  IF caught THEN NotFound
        ELSE IF tx.step = "rename" THEN Returned(store, "EIO")
        ELSE Fails("EIO")

Init ==
    /\ \E i \in randomUUID({Root}) : store = rootOf([k \in Ids |-> Absent], i)
    /\ cached \in BOOLEAN /\ cacheOn = cached
    /\ cache = <<>> /\ queue = <<>> /\ ret = "ok" /\ raced = {}

-----------------------------------------------------------------------------
(* What is called, and when.  Calls overlap, but none is made while a      *)
(* directory is being removed or the store emptied; nor is a second rename *)
(* where there is a cache, which the first would give back too early.      *)
Steps == {queue[i].step : i \in 1 .. Len(queue)}

MayCall ==
    /\ Len(queue) < MaxQueue
    /\ Steps \intersect {"readdir", "rmdir", "clear", "makeRoot"} = {}

IsFileName(p) == basename(p) \in FileNames

(* Room for the nodes the calls under way may make. *)
HasRoom ==
    Cardinality(InodeIds(store))
      + Cardinality({i \in 1 .. Len(queue) :
            queue[i].step \notin {"stat", "unlink", "rename", "close"}}) < MaxNodes

(* A lookup is waiting that may put p into the cache. *)
Waiting(p) == \E i \in 1 .. Len(queue) : IsAtOrAbove(p, queue[i].look)

(* The paths of P are dropped from the cache: those that come back, though *)
(* they may lead nowhere by then, are the ones a lookup is waiting for.    *)
Dropped(P) == {p \in raced \union P : p \in P => Waiting(p)}

Calls(t, c, on, r) ==
    LET b == Begin(on, c, t.look)
    IN  /\ MayCall
        /\ cache' = b.cache /\ cacheOn' = on /\ raced' = r
        /\ queue' = Append(queue, [t EXCEPT !.from = b.from, !.id = b.id])
        /\ UNCHANGED <<store, cached, ret>>

Fresh(step, p, look, cred) ==
    [Tx(step, p, look, Begin(FALSE, cache, look)) EXCEPT !.cred = cred]

CallStat(p, cred) == Calls(Fresh("stat", p, p, cred), cache, cacheOn, raced)

CallMkdir(p, mode, cred) ==
    /\ HasRoom /\ ~IsFileName(p)
    /\ Calls([Fresh("mkdir", p, dirname(p), cred) EXCEPT !.mode = mode], cache, cacheOn, raced)

CallUnlink(p, cred) ==
    Calls(Fresh("unlink", p, dirname(p), cred), lruRemove(cache, p), cacheOn, Dropped({p}))

CallRmdir(p, cred) ==
    Steps \subseteq {"close"} /\ Calls(Fresh("readdir", p, p, cred), cache, cacheOn, raced)

CallRenameKeepsCache(p, q, cred) ==  \* mutant of CallRename
    /\ q # <<>> /\ (p # <<>> => IsFileName(p) = IsFileName(q))
    /\ cached => "rename" \notin Steps
    /\ Calls([Fresh("rename", p, dirname(p), cred) EXCEPT !.q = q, !.saved = cacheOn],
             cache, FALSE, Dropped(raced))
CallRename(p, q, cred) ==
    /\ q # <<>> /\ (p # <<>> => IsFileName(p) = IsFileName(q))
    /\ cached => "rename" \notin Steps
    /\ Calls([Fresh("rename", p, dirname(p), cred) EXCEPT !.q = q, !.saved = cacheOn],
             <<>>, FALSE, Dropped(raced))

(* writeFile, appendFile, truncate and readFile all begin with open. *)
CallOpen(p, flag, mode, want, cred) ==
    /\ HasRoom /\ IsFileName(p)
    /\ want.do = "append" =>
          /\ "openFile" \notin Steps /\ "openStat" \notin Steps
          /\ \A n \in InodeIds(store) : store[n].type = "file" => store[n].size < MaxLen
    /\ Calls([Fresh("openStat", p, p, cred)
                EXCEPT !.flag = flag, !.mode = mode, !.want = want], cache, cacheOn, raced)

(* empty looks nothing up. *)
CallEmpty(cred) ==
    /\ MayCall /\ queue = <<>>
    /\ cache' = <<>> /\ raced' = {}
    /\ queue' = <<Fresh("clear", <<>>, <<>>, cred)>>
    /\ UNCHANGED <<store, cached, cacheOn, ret>>

Call == \E p \in UsedPaths, cred \in Users :
    \/ CallStat(p, cred)
    \/ CallUnlink(p, cred)
    \/ CallRmdir(p, cred)
    \/ CallEmpty(cred)
    \/ \E q \in UsedPaths : CallRename(p, q, cred)
    \/ \E mode \in Modes :
          \/ CallMkdir(p, mode, cred)
          \/ \E flag \in WriteFlags, x \in Bytes :
                \/ isTruncating(flag) /\ CallOpen(p, flag, mode, ToWrite(<<x>>), cred)
                \/ isAppendable(flag) /\ CallOpen(p, flag, mode, ToAppend(<<x>>), cred)
          \/ \E len \in 0 .. MaxLen : CallOpen(p, "r+", mode, ToTruncate(len), cred)
          \/ CallOpen(p, "r", mode, ToRead, cred)

Run ==
    /\ queue # <<>>
    /\ \/ Stat \/ Mkdir \/ Unlink \/ ReadDir \/ Rmdir \/ Rename
       \/ OpenStat \/ OpenFile \/ ParentStat \/ Create \/ Truncated \/ Close
       \/ Clear \/ makeRootDirectory
       \/ Rejects

Next == Call \/ Run

Spec == Init /\ [][Next]_vars

-----------------------------------------------------------------------------
Stats == [mode : Perms, uid : Uids]

AsyncErrors == Errors \union {"EIO"}

(* The types of the variables: in particular the cache has no path twice   *)
(* and never more entries than its limit.                                  *)
AsyncTypeOK ==
    /\ store \in Stores /\ ret \in AsyncErrors \union {"ok"}
    /\ cached \in BOOLEAN /\ cacheOn \in BOOLEAN
    /\ Len(cache) <= CacheSize
    /\ \A i, j \in 1 .. Len(cache) : cache[i].path = cache[j].path => i = j
    /\ \A i \in 1 .. Len(cache) : cache[i].path \in Paths /\ cache[i].id \in Ids
    /\ raced \in SUBSET UsedPaths
    /\ \A i \in 1 .. Len(queue) :
          queue[i].id \in Ids /\ queue[i].stats \in Stats /\ queue[i].buf \in Seq(Bytes)

(* All the paths a tree of at most MaxNodes nodes can have. *)
TreePaths == UNION {[1 .. n -> Names] : n \in 0 .. MaxNodes - 1}

(* No listing names a node that is gone, and no inode is without its data. *)
NoDangling == NoDanglingIn(store) \/ Used(store) = {}

(* Nothing is left in the store that no path leads to: no file is made in  *)
(* a directory that is being removed.                                      *)
NoLeak ==
    \A k \in Used(store) : \E p \in TreePaths :
        LET n == FindId(store, p) IN n \in Ids /\ (k = n \/ k = store[n].id)

(* The size in an inode is the length of the data, though files are opened,*)
(* written and closed in several transactions each.                        *)
SizeExact ==
    \A n \in InodeIds(store) :
        store[n].type = "file" => store[n].size = DataLen(store[store[n].id])

(* The node graph is sound whatever other calls' transactions come between *)
(* those of a call.                                                        *)
GraphSound == NoDangling /\ NoLeak /\ SizeExact

(* What the cache says is so, whatever calls are under way: the path leads *)
(* to the node.  Only where a lookup was waiting when its path was dropped *)
(* to be unlinked may an entry be left of a node that is gone; never does  *)
(* one lead to another file or directory than its path.                    *)
CacheCoherent ==
    \A i \in 1 .. Len(cache) :
        \/ FindId(store, cache[i].path) = cache[i].id
        \/ cache[i].id \notin InodeIds(store) /\ cache[i].path \in raced

(* What was written is stored by the transaction of the close nobody waits *)
(* for, whatever is called before it runs: where its path leads to a file, *)
(* that file has the bytes and their length then and no other key changes, *)
(* unless the store rejected it or the path, or one above it, was unlinked *)
(* while a lookup was waiting for it.                                      *)
CloseStores ==
    [][Run /\ tx.step = "close" /\ ret' # "EIO" =>
          LET n == FindId(store, tx.p)
          IN  n \in InodeIds(store) =>
                  \/ /\ store'[store[n].id] = Data(tx.buf) /\ store'[n].size = Len(tx.buf)
                     /\ \A k \in Ids \ {n, store[n].id} : store'[k] = store[k]
                  \/ store' = store /\ \E r \in raced : IsAtOrAbove(r, tx.p)]_vars

(* What a path leads to. *)
NodeAt(p) ==
    LET n == FindId(store, p)
    IN  IF p = <<>> THEN [kind |-> "dir"]
        ELSE IF n \notin Ids THEN [kind |-> "none"]
        ELSE IF store[n].type = "dir" THEN [kind |-> "dir"]
        ELSE [kind |-> "file", val |-> store[store[n].id].val]

Tree == INSTANCE FileTree WITH
            TreePaths <- TreePaths, tree <- [p \in TreePaths |-> NodeAt(p)]

(* Whatever other calls do in between, each transaction makes the one      *)
(* change to the tree that its call is for, and does it if and only if the *)
(* call answers that it was done: a call that fails has changed nothing,   *)
(* but for an open that has truncated or made its file by then.            *)
TreeStep ==
    IF queue = <<>> \/ Len(queue') > Len(queue) THEN UNCHANGED store
    ELSE CASE tx.step = "mkdir" -> IF ret' = "ok" THEN Tree!MakeDir(tx.p) ELSE UNCHANGED store
           [] tx.step \in {"unlink", "rmdir"} ->
                 IF ret' = "ok" THEN Tree!Remove(tx.p) ELSE UNCHANGED store
           [] tx.step = "rename" ->
                 IF ret' # "ok" THEN UNCHANGED store
                 ELSE IF tx.p # tx.q THEN Tree!Move(tx.p, tx.q) ELSE Tree!Refuse
           [] tx.step \in {"create", "truncated", "close"} ->
                 UNCHANGED store \/ Tree!SetFile(tx.p)
           [] tx.step = "clear" -> UNCHANGED store \/ Tree!Clear
           [] tx.step = "makeRoot" -> Tree!Refuse
           [] OTHER -> UNCHANGED store

TreeSteps == [][TreeStep]_vars
=============================================================================
