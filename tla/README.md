# browser-fs-core in TLA+

browser-fs-core gives a browser Node's `fs` API over file systems it calls
backends. The program is single-threaded: what runs between two `await`s is one
step, and what goes wrong goes wrong between steps, in sequences of legal calls,
or when one call of several fails. This directory models its core, checks it
with TLC, and proves with TLAPS what holds for all sizes.

Sources are under `src/src/`, tests under `src/test/`. `PROJECT.json` lists
components, runs, mutants, the lines every definition stands for, findings,
hazards and theorems.

## The system

| Component | State | Operations | Talks to |
|---|---|---|---|
| API (`emulation/promises.ts`, `callbacks.ts`, `sync.ts`) | file descriptor map | Node's `fs` calls | the mount table, then one file system |
| Mount table (`emulation/shared.ts`) | mount points, next descriptor, credentials | `mount`, `umount`, `resolveFS`, `getFdForFile` | file systems |
| `BaseFileSystem`, `SynchronousFileSystem` (`filesystem.ts`) | none | `open`, `readFile`, `writeFile`, ... from the primitive operations | the backend |
| `PreloadFile` (`file.ts`) | buffer, stats, position, dirty flag | `read`, `write`, `truncate`, `sync`, `close` | its file system's sync |
| `FileFlag`, `Stats`, `Inode` | a flag; mode and owner; an inode | predicates, `hasAccess`, serialisation | - |
| `SyncStore.ts`, `InMemory.ts` | a map of keys to bytes; a transaction's stash | `get`, `put`, `del`, `commit`, `abort`; the whole file system | - |
| `AsyncStore.ts` | the same behind promises, and an LRU path cache | the same, with awaits | an asynchronous store |
| `OverlayFS.ts` | deleted paths, deletion log and its flags | a writable view of two file systems | both file systems |
| `Locked.ts`, `mutex.ts` | waiters per path | one call per path at a time | the file system inside |
| `AsyncMirror.ts` | queue of operations | synchronous view of an asynchronous file system | both |
| `FolderAdapter.ts` | a folder's path | forwarding, with paths put below the folder | a file system |
| `emulation/path.ts` | none | Node's path functions | - |
| `FileIndex.ts` | an index of directories | adding and removing paths | nobody |
| `streams.ts`, `dir.ts` | a position, a list | Node's streams and `Dir` | the promise API |
| `index.ts`, `backend.ts`, `ApiError.ts`, `cred.ts`, `utils.ts` | none | configuration, errors, encodings | - |

What is hard, and the properties that would go wrong:

- *Sequences of calls on the node graph.* Listings and inodes are rewritten with
  separate puts: no dangling entry, no node in two places, no node out of reach,
  sizes that match the data, and the behaviour of a plain tree.
- *Failures in the middle.* `abort` must restore the old values exactly; a call
  that throws should have changed nothing.
- *Asynchronous writes next to synchronous calls.* The deletion log is written in
  the background while files are being deleted; nothing may be overwritten out of
  order, forgotten, or lost with the page.
- *Waiting.* The per-path mutex hands a path over by a timer: exclusion in the gap,
  service in turn, nobody waiting for ever.
- *Stale state.* Open files whose paths are renamed, removed or taken by something
  else; the path cache; descriptors in use while they are closed; a mount table that
  changes between the awaits of a call.
- *What nobody awaits.* `close` does not wait for the store, and a file may be
  written while it is stored.
- *Limits.* A full cache, string prefixes of paths, a folder that is the root.

`PROJECT.json` places each at its line, those without a property included.

## The modules

| Module | What it is |
|---|---|
| `AtomicTx` | what a read-write transaction promises: all or nothing |
| `SimpleSyncTx` | `SimpleSyncRWTransaction` on an `InMemoryStore`, shown to implement `AtomicTx` |
| `Access` | `Stats.hasAccess`, the predicates of `FileFlag` |
| `KVNodes` | inodes, listings and lookup in a store; used by every key-value file system |
| `FileTree` | what a file system promises: a tree of directories and files |
| `SyncKVFS` | `SyncKeyValueFileSystem` with `BaseFileSystem`'s synchronous calls, shown to implement `FileTree` |
| `KVHandles` | files held open and descriptors, over `SyncKVFS` |
| `AsyncKVFS` | `AsyncKeyValueFileSystem` with `BaseFileSystem`'s asynchronous calls and the LRU cache, shown to take the steps of `FileTree` |
| `Callbacks` | the callback API, its descriptors, and files that are stored asynchronously |
| `Paths` | Node's path functions, as operators |
| `Volume` | a file system as the calls above it see it: strings in, an answer out |
| `Mounts` | mount table, path resolution, `FolderAdapter`, and the calls on paths of the synchronous and the promise API, over `Volume` |
| `Mutex` | `mutex.ts` and its clients |
| `OverlayTree` | the tree `UnlockedOverlayFS` makes of two trees and the deleted paths, shown to take the steps of `FileTree` |
| `DeletionLog` | the deleted paths of `UnlockedOverlayFS` and the background writes of their log |
| `MC*` | instances for TLC |
| `*Proofs` | theorems |

### SimpleSyncTx

`store`, `originalData` and `modifiedKeys` are the code's; `open` says that a
transaction object is in use. There is one action per method, and one for a
`put` that throws after `markModified`. A transaction that is never ended is one
that stays open: the model does not start a second on the same store, which is
how the file system uses it. `AtomicTx` is refined with `work` the store and `db`
what `abort` would leave; its point is that the stash is right after any mix of
reads, writes, refused and failing puts.

### KVNodes and SyncKVFS

The store maps ids to inodes, listings and bytes. A path is the sequence of its
names, a listing a function from names (and the empty name) to ids, a file a short
sequence of bytes. Lookup is the recursive function `Walk`, which carries an error
in place of an id, as the exceptions of `_findINode` do. Each operation is an
operator from a store to the store it leaves and its answer, with the guards in
the order of the code; an action applies one of them. A synchronous operation is
atomic because the program is single-threaded.

Some details are kept on purpose: `commitNewFile` asks the parent for the bit the
code calls Write though `W_OK` is another; `openSync` passes the mode of a new file
as an access request; a path that may not be read counts as missing in `openSync`;
opening to truncate unlinks and creates; `hasAccess` masks nibbles at bits 8, 4
and 0. A directory that is opened as a file gives its listing's text as bytes;
only the length of that text is modelled.

Times, and `chmod`, `chown` and `utimes` (which this backend answers with ENOTSUP),
are left out. Two puts of one operation are one step: only a put that throws could
tell them apart, and that is what `SimpleSyncTx` covers.

### KVHandles

`fdMap` and `nextFd` are those of `shared.ts`. An open file has its path, flag,
position, buffer, dirty flag and the fields of its stats that are stored. The
in-memory store keeps the array it is given and hands it out again, so an array may
have several holders: keys of the store and open files, the groups in `shared`.
Writing in place changes it for all of them (`PokeAll`); growing makes a new one. The
calls of `SyncKVFS` on paths come between those on descriptors, so a file is synced
after its path was renamed, removed, or made again. `_syncSync` looks the path up
again and writes size, mode, owner and type into what it finds. `SavedWhenClean` says
that a descriptor that turns clean, or is closed, has its bytes where its path leads.

### AsyncKVFS

A call makes its first steps at once (it looks in the cache, or drops what it is
going to remove), begins a transaction and awaits. The store runs transactions in
the order in which they were begun (`queue`), as IndexedDB does, so one transaction is
one step, and a request that is rejected ends it. What a call does after that,
another transaction included, follows at once; a call that takes several
(`writeFile`, `rmdir`, `open` of a missing file) leaves room between them for others.
`AsyncKeyValueFile.close` does not await its sync, so the transaction stays behind in
the queue. The cache is a sequence in the order of use.

Calls overlap, with a cache as without one. A lookup that began before an `unlink`
and ends after it puts a node into the cache that is gone: `raced` is the history of
the paths this can have happened to, those that were dropped from the cache to be
unlinked while a lookup was waiting that may bring them back. `CacheCoherent` says
that nothing else is wrong with the cache and `CloseStores` that nothing else keeps a
close from storing. Two overlaps are left out (see the divergences): nobody calls
anything between the two transactions of `rmdir` or of `empty`, and with a cache a
second rename waits for the first, which would give the cache back too early.
`access` differs from `stat` only in what it asks permission for, and is left out.

### Callbacks

A call is as far as its promise: waiting for an open, an operation on a path, a
transaction, a close; settled; its callback has thrown; answered. Work on an open file
is done at once. `syncs` holds the transactions of `_sync`, the first of which is
running: `TakeData` is where it reads the live stats and hands the buffer over,
`Stored` where it has ended and the dirty flag is reset, `Rejected` where it fails. A
buffer that is replaced meanwhile leaves the old one to the transaction (`Detached`).
Contents are a version number and a length. `late` and `refused` are history: files
changed while being stored or closed, and files whose unawaited store failed.

### Paths, Volume and Mounts

Strings are sequences of characters here, because the code compares prefixes of them.
`Paths` has `normalizeString` and what is built on it; the scan for slashes is
replaced by the segments, the arithmetic on lengths is the code's. `Volume` is a
key-value file system in root's hands, which climbs from a string by `dirname` until
it gets to `/`. `Mounts` has the table, `mount`, `umount`, `initialize`, and the calls
on paths: made absolute, resolved to the longest mount point that is a prefix, handed
on. A call of the promise API is a small machine (`pending`): it looks whether the
path exists, makes it real, calls the file system and, where that has opened a file to
write, append or truncate, changes what the file holds and closes it, with a step for
each; calls of the synchronous API, mounts and unmounts come between. (Changing an open
file awaits too, but touches only its buffer, so it is part of the step that opens it;
reading one is one step.) Files made by a call are written by the close where they
were opened, whatever is mounted there by then. A rename is a read, a write and an
unlink, always, as the code compares two fresh objects. An adapter joins its folder to
a path and takes it away from those in errors. `initialize` finds out which file
systems are available. `last` tells which call ended or opened its file, with the
answer, for the properties.

Nobody appends to a directory or cuts one short, nor makes one, by `mkdir` or by
mounting, of a file that a pending `appendFile` or `truncate` is still to open
(`NotOntoDir`, `KeepsOff`): the listing would be overwritten (see the divergences). A
directory made after the open is in the model, and is written over by the close.

A path leads somewhere by its names: to the lowest mount point at or above it, and from
there by the names that are left. `resolveFS` compares strings, and sends `/ab` to what
is mounted at `/a`, with the path `b`: such a path is `Astray`. `ActsInPlace` says that
all others act where they lead, and that no call, astray or not, changes anything when
it throws, but for what the open of a file has done before the close of it throws.
`readdir` cuts the directory's path from the mount points that begin with it, so with a
file system at `/ab` it lists `b` in `/a`: `ListsWhatIsThere` says that it lists all that
is there, and besides it only what is cut so.

### Mutex

`_locks` is the code's map. A call is idle, waiting (its promise is not resolved),
resuming (the timer of `unlock` is set), running, or failed (the operation
rejected, and the method of `LockedFS` left without `unlock`). `lock` on a free
path is as in the code: the path is locked and the call stays waiting. Through
`LockedFS` alone no call ever runs for that reason, so the properties of `unlock`
are those of the class: its owners come from the other method it offers, `tryLock`,
which nothing in the repository calls.

There is no module for `LockedFS`. What its asynchronous methods do around the inner
operation is what the clients in `Mutex` do; as none of them gets past its lock, there
is nothing to say of what a running one may count on. Its synchronous methods only look
whether the path is locked, and the files it opens write without looking.

### DeletionLog

Paths stand for files whose directories exist on the writable side. The log is the
set of paths in its text; `disk` is what would be parsed from the log file. A write
goes through the steps of `writeFile` with flag `w` (the file is emptied, then
written), can fail in either, and its `then`, `catch` and `finally` are separate
steps, because other handlers may run between them. `Then` sets nothing in the
end: it clears `needed`, and `updateLog('')` sets it again as the update is still
pending. Operations are the synchronous ones. `Remount` is leaving the page at any
moment and mounting the two file systems again. Four history variables are only read
by properties: `gone` has every file that was unlinked and not made again, over any
number of mounts; `back` those of them that came back in one of the two ways there are,
a restored log that lacks them or a page that was left before the log was in its file;
`lost` and `behind` say that the last write failed and that the log has changed since
the last write began, so that `Settled` is what a careful user of the page could wait
for.

### OverlayTree

The two file systems below the overlay are trees of nodes, like `FileTree`'s; the
writable one does what `SyncKVFS` was shown to do. An operation is an operator on a
record of the writable tree, the deleted paths and whether it has thrown, so that
what it did before it threw stays done. `renameSync` is recursive, as in the code.
Which error is thrown, and modes, make no difference here. `chmodSync` and its like
copy to the writable side and are then answered ENOTSUP there. `Merged` is the tree
that users see, and its steps are `FileTree`'s. The deleted paths are kept in memory
here; `DeletionLog` has their way to the log.

## The runs

| Run | Bounds | Shows |
|---|---|---|
| `tx` | 3 keys, 2 values, any initial store | the stash is exact; the transaction implements `AtomicTx` |
| `kvfs` | trees of 4 nodes, 2 names, paths of length 2 named by callers, files of 1 byte, one user, flags w wx a ax r+ | the node graph stays sound; sizes are exact |
| `kvfs_tree` | trees of 3 nodes, root with its ids and with lowered effective ones, modes 0600 and 0666, flags a and w; names are interchangeable (symmetry) | `SyncKVFS` implements `FileTree`, also where permissions stop operations halfway; a call that throws changes nothing, but for the file of a truncating open that the directory refuses |
| `handles` | trees of 3 nodes, 2 names in the root, 2 descriptors, files of 1 byte, flags a r rs+ | files held open do no harm to the graph, the sizes, or names made since; what was written is saved by a sync or close that succeeds |
| `async` | paths `/d`, `/e`, `/f` and `/d/f`, 3 nodes, 2 transactions in the queue, a cache of 2 entries or none, flags a w | overlapping calls leave a sound graph and take the steps of a tree; the cache is right and closes store, but for what `raced` has |
| `callbacks` | 2 calls at a time, 2 files of 1 byte, 2 changes, 2 transactions | a descriptor leads to its file until it is closed; what is written gets to the store, but for the known losses; callbacks are called in the end |
| `mounts` | 2 file systems and an adapter, 4 nodes, names a and aa, 4 spellings of paths in the synchronous API and 2 in the promise API, 5 renames, an adapter mounted at `/a/` where `/aa` begins with its name, two mappings for `initialize`: one puts a file system at `/aa` below another root, the other fails halfway | calls act where their path leads and nowhere else, unless it goes astray; listings have what is there; errors name the caller's path |
| `overlay` | 7 paths, 3 names deep; two read-only trees; files of 1 byte; flags w wx a ax; no directory renamed | the merged tree takes the steps of a file tree; listings, renames of files and failing calls do what they say |
| `mutex` | 4 calls (one `tryLock`), 2 paths | exclusion, service in turn |
| `deletion_log` | 3 files, 2 of them readable | writes never overlap, settled means complete, deleted means gone but for the two ways back, updates end |

Two more runs end in a violation, each against a sentence of the code's own comments:

| Run | Property | The code |
|---|---|---|
| `mutex_starves` | `NoStarvation` | the promise of `lock` on a free path is never resolved |
| `deletion_log_missed` | `PersistedWhenDone` | a delete made during a write of the log is never written |

Why the bounds are enough: every operation of the file system touches at most two
directories, one node in each and the nodes' data, so four nodes with two names
give every way these can coincide (same parent, nested, replaced target, a
directory into itself), and moves reach trees one level deeper than callers name
in one call. `MaxNodes`, `MaxLen` and `MaxDepth` bound the state; an operation that
would exceed them is not called. Ids are only compared, so the generator always
gives the first unused one. Nobody renames to `/`, which would make an entry without
a name. Two descriptors and two names are what it takes to share an array, to hold a
file whose path is gone, and to find another in its place. `kvfs_tree` has a file that
its user may write in a directory the user may not, which is where an open to truncate
is refused halfway. In `async` a queue of two has a call between the two transactions of
another, or behind a close, a lookup behind an unlink, and an unlink behind a lookup;
two directories beside a name used for files give a removal and a creation at the same
path and below it. A cache of two entries with three nodes evicts. States that differ
only in which ids their nodes have, or in the last answer, are one there (`MCView`). In `callbacks`
two calls reach a close during a close or a sync; the second file is what a reused
descriptor takes, and two changes put one during the storing of the other. In
`mounts`, `aa` begins with the name of `a`, where the adapter is mounted, so that its
paths go astray while nothing is mounted at `/aa` and are listed in `/a` while something
is; the adapter shows the folder with the same name, so that acting astray finds files;
and `initialize` exchanges the file systems at the root or fails with the root gone.
Calls that only read are made between those of the promise API and not during one, where
they would answer the same. In the overlay seven
paths have a directory two levels below the root, so that parents are missing on the
writable side at more than one level, a file in each kind of directory, and an empty
name beside each; callers write to files only, make nothing below what they see as
a file, and unlink no directory that only the read-only side has: the code checks
none of these. A mutex path with three calls behind an owner and a second path shows
queueing, hand-over and independence. In the deletion log two readable files are what
an overlooked second delete takes.

### Fairness

`Mutex`: a timer fires, and an operation of the inner file system
resolves or rejects, so its call ends; no client has to make another call.
`DeletionLog`: the writable file system answers a request, with success or an error,
and handlers of settled promises run; operations and remounts are owed by nobody.
`Callbacks`: the store works on the transaction it has begun, with one outcome or the
other, file systems answer, and handlers of settled promises run. The other modules
only have safety properties.

Deadlock is checked in every run but `mutex` and `mutex_starves`, where everybody
may wait for ever.

## Divergences

What the code does against what a user of Node's `fs` would expect. The models have
all of it that is marked with a constant; the callers of the passing runs keep from
it, as the properties fail otherwise.

| Where | What | In the model |
|---|---|---|
| `filesystem.ts:446` | `w` unlinks and creates; who may write to the file and not to its directory is refused with the file lost | `kvfs_tree` includes it; the exception in `FailureIsClean` (`LosesFile`), without which it fails |
| `filesystem.ts:419` | a directory can be opened as a file, and its listing overwritten | `WriteToDirs = TRUE`; `NotOntoDir` and `KeepsOff` in `Mounts` keep callers from it |
| `SyncStore.ts:407` | a sync turns a directory that has taken the file's path into a file | `OntoFile` in `KVHandles` keeps callers from it |
| `AsyncStore.ts:372` | a file made between the two transactions of `rmdir` is orphaned | in `AsyncKVFS` nobody calls in between |
| `AsyncStore.ts:179` | with a path cache, a file that is written, unlinked and written again stays empty, though every call is awaited: the first close caches a node that is gone, the second looks it up there and fails unheard | in `AsyncKVFS` as it is; the exception of `raced` in `CacheCoherent` and `CloseStores`, without which both fail |
| `AsyncStore.ts:253` | with a path cache, the first of two overlapping renames to end gives the cache back while the other moves nodes | in `AsyncKVFS` a second rename waits |
| `shared.ts:182` | with a mount at `/a`, the path `/ab` is sent to it as `b`; an adapter there acts on its folder's `b` | in `Mounts` as it is; `ActsInPlace`, `ListsWhatIsThere` and `ErrorsNamePath` leave paths that go `Astray` out, and fail with them |
| `sync.ts:434`, `promises.ts:412` | with a mount at `/ab`, `readdir` of `/a` lists `b` | in `Mounts` as it is; `cut` in `ListsWhatIsThere`, which fails without |
| `Locked.ts:83` | files that `LockedFS` opens write without the lock | not modelled |
| `AsyncStore.ts:173` | a write while the file is stored is marked clean, and its size stored with the old bytes | `late` in `Callbacks` |
| `OverlayFS.ts:267` | renaming a directory copies the read-only files over what it has moved, and brings old contents back | `RenameDirs = TRUE` |
| `OverlayFS.ts:528` | the root still lists deleted names, whose paths are compared as `//name` | `ListsWhatExists` leaves the root out |
| `sync.ts:53` | renaming a file onto itself deletes it; renaming a directory writes its listing as a file, and then fails | in `Mounts` as it is |
| `FolderAdapter.ts` | creating one over a folder that exists fails with EEXIST; a folder without a leading slash answers EIO | `Mounts` has the first; folders are absolute there |
| `callbacks.ts` | `readFile`, `writeFile`, `appendFile` and `ftruncate` never call their callback; a callback that throws is called again; `write` of a string needs a position | `Ftruncate` and `Handler` in `Callbacks` |
| `AsyncStore.ts:38` | with a limit of one `set` throws when it evicts | `CacheSize > 1` |
| `AsyncMirror.ts:275` | the queue waits for a callback that promise-based backends never call | not modelled |

## The proofs

- `SimpleSyncTxProofs`: `TypeCorrect`, and `StashIsExact`, which is inductive with the
  types. `Implements` maps every step to one of `AtomicTx` or a stutter; the exact
  stash is what makes `Rollback` constant while a transaction runs.
- `KVNodesProofs`: lemmas on lookup and on changes of the node graph, which the three
  file systems share. A walk of any length gives an id or an error, a successful check
  gives an inode, or a listing; by the least index at which a step of the walk could be
  wrong, since an induction scheme cannot be instantiated here. `NodeAdded`,
  `NodeRemoved`, `NodeMoved` and `FilePut` say that a sound graph stays sound;
  `FindUnique` that no two paths lead to one node; `FindKept` which paths still lead
  where they led. A store is `Tidy` when it is `Sound` (every inode has data of its
  kind, every entry leads to an inode, no inode has two entries and no data two inodes,
  the empty name included), `Owned` (every key in use is an inode or its data),
  `Reached` (every inode has a path), `Exact` (sizes) and of finitely many inodes.
  `Reached` says nothing of a path's length, which a rename of a directory changes for
  all that is below it; that `m` nodes have paths shorter than `m` is shown once, by
  counting the nodes on the way. In a tidy store ids and paths belong together one by
  one, so what an operation does to a node can be said of its path: `CreatedTree`,
  `TakenOutTree`, `RefilledTree` and `RehungTree` say what making, removing, writing
  and moving a node does to all the paths there are.
- `SyncKVFSProofs`: `TypeCorrect`, one lemma per operation: what it leaves is a
  well-formed store; no bound is used. Then `NothingDangles`, `NothingIsShared`,
  `NothingLeaks`, `SizesAreExact`. None of these four is
  inductive alone: an operation finds its nodes by walking from the root, so what it
  leaves depends on entries leading to inodes, on no node being named twice (deleting a
  node would leave its other name), and on every inode owning its data. The invariant
  `TreeInv` says that the store is tidy and has at most `MaxNodes` inodes.
  `ImplementsATree`: `SyncKVFS` implements `FileTree`. Every call is one of the changes
  above, or two that come to one (truncating takes a file out and makes it again), or
  leaves the tree alone. `FailuresAreClean` follows the same cases: of the calls that take
  two changes only the truncating open can fail between them, at the directory, and then
  the one file is out and every key but its own and its directory's is as it was.
- `KVHandlesProofs`: `HandlesTypeCorrect`, `HandlesKeepTheGraph`, `HandlesKeepSizes`,
  `HandlesKeepNames`, `HandlesForgetNothing`. The invariant `HandlesInv` has a tidy
  store within `MaxNodes`, open files whose size is that of their buffer, and groups of
  holders that exist, so that a write in place reaches what holds the array and nothing
  else. Of every operation on a descriptor it is shown (`Advances`) that all paths lead
  where they led, no other file becomes dirty or clean, and this one is clean only when
  its path has its bytes: a stale descriptor finds another file at its path, or none, and
  changes bytes, size, mode and owner there at most.
- `AsyncKVFSProofs`: `AsyncInvariant`, and from it `AsyncTypeCorrect`,
  `AsyncKeepsTheGraph`, `CacheStaysCoherent`, `ClosingStores` and
  `TransactionsChangeATree`. The invariant `AsyncInv` has four parts.
  `StoreOK`: the store is tidy and has files at names of files, or it is blank, as it is
  between the two transactions of `empty`. `CacheOK`: the cache keeps its limit, has no
  path twice, and leads where the store does or, at a path in `raced`, to a node that is
  gone. `QueueOK`: of every transaction that waits, what it may count on when it comes to
  run (`Suits`). The lookup it began, with an entry of the cache perhaps, goes on from
  where its path leads still, or from such a node; a directory that was read as empty is
  empty still; a path that is to be removed is not back in the cache unless it is in
  `raced`; there is no cache while a rename is under way; and a store that was cleared is
  still blank. This holds only because of what each two of the transactions in the queue
  say of each other (`Pair`), which is part of it: what waits behind a rename started
  from the root, and an unlink with a lookup at or below its path before or behind it has
  put the path into `raced`. Last, room: inodes and the nodes that calls under way may
  make are together within `MaxNodes`. `CacheCoherent` is not inductive alone: what a
  lookup will put into the cache depends on what it began with and on what runs before
  it. A node that is gone has an id that is not given again while a lookup or the cache
  holds it, so a stale entry leads to no other file. The step of the tree is shown
  transaction by transaction, with the lemmas `ImplementsATree` uses.
- `MutexProofs`: `Exclusion`. The strengthening is that a queue holds waiting calls of
  its path, each once, so that the call `unlock` resumes owns nothing yet.
- `DeletionLogProofs`: `WritesAreSerial`, `LogIsSafe`, `UnlinkedStayGone`. The
  strengthening says how far the one write there can be has come: before it stores its
  text, that is the log or the log has changed since; after, the file holds the text.
  That deleted files stay away rests on it: when the page is left with the log settled,
  what `_initialize` reads is what was deleted, so nothing comes back.
- `CallbacksProofs`: `DescriptorsLead`, `TypesCorrect`, `WrittenIsKept`. A descriptor
  leaves the map some time after the close it belongs to; the first strengthening says
  that the descriptor of such a close was given out before, and is, if it is still in
  the map, that of a file being closed, so that no file opened or in use meanwhile
  loses its own. The second says of every transaction in the queue what it will store:
  that is what the file has, or the transaction still owns the live buffer; and of a
  closed file that is dirty that the transaction its close began is still to come. A
  call waits for exactly one transaction. The bounds play no part.

They assume the named `ASSUME`s of the modules, which TLC evaluates in the runs:
markers are no values, ids are not errors, the generator gives unused ids, the marker
of a transaction without a call is no call, and there is room for the root
(`MaxNodes` is not 0). Versions in `Callbacks` are natural numbers; their bound is on
the sum of the changes, in the guard of a change.

What has a hypothesis besides:

- the theorems of `SyncKVFSProofs`, but for the types, assume `~WriteToDirs`. The code
  does not refuse to open a directory as a file, and bytes written into one are no
  listing any more: all these statements are then false (see the divergences). The runs
  have the same value.
- the theorems of `AsyncKVFSProofs` and `KVHandlesProofs` have none, but calls of
  `AsyncKVFS` overlap as `MayCall` and `CallRename` let them (see the modules), and the
  callers of `KVHandles` do not store a
  file onto a directory that has taken its path (`OntoFile`), nor do those of
  `AsyncKVFS` use a name for files and directories both.

Only model-checked:

- everything under fairness (`ServedInTurn`, `UpdateEnds`, `CallsAnswered`), since the
  prover has no rules for fairness and `ENABLED`;
- `Mounts`, whose properties rest on what `normalizePath` computes from a string by
  folds over its characters and segments: induction over data, which is out of reach;
- `OverlayTree`, whose `renameSync` is recursive as in the code.

## Not modelled, and the plan

Next, in this order:

1. Several calls of the promise API at a time in `Mounts`.
2. The asynchronous methods of `OverlayFS` with their awaits.
3. `rmdir` of `AsyncKVFS` with calls between its two transactions: what is left of the
   tree's properties when a file is orphaned.

Left out for good: `FileIndex`, which no backend uses; `AsyncMirror`, whose queue
stops at its first operation with every backend here; binary layouts, encodings and
dates; streams and directory objects, which forward to the promise API; the registry
of backends and option checking, which have no state.
