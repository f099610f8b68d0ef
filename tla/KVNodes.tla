------------------------------- MODULE KVNodes ------------------------------
(***************************************************************************)
(* How a key-value file system lays a directory tree out in its store, and *)
(* how it finds its way: every node has an inode under a key of its own    *)
(* (its node id, which its parent's listing names), and the inode names    *)
(* the key of the node's data, bytes for a file and a listing for a        *)
(* directory.  The root's inode is under a fixed key.                      *)
(*                                                                         *)
(* A path is the sequence of its names; the code's normalised "/" is the   *)
(* empty one.  Times are left out.                                         *)
(***************************************************************************)
EXTENDS Access, Sequences

CONSTANTS
    Ids,       \* keys of the store
    Root,      \* ROOT_NODE_ID
    NoEntry,   \* dirList[name] where the listing has no such property
    Names,     \* names of directory entries
    NoName,    \* the empty string, the basename of "/"
    Bytes,     \* values of a byte
    Uids       \* user and group numbers

Errors == {"ENOENT", "ENOTDIR", "EACCES", "EEXIST", "EISDIR", "ENOTEMPTY",
           "EBUSY", "EPERM",
           "Error"}  \* an exception that is no ApiError

ASSUME IdsAssumption ==
    /\ Root \in Ids
    /\ NoEntry \notin Ids
    /\ Ids \intersect Errors = {}

ASSUME NameAssumption == NoName \notin Names

ASSUME ByteAssumption == 0 \in Bytes

ASSUME UidAssumption == 0 \in Uids

Types   == {"file", "dir"}
Entries == [Names \union {NoName} -> Ids \union {NoEntry}]
Paths   == Seq(Names)

(* What a key holds.  A listing is the JSON text the code keeps; the bytes *)
(* of a file are never taken for one.                                      *)
Absent      == [kind |-> "absent"]
Data(b)     == [kind |-> "bytes", val |-> b]
Listing(e)  == [kind |-> "listing", ent |-> e]
Inode(id, size, type, mode, uid, gid) ==
    [kind |-> "inode", id |-> id, size |-> size, type |-> type,
     mode |-> mode, uid |-> uid, gid |-> gid]

Inodes   == [kind : {"inode"}, id : Ids, size : Nat, type : Types,
             mode : Perms, uid : Uids, gid : Uids]
Listings == [kind : {"listing"}, ent : Entries]
Blobs    == [kind : {"bytes"}, val : Seq(Bytes)]
Stores   == [Ids -> Inodes \union Listings \union Blobs \union {Absent}]

Creds == [uid : Uids, gid : Uids, euid : Uids, egid : Uids]

NoEntries == [f \in Names \union {NoName} |-> NoEntry]

(* The bytes under a key.  Of a listing's JSON text all that is said is    *)
(* its length: '{}' has two characters, any other has more.  (No inode     *)
(* points to anything but bytes and listings.)                             *)
Text(c) ==
    IF c.kind = "bytes" THEN c.val
    ELSE IF c.kind = "listing"
    THEN [i \in 1 .. (IF c.ent = NoEntries THEN 2 ELSE 3) |-> 0]
    ELSE <<>>

DataLen(c) == Len(Text(c))

(* Writing data at a position: what lies between the end and there is 0.   *)
Overlay(b, at, data) ==
    LET end == at + Len(data)
    IN  [i \in 1 .. (IF end > Len(b) THEN end ELSE Len(b)) |->
            IF i > at /\ i <= end THEN data[i - at]
            ELSE IF i <= Len(b) THEN b[i] ELSE 0]

(* The size makeRootDirectory gives the root, which is no data's length.   *)
RootSize == 4096

-----------------------------------------------------------------------------
dirname(p)  == IF p = <<>> THEN <<>> ELSE SubSeq(p, 1, Len(p) - 1)
basename(p) == IF p = <<>> THEN NoName ELSE p[Len(p)]

(* p is q or a directory above q. *)
IsAtOrAbove(p, q) == Len(p) <= Len(q) /\ SubSeq(q, 1, Len(p)) = p

(* getINode and getDirListing: what reading node n of store s throws, with *)
(* "ok" for nothing.  n may itself be the error of the lookup that was to  *)
(* find the node.                                                          *)
INodeError(s, n) ==
    IF n \in Errors THEN n
    ELSE IF s[n].kind # "inode" THEN "ENOENT" ELSE "ok"

ListingError(s, n) ==
    IF INodeError(s, n) # "ok" THEN INodeError(s, n)
    ELSE IF s[n].type # "dir" THEN "ENOTDIR"
    ELSE IF s[s[n].id].kind = "absent" THEN "ENOENT"
    ELSE IF s[s[n].id].kind # "listing" THEN "Error" ELSE "ok"

entries(s, n) == s[s[n].id].ent

(* The entry of one name in a directory, or the error that stops there.    *)
Child(s, n, f) ==
    IF ListingError(s, n) # "ok" THEN ListingError(s, n)
    ELSE IF entries(s, n)[f] = NoEntry THEN "ENOENT" ELSE entries(s, n)[f]

(* _findINode: the node id of a path, from the root down.                  *)
Walk(s, p) ==
    LET node[i \in 0 .. Len(p)] ==
            IF i = 0 THEN Root ELSE Child(s, node[i - 1], p[i])
    IN  node

FindId(s, p) == Walk(s, p)[Len(p)]

(* Stats.hasAccess of the node with id n. *)
Access(s, n, request, cred) ==
    hasAccess(request, s[n].mode, s[n].uid, s[n].gid, cred)

-----------------------------------------------------------------------------
InodeIds(s) == {n \in Ids : s[n].kind = "inode"}
DirIds(s)   == {n \in InodeIds(s) : s[n].type = "dir"}
Used(s)     == {k \in Ids : s[k].kind # "absent"}

(* The tree has no loose end: the root is a directory, every inode has     *)
(* data of its kind and every entry of a directory leads to an inode.      *)
NoDanglingIn(s) ==
    /\ Root \in DirIds(s)
    /\ \A n \in InodeIds(s) :
          s[s[n].id].kind = IF s[n].type = "dir" THEN "listing" ELSE "bytes"
    /\ \A d \in DirIds(s) : \A f \in Names :
          entries(s, d)[f] \in InodeIds(s) \union {NoEntry}

(* It is a tree: no two inodes share their data, no two entries lead to    *)
(* the same inode, and none leads to the root.                             *)
NoSharingIn(s) ==
    /\ \A m, n \in InodeIds(s) : s[m].id = s[n].id => m = n
    /\ \A d, e \in DirIds(s) : \A f, g \in Names :
          entries(s, d)[f] \in Ids /\ entries(s, d)[f] = entries(s, e)[g]
              => d = e /\ f = g
    /\ \A d \in DirIds(s) : \A f \in Names : entries(s, d)[f] # Root
=============================================================================
