--------------------------- MODULE SyncKVFSProofs ---------------------------
(***************************************************************************)
(* SyncKeyValueFileSystem, for every set of ids, names, bytes and users    *)
(* and all bounds.                                                         *)
(*                                                                         *)
(* It is type correct: whatever is called in whatever order, every key of  *)
(* the store holds a well-formed inode, listing or file, and every call    *)
(* answers.                                                                *)
(*                                                                         *)
(* The tree it keeps is whole (Tidy of KVNodesProofs), as long as nobody   *)
(* writes bytes into a directory, which the code does not refuse, and      *)
(* which makes every statement about the tree false.  Each of the three    *)
(* ways to change the tree, and the writing of a file, keep it; every      *)
(* operation is one of these or changes nothing.                           *)
(*                                                                         *)
(* It implements a directory tree, FileTree: what a path leads to in the   *)
(* store is what the tree has there.  From the invariant it follows, for   *)
(* each way to change the store, what it changes under which paths, and so *)
(* which step of the tree every call takes.                                *)
(***************************************************************************)
EXTENDS SyncKVFS, KVNodesProofs

Answers == Errors \union {"ok"}
Results == [st : Stores, ret : Answers]

LEMMA AnswerType ==
    ASSUME NEW s \in Stores, NEW e \in Answers
    PROVE  Fail(s, e) \in Results /\ Done(s) \in Results
BY DEF Fail, Done, Results, Answers

LEMMA UsedPathsType == UsedPaths \subseteq Paths
<1> SUFFICES ASSUME NEW n \in Nat, NEW p \in [1 .. n -> Names] PROVE p \in Seq(Names)
  BY ParameterAssumption DEF UsedPaths, Paths
<1> QED
  OBVIOUS

LEMMA NewIdsType ==
    ASSUME NEW s \in Stores, NEW new \in NewIds(s)
    PROVE  new[1] \in Ids /\ new[2] \in Ids
<1>1. Used(s) \in SUBSET Ids
  BY DEF Used
<1>2. PICK i \in randomUUID(Used(s)) :
        new \in {<<i, j>> : j \in randomUUID(Used(s) \union {i})}
  BY DEF NewIds
<1>3. i \in Ids
  BY <1>1, <1>2, UUIDAssumption
<1>4. Used(s) \union {i} \in SUBSET Ids
  BY <1>1, <1>3
<1>5. PICK j \in randomUUID(Used(s) \union {i}) : new = <<i, j>>
  BY <1>2
<1> QED
  BY <1>3, <1>4, <1>5, UUIDAssumption

-----------------------------------------------------------------------------
LEMMA commitNewFileType ==
    ASSUME NEW s \in Stores, NEW p \in Paths, NEW type \in Types, NEW mode \in Perms,
           NEW cred \in Creds, NEW data \in Listings \union Blobs, DataLen(data) \in Nat,
           NEW new, new[1] \in Ids, new[2] \in Ids
    PROVE  commitNewFile(s, p, type, mode, cred, data, new) \in Results
<1> DEFINE d == FindId(s, dirname(p))
           f == basename(p)
<1>1. d \in Ids \union Errors /\ f \in Names \union {NoName}
  BY FindType, DirnameType
<1>2. ListingError(s, d) \in Answers
  BY <1>1, ListingFacts DEF Answers
<1>3. ASSUME ListingError(s, d) = "ok"
      PROVE  [s EXCEPT
                ![new[1]] = data,
                ![new[2]] = Inode(new[1], DataLen(data), type, mode, cred.uid, cred.gid),
                ![s[d].id] = Listing([entries(s, d) EXCEPT ![f] = new[2]])] \in Stores
  <2>1. s[d].id \in Ids /\ entries(s, d) \in Entries
    BY <1>1, <1>3, ListingFacts DEF Inodes
  <2>2. data \in Values
    BY DEF Values
  <2>3. Inode(new[1], DataLen(data), type, mode, cred.uid, cred.gid) \in Values
    BY DEF Inode, Inodes, Values, Creds
  <2>4. Listing([entries(s, d) EXCEPT ![f] = new[2]]) \in Values
    BY <1>1, <2>1 DEF Listing, Listings, Values, Entries
  <2> QED
    BY <2>1, <2>2, <2>3, <2>4, PutType
<1> QED
  BY <1>2, <1>3, AnswerType DEF commitNewFile, Answers, Errors

LEMMA UnlistedType ==
    ASSUME NEW list \in Entries, NEW f \in Names \union {NoName}
    PROVE  Unlisted(list, f) \in Entries
BY DEF Unlisted, Entries

LEMMA DeletedType ==
    ASSUME NEW s \in Stores, NEW n \in Ids, s[n] \in Inodes
    PROVE  Deleted(s, n) \in Stores
<1>1. s[n].id \in Ids /\ Absent \in Values
  BY DEF Inodes, Values
<1> QED
  BY <1>1, PutType DEF Deleted

LEMMA removeEntryType ==
    ASSUME NEW s \in Stores, NEW p \in Paths, NEW isDir, NEW cred
    PROVE  removeEntry(s, p, isDir, cred) \in Results
<1> DEFINE d == FindId(s, dirname(p))
           f == basename(p)
           n == entries(s, d)[f]
<1>1. d \in Ids \union Errors /\ f \in Names \union {NoName}
  BY FindType, DirnameType
<1>2. ListingError(s, d) \in Answers
  BY <1>1, ListingFacts DEF Answers
<1>3. ASSUME ListingError(s, d) = "ok", n # NoEntry
      PROVE  n \in Ids \union Errors /\ INodeError(s, n) \in Answers
  <2>1. n \in Ids
    BY <1>1, <1>3, ListingFacts DEF Entries
  <2> QED
    BY <2>1, INodeFacts DEF Answers
<1>4. ASSUME ListingError(s, d) = "ok", n # NoEntry, INodeError(s, n) = "ok"
      PROVE  [Deleted(s, n) EXCEPT ![s[d].id] = Listing(Unlisted(entries(s, d), f))] \in Stores
  <2>1. s[d].id \in Ids /\ entries(s, d) \in Entries
    BY <1>1, <1>4, ListingFacts DEF Inodes
  <2>2. n \in Ids /\ s[n] \in Inodes
    BY <1>3, <1>4, INodeFacts
  <2>3. Listing(Unlisted(entries(s, d), f)) \in Values
    BY <1>1, <2>1, UnlistedType, ListingType
  <2> QED
    BY <2>1, <2>2, <2>3, DeletedType, PutType
<1> QED
  BY <1>2, <1>3, <1>4, AnswerType DEF removeEntry, Answers, Errors

LEMMA rmdirSyncType ==
    ASSUME NEW s \in Stores, NEW p \in Paths, NEW cred
    PROVE  rmdirSync(s, p, cred) \in Results
<1> DEFINE n == FindId(s, p)
<1>1. n \in Ids \union Errors
  BY FindType
<1>2. INodeError(s, n) \in Answers /\ ListingError(s, n) \in Answers
  BY <1>1, INodeFacts, ListingFacts DEF Answers
<1> QED
  BY <1>2, AnswerType, removeEntryType DEF rmdirSync, Answers, Errors

LEMMA MovedType ==
    ASSUME NEW s \in Stores, NEW oldPath \in Paths, NEW newPath \in Paths,
           ListingError(s, FindId(s, dirname(oldPath))) = "ok",
           ListingError(s, FindId(s, dirname(newPath))) = "ok",
           entries(s, FindId(s, dirname(oldPath)))[basename(oldPath)] # NoEntry
    PROVE  Moved(s, oldPath, newPath) \in Results
<1> DEFINE oldDir  == FindId(s, dirname(oldPath))
           newDir  == FindId(s, dirname(newPath))
           oldName == basename(oldPath)
           newName == basename(newPath)
           oldList == Unlisted(entries(s, oldDir), oldName)
           newList == IF dirname(newPath) = dirname(oldPath) THEN oldList
                      ELSE entries(s, newDir)
           target  == newList[newName]
           cleared == IF target = NoEntry THEN s ELSE Deleted(s, target)
           error   == TargetError(s, newList, newName)
<1>1. /\ oldDir \in Ids \union Errors /\ newDir \in Ids \union Errors
      /\ oldName \in Names \union {NoName} /\ newName \in Names \union {NoName}
  BY FindType, DirnameType
<1>2. /\ s[oldDir].id \in Ids /\ s[newDir].id \in Ids
      /\ entries(s, oldDir) \in Entries /\ entries(s, newDir) \in Entries
  BY <1>1, ListingFacts DEF Inodes
<1>3. oldList \in Entries /\ newList \in Entries
  BY <1>1, <1>2, UnlistedType
<1>4. entries(s, oldDir)[oldName] \in Ids
  BY <1>1, <1>2 DEF Entries
<1>5. target \in Ids \union {NoEntry}
  BY <1>1, <1>3 DEF Entries
<1> HIDE DEF newList
<1>6. error \in Answers /\ (error = "ok" /\ target # NoEntry => s[target] \in Inodes)
  <2>1. CASE target = NoEntry
    BY <2>1 DEF TargetError, Answers
  <2>2. CASE target # NoEntry
    <3>1. /\ target \in Ids /\ INodeError(s, target) \in Answers
          /\ INodeError(s, target) = "ok" => s[target] \in Inodes
      BY <1>5, <2>2, INodeFacts DEF Answers
    <3> QED
      BY <2>2, <3>1 DEF TargetError, Answers, Errors
  <2> QED
    BY <2>1, <2>2
<1>7. ASSUME error = "ok"
      PROVE  [cleared EXCEPT
                ![s[oldDir].id] = Listing(oldList),
                ![s[newDir].id] =
                    Listing([newList EXCEPT ![newName] = entries(s, oldDir)[oldName]])]
             \in Stores
  <2>1. cleared \in Stores
    BY <1>5, <1>6, <1>7, DeletedType
  <2>2. [newList EXCEPT ![newName] = entries(s, oldDir)[oldName]] \in Entries
    BY <1>1, <1>3, <1>4 DEF Entries
  <2>3. Listing(oldList) \in Values
    BY <1>3, ListingType
  <2>4. Listing([newList EXCEPT ![newName] = entries(s, oldDir)[oldName]]) \in Values
    BY <2>2, ListingType
  <2> HIDE DEF cleared, oldDir, newDir, oldList
  <2>5. [cleared EXCEPT ![s[oldDir].id] = Listing(oldList)] \in Stores
    BY <1>2, <2>1, <2>3, PutType
  <2> QED
    BY <1>2, <2>4, <2>5, PutType
<1> QED
  BY <1>6, <1>7, AnswerType DEF Moved, newList

LEMMA renameSyncType ==
    ASSUME NEW s \in Stores, NEW oldPath \in Paths, NEW newPath \in Paths, NEW cred
    PROVE  renameSync(s, oldPath, newPath, cred) \in Results
<1> DEFINE oldDir == FindId(s, dirname(oldPath))
           newDir == FindId(s, dirname(newPath))
<1>1. oldDir \in Ids \union Errors /\ newDir \in Ids \union Errors
  BY FindType, DirnameType
<1>2. ListingError(s, oldDir) \in Answers /\ ListingError(s, newDir) \in Answers
  BY <1>1, ListingFacts DEF Answers
<1> QED
  BY <1>2, AnswerType, MovedType DEF renameSync, Answers, Errors

-----------------------------------------------------------------------------
LEMMA createFileSyncType ==
    ASSUME NEW s \in Stores, NEW p \in Paths, NEW mode \in Perms, NEW cred \in Creds,
           NEW new, new[1] \in Ids, new[2] \in Ids
    PROVE  createFileSync(s, p, mode, cred, new) \in Results
BY DataType, commitNewFileType DEF createFileSync, Types

LEMMA openFileSyncType ==
    ASSUME NEW s \in Stores, NEW p \in Paths, NEW flag, NEW cred
    PROVE  openFileSync(s, p, flag, cred) \in Results
<1>1. INodeError(s, FindId(s, p)) \in Answers
  BY FindType, INodeFacts DEF Answers
<1> QED
  BY <1>1, AnswerType DEF openFileSync, Answers, Errors

LEMMA openMissingType ==
    ASSUME NEW s \in Stores, NEW p \in Paths, NEW flag, NEW mode \in Perms,
           NEW cred \in Creds, NEW new, new[1] \in Ids, new[2] \in Ids
    PROVE  openMissing(s, p, flag, mode, cred, new) \in Results
<1>1. INodeError(s, FindId(s, dirname(p))) \in Answers
  BY DirnameType, FindType, INodeFacts DEF Answers
<1> QED
  BY <1>1, AnswerType, createFileSyncType DEF openMissing, Answers, Errors

LEMMA openExistingType ==
    ASSUME NEW s \in Stores, NEW p \in Paths, NEW flag, NEW mode,
           NEW cred \in Creds, NEW new, new[1] \in Ids, new[2] \in Ids,
           s[FindId(s, p)] \in Inodes
    PROVE  openExisting(s, p, flag, mode, cred, new) \in Results
<1> DEFINE n == FindId(s, p)
           u == unlinkSync(s, p, cred)
<1>1. u \in Results
  BY removeEntryType DEF unlinkSync
<1>2. s[n].mode \in Perms
  BY DEF Inodes
<1>3. createFileSync(u.st, p, s[n].mode, cred, new) \in Results
  BY <1>1, <1>2, createFileSyncType DEF Results
<1>4. openFileSync(s, p, flag, cred) \in Results
  BY openFileSyncType
<1>5. Fail(s, "EACCES") \in Results /\ Fail(s, "EEXIST") \in Results
  BY AnswerType DEF Answers, Errors
<1> QED
  BY <1>1, <1>3, <1>4, <1>5 DEF openExisting

LEMMA openSyncType ==
    ASSUME NEW s \in Stores, NEW p \in Paths, NEW flag, NEW mode \in Perms,
           NEW cred \in Creds, NEW new, new[1] \in Ids, new[2] \in Ids
    PROVE  openSync(s, p, flag, mode, cred, new) \in Results
<1>1. INodeError(s, FindId(s, p)) = "ok" => s[FindId(s, p)] \in Inodes
  BY FindType, INodeFacts
<1> QED
  BY <1>1, openMissingType, openExistingType DEF openSync

-----------------------------------------------------------------------------
LEMMA syncFileType ==
    ASSUME NEW s \in Stores, NEW p \in Paths, NEW b \in Seq(Bytes), NEW size \in Nat
    PROVE  syncFile(s, p, b, size) \in Results
<1> DEFINE n == FindId(s, p)
<1>1. n \in Ids \union Errors /\ INodeError(s, n) \in Answers
  BY FindType, INodeFacts DEF Answers
<1>2. ASSUME INodeError(s, n) = "ok"
      PROVE  [s EXCEPT ![s[n].id] = Rewritten(s[s[n].id], b), ![n].size = size] \in Stores
  <2>1. n \in Ids /\ s[n] \in Inodes
    BY <1>1, <1>2, INodeFacts
  <2>2. s[n].id \in Ids
    BY <2>1 DEF Inodes
  <2>3. Rewritten(s[s[n].id], b) \in Values
    BY <2>2, StoresAreFunctions DEF Rewritten, Data, Blobs, Values
  <2> DEFINE r == [s EXCEPT ![s[n].id] = Rewritten(s[s[n].id], b)]
  <2>4. r \in Stores
    BY <2>2, <2>3, PutType
  <2>5. CASE s[n].id # n
    <3>1. r[n] = s[n]
      BY <2>1, <2>5, StoresAreFunctions
    <3>2. [r[n] EXCEPT !.size = size] \in Values
      BY <2>1, <3>1 DEF Inodes, Values
    <3> QED
      BY <2>1, <2>4, <3>2, PutType
  <2>6. CASE s[n].id = n
    <3> DEFINE v == Rewritten(s[s[n].id], b)
    <3>1. v \in Inodes \/ v = Data(b)
      BY <2>1, <2>6 DEF Rewritten
    <3>2. [v EXCEPT !.size = size] \in Values
      <4>1. CASE v \in Inodes
        BY <4>1 DEF Inodes, Values
      <4>2. CASE v = Data(b)
        BY <4>2 DEF Data, Blobs, Values
      <4> HIDE DEF v
      <4> QED
        BY <3>1, <4>1, <4>2
    <3>3. r[n] = v
      BY <2>1, <2>6, StoresAreFunctions
    <3> QED
      BY <2>1, <2>4, <3>2, <3>3, PutType
  <2> QED
    BY <2>5, <2>6
<1> QED
  BY <1>1, <1>2, AnswerType DEF syncFile

LEMMA WriteAndCloseType ==
    ASSUME NEW s \in Stores, NEW p \in Paths, NEW flag, NEW data \in Seq(Bytes),
           NEW position \in Nat \union {NoPosition}
    PROVE  WriteAndClose(s, p, flag, data, position) \in Results
<1> DEFINE n   == FindId(s, p)
           b   == Text(s[s[n].id])
           at  == IF position # NoPosition THEN position
                  ELSE IF isAppendable(flag) THEN s[n].size ELSE 0
           end == at + Len(data)
<1>1. n \in Ids \union Errors /\ INodeError(s, n) \in Answers
  BY FindType, INodeFacts DEF Answers
<1>2. ASSUME INodeError(s, n) = "ok"
      PROVE  syncFile(s, p, Overlay(b, at, data),
                      IF end > s[n].size THEN end ELSE s[n].size) \in Results
  <2>1. n \in Ids /\ s[n] \in Inodes
    BY <1>1, <1>2, INodeFacts
  <2>2. s[n].id \in Ids /\ s[n].size \in Nat
    BY <2>1 DEF Inodes
  <2>3. at \in Nat /\ end \in Nat
    BY <2>2 DEF NoPosition
  <2>4. Overlay(b, at, data) \in Seq(Bytes)
    BY <2>2, <2>3, StoresAreFunctions, TextType, OverlayType
  <2> HIDE DEF at, b
  <2> QED
    BY <2>2, <2>3, <2>4, syncFileType
<1>3. Fail(s, "EPERM") \in Results /\ Fail(s, "Error") \in Results
  BY AnswerType DEF Answers, Errors
<1>4. Fail(s, INodeError(s, n)) \in Results
  BY <1>1, AnswerType
<1> QED
  BY <1>2, <1>3, <1>4 DEF WriteAndClose

LEMMA writeFileSyncType ==
    ASSUME NEW s \in Stores, NEW p \in Paths, NEW data \in Seq(Bytes), NEW flag,
           NEW mode \in Perms, NEW cred \in Creds, NEW new, new[1] \in Ids, new[2] \in Ids
    PROVE  /\ writeFileSync(s, p, data, flag, mode, cred, new) \in Results
           /\ appendFileSync(s, p, data, flag, mode, cred, new) \in Results
<1> DEFINE o == openSync(s, p, flag, mode, cred, new)
<1>1. o \in Results
  BY openSyncType
<1>2. o.st \in Stores
  BY <1>1 DEF Results
<1>3. /\ WriteAndClose(o.st, p, flag, data, 0) \in Results
      /\ WriteAndClose(o.st, p, flag, data, NoPosition) \in Results
  BY <1>2, WriteAndCloseType
<1> QED
  BY <1>1, <1>3 DEF writeFileSync, appendFileSync

LEMMA truncateSyncType ==
    ASSUME NEW s \in Stores, NEW p \in Paths, NEW len \in Nat,
           NEW cred \in Creds, NEW new, new[1] \in Ids, new[2] \in Ids
    PROVE  truncateSync(s, p, len, cred, new) \in Results
<1> DEFINE o == openSync(s, p, "r+", {2, 5, 7, 8}, cred, new)
           n == FindId(s, p)
           b == Text(s[s[n].id])
<1>1. o \in Results
  BY openSyncType DEF Perms, ModeBits
<1>2. ASSUME o.ret = "ok", INodeError(s, n) # "ok" PROVE FALSE
  <2>1. pathNotExistsAction("r+") = "THROW_EXCEPTION"
    BY DEF pathNotExistsAction
  <2>2. o = Fail(s, "ENOENT")
    BY <1>2, <2>1 DEF openSync, openMissing
  <2> QED
    BY <1>2, <2>2 DEF Fail
<1>3. ASSUME o.ret = "ok"
      PROVE  IF len > Len(b)
             THEN WriteAndClose(s, p, "r+", [i \in 1 .. len - Len(b) |-> 0], Len(b)) \in Results
             ELSE syncFile(s, p, SubSeq(b, 1, len), len) \in Results
  <2>1. s[n].id \in Ids
    BY <1>2, <1>3, FindType, INodeFacts DEF Inodes
  <2>2. b \in Seq(Bytes)
    BY <2>1, StoresAreFunctions, TextType
  <2>3. Len(b) \in Nat
    BY <2>2
  <2>4. CASE len > Len(b)
    <3>1. [i \in 1 .. len - Len(b) |-> 0] \in Seq(Bytes)
      BY <2>3, <2>4, ByteAssumption
    <3> QED
      BY <2>3, <2>4, <3>1, WriteAndCloseType
  <2>5. CASE ~(len > Len(b))
    <3>1. SubSeq(b, 1, len) \in Seq(Bytes)
      BY <2>2, <2>3, <2>5
    <3> QED
      BY <2>5, <3>1, syncFileType
  <2> QED
    BY <2>4, <2>5
<1> QED
  BY <1>1, <1>3 DEF truncateSync

-----------------------------------------------------------------------------
LEMMA makeRootDirectoryType ==
    ASSUME NEW i \in Ids
    PROVE  makeRootDirectory(i) \in Stores
<1>1. Inode(i, RootSize, "dir", 0 .. 8, 0, 0) \in Values
  BY UidAssumption DEF Inode, Inodes, Values, RootSize, Types, Perms, ModeBits
<1>2. Listing(NoEntries) \in Values /\ Absent \in Values
  BY NoEntriesType, ListingType DEF Values
<1> QED
  BY <1>1, <1>2, StoresAreFunctions DEF makeRootDirectory

LEMMA EmptyType ==
    ASSUME NEW i \in randomUUID({Root})
    PROVE  makeRootDirectory(i) \in Stores
BY IdsAssumption, UUIDAssumption, makeRootDirectoryType

LEMMA InitType == Init => TypeOK
BY EmptyType DEF Init, TypeOK

LEMMA ApplyType ==
    ASSUME NEW r \in Results, Apply(r)
    PROVE  TypeOK'
BY DEF Apply, Results, Answers, TypeOK

(* The types hold of every key of the store and of every answer, for all   *)
(* constants: no sequence of calls ever leaves a malformed inode, listing  *)
(* or file, whoever calls and whatever fails (TypeOK of the runs).         *)
THEOREM TypeCorrect == Spec => []TypeOK
<1>1. ASSUME TypeOK, Next PROVE TypeOK'
  <2>1. store \in Stores
    BY <1>1 DEF TypeOK
  <2>2. ASSUME NEW p \in UsedPaths, NEW cred \in Users
        PROVE  p \in Paths /\ cred \in Creds
    BY UsedPathsType, ParameterAssumption
  <2>3. ASSUME NEW p \in UsedPaths, NEW cred \in Users, NEW mode \in Modes,
               Mkdir(p, mode, cred)
        PROVE  TypeOK'
    <3>1. PICK new \in NewIds(store) : Apply(mkdirSync(store, p, mode, cred, new))
      BY <2>3 DEF Mkdir
    <3>2. mkdirSync(store, p, mode, cred, new) \in Results
      BY <2>1, <2>2, NewIdsType, DataType, commitNewFileType, ParameterAssumption
         DEF mkdirSync, Types
    <3> QED
      BY <3>1, <3>2, ApplyType
  <2>4. ASSUME NEW p \in UsedPaths, NEW cred \in Users, NEW mode \in Modes,
               NEW data \in Contents, NEW flag \in WriteFlags,
               WriteFile(p, data, flag, mode, cred) \/ AppendFile(p, data, flag, mode, cred)
        PROVE  TypeOK'
    <3>1. PICK new \in NewIds(store) :
              \/ Apply(writeFileSync(store, p, data, flag, mode, cred, new))
              \/ Apply(appendFileSync(store, p, data, flag, mode, cred, new))
      BY <2>4 DEF WriteFile, AppendFile
    <3>2. data \in Seq(Bytes) /\ mode \in Perms
      BY ParameterAssumption
    <3> QED
      BY <2>1, <2>2, <3>1, <3>2, NewIdsType, writeFileSyncType, ApplyType
  <2>5. ASSUME NEW p \in UsedPaths, NEW cred \in Users, NEW len \in 0 .. MaxLen,
               Truncate(p, len, cred)
        PROVE  TypeOK'
    <3>1. PICK new \in NewIds(store) : Apply(truncateSync(store, p, len, cred, new))
      BY <2>5 DEF Truncate
    <3> QED
      BY <2>1, <2>2, <3>1, NewIdsType, truncateSyncType, ApplyType
  <2>6. ASSUME NEW p \in UsedPaths, NEW cred \in Users, Unlink(p, cred) \/ Rmdir(p, cred)
        PROVE  TypeOK'
    BY <2>1, <2>2, <2>6, removeEntryType, rmdirSyncType, ApplyType
       DEF Unlink, unlinkSync, Rmdir
  <2>7. ASSUME NEW p \in UsedPaths, NEW q \in UsedPaths, NEW cred \in Users,
               Rename(p, q, cred)
        PROVE  TypeOK'
    BY <2>1, <2>2, <2>7, renameSyncType, ApplyType DEF Rename
  <2>8. CASE Empty
    <3>1. PICK i \in randomUUID({Root}) : Apply(Done(makeRootDirectory(i)))
      BY <2>8 DEF Empty
    <3>2. Done(makeRootDirectory(i)) \in Results
      BY EmptyType DEF Done, Results, Answers
    <3> QED
      BY <3>1, <3>2, ApplyType
  <2> QED
    BY <1>1, <2>3, <2>4, <2>5, <2>6, <2>7, <2>8 DEF Next
<1>2. ASSUME TypeOK, UNCHANGED vars PROVE TypeOK'
  BY <1>2 DEF TypeOK, vars
<1> QED
  BY <1>1, <1>2, InitType, PTL DEF Spec

-----------------------------------------------------------------------------
(* makeRootDirectory *)
LEMMA RootTidy ==
    ASSUME NEW i \in randomUUID({Root}), NEW t, t = makeRootDirectory(i)
    PROVE  Tidy(t) /\ InodeIds(t) = {Root}
<1>1. i \in Ids /\ i # Root
  BY IdsAssumption, UUIDAssumption
<1>2. t = RootOnly(i)
  BY DEF makeRootDirectory, RootOnly
<1> QED BY <1>1, <1>2, RootOnlyTidy

-----------------------------------------------------------------------------
(* The operations.  What a call answers is either an error, with the store *)
(* as it was, or "ok".                                                     *)
LEMMA Answers2 ==
    ASSUME NEW s, NEW e
    PROVE  /\ Fail(s, e).st = s /\ Fail(s, e).ret = e
           /\ Done(s).st = s /\ Done(s).ret = "ok"
BY DEF Fail, Done

LEMMA NewIdsFresh ==
    ASSUME NEW s \in Stores, NEW new \in NewIds(s)
    PROVE  Unused(s, new)
<1>1. Used(s) \in SUBSET Ids
  BY DEF Used
<1>2. PICK i \in randomUUID(Used(s)) :
        new \in {<<i, j>> : j \in randomUUID(Used(s) \union {i})}
  BY DEF NewIds
<1>3. i \in Ids \ Used(s)
  BY <1>1, <1>2, UUIDAssumption
<1>4. Used(s) \union {i} \in SUBSET Ids
  BY <1>1, <1>3
<1>5. PICK j \in randomUUID(Used(s) \union {i}) : new = <<i, j>>
  BY <1>2
<1>6. j \in Ids \ (Used(s) \union {i})
  BY <1>4, <1>5, UUIDAssumption
<1> QED
  BY <1>3, <1>5, <1>6 DEF Unused

(* Who may make a node at a path, if it is free. *)
MayCreate(s, p, cred) == Access(s, FindId(s, dirname(p)), {2}, cred)

(* commitNewFile keeps the store tidy; where it succeeds the path leads to *)
(* the new node.                                                           *)
LEMMA commitNewFileTidy ==
    ASSUME NEW s, Tidy(s), NEW p \in Paths, NEW type \in Types, NEW mode \in Perms,
           NEW cred \in Creds, NEW data \in Listings \union Blobs,
           data = IF type = "dir" THEN Listing(NoEntries) ELSE Data(<<>>),
           NEW new, Unused(s, new),
           NEW r, r = commitNewFile(s, p, type, mode, cred, data, new)
    PROVE  /\ Tidy(r.st)
           /\ r.ret # "ok" => r.st = s
           /\ IsFree(s, p) /\ r.ret # "ok" => r.ret = "EACCES" /\ ~MayCreate(s, p, cred)
           /\ r.ret = "ok" =>
                /\ CreatedAt(s, r.st, p, type)
                /\ FindId(r.st, p) \in InodeIds(r.st)
                /\ type = "file" => FindId(r.st, p) \notin DirIds(r.st)
<1> DEFINE d == FindId(s, dirname(p))
           f == basename(p)
           inode == Inode(new[1], DataLen(data), type, mode, cred.uid, cred.gid)
           ok == /\ ListingError(s, d) = "ok" /\ Access(s, d, {2}, cred)
                 /\ p # <<>> /\ entries(s, d)[f] = NoEntry
<1>1. s \in Stores /\ Sound(s)
  BY DEF Tidy, Sound, Wired
<1>2. d \in Ids \union Errors /\ dirname(p) \in Paths
  BY <1>1, DirnameType, FindType
<1>3. ListingError(s, d) = "ok" => d \in DirIds(s) /\ d \in InodeIds(s)
  BY <1>1, <1>2, SoundReads DEF DirIds
<1>4. CASE ~ok
  <2>1. r.st = s /\ r.ret # "ok"
    BY <1>4, Answers2 DEF commitNewFile
  <2>2. ASSUME IsFree(s, p) PROVE r.ret = "EACCES" /\ ~MayCreate(s, p, cred)
    <3>1. ListingError(s, d) = "ok"
      BY <1>1, <1>2, <2>2, SoundReads DEF IsFree
    <3>2. ~Access(s, d, {2}, cred)
      BY <1>4, <2>2, <3>1 DEF IsFree
    <3> QED BY <3>1, <3>2, Answers2 DEF commitNewFile, MayCreate
  <2> QED BY <2>1, <2>2
<1>5. CASE ok
  <2> DEFINE t == Committed(s, d, f, new, data, inode)
  <2>1. r.st = t /\ r.ret = "ok"
    BY <1>5, Answers2 DEF commitNewFile, Committed
  <2>2. cred.uid \in Uids /\ cred.gid \in Uids
    BY DEF Creds
  <2>3. /\ Tidy(t) /\ CreatedAt(s, t, p, type)
        /\ FindId(t, p) = new[2] /\ new[2] \in InodeIds(t)
        /\ DirIds(t) = DirIds(s) \union (IF type = "dir" THEN {new[2]} ELSE {})
        /\ new[2] \notin InodeIds(s)
    <3> DEFINE uid == cred.uid
               gid == cred.gid
    <3>1. /\ uid \in Uids /\ gid \in Uids /\ p # <<>>
          /\ ListingError(s, FindId(s, dirname(p))) = "ok"
          /\ entries(s, FindId(s, dirname(p)))[basename(p)] = NoEntry
          /\ t = Committed(s, FindId(s, dirname(p)), basename(p), new, data,
                           Inode(new[1], DataLen(data), type, mode, uid, gid))
      BY <1>5, <2>2
    <3>2. /\ Tidy(s) /\ p \in Paths /\ type \in Types /\ mode \in Perms
          /\ data \in Listings \union Blobs /\ Unused(s, new)
          /\ data = IF type = "dir" THEN Listing(NoEntries) ELSE Data(<<>>)
      OBVIOUS
    <3> HIDE DEF t, uid, gid
    <3> QED BY ONLY <3>1, <3>2, CommitTidy
  <2> HIDE DEF t
  <2> QED BY <2>1, <2>3 DEF DirIds
<1> QED BY <1>4, <1>5

(* Who may delete the file at a path. *)
MayLose(s, p, cred) ==
    FindId(s, p) \notin DirIds(s) /\ Access(s, FindId(s, p), W_OK, cred)

(* removeEntry keeps the store tidy, if a directory it is asked to delete  *)
(* is empty, as rmdirSync makes sure, and frees the path.                  *)
LEMMA removeEntryTidy ==
    ASSUME NEW s, Tidy(s), NEW p \in Paths, NEW isDir \in BOOLEAN, NEW cred,
           isDir => (FindId(s, p) \in DirIds(s) => entries(s, FindId(s, p)) = NoEntries),
           NEW r, r = removeEntry(s, p, isDir, cred)
    PROVE  /\ Tidy(r.st)
           /\ r.ret # "ok" => r.st = s
           /\ Used(r.st) \subseteq Used(s)
           /\ r.ret = "ok" => IsFree(r.st, p) /\ TakenOutAt(s, r.st, p)
           /\ r.ret = "ok" /\ ~isDir => MayLose(s, p, cred)
<1> DEFINE d == FindId(s, dirname(p))
           f == basename(p)
           n == entries(s, d)[f]
           ok == /\ ListingError(s, d) = "ok" /\ n # NoEntry /\ INodeError(s, n) = "ok"
                 /\ (s[n].type = "dir" <=> isDir) /\ Access(s, n, W_OK, cred)
<1>1. s \in Stores /\ Sound(s) /\ Wired(s)
  BY DEF Tidy, Sound, Wired
<1>2. d \in Ids \union Errors /\ dirname(p) \in Paths /\ f \in AllNames
  BY <1>1, DirnameType, FindType DEF AllNames
<1>3. ListingError(s, d) = "ok" => d \in DirIds(s) /\ d \in InodeIds(s) /\ d \in Ids
  BY <1>1, <1>2, SoundReads DEF DirIds, InodeIds
<1>4. \/ r.ret # "ok" /\ r.st = s
      \/ r = Done(EntryRemoved(s, d, f, n)) /\ ok
  <2>1. CASE ListingError(s, d) # "ok"
    BY <2>1, Answers2 DEF removeEntry
  <2>2. CASE ListingError(s, d) = "ok" /\ n = NoEntry
    BY <2>2, Answers2 DEF removeEntry
  <2>3. CASE ListingError(s, d) = "ok" /\ n # NoEntry /\ INodeError(s, n) # "ok"
    BY <2>3, Answers2 DEF removeEntry
  <2>4. CASE ListingError(s, d) = "ok" /\ n # NoEntry /\ INodeError(s, n) = "ok"
    <3>1. n \in Ids \union Errors
      BY <1>1, <1>2, <1>3, <2>4 DEF Sound, Linked, InodeIds
    <3>2. n \in InodeIds(s)
      BY <1>1, <2>4, <3>1, SoundReads
    <3>3. s[n].type = "dir" \/ s[n].type = "file"
      BY <1>1, <3>2, DataTypes DEF Types
    <3>4. \/ \E e \in {"EACCES", "EISDIR", "ENOTDIR"} : r = Fail(s, e)
          \/ /\ r = Done(EntryRemoved(s, d, f, n))
             /\ (s[n].type = "dir" <=> isDir) /\ Access(s, n, W_OK, cred)
      BY <2>4 DEF removeEntry, EntryRemoved, Deleted, Gone, Unlisted
    <3> QED BY <2>4, <3>4, Answers2
  <2> QED BY <2>1, <2>2, <2>3, <2>4
<1>5. CASE r.ret # "ok" /\ r.st = s
  BY <1>5
<1>6. CASE r = Done(EntryRemoved(s, d, f, n)) /\ ok
  <2>1. n = FindId(s, p)
    BY <1>1, <1>6, EntryIsFound
  <2>2. n \in DirIds(s) => entries(s, n) = NoEntries
    BY <1>6, <2>1 DEF DirIds
  <2> DEFINE t == EntryRemoved(s, d, f, n)
  <2>3. /\ Tidy(t) /\ TakenOutAt(s, t, p) /\ IsFree(t, p) /\ Used(t) \subseteq Used(s)
    BY <1>6, <2>1, <2>2, RemovalTidy
  <2>4. r.st = t /\ r.ret = "ok"
    BY <1>6, Answers2
  <2>5. ~isDir => MayLose(s, p, cred)
    BY <1>6, <2>1 DEF MayLose, DirIds
  <2> HIDE DEF t
  <2> QED BY <2>3, <2>4, <2>5
<1> QED BY <1>4, <1>5, <1>6

LEMMA rmdirSyncTidy ==
    ASSUME NEW s, Tidy(s), NEW p \in Paths, NEW cred, NEW r, r = rmdirSync(s, p, cred)
    PROVE  /\ Tidy(r.st)
           /\ r.ret # "ok" => r.st = s
           /\ r.ret = "ok" => TakenOutAt(s, r.st, p)
<1> DEFINE n == FindId(s, p)
<1>1. s \in Stores /\ Sound(s)
  BY DEF Tidy, Sound, Wired
<1>2. CASE r.ret # "ok" /\ r.st = s
  BY <1>2
<1>3. CASE r = removeEntry(s, p, TRUE, cred) /\ entries(s, n) = NoEntries
  <2> DEFINE isDir == TRUE
  <2>1. /\ isDir \in BOOLEAN /\ r = removeEntry(s, p, isDir, cred)
        /\ isDir => (FindId(s, p) \in DirIds(s) => entries(s, FindId(s, p)) = NoEntries)
    BY <1>3
  <2> HIDE DEF isDir
  <2> QED BY <2>1, removeEntryTidy
<1>4. \/ r.ret # "ok" /\ r.st = s
      \/ r = removeEntry(s, p, TRUE, cred) /\ entries(s, n) = NoEntries
  <2> DEFINE x == removeEntry(s, p, TRUE, cred)
  <2>1. r = IF INodeError(s, n) # "ok" THEN Fail(s, INodeError(s, n))
            ELSE IF ~Access(s, n, R_OK, cred) THEN Fail(s, "EACCES")
            ELSE IF ListingError(s, n) # "ok" THEN Fail(s, ListingError(s, n))
            ELSE IF entries(s, n) # NoEntries THEN Fail(s, "ENOTEMPTY")
            ELSE x
    BY DEF rmdirSync
  <2> HIDE DEF x, n
  <2>2. (r.ret # "ok" /\ r.st = s) \/ (r = x /\ entries(s, n) = NoEntries)
    BY <2>1, Answers2
  <2> QED BY <2>2 DEF x
<1> QED BY <1>2, <1>3, <1>4

LEMMA unlinkSyncTidy ==
    ASSUME NEW s, Tidy(s), NEW p \in Paths, NEW cred, NEW r, r = unlinkSync(s, p, cred)
    PROVE  /\ Tidy(r.st)
           /\ r.ret # "ok" => r.st = s
           /\ Used(r.st) \subseteq Used(s)
           /\ r.ret = "ok" => /\ IsFree(r.st, p) /\ TakenOutAt(s, r.st, p)
                              /\ MayLose(s, p, cred)
<1> DEFINE isDir == FALSE
<1>1. isDir \in BOOLEAN /\ ~isDir /\ r = removeEntry(s, p, isDir, cred)
  BY DEF unlinkSync
<1> HIDE DEF isDir
<1> QED BY <1>1, removeEntryTidy

(* renameSync keeps the store tidy, over a file and within one directory   *)
(* too: two paths of one name each lead to one directory only if they are  *)
(* the same.                                                               *)
LEMMA renameSyncTidy ==
    ASSUME NEW s, Tidy(s), NEW p \in Paths, NEW q \in Paths, q # <<>>, NEW cred,
           NEW r, r = renameSync(s, p, q, cred)
    PROVE  /\ Tidy(r.st)
           /\ r.ret # "ok" => r.st = s
           /\ r.ret = "ok" => RehungAt(s, r.st, p, q)
<1> DEFINE d == FindId(s, dirname(p))
           e == FindId(s, dirname(q))
           f == basename(p)
           g == basename(q)
           old == Unlisted(entries(s, d), f)
           new == IF dirname(q) = dirname(p) THEN old ELSE entries(s, e)
           target == new[g]
           ok == /\ ListingError(s, d) = "ok" /\ entries(s, d)[f] # NoEntry
                 /\ ~IsInsideItself(p, dirname(q)) /\ ListingError(s, e) = "ok"
                 /\ TargetError(s, new, g) = "ok"
<1>1. s \in Stores /\ Sound(s) /\ Wired(s)
  BY DEF Tidy, Sound, Wired
<1>2. /\ d \in Ids \union Errors /\ dirname(p) \in Paths /\ f \in AllNames
      /\ e \in Ids \union Errors /\ dirname(q) \in Paths /\ g \in Names
  BY <1>1, DirnameType, FindType, DirnameLess DEF AllNames
<1>3. /\ ListingError(s, d) = "ok" => d \in DirIds(s) /\ d \in InodeIds(s) /\ d \in Ids
      /\ ListingError(s, e) = "ok" => e \in DirIds(s) /\ e \in InodeIds(s) /\ e \in Ids
  BY <1>1, <1>2, SoundReads DEF DirIds, InodeIds
<1>4. \/ r.ret # "ok" /\ r.st = s
      \/ r = Done(EntryMoved(s, d, f, e, g, target, old, new)) /\ ok
  <2> DEFINE m == Moved(s, p, q)
  <2>1. \/ r.ret # "ok" /\ r.st = s
        \/ /\ r = m
           /\ ListingError(s, d) = "ok" /\ entries(s, d)[f] # NoEntry
           /\ ~IsInsideItself(p, dirname(q)) /\ ListingError(s, e) = "ok"
    <3> HIDE DEF m
    <3> QED BY Answers2 DEF renameSync, m
  <2>2. \/ m.ret # "ok" /\ m.st = s
        \/ /\ m = Done(EntryMoved(s, d, f, e, g, target, old, new))
           /\ TargetError(s, new, g) = "ok"
    BY Answers2 DEF Moved, EntryMoved, Cleared, Deleted, Gone
  <2> QED BY <2>1, <2>2
<1>5. CASE r.ret # "ok" /\ r.st = s
  BY <1>5
<1>6. CASE r = Done(EntryMoved(s, d, f, e, g, target, old, new)) /\ ok
  <2> DEFINE t == EntryMoved(s, d, f, e, g, target, old, new)
  <2>1. r.st = t /\ r.ret = "ok"
    BY <1>6, Answers2
  <2>2. /\ ListingError(s, d) = "ok" /\ ListingError(s, e) = "ok" /\ entries(s, d)[f] # NoEntry
        /\ target # NoEntry => INodeError(s, target) = "ok" /\ s[target].type = "file"
        /\ IF p = <<>> \/ dirname(q) = <<>> THEN p # dirname(q)
           ELSE ~IsAtOrAbove(p, dirname(q))
    BY <1>6 DEF TargetError, IsInsideItself
  <2>3. old = [entries(s, d) EXCEPT ![f] = NoEntry]
    BY DEF Unlisted
  <2>4. Tidy(t) /\ RehungAt(s, t, p, q)
    <3>1. /\ d = FindId(s, dirname(p)) /\ e = FindId(s, dirname(q)) /\ target = new[basename(q)]
          /\ new = IF dirname(q) = dirname(p) THEN old ELSE entries(s, e)
          /\ t = EntryMoved(s, d, basename(p), e, basename(q), target, old, new)
          /\ f = basename(p)
      OBVIOUS
    <3> HIDE DEF d, e, f, g, old, new, target, t
    <3>2. old = [entries(s, d) EXCEPT ![basename(p)] = NoEntry] /\ target = new[basename(q)]
      BY <2>3, <3>1
    <3> QED BY <2>2, <3>1, <3>2, MoveTidy
  <2> HIDE DEF t
  <2> QED BY <2>1, <2>4
<1> QED BY <1>4, <1>5, <1>6

(* The store syncFile leaves, where the path leads to a file, is the one   *)
(* of Refilled.                                                            *)
FileSynced(s, n, c, size) == [s EXCEPT ![s[n].id] = c, ![n].size = size]

LEMMA SyncIsRefilled ==
    ASSUME NEW s, Wired(s), NEW n \in InodeIds(s), NEW c, NEW size \in Nat,
           NEW inode, inode = [s[n] EXCEPT !.size = size]
    PROVE  /\ FileSynced(s, n, c, size) = Refilled(s, n, c, inode)
           /\ inode \in Inodes /\ inode.id = s[n].id /\ inode.type = s[n].type
           /\ inode.size = size
<1>1. n \in Ids /\ s[n].id # n /\ s[n] \in Inodes /\ DOMAIN s = Ids
  BY DataTypes DEF Wired, Stores
<1>2. inode \in Inodes /\ inode.id = s[n].id /\ inode.type = s[n].type /\ inode.size = size
  BY <1>1 DEF Inodes
<1> DEFINE r == [s EXCEPT ![s[n].id] = c]
<1>3. r[n] = s[n]
  BY <1>1
<1>4. FileSynced(s, n, c, size) = [r EXCEPT ![n] = [r[n] EXCEPT !.size = size]]
  BY DEF FileSynced
<1>5. FileSynced(s, n, c, size) = [r EXCEPT ![n] = inode]
  BY <1>3, <1>4
<1>6. Refilled(s, n, c, inode) = [r EXCEPT ![n] = inode]
  BY DEF Refilled
<1> QED BY <1>2, <1>5, <1>6

(* r is the answer of a call that gives the file at p other contents, or   *)
(* fails and leaves everything as it was.                                  *)
Refills(s, p, r) ==
    /\ Tidy(r.st)
    /\ r.ret # "ok" => r.st = s
    /\ r.ret = "ok" => RefilledAt(s, r.st, p)

LEMMA syncFileTidy ==
    ASSUME NEW s, Tidy(s), NEW p \in Paths, IsNoDir(s, p), NEW b \in Seq(Bytes),
           NEW size, size = Len(b), NEW r, r = syncFile(s, p, b, size)
    PROVE  Refills(s, p, r)
<1> DEFINE n == FindId(s, p)
           c == Rewritten(s[s[n].id], b)
<1>1. s \in Stores /\ Sound(s) /\ Wired(s)
  BY DEF Tidy, Sound, Wired
<1>2. n \in Ids \union Errors
  BY <1>1, FindType
<1>3. CASE INodeError(s, n) # "ok"
  BY <1>3, Answers2 DEF syncFile, Refills
<1>4. CASE INodeError(s, n) = "ok"
  <2>1. n \in InodeIds(s) /\ s[n].type = "file"
    <3>1. n \in InodeIds(s) /\ n \notin DirIds(s)
      BY <1>1, <1>2, <1>4, SoundReads DEF IsNoDir
    <3> QED BY <1>1, <3>1, DataTypes DEF Types, DirIds
  <2>2. r = Done(FileSynced(s, n, c, size))
    BY <1>4 DEF syncFile, FileSynced
  <2>3. s[s[n].id] \in Blobs /\ size \in Nat
    BY <1>1, <2>1, DataTypes
  <2>4. Data(b) \in Blobs /\ DataLen(Data(b)) = size
    BY DEF Data, Blobs, DataLen, Text
  <2>5. c = Data(b)
    <3>1. ASSUME NEW x \in Blobs PROVE x = Data(Text(x))
      BY DEF Blobs, Data, Text
    <3> QED BY <2>3, <3>1 DEF Rewritten
  <2> HIDE DEF n, c
  <2> DEFINE inode == [s[n] EXCEPT !.size = size]
             t == Refilled(s, n, c, inode)
  <2>6. inode = [s[n] EXCEPT !.size = size] /\ t = Refilled(s, n, c, inode)
    OBVIOUS
  <2> HIDE DEF inode, t
  <2>7. /\ FileSynced(s, n, c, size) = t
        /\ inode \in Inodes /\ inode.id = s[n].id /\ inode.type = s[n].type
        /\ inode.size = size
    BY <1>1, <2>1, <2>3, <2>6, SyncIsRefilled
  <2>8. inode.type = "file" /\ inode.size = DataLen(c) /\ c \in Blobs
    BY <2>1, <2>4, <2>5, <2>7
  <2>9. Tidy(s) /\ t = Refilled(s, n, c, inode)
    BY <2>6
  <2>10. Tidy(t)
    BY ONLY <2>1, <2>7, <2>8, <2>9, RefilledTidy
  <2>11. RefilledAt(s, t, p)
    BY ONLY <2>1, <2>7, <2>8, <2>9 DEF RefilledAt, n
  <2> QED BY <2>2, <2>7, <2>10, <2>11, Answers2 DEF Refills
<1> QED BY <1>3, <1>4

(* A write, wherever it starts, leaves the size of the file exact, and the *)
(* constellation it would fail in does not occur.                          *)
LEMMA WriteAndCloseTidy ==
    ASSUME NEW s, Tidy(s), NEW p \in Paths, IsNoDir(s, p), NEW flag,
           NEW data \in Seq(Bytes), NEW position \in Nat \union {NoPosition},
           NEW r, r = WriteAndClose(s, p, flag, data, position)
    PROVE  /\ Refills(s, p, r)
           /\ isWriteable(flag) /\ FindId(s, p) \in InodeIds(s) => r.ret = "ok"
<1> DEFINE n   == FindId(s, p)
           b   == Text(s[s[n].id])
           at  == IF position # NoPosition THEN position
                  ELSE IF isAppendable(flag) THEN s[n].size ELSE 0
           end == at + Len(data)
           size == IF end > s[n].size THEN end ELSE s[n].size
           x == syncFile(s, p, Overlay(b, at, data), size)
<1>1. s \in Stores /\ Sound(s) /\ Wired(s) /\ Exact(s)
  BY DEF Tidy, Sound, Wired
<1>2. n \in Ids \union Errors
  BY <1>1, FindType
<1>3. CASE INodeError(s, n) # "ok"
  BY <1>1, <1>2, <1>3, Answers2, SoundReads DEF WriteAndClose, Refills
<1>4. CASE INodeError(s, n) = "ok"
  <2>1. n \in InodeIds(s) /\ s[n].type = "file"
    <3>1. n \in InodeIds(s) /\ n \notin DirIds(s)
      BY <1>1, <1>2, <1>4, SoundReads DEF IsNoDir
    <3> QED BY <1>1, <3>1, DataTypes DEF Types, DirIds
  <2>2. b \in Seq(Bytes) /\ s[n].size = Len(b)
    <3>1. s[s[n].id] \in Blobs
      BY <1>1, <2>1, DataTypes
    <3>2. b \in Seq(Bytes)
      BY <3>1, TextType DEF Values
    <3> QED BY <1>1, <2>1, <3>2 DEF Exact, ExactAt, DataLen
  <2>3. Len(b) \in Nat /\ Len(data) \in Nat /\ at \in Nat
    BY <2>2 DEF NoPosition
  <2>4. ~(end > Len(b) /\ end <= s[n].size)
    BY <2>2, <2>3
  <2>5. Overlay(b, at, data) \in Seq(Bytes) /\ size = Len(Overlay(b, at, data))
    <3> DEFINE c == Overlay(b, at, data)
    <3>1. c \in Seq(Bytes)
      BY <2>2, <2>3, OverlayType
    <3>2. Len(c) = IF at + Len(data) > Len(b) THEN at + Len(data) ELSE Len(b)
      BY <2>2, <2>3, OverlayLen
    <3> HIDE DEF at, b, n, c
    <3>3. size = Len(c)
      BY <2>2, <3>2
    <3> QED BY <3>1, <3>3 DEF c
  <2>6. r = IF ~isWriteable(flag) THEN Fail(s, "EPERM") ELSE x
    BY <1>4, <2>4 DEF WriteAndClose
  <2>7. x.ret = "ok"
    BY <1>4, Answers2 DEF syncFile
  <2> HIDE DEF n, b, at, end, size
  <2>8. Refills(s, p, x)
    BY <2>5, syncFileTidy
  <2> HIDE DEF x
  <2> QED BY <2>6, <2>7, <2>8, Answers2 DEF Refills
<1> QED BY <1>3, <1>4

-----------------------------------------------------------------------------
(* The path of an open file leads to a file. *)
IsFileAt(s, p) == FindId(s, p) \in InodeIds(s) /\ IsNoDir(s, p)

LEMMA createFileSyncTidy ==
    ASSUME NEW s, Tidy(s), NEW p \in Paths, NEW mode \in Perms, NEW cred \in Creds,
           NEW new, Unused(s, new), NEW r, r = createFileSync(s, p, mode, cred, new)
    PROVE  /\ Tidy(r.st)
           /\ r.ret # "ok" => r.st = s
           /\ IsFree(s, p) /\ r.ret # "ok" => r.ret = "EACCES" /\ ~MayCreate(s, p, cred)
           /\ r.ret = "ok" => IsFileAt(r.st, p) /\ CreatedAt(s, r.st, p, "file")
<1> DEFINE type == "file"
           data == Data(<<>>)
<1>1. /\ type \in Types /\ type = "file" /\ data \in Listings \union Blobs
      /\ data = IF type = "dir" THEN Listing(NoEntries) ELSE Data(<<>>)
      /\ r = commitNewFile(s, p, type, mode, cred, data, new)
  BY DataType DEF Types, createFileSync
<1> HIDE DEF type, data
<1>2. /\ Tidy(r.st)
      /\ r.ret # "ok" => r.st = s
      /\ IsFree(s, p) /\ r.ret # "ok" => r.ret = "EACCES" /\ ~MayCreate(s, p, cred)
      /\ r.ret = "ok" =>
           /\ CreatedAt(s, r.st, p, type)
           /\ FindId(r.st, p) \in InodeIds(r.st)
           /\ type = "file" => FindId(r.st, p) \notin DirIds(r.st)
  BY <1>1, commitNewFileTidy
<1> QED BY <1>1, <1>2 DEF IsFileAt, IsNoDir

LEMMA mkdirSyncTidy ==
    ASSUME NEW s, Tidy(s), NEW p \in Paths, NEW mode \in Perms, NEW cred \in Creds,
           NEW new, Unused(s, new), NEW r, r = mkdirSync(s, p, mode, cred, new)
    PROVE  /\ Tidy(r.st)
           /\ r.ret # "ok" => r.st = s
           /\ r.ret = "ok" => CreatedAt(s, r.st, p, "dir")
<1> DEFINE type == "dir"
           data == Listing(NoEntries)
<1>1. /\ type \in Types /\ data \in Listings \union Blobs
      /\ data = IF type = "dir" THEN Listing(NoEntries) ELSE Data(<<>>)
      /\ r = commitNewFile(s, p, type, mode, cred, data, new)
  BY DataType DEF Types, mkdirSync
<1> HIDE DEF type, data
<1>2. /\ Tidy(r.st)
      /\ r.ret # "ok" => r.st = s
      /\ r.ret = "ok" => CreatedAt(s, r.st, p, type)
  BY <1>1, commitNewFileTidy
<1> QED BY <1>2 DEF type

(* What opening does to the store: nothing, it makes a file, or it deletes *)
(* one and makes it again if it can.                                       *)
OpenedAt(s, t, p) ==
    \/ t = s
    \/ CreatedAt(s, t, p, "file")
    \/ TakenOutAt(s, t, p)
    \/ \E u : Tidy(u) /\ TakenOutAt(s, u, p) /\ CreatedAt(u, t, p, "file")

(* All that a truncating open has done that was refused by the directory.  *)
LostBy(s, t, p, cred) ==
    /\ TakenOutAt(s, t, p)
    /\ MayLose(s, p, cred) /\ ~MayCreate(s, p, cred)

(* An answer that tells of a failure, and what it has done. *)
Clean(s, p, cred, r) ==
    r.ret # "ok" => r.st = s \/ (r.ret = "EACCES" /\ LostBy(s, r.st, p, cred))

(* What opening leaves: a tidy store in any case, and a file where it      *)
(* succeeds.  A failure leaves the store as it was, but for the file that  *)
(* was deleted and must not be made again.                                 *)
OpenedWell(s, p, flag, cred, o) ==
    /\ Tidy(o.st) /\ OpenedAt(s, o.st, p)
    /\ o.ret = "ok" => IsFileAt(o.st, p)
    /\ ~isWriteable(flag) => o.st = s
    /\ Clean(s, p, cred, o)

LEMMA openMissingTidy ==
    ASSUME NEW s, Tidy(s), NEW p \in Paths, NEW flag, NEW mode \in Perms, NEW cred \in Creds,
           NEW new, Unused(s, new), NEW o, o = openMissing(s, p, flag, mode, cred, new)
    PROVE  OpenedWell(s, p, flag, cred, o)
<1> DEFINE r == createFileSync(s, p, mode, cred, new)
<1>1. /\ Tidy(r.st)
      /\ r.ret # "ok" => r.st = s
      /\ r.ret = "ok" => IsFileAt(r.st, p) /\ CreatedAt(s, r.st, p, "file")
  BY createFileSyncTidy
<1>2. \/ o.ret # "ok" /\ o.st = s
      \/ o = r /\ isWriteable(flag)
  <2> HIDE DEF r
  <2>1. pathNotExistsAction(flag) # "THROW_EXCEPTION" => isWriteable(flag)
    BY DEF pathNotExistsAction
  <2> QED BY <2>1, Answers2 DEF openMissing, r
<1> HIDE DEF r
<1> QED BY <1>1, <1>2 DEF OpenedWell, OpenedAt, Clean

LEMMA openFileSyncKeeps ==
    ASSUME NEW s, Tidy(s), NEW p \in Paths, NEW flag, NEW cred,
           NEW o, o = openFileSync(s, p, flag, cred)
    PROVE  o.st = s /\ (o.ret = "ok" => FindId(s, p) \in InodeIds(s))
<1>1. s \in Stores /\ Sound(s)
  BY DEF Tidy, Sound, Wired
<1>2. FindId(s, p) \in Ids \union Errors
  BY <1>1, FindType
<1>3. o.st = s /\ (o.ret = "ok" => INodeError(s, FindId(s, p)) = "ok")
  BY Answers2 DEF openFileSync
<1> QED BY <1>1, <1>2, <1>3, SoundReads

(* Taking a node out touches its two keys and the listing it was in; its   *)
(* directory stays where and as it is.                                     *)
LEMMA TakenOutKeys ==
    ASSUME NEW s, Tidy(s), NEW p \in Paths, NEW t, TakenOutAt(s, t, p),
           NEW d, d = FindId(s, dirname(p)), NEW n, n = FindId(s, p)
    PROVE  /\ \A k \in Ids \ {n, s[n].id, s[d].id} : t[k] = s[k]
           /\ d \in Ids \ {n, s[n].id, s[d].id}
           /\ FindId(t, dirname(p)) \in Ids => FindId(t, dirname(p)) = d
<1> DEFINE f == basename(p)
<1>1. /\ p # <<>> /\ dirname(p) \in Paths /\ f \in Names /\ f \in AllNames
      /\ n \in InodeIds(s) /\ (n \in DirIds(s) => entries(s, n) = NoEntries)
      /\ t = TakenOut(s, d, f, n) /\ Sound(s) /\ Wired(s)
  BY DirnameLess DEF TakenOutAt, AllNames, Tidy, Sound
<1>2. f = basename(p)
  OBVIOUS
<1> HIDE DEF f
<1>3. d \in DirIds(s) /\ n = entries(s, d)[f] /\ n # NoEntry /\ n \in Ids /\ d \in Ids
  BY <1>1, <1>2, SoundFind, IdsAssumption DEF InodeIds, DirIds
<1>4. n # d
  BY <1>1, <1>3 DEF NoEntries, AllNames
<1>5. d # s[n].id /\ d # s[d].id
  <2>1. d \in InodeIds(s) /\ s[d].kind = "inode"
    BY <1>3 DEF DirIds, InodeIds
  <2>2. \A m \in InodeIds(s) : s[s[m].id].kind # "inode"
    BY <1>1 DEF Wired, KindOf
  <2> QED BY <1>1, <2>1, <2>2
<1>6. ASSUME NEW k \in Ids \ {n, s[n].id, s[d].id} PROVE t[k] = s[k]
  <2> DEFINE g == Gone(s, n)
             e == Listing(Entered(g, d, f, NoEntry))
  <2>1. s = [x \in Ids |-> s[x]]
    BY <1>1 DEF Wired, Stores
  <2>2. g = [x \in Ids |-> g[x]] /\ g[k] = s[k] /\ g[d] = s[d]
    BY <1>3, <1>4, <1>5, <1>6, <2>1 DEF Gone
  <2>3. \E x : t = [g EXCEPT ![g[d].id] = x]
    BY <1>1 DEF TakenOut, Relisted
  <2> HIDE DEF g
  <2> QED BY <1>6, <2>2, <2>3
<1>7. /\ Sound(t) /\ DirIds(t) = DirIds(s) \ {n}
      /\ \A x \in DirIds(t), h \in AllNames :
           entries(t, x)[h] = IF x = d /\ h = f THEN NoEntry ELSE entries(s, x)[h]
  BY <1>1, <1>3, <1>4, NodeRemoved
<1>8. ASSUME FindId(t, dirname(p)) \in Ids PROVE FindId(t, dirname(p)) = d
  <2>1. \A y \in DirIds(t), h \in Names : entries(t, y)[h] # NoEntry =>
            y \in DirIds(s) /\ entries(s, y)[h] = entries(t, y)[h]
    BY <1>7 DEF AllNames
  <2> QED BY <1>1, <1>7, <1>8, <2>1, MoreEntries
<1> QED BY <1>3, <1>4, <1>5, <1>6, <1>8

LEMMA openExistingTidy ==
    ASSUME NEW s, Tidy(s), NEW p \in Paths, IsFileAt(s, p), NEW flag, NEW mode,
           NEW cred \in Creds, NEW new, Unused(s, new),
           NEW o, o = openExisting(s, p, flag, mode, cred, new)
    PROVE  OpenedWell(s, p, flag, cred, o)
<1> DEFINE n == FindId(s, p)
           u == unlinkSync(s, p, cred)
           r == createFileSync(u.st, p, s[n].mode, cred, new)
           f == openFileSync(s, p, flag, cred)
<1>1. s[n].mode \in Perms
  BY DataTypes DEF IsFileAt, Inodes, Tidy, Sound
<1>2. /\ Tidy(u.st)
      /\ u.ret # "ok" => u.st = s
      /\ Used(u.st) \subseteq Used(s)
      /\ u.ret = "ok" => /\ IsFree(u.st, p) /\ TakenOutAt(s, u.st, p)
                         /\ MayLose(s, p, cred)
  BY unlinkSyncTidy
<1>3. Unused(u.st, new)
  BY <1>2 DEF Unused
<1>4. /\ Tidy(r.st)
      /\ r.ret # "ok" => r.st = u.st
      /\ IsFree(u.st, p) /\ r.ret # "ok" => r.ret = "EACCES" /\ ~MayCreate(u.st, p, cred)
      /\ r.ret = "ok" => IsFileAt(r.st, p) /\ CreatedAt(u.st, r.st, p, "file")
  BY <1>1, <1>2, <1>3, createFileSyncTidy
<1>5. f.st = s
  BY openFileSyncKeeps
<1>6. \/ o.ret # "ok" /\ o.st = s
      \/ o = u /\ u.ret # "ok"
      \/ o = r /\ u.ret = "ok" /\ isWriteable(flag)
      \/ o = f
  <2>1. pathExistsAction(flag) = "TRUNCATE_FILE" => isWriteable(flag)
    BY DEF pathExistsAction, isTruncating, isWriteable
  <2> HIDE DEF u, r, f
  <2> QED BY <2>1, Answers2 DEF openExisting, u, r, f
<1> HIDE DEF u, r, f
<1>7. OpenedAt(s, o.st, p)
  BY <1>2, <1>4, <1>5, <1>6 DEF OpenedAt
<1>8. ASSUME u.ret = "ok", r.ret # "ok" PROVE r.ret = "EACCES" /\ LostBy(s, u.st, p, cred)
  <2>1. MayCreate(u.st, p, cred) <=> MayCreate(s, p, cred)
    <3> DEFINE d == FindId(s, dirname(p))
    <3>1. /\ \A k \in Ids \ {n, s[n].id, s[d].id} : u.st[k] = s[k]
          /\ d \in Ids \ {n, s[n].id, s[d].id}
          /\ FindId(u.st, dirname(p)) \in Ids => FindId(u.st, dirname(p)) = d
      BY <1>2, <1>8, TakenOutKeys
    <3>2. FindId(u.st, dirname(p)) \in Ids
      BY <1>2, <1>8 DEF IsFree, DirIds, InodeIds
    <3> QED BY <3>1, <3>2 DEF MayCreate, Access
  <2> QED BY <1>2, <1>4, <1>8, <2>1 DEF LostBy
<1>9. Clean(s, p, cred, o)
  BY <1>2, <1>4, <1>5, <1>6, <1>8 DEF Clean
<1> QED BY <1>2, <1>4, <1>5, <1>6, <1>7, <1>9 DEF OpenedWell

LEMMA openSyncTidy ==
    ASSUME NEW s, Tidy(s), NEW p \in Paths, IsNoDir(s, p), NEW flag, NEW mode \in Perms,
           NEW cred \in Creds, NEW new, Unused(s, new),
           NEW o, o = openSync(s, p, flag, mode, cred, new)
    PROVE  OpenedWell(s, p, flag, cred, o)
<1>1. s \in Stores /\ Sound(s)
  BY DEF Tidy, Sound, Wired
<1>2. FindId(s, p) \in Ids \union Errors
  BY <1>1, FindType
<1>3. CASE o = openMissing(s, p, flag, mode, cred, new)
  BY <1>3, openMissingTidy
<1>4. CASE o = openExisting(s, p, flag, mode, cred, new) /\ INodeError(s, FindId(s, p)) = "ok"
  <2>1. IsFileAt(s, p)
    BY <1>1, <1>2, <1>4, SoundReads DEF IsFileAt
  <2> QED BY <1>4, <2>1, openExistingTidy
<1> QED BY <1>3, <1>4 DEF openSync

(* Writing a whole file or its end, which open, write and close.           *)
WrittenAt(s, t, p) ==
    \/ OpenedAt(s, t, p)
    \/ \E u : Tidy(u) /\ OpenedAt(s, u, p) /\ RefilledAt(u, t, p)

LEMMA WrittenTidy ==
    ASSUME NEW s, Tidy(s), NEW p \in Paths, IsNoDir(s, p), NEW data \in Seq(Bytes), NEW flag,
           NEW mode \in Perms, NEW cred \in Creds, NEW new, Unused(s, new),
           NEW position \in Nat \union {NoPosition},
           NEW o, o = openSync(s, p, flag, mode, cred, new),
           NEW r, r = IF o.ret # "ok" THEN o
                      ELSE WriteAndClose(o.st, p, flag, data, position)
    PROVE  /\ Tidy(r.st)
           /\ WrittenAt(s, r.st, p)
           /\ Clean(s, p, cred, r)
<1> DEFINE w == WriteAndClose(o.st, p, flag, data, position)
<1>1. OpenedWell(s, p, flag, cred, o)
  BY openSyncTidy
<1>2. ASSUME o.ret = "ok"
      PROVE  Tidy(w.st) /\ WrittenAt(s, w.st, p) /\ (w.ret # "ok" => w.st = s)
  <2>1. Tidy(o.st) /\ IsNoDir(o.st, p) /\ FindId(o.st, p) \in InodeIds(o.st)
    BY <1>1, <1>2 DEF OpenedWell, IsFileAt
  <2>a. Refills(o.st, p, w) /\ (isWriteable(flag) => w.ret = "ok")
    BY <2>1, WriteAndCloseTidy
  <2> HIDE DEF w
  <2>2. /\ Tidy(w.st)
        /\ w.ret # "ok" => w.st = o.st
        /\ isWriteable(flag) => w.ret = "ok"
        /\ w.ret = "ok" => RefilledAt(o.st, w.st, p)
    BY <2>a DEF Refills
  <2>3. WrittenAt(s, w.st, p)
    BY <1>1, <2>1, <2>2 DEF OpenedWell, WrittenAt
  <2> QED BY <1>1, <2>2, <2>3 DEF OpenedWell
<1> HIDE DEF w
<1> QED BY <1>1, <1>2 DEF OpenedWell, WrittenAt, Clean, w

LEMMA writeFileSyncTidy ==
    ASSUME NEW s, Tidy(s), NEW p \in Paths, IsNoDir(s, p), NEW data \in Seq(Bytes), NEW flag,
           NEW mode \in Perms, NEW cred \in Creds, NEW new, Unused(s, new),
           NEW r, \/ r = writeFileSync(s, p, data, flag, mode, cred, new)
                  \/ r = appendFileSync(s, p, data, flag, mode, cred, new)
    PROVE  /\ Tidy(r.st)
           /\ WrittenAt(s, r.st, p)
           /\ Clean(s, p, cred, r)
<1> DEFINE o == openSync(s, p, flag, mode, cred, new)
<1>1. PICK position \in {0, NoPosition} :
          r = IF o.ret # "ok" THEN o ELSE WriteAndClose(o.st, p, flag, data, position)
  BY DEF writeFileSync, appendFileSync
<1>2. position \in Nat \union {NoPosition}
  OBVIOUS
<1> QED BY <1>1, <1>2, WrittenTidy

LEMMA truncateSyncTidy ==
    ASSUME NEW s, Tidy(s), NEW p \in Paths, IsNoDir(s, p), NEW len \in Nat,
           NEW cred \in Creds, NEW new, Unused(s, new),
           NEW r, r = truncateSync(s, p, len, cred, new)
    PROVE  Refills(s, p, r)
<1> DEFINE flag == "r+"
           o == openSync(s, p, flag, {2, 5, 7, 8}, cred, new)
           n == FindId(s, p)
           b == Text(s[s[n].id])
           more == [i \in 1 .. len - Len(b) |-> 0]
           end == Len(b)
           part == SubSeq(b, 1, len)
           w == WriteAndClose(s, p, flag, more, end)
           x == syncFile(s, p, part, len)
<1>1. o.st = s /\ (o.ret = "ok" => n \in InodeIds(s))
  <2> DEFINE f == openFileSync(s, p, flag, cred)
  <2>1. f.st = s /\ (f.ret = "ok" => n \in InodeIds(s))
    BY openFileSyncKeeps
  <2>2. pathExistsAction(flag) = "NOP" /\ pathNotExistsAction(flag) = "THROW_EXCEPTION"
    BY DEF pathExistsAction, pathNotExistsAction, isExclusive, isTruncating
  <2>3. o = f \/ (o.ret # "ok" /\ o.st = s)
    <3> HIDE DEF f, flag
    <3> QED BY <2>2, Answers2 DEF openSync, openMissing, openExisting, f
  <2> QED BY <2>1, <2>3
<1>2. ASSUME n \in InodeIds(s) PROVE b \in Seq(Bytes) /\ Len(b) \in Nat
  <2>1. b \in Seq(Bytes)
    BY <1>2, DataTypes, TextType DEF Tidy, Sound, Wired, Stores, Values
  <2> QED BY <2>1
<1>3. ASSUME n \in InodeIds(s), len > Len(b)
      PROVE  Refills(s, p, w)
  <2>1. Len(b) \in Nat
    BY <1>2, <1>3
  <2>2. more \in Seq(Bytes) /\ end \in Nat \union {NoPosition}
    BY <1>3, <2>1, ByteAssumption
  <2>3. ASSUME NEW data \in Seq(Bytes), NEW position \in Nat \union {NoPosition},
               NEW v, v = WriteAndClose(s, p, flag, data, position)
        PROVE  Refills(s, p, v)
    <3> HIDE DEF flag
    <3> QED BY <2>3, WriteAndCloseTidy
  <2> HIDE DEF more, end, flag
  <2> QED BY <2>2, <2>3
<1>4. ASSUME n \in InodeIds(s), ~(len > Len(b))
      PROVE  Refills(s, p, x)
  <2>1. part \in Seq(Bytes) /\ len = Len(part)
    BY <1>2, <1>4
  <2> HIDE DEF part
  <2> QED BY <2>1, syncFileTidy
<1>5. \/ r = o /\ o.ret # "ok"
      \/ o.ret = "ok" /\ len > Len(b) /\ r = w
      \/ o.ret = "ok" /\ ~(len > Len(b)) /\ r = x
  BY DEF truncateSync
<1> HIDE DEF o, n, b, w, x, end, part, more
<1> QED BY <1>1, <1>3, <1>4, <1>5 DEF Refills

-----------------------------------------------------------------------------
(* What a call has changed that answers r, if that is a failure. *)
CleanStep(r) ==
    r.ret # "ok" =>
        \/ r.st = store
        \/ r.ret = "EACCES" /\ \E p \in Paths, cred \in Users : LostBy(store, r.st, p, cred)

(* One step of the file system keeps the store tidy, and is clean. *)
StepIsTidy ==
    /\ Tidy(store')
    /\ WithinBounds(store')
    /\ ret' # "ok" =>
          \/ store' = store
          \/ ret' = "EACCES" /\ \E p \in Paths, cred \in Users : LostBy(store, store', p, cred)

LEMMA ApplyTidy ==
    ASSUME NEW r, Apply(r), Tidy(r.st), CleanStep(r)
    PROVE  StepIsTidy
BY DEF Apply, StepIsTidy, CleanStep

LEMMA NoDirPath ==
    ASSUME Tidy(store), NEW p \in Paths, ~IsDirPath(p)
    PROVE  IsNoDir(store, p)
<1>1. store \in Stores /\ Sound(store)
  BY DEF Tidy, Sound, Wired
<1>2. ASSUME FindId(store, p) \in DirIds(store) PROVE IsDirPath(p)
  <2> DEFINE n == FindId(store, p)
  <2>1. n \in InodeIds(store) /\ store[n].type = "dir" /\ n \in Ids
    BY <1>2 DEF DirIds, InodeIds
  <2>2. INodeError(store, n) = "ok"
    BY <1>1, <2>1, SoundReads
  <2> QED BY <2>1, <2>2 DEF IsDirPath
<1> QED BY <1>2 DEF IsNoDir

LEMMA NextIsTidy ==
    ASSUME ~WriteToDirs, Tidy(store), Next
    PROVE  StepIsTidy
<1>1. store \in Stores
  BY DEF Tidy, Sound, Wired
<1>2. ASSUME NEW p \in UsedPaths, NEW cred \in Users
      PROVE  p \in Paths /\ cred \in Creds
  BY UsedPathsType, ParameterAssumption
<1>3. \A new \in NewIds(store) : Unused(store, new)
  BY <1>1, NewIdsFresh
<1>4. ASSUME NEW p \in UsedPaths, NEW cred \in Users, NEW mode \in Modes,
             Mkdir(p, mode, cred)
      PROVE  StepIsTidy
  <2>1. PICK new \in NewIds(store) : Apply(mkdirSync(store, p, mode, cred, new))
    BY <1>4 DEF Mkdir
  <2> DEFINE r == mkdirSync(store, p, mode, cred, new)
  <2>2. Tidy(r.st) /\ (r.ret # "ok" => r.st = store)
    BY <1>2, <1>3, mkdirSyncTidy, ParameterAssumption
  <2> QED BY <2>1, <2>2, ApplyTidy DEF CleanStep
<1>5. ASSUME NEW p \in UsedPaths, NEW cred \in Users, NEW mode \in Modes,
             NEW data \in Contents, NEW flag \in WriteFlags,
             WriteFile(p, data, flag, mode, cred) \/ AppendFile(p, data, flag, mode, cred)
      PROVE  StepIsTidy
  <2>1. PICK new \in NewIds(store) :
            \E r \in {writeFileSync(store, p, data, flag, mode, cred, new),
                     appendFileSync(store, p, data, flag, mode, cred, new)} : Apply(r)
    BY <1>5 DEF WriteFile, AppendFile
  <2>2. data \in Seq(Bytes) /\ mode \in Perms /\ IsNoDir(store, p)
    BY <1>2, <1>5, NoDirPath, ParameterAssumption DEF WriteFile, AppendFile
  <2>3. PICK r : /\ Apply(r)
                 /\ \/ r = writeFileSync(store, p, data, flag, mode, cred, new)
                    \/ r = appendFileSync(store, p, data, flag, mode, cred, new)
    BY <2>1
  <2>4. Tidy(r.st) /\ Clean(store, p, cred, r)
    BY <1>2, <1>3, <2>2, <2>3, writeFileSyncTidy
  <2> QED BY <1>2, <2>3, <2>4, ApplyTidy DEF Clean, CleanStep
<1>6. ASSUME NEW p \in UsedPaths, NEW cred \in Users, NEW len \in 0 .. MaxLen,
             Truncate(p, len, cred)
      PROVE  StepIsTidy
  <2>1. PICK new \in NewIds(store) : Apply(truncateSync(store, p, len, cred, new))
    BY <1>6 DEF Truncate
  <2>2. len \in Nat /\ IsNoDir(store, p)
    BY <1>2, <1>6, NoDirPath, ParameterAssumption DEF Truncate
  <2> DEFINE r == truncateSync(store, p, len, cred, new)
  <2>3. Tidy(r.st) /\ (r.ret # "ok" => r.st = store)
    BY <1>2, <1>3, <2>2, truncateSyncTidy DEF Refills
  <2> QED BY <2>1, <2>3, ApplyTidy DEF CleanStep
<1>7. ASSUME NEW p \in UsedPaths, NEW cred \in Users, Unlink(p, cred)
      PROVE  StepIsTidy
  <2> DEFINE r == unlinkSync(store, p, cred)
  <2>1. Tidy(r.st) /\ (r.ret # "ok" => r.st = store)
    BY <1>2, unlinkSyncTidy
  <2> QED BY <1>7, <2>1, ApplyTidy DEF Unlink, CleanStep
<1>8. ASSUME NEW p \in UsedPaths, NEW cred \in Users, Rmdir(p, cred)
      PROVE  StepIsTidy
  <2> DEFINE r == rmdirSync(store, p, cred)
  <2>1. Tidy(r.st) /\ (r.ret # "ok" => r.st = store)
    BY <1>2, rmdirSyncTidy
  <2> QED BY <1>8, <2>1, ApplyTidy DEF Rmdir, CleanStep
<1>9. ASSUME NEW p \in UsedPaths, NEW q \in UsedPaths, NEW cred \in Users, Rename(p, q, cred)
      PROVE  StepIsTidy
  <2> DEFINE r == renameSync(store, p, q, cred)
  <2>1. Tidy(r.st) /\ (r.ret # "ok" => r.st = store)
    BY <1>2, <1>9, renameSyncTidy DEF Rename
  <2> QED BY <1>9, <2>1, ApplyTidy DEF Rename, CleanStep
<1>10. CASE Empty
  <2>1. PICK i \in randomUUID({Root}) : Apply(Done(makeRootDirectory(i)))
    BY <1>10 DEF Empty
  <2>2. Tidy(makeRootDirectory(i))
    BY RootTidy
  <2> DEFINE r == Done(makeRootDirectory(i))
  <2>3. Tidy(r.st) /\ r.ret = "ok"
    BY <2>2, Answers2
  <2> QED BY <2>1, <2>3, ApplyTidy DEF CleanStep
<1> QED
  BY <1>4, <1>5, <1>6, <1>7, <1>8, <1>9, <1>10 DEF Next

(* The inductive invariant: a tidy store of no more nodes than allowed.    *)
TreeInv == Tidy(store) /\ Cardinality(InodeIds(store)) <= MaxNodes

(* A tidy store of no more nodes than allowed leaks nothing: TreePaths has *)
(* every path that so few nodes can have.                                  *)
LEMMA TidyLeaksNothing ==
    ASSUME TreeInv
    PROVE  NoLeak
<1>1. TreePaths = PathsBelow(MaxNodes) /\ MaxNodes \in Nat \ {0}
  BY ParameterAssumption DEF TreePaths, PathsBelow
<1>2. Fits(store, MaxNodes)
  BY DEF TreeInv, Fits
<1> QED BY <1>1, <1>2, NothingOutOfReach DEF NoLeak

(* Every step of every call keeps the invariant. *)
THEOREM TreeInvariant ==
    ASSUME ~WriteToDirs
    PROVE  Spec => []TreeInv
<1>1. Init => TreeInv
  <2> SUFFICES ASSUME Init PROVE TreeInv
    OBVIOUS
  <2>1. Tidy(store) /\ InodeIds(store) = {Root}
    BY RootTidy DEF Init
  <2>2. Cardinality(InodeIds(store)) = 1
    BY <2>1, FS_Singleton
  <2>3. 1 <= MaxNodes
    BY ParameterAssumption
  <2> QED BY <2>1, <2>2, <2>3 DEF TreeInv
<1>2. TreeInv /\ [Next]_vars => TreeInv'
  <2> SUFFICES ASSUME TreeInv, [Next]_vars PROVE TreeInv'
    OBVIOUS
  <2>1. CASE Next
    BY <2>1, NextIsTidy DEF TreeInv, StepIsTidy, WithinBounds
  <2>2. CASE UNCHANGED vars
    BY <2>2 DEF TreeInv, vars
  <2> QED BY <2>1, <2>2
<1> QED BY <1>1, <1>2, PTL DEF Spec

(* The root stays, every inode has its data and every entry leads to a     *)
(* node: no sequence of calls leaves a loose end, whichever of them fail   *)
(* (NoDangling of the runs).                                               *)
THEOREM NothingDangles ==
    ASSUME ~WriteToDirs
    PROVE  Spec => []NoDangling
<1>1. TreeInv => NoDangling
  BY SoundMeans DEF TreeInv, Tidy, NoDangling
<1> QED BY <1>1, TreeInvariant, PTL

(* The store is a tree at all times: no node is in two places, and no two  *)
(* write to the same data (NoSharing of the runs).                         *)
THEOREM NothingIsShared ==
    ASSUME ~WriteToDirs
    PROVE  Spec => []NoSharing
<1>1. TreeInv => NoSharing
  BY SoundMeans DEF TreeInv, Tidy, NoSharing
<1> QED BY <1>1, TreeInvariant, PTL

(* Every key the store holds belongs to a node some path leads to, after   *)
(* files are replaced, truncated and deleted and directories moved: no     *)
(* call, failing or not, leaks a node or cuts a subtree off (NoLeak of the *)
(* runs).                                                                  *)
THEOREM NothingLeaks ==
    ASSUME ~WriteToDirs
    PROVE  Spec => []NoLeak
BY TidyLeaksNothing, TreeInvariant, PTL

(* The size in every file's inode is the length of its data after every    *)
(* sequence of writes, appends and truncations, so that PreloadFile opens  *)
(* it again (SizeExact of the runs).                                       *)
THEOREM SizesAreExact ==
    ASSUME ~WriteToDirs
    PROVE  Spec => []SizeExact
<1>1. TreeInv => SizeExact
  BY DEF TreeInv, Tidy, Exact, ExactAt, SizeExact
<1> QED BY <1>1, TreeInvariant, PTL

-----------------------------------------------------------------------------
(* The tree in a store, and the paths it has room for.                     *)
TreeOf(s) == [p \in TreePaths |-> NodeIn(s, p)]

LEMMA TreeMeaning ==
    /\ [p \in TreePaths |-> NodeAt(p)] = TreeOf(store)
    /\ [p \in TreePaths |-> NodeAt(p)]' = TreeOf(store')
    /\ Tree!None = NoNode /\ Tree!Dir = DirNode /\ Tree!Files = FileNodes
<1>1. Tree!None = NoNode /\ Tree!Dir = DirNode /\ Tree!Files = FileNodes
  BY DEF Tree!None, NoNode, Tree!Dir, DirNode, Tree!Files, FileNodes
<1>2. [p \in TreePaths |-> NodeAt(p)] = TreeOf(store)
  BY DEF TreeOf, NodeIn, NodeAt
<1>3. [p \in TreePaths |-> NodeAt(p)]' = TreeOf(store')
  BY DEF TreeOf, NodeIn, NodeAt
<1> QED BY <1>1, <1>2, <1>3

LEMMA TreePathsAre ==
    /\ MaxNodes \in Nat \ {0} /\ TreePaths = PathsBelow(MaxNodes)
    /\ TreePaths \subseteq Paths /\ <<>> \in TreePaths
    /\ \A p \in TreePaths : p # <<>> => dirname(p) \in TreePaths
<1>1. MaxNodes \in Nat \ {0} /\ TreePaths = PathsBelow(MaxNodes)
  BY ParameterAssumption DEF TreePaths, PathsBelow
<1> QED BY <1>1, PathsBelowAre

(* Steps of the tree, by what they change between two stores.              *)
LEMMA OneNode ==
    ASSUME NEW s, NEW t, NEW p \in TreePaths, Only(s, t, p)
    PROVE  /\ TreeOf(t) = [TreeOf(s) EXCEPT ![p] = NodeIn(t, p)]
           /\ TreeOf(t)[p] = NodeIn(t, p) /\ TreeOf(s)[p] = NodeIn(s, p)
           /\ p # <<>> => TreeOf(s)[Tree!Parent(p)] = NodeIn(s, dirname(p))
<1>1. TreeOf(t) = [TreeOf(s) EXCEPT ![p] = NodeIn(t, p)]
  BY TreePathsAre DEF TreeOf, Only
<1>2. TreeOf(t)[p] = NodeIn(t, p) /\ TreeOf(s)[p] = NodeIn(s, p)
  BY DEF TreeOf
<1>3. p # <<>> => Tree!Parent(p) = dirname(p) /\ dirname(p) \in TreePaths
  BY TreePathsAre DEF Tree!Parent, dirname
<1>4. p # <<>> => TreeOf(s)[Tree!Parent(p)] = NodeIn(s, dirname(p))
  BY <1>3 DEF TreeOf
<1> QED BY <1>1, <1>2, <1>4

LEMMA DirMadeStep ==
    ASSUME Fits(store', MaxNodes), NEW p \in Paths, DirMade(store, store', p)
    PROVE  Tree!Next
<1>1. p \in TreePaths
  BY NodesFit, NodeKinds, TreePathsAre DEF DirMade, Fits, Tidy
<1>2. Tree!MakeDir(p)
  BY <1>1, OneNode, TreeMeaning DEF DirMade, Tree!MakeDir, Tree!HasPlace
<1> QED BY <1>1, <1>2 DEF Tree!Next

LEMMA FileSetStep ==
    ASSUME Fits(store', MaxNodes), NEW p \in Paths, FileSet(store, store', p)
    PROVE  Tree!Next
<1>1. p \in TreePaths
  BY NodesFit, NodeKinds, TreePathsAre DEF FileSet, Fits, Tidy
<1>2. Tree!SetFile(p)
  BY <1>1, OneNode, TreeMeaning DEF FileSet, Tree!SetFile, Tree!HasPlace
<1> QED BY <1>1, <1>2 DEF Tree!Next

LEMMA NodeGoneStep ==
    ASSUME Fits(store, MaxNodes), NEW p \in Paths, NodeGone(store, store', p)
    PROVE  Tree!Next
<1>1. p \in TreePaths
  BY NodesFit, TreePathsAre DEF NodeGone
<1>2. \A x \in TreePaths : Tree!Within(x, p) /\ x # p => TreeOf(store)[x] = NoNode
  BY TreePathsAre DEF NodeGone, Tree!Within, IsAtOrAbove, TreeOf
<1>3. Tree!Remove(p)
  BY <1>1, <1>2, OneNode, TreeMeaning DEF NodeGone, Tree!Remove
<1> QED BY <1>1, <1>3 DEF Tree!Next

LEMMA SameTreeStep ==
    ASSUME \A x \in Paths : NodeIn(store', x) = NodeIn(store, x)
    PROVE  Tree!Next
<1>1. TreeOf(store') = TreeOf(store)
  BY TreePathsAre DEF TreeOf
<1> QED BY <1>1, TreeMeaning DEF Tree!Next, Tree!Refuse

LEMMA MovedStep ==
    ASSUME Fits(store, MaxNodes), Fits(store', MaxNodes), NEW p \in Paths, NEW q \in Paths,
           MovedTree(store, store', p, q)
    PROVE  Tree!Next
<1> DEFINE s == store
           t == store'
<1>1. /\ p # <<>> /\ q # <<>>
      /\ NodeIn(s, p) # NoNode /\ NodeIn(s, dirname(q)) = DirNode /\ NodeIn(s, q) # DirNode
      /\ ~IsAtOrAbove(p, q)
  BY DEF MovedTree
<1>2. /\ p \in TreePaths /\ q \in TreePaths
      /\ \A x \in TreePaths :
           NodeIn(t, x) = IF IsAtOrAbove(p, x) THEN NoNode
                          ELSE IF ~IsAtOrAbove(q, x) THEN NodeIn(s, x)
                          ELSE LET y == p \o SubSeq(x, Len(q) + 1, Len(x))
                               IN  IF y \in TreePaths THEN NodeIn(s, y) ELSE NoNode
  BY MovedNodes, TreePathsAre
<1>3. TreeOf(t) = [x \in TreePaths |->
                     IF Tree!Within(x, p) THEN NoNode
                     ELSE IF ~Tree!Within(x, q) THEN TreeOf(s)[x]
                     ELSE LET y == p \o SubSeq(x, Len(q) + 1, Len(x))
                          IN  IF y \in TreePaths THEN TreeOf(s)[y] ELSE NoNode]
  BY <1>2 DEF TreeOf, Tree!Within, IsAtOrAbove
<1>4. /\ TreeOf(s)[p] # NoNode /\ TreeOf(s)[q] # DirNode /\ ~Tree!Within(q, p)
      /\ TreeOf(s)[Tree!Parent(q)] = DirNode
  BY <1>1, <1>2, TreePathsAre DEF TreeOf, Tree!Within, IsAtOrAbove, Tree!Parent, dirname
<1>5. Tree!Move(p, q)
  BY <1>1, <1>3, <1>4, TreeMeaning DEF Tree!Move, Tree!HasPlace
<1> QED BY <1>2, <1>5 DEF Tree!Next

(* A store that was just made is the tree that has only its root.          *)
LEMMA BareTree ==
    ASSUME NEW i \in randomUUID({Root}), NEW t, t = makeRootDirectory(i)
    PROVE  TreeOf(t) = [p \in TreePaths |-> IF p = <<>> THEN DirNode ELSE NoNode]
<1>1. Tidy(t) /\ InodeIds(t) = {Root}
  BY RootTidy
<1>2. Sound(t) /\ Root \in DirIds(t)
  BY <1>1 DEF Tidy, Sound, Linked
<1>3. ASSUME NEW p \in TreePaths PROVE NodeIn(t, p) = IF p = <<>> THEN DirNode ELSE NoNode
  <2>1. p \in Paths
    BY TreePathsAre
  <2>2. CASE p = <<>>
    BY <1>2, <2>1, <2>2, FindRoot, NodeKinds
  <2>3. CASE p # <<>>
    <3>1. FindId(t, p) \notin Ids
      BY <1>1, <1>2, <2>1, <2>3, SoundFind, NodeKinds
    <3> QED BY <1>2, <2>1, <2>3, <3>1, NodeKinds
  <2> QED BY <2>2, <2>3
<1> QED BY <1>3 DEF TreeOf

-----------------------------------------------------------------------------
(* What opening and writing a file do to the tree.                         *)
LEMMA NoDirThere ==
    ASSUME NEW s, Sound(s), NEW p \in Paths, IsNoDir(s, p)
    PROVE  NodeIn(s, p) # DirNode
BY NodeKinds DEF IsNoDir

LEMMA OpenedTree ==
    ASSUME NEW s, Tidy(s), NEW t, NEW p \in Paths, IsNoDir(s, p), OpenedAt(s, t, p)
    PROVE  t = s \/ FileSet(s, t, p) \/ NodeGone(s, t, p)
<1>1. Sound(s) /\ NodeIn(s, p) # DirNode /\ "file" \in Types /\ "file" # "dir"
  BY NoDirThere DEF Tidy, Types
<1>2. ASSUME CreatedAt(s, t, p, "file") PROVE FileSet(s, t, p)
  BY <1>1, <1>2, CreatedTree DEF FileSet
<1>3. ASSUME TakenOutAt(s, t, p) PROVE NodeGone(s, t, p)
  BY <1>1, <1>3, TakenOutTree DEF NodeGone
<1>4. ASSUME NEW u, Tidy(u), TakenOutAt(s, u, p), CreatedAt(u, t, p, "file")
      PROVE  FileSet(s, t, p)
  <2>1. p # <<>> /\ NodeIn(s, dirname(p)) = DirNode /\ Only(s, u, p)
    BY <1>1, <1>4, TakenOutTree
  <2>2. NodeIn(t, p) \in FileNodes /\ Only(u, t, p)
    BY <1>1, <1>4, CreatedTree DEF Tidy
  <2> QED BY <1>1, <2>1, <2>2 DEF FileSet, Only
<1> QED BY <1>2, <1>3, <1>4 DEF OpenedAt

LEMMA WrittenTree ==
    ASSUME NEW s, Tidy(s), NEW t, NEW p \in Paths, IsNoDir(s, p), WrittenAt(s, t, p)
    PROVE  t = s \/ FileSet(s, t, p) \/ NodeGone(s, t, p)
<1>1. Sound(s) /\ NodeIn(s, p) # DirNode
  BY NoDirThere DEF Tidy
<1>2. ASSUME NEW u, Tidy(u), OpenedAt(s, u, p), RefilledAt(u, t, p) PROVE FileSet(s, t, p)
  <2>1. /\ p # <<>> /\ NodeIn(u, dirname(p)) = DirNode /\ NodeIn(u, p) \in FileNodes
        /\ NodeIn(t, p) \in FileNodes /\ Only(u, t, p)
    BY <1>2, RefilledTree DEF Tidy
  <2>2. u = s \/ FileSet(s, u, p) \/ NodeGone(s, u, p)
    BY <1>2, OpenedTree
  <2>3. NodeIn(u, p) # NoNode
    BY <2>1, NodeKinds, <1>1
  <2>4. CASE u = s
    BY <1>1, <2>1, <2>4 DEF FileSet
  <2>5. CASE FileSet(s, u, p)
    BY <2>1, <2>5 DEF FileSet, Only
  <2> QED BY <2>2, <2>3, <2>4, <2>5 DEF NodeGone
<1> QED BY <1>2, OpenedTree DEF WrittenAt

-----------------------------------------------------------------------------
(* Every call takes a step of the tree, or none. *)
LEMMA NextIsTreeStep ==
    ASSUME ~WriteToDirs, TreeInv, Next
    PROVE  Tree!Next
<1>1. Fits(store, MaxNodes) /\ Fits(store', MaxNodes) /\ Tidy(store) /\ Sound(store) /\ store \in Stores
  BY NextIsTidy DEF TreeInv, Fits, StepIsTidy, WithinBounds, Tidy, Sound, Wired
<1>2. ASSUME NEW p \in UsedPaths, NEW cred \in Users
      PROVE  p \in Paths /\ cred \in Creds
  BY UsedPathsType, ParameterAssumption
<1>3. \A new \in NewIds(store) : Unused(store, new)
  BY <1>1, NewIdsFresh
<1>4. store' = store => Tree!Next
  BY SameTreeStep
<1>5. ASSUME NEW p \in Paths, TakenOutAt(store, store', p) PROVE Tree!Next
  <2>1. NodeGone(store, store', p)
    BY <1>1, <1>5, TakenOutTree DEF NodeGone
  <2> QED BY <1>1, <2>1, NodeGoneStep
<1>6. ASSUME NEW p \in UsedPaths, NEW cred \in Users, NEW mode \in Modes,
             Mkdir(p, mode, cred)
      PROVE  Tree!Next
  <2>1. PICK new \in NewIds(store) : Apply(mkdirSync(store, p, mode, cred, new))
    BY <1>6 DEF Mkdir
  <2> DEFINE r == mkdirSync(store, p, mode, cred, new)
  <2>2. (r.ret # "ok" => r.st = store) /\ (r.ret = "ok" => CreatedAt(store, r.st, p, "dir"))
    BY <1>1, <1>2, <1>3, mkdirSyncTidy, ParameterAssumption
  <2>3. store' = r.st
    BY <2>1 DEF Apply
  <2> HIDE DEF r
  <2>4. CASE r.ret = "ok"
    <3>1. CreatedAt(store, store', p, "dir") /\ "dir" \in Types
      BY <2>2, <2>3, <2>4 DEF Types
    <3>2. DirMade(store, store', p)
      BY <1>1, <1>2, <3>1, CreatedTree DEF DirMade
    <3> QED BY <1>1, <1>2, <3>2, DirMadeStep
  <2> QED BY <1>4, <2>2, <2>3, <2>4
<1>7. ASSUME NEW p \in UsedPaths, NEW cred \in Users, NEW mode \in Modes,
             NEW data \in Contents, NEW flag \in WriteFlags,
             WriteFile(p, data, flag, mode, cred) \/ AppendFile(p, data, flag, mode, cred)
      PROVE  Tree!Next
  <2>1. PICK new \in NewIds(store) :
            \E r \in {writeFileSync(store, p, data, flag, mode, cred, new),
                     appendFileSync(store, p, data, flag, mode, cred, new)} : Apply(r)
    BY <1>7 DEF WriteFile, AppendFile
  <2>2. data \in Seq(Bytes) /\ mode \in Perms /\ IsNoDir(store, p)
    BY <1>1, <1>2, <1>7, NoDirPath, ParameterAssumption DEF WriteFile, AppendFile
  <2>3. PICK r : /\ Apply(r)
                 /\ \/ r = writeFileSync(store, p, data, flag, mode, cred, new)
                    \/ r = appendFileSync(store, p, data, flag, mode, cred, new)
    BY <2>1
  <2>4. WrittenAt(store, r.st, p)
    BY <1>1, <1>2, <1>3, <2>2, <2>3, writeFileSyncTidy
  <2>5. WrittenAt(store, store', p)
    BY <2>3, <2>4 DEF Apply
  <2>6. store' = store \/ FileSet(store, store', p) \/ NodeGone(store, store', p)
    BY <1>1, <1>2, <2>2, <2>5, WrittenTree
  <2> QED BY <1>1, <1>2, <1>4, <2>6, FileSetStep, NodeGoneStep
<1>8. ASSUME NEW p \in UsedPaths, NEW cred \in Users, NEW len \in 0 .. MaxLen,
             Truncate(p, len, cred)
      PROVE  Tree!Next
  <2>1. PICK new \in NewIds(store) : Apply(truncateSync(store, p, len, cred, new))
    BY <1>8 DEF Truncate
  <2>2. len \in Nat /\ IsNoDir(store, p)
    BY <1>1, <1>2, <1>8, NoDirPath, ParameterAssumption DEF Truncate
  <2> DEFINE r == truncateSync(store, p, len, cred, new)
  <2>3. (r.ret # "ok" => r.st = store) /\ (r.ret = "ok" => RefilledAt(store, r.st, p))
    BY <1>1, <1>2, <1>3, <2>2, truncateSyncTidy DEF Refills
  <2>4. store' = r.st
    BY <2>1 DEF Apply
  <2> HIDE DEF r
  <2>5. CASE r.ret = "ok"
    <3>1. RefilledAt(store, store', p) /\ NodeIn(store, p) # DirNode
      BY <1>1, <1>2, <2>2, <2>3, <2>4, <2>5, NoDirThere
    <3>2. FileSet(store, store', p)
      BY <1>1, <1>2, <3>1, RefilledTree DEF FileSet
    <3> QED BY <1>1, <1>2, <3>2, FileSetStep
  <2> QED BY <1>4, <2>3, <2>4, <2>5
<1>9. ASSUME NEW p \in UsedPaths, NEW cred \in Users, Unlink(p, cred)
      PROVE  Tree!Next
  <2> DEFINE r == unlinkSync(store, p, cred)
  <2>1. (r.ret # "ok" => r.st = store) /\ (r.ret = "ok" => TakenOutAt(store, r.st, p))
    BY <1>1, <1>2, unlinkSyncTidy
  <2>2. store' = r.st
    BY <1>9 DEF Unlink, Apply
  <2> QED BY <1>2, <1>4, <1>5, <2>1, <2>2
<1>10. ASSUME NEW p \in UsedPaths, NEW cred \in Users, Rmdir(p, cred)
       PROVE  Tree!Next
  <2> DEFINE r == rmdirSync(store, p, cred)
  <2>1. (r.ret # "ok" => r.st = store) /\ (r.ret = "ok" => TakenOutAt(store, r.st, p))
    BY <1>1, <1>2, rmdirSyncTidy
  <2>2. store' = r.st
    BY <1>10 DEF Rmdir, Apply
  <2> QED BY <1>2, <1>4, <1>5, <2>1, <2>2
<1>11. ASSUME NEW p \in UsedPaths, NEW q \in UsedPaths, NEW cred \in Users, Rename(p, q, cred)
       PROVE  Tree!Next
  <2> DEFINE r == renameSync(store, p, q, cred)
  <2>1. p \in Paths /\ q \in Paths
    BY <1>2, <1>11
  <2>2. (r.ret # "ok" => r.st = store) /\ (r.ret = "ok" => RehungAt(store, r.st, p, q))
    BY <1>1, <1>11, <2>1, renameSyncTidy DEF Rename
  <2>3. store' = r.st
    BY <1>11 DEF Rename, Apply
  <2> HIDE DEF r
  <2>4. CASE r.ret = "ok" /\ p = q
    BY <1>1, <2>1, <2>2, <2>3, <2>4, RehungInPlace, SameTreeStep
  <2>5. CASE r.ret = "ok" /\ p # q
    BY <1>1, <2>1, <2>2, <2>3, <2>5, RehungTree, MovedStep
  <2> QED BY <1>4, <2>2, <2>3, <2>4, <2>5
<1>12. CASE Empty
  <2>1. PICK i \in randomUUID({Root}) : Apply(Done(makeRootDirectory(i)))
    BY <1>12 DEF Empty
  <2>2. store' = makeRootDirectory(i)
    BY <2>1, Answers2 DEF Apply
  <2>3. TreeOf(store') = [p \in TreePaths |-> IF p = <<>> THEN DirNode ELSE NoNode]
    BY <2>2, BareTree
  <2>4. Tree!Clear
    BY <2>3, TreeMeaning DEF Tree!Clear, Tree!Bare
  <2> QED BY <2>4 DEF Tree!Next
<1> QED
  BY <1>6, <1>7, <1>8, <1>9, <1>10, <1>11, <1>12 DEF Next

(* The file system is a directory tree: what a path leads to is what the   *)
(* last successful call made it lead to.  Every call, whether it succeeds  *)
(* or fails, makes one change a tree may make or none: a node comes into   *)
(* being in a directory only, goes only when nothing is below it, moves    *)
(* with all that is below it, and no call changes what other paths lead to *)
(* (TreeSpec of the runs).                                                 *)
THEOREM ImplementsATree ==
    ASSUME ~WriteToDirs
    PROVE  Spec => TreeSpec
<1>1. Init => Tree!Init
  <2> SUFFICES ASSUME Init PROVE Tree!Init
    OBVIOUS
  <2>1. TreeOf(store) = [p \in TreePaths |-> IF p = <<>> THEN DirNode ELSE NoNode]
    BY BareTree DEF Init
  <2> QED BY <2>1, TreeMeaning DEF Tree!Init, Tree!Bare
<1>2. TreeInv /\ [Next]_vars => [Tree!Next]_([p \in TreePaths |-> NodeAt(p)])
  <2> SUFFICES ASSUME TreeInv, [Next]_vars PROVE Tree!Next
    OBVIOUS
  <2>1. CASE Next
    BY <2>1, NextIsTreeStep
  <2>2. CASE UNCHANGED vars
    BY <2>2, SameTreeStep DEF vars
  <2> QED BY <2>1, <2>2
<1> QED BY <1>1, <1>2, TreeInvariant, PTL DEF Spec, TreeSpec, Tree!Spec

(* What LostBy says of the store, said of the paths. *)
LEMMA LostFile ==
    ASSUME TreeInv, NEW p \in Paths, NEW cred \in Users, LostBy(store, store', p, cred)
    PROVE  p \in TreePaths /\ LosesFile(p, cred)
<1> DEFINE n == FindId(store, p)
           d == FindId(store, dirname(p))
<1>1. Sound(store) /\ Fits(store, MaxNodes) /\ TakenOutAt(store, store', p)
  BY DEF TreeInv, Fits, Tidy, LostBy
<1>2. /\ NodeIn(store, p) # NoNode /\ NodeIn(store', p) = NoNode
      /\ Only(store, store', p)
  BY <1>1, TakenOutTree
<1>3. p \in TreePaths
  BY <1>1, <1>2, NodesFit, TreePathsAre
<1>4. NodeAt(p) = NodeIn(store, p) /\ NodeAt(p)' = NodeIn(store', p)
  BY DEF NodeAt, NodeIn
<1>5. n \in InodeIds(store) /\ n \notin DirIds(store)
  BY <1>1 DEF TakenOutAt, LostBy, MayLose
<1>6. NodeAt(p).kind = "file" /\ NodeAt(p)'.kind = "none"
  <2>1. NodeAt(p).kind = "file"
    BY <1>5 DEF NodeAt, InodeIds, DirIds
  <2> QED BY <1>2, <1>4, <2>1 DEF NoNode
<1>7. \A q \in TreePaths \ {p} : NodeAt(q)' = NodeAt(q)
  BY <1>2, TreePathsAre DEF Only, NodeAt, NodeIn
<1>8. ASSUME NEW k \in Ids \ {n, store[n].id, store[d].id} PROVE store'[k] = store[k]
  BY <1>1, <1>8, TakenOutKeys DEF TreeInv
<1> QED BY <1>3, <1>6, <1>7, <1>8 DEF LosesFile, LostBy, MayLose, MayCreate

(* Whoever calls, a call that throws has changed nothing, the ones that    *)
(* delete a file to truncate it and then create and write it again         *)
(* included.  The only failure between their steps is the one of the       *)
(* directory that refuses the new file, and it has cost that file and      *)
(* nothing else (FailureIsClean of the runs).                              *)
THEOREM FailuresAreClean ==
    ASSUME ~WriteToDirs
    PROVE  Spec => FailureIsClean
<1> DEFINE Lost == \E p \in TreePaths, cred \in Users : LosesFile(p, cred)
<1>1. TreeInv /\ [Next]_vars =>
        [ret' \in Errors => UNCHANGED store \/ (ret' = "EACCES" /\ Lost)]_vars
  <2> SUFFICES ASSUME TreeInv, Next, ret' \in Errors
               PROVE  UNCHANGED store \/ (ret' = "EACCES" /\ Lost)
    OBVIOUS
  <2>1. ret' # "ok"
    BY DEF Errors
  <2>2. \/ store' = store
        \/ ret' = "EACCES" /\ \E p \in Paths, cred \in Users : LostBy(store, store', p, cred)
    BY <2>1, NextIsTidy DEF TreeInv, StepIsTidy
  <2> QED BY <2>2, LostFile
<1> QED BY <1>1, TreeInvariant, PTL DEF Spec, FailureIsClean
=============================================================================
