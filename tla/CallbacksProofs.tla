--------------------------- MODULE CallbacksProofs ---------------------------
(***************************************************************************)
(* That a descriptor leads to its file until the file is closed, and that  *)
(* what is written to a file is kept, for any number of calls, files and   *)
(* writes.  The one step that takes descriptors out of the map comes some  *)
(* time after the close it belongs to, so the first invariant says of      *)
(* every close under way that its descriptor, if it is in the map at all,  *)
(* is that of a file that is being closed.  The second one, which follows  *)
(* it, says of every transaction what it is going to store.                *)
(***************************************************************************)
EXTENDS Callbacks, FiniteSetTheorems, TLAPS

CallRecs == [Calls -> [stage : Stages, fd : Nat]]

(* Any sequence: what is in it does not matter here. *)
IsSequence(s) == Len(s) \in Nat /\ s \in Seq({s[i] : i \in 1 .. Len(s)})

MapInv ==
    /\ nextFd \in Nat
    /\ \A fd \in DOMAIN fdMap : fd \in Nat /\ fd < nextFd /\ fdMap[fd] \in FileIds

(* A file that nobody closed has one descriptor. *)
HasOne(f) == \E fd \in DOMAIN fdMap : \A e \in DOMAIN fdMap : fdMap[e] = f <=> e = fd

ClosingInv ==
    \A c \in Calls : calls[c].stage = "closing" =>
        /\ calls[c].fd < nextFd
        /\ calls[c].fd \in DOMAIN fdMap => fdMap[calls[c].fd] \in closing

FdInv ==
    /\ IsSequence(files) /\ calls \in CallRecs
    /\ MapInv /\ ClosingInv
    /\ \A f \in FileIds \ closing : HasOne(f)

-----------------------------------------------------------------------------
LEMMA FunctionIsSequence ==
    ASSUME NEW n \in Nat, NEW s, s = [i \in 1 .. n |-> s[i]]
    PROVE  IsSequence(s) /\ Len(s) = n
<1> DEFINE S == {s[i] : i \in 1 .. n}
<1>1. s \in [1 .. n -> S]
  OBVIOUS
<1>2. s \in Seq(S)
  BY <1>1
<1>3. Len(s) = n
  BY <1>1, <1>2
<1> QED BY <1>2, <1>3 DEF IsSequence

LEMMA SequenceIsFunction ==
    ASSUME NEW s, IsSequence(s)
    PROVE  s = [i \in 1 .. Len(s) |-> s[i]]
BY DEF IsSequence

(* Settling or beginning a call makes no call one that closes.             *)
LEMMA SettledKeepsClosing ==
    ASSUME calls \in CallRecs, NEW c, NEW stage \in Stages \ {"closing"},
           calls' \in {calls, Settled(c, stage), Begun(c, stage)}
    PROVE  /\ calls' \in CallRecs
           /\ \A d \in Calls : calls'[d].stage = "closing" => calls'[d] = calls[d]
<1>1. CASE calls' = calls
  BY <1>1
<1>2. CASE calls' = [calls EXCEPT ![c].stage = stage]
  BY <1>2 DEF CallRecs
<1> QED BY <1>1, <1>2 DEF Settled, Begun

(* A step that leaves the map, and the number of files, as they are.       *)
LEMMA MapKept ==
    ASSUME FdInv, UNCHANGED <<fdMap, nextFd, closing>>,
           IsSequence(files'), Len(files') = Len(files), calls' \in CallRecs,
           \A d \in Calls : calls'[d].stage = "closing" => calls'[d] = calls[d]
    PROVE  FdInv'
<1>1. FileIds' = FileIds
  BY DEF FileIds
<1>2. ClosingInv'
  BY DEF FdInv, ClosingInv
<1>3. MapInv'
  BY <1>1 DEF FdInv, MapInv
<1>4. ASSUME NEW f \in FileIds' \ closing' PROVE HasOne(f)'
  BY <1>1, <1>4 DEF FdInv, HasOne
<1> QED BY <1>2, <1>3, <1>4 DEF FdInv

(* Changing or storing a file changes no other and adds none.              *)
LEMMA FilesKept ==
    ASSUME FdInv, files' = [i \in DOMAIN files |-> files'[i]]
    PROVE  IsSequence(files') /\ Len(files') = Len(files)
<1>1. files = [i \in 1 .. Len(files) |-> files[i]] /\ Len(files) \in Nat
  BY SequenceIsFunction DEF FdInv, IsSequence
<1>2. files' = [i \in 1 .. Len(files) |-> files'[i]]
  BY <1>1
<1> QED BY <1>1, <1>2, FunctionIsSequence

-----------------------------------------------------------------------------
LEMMA InitFdInv == Init => FdInv
<1> SUFFICES ASSUME Init PROVE FdInv
  OBVIOUS
<1>1. IsSequence(files) /\ FileIds = {}
  BY DEF Init, IsSequence, FileIds
<1>2. calls \in CallRecs
  BY DEF Init, CallRecs, Stages
<1>3. MapInv
  BY CallbackAssumption DEF Init, MapInv
<1>4. ClosingInv
  BY DEF Init, ClosingInv
<1> QED BY <1>1, <1>2, <1>3, <1>4 DEF FdInv

(* A file that is opened gets a descriptor that no other has, and no close *)
(* under way is about to take.                                             *)
LEMMA OpenEndsFdInv ==
    ASSUME FdInv, NEW c \in Calls, OpenEnds(c)
    PROVE  FdInv'
<1>1. CASE calls' = Settled(c, "err") /\ UNCHANGED <<files, fdMap, nextFd>>
  <2>1. calls' \in CallRecs
        /\ \A d \in Calls : calls'[d].stage = "closing" => calls'[d] = calls[d]
    BY <1>1, SettledKeepsClosing DEF FdInv, Stages
  <2> QED BY <1>1, <2>1, MapKept DEF OpenEnds, FdInv
<1>2. ASSUME NEW n, files' = Append(files, NewFile(n)), AddedFd(Len(files) + 1),
             calls' = Settled(c, "ok"), closing' = closing
      PROVE  FdInv'
  <2> DEFINE f == Len(files) + 1
  <2>1. /\ calls' \in CallRecs
        /\ \A d \in Calls : calls'[d].stage = "closing" => calls'[d] = calls[d]
    BY <1>2, SettledKeepsClosing DEF FdInv, Stages
  <2>2. Len(files) \in Nat /\ IsSequence(files') /\ Len(files') = f
    <3> DEFINE S == {files[i] : i \in 1 .. Len(files)} \union {NewFile(n)}
    <3>1. files \in Seq(S) /\ NewFile(n) \in S /\ Len(files) \in Nat
      <4>1. files \in Seq({files[i] : i \in 1 .. Len(files)}) /\ Len(files) \in Nat
        BY DEF FdInv, IsSequence
      <4> QED BY <4>1
    <3> HIDE DEF S
    <3>2. files' \in Seq(S) /\ Len(files') = f
      BY <1>2, <3>1
    <3>3. files' = [i \in 1 .. f |-> files'[i]]
      BY <3>1, <3>2
    <3> QED BY <3>1, <3>2, <3>3, FunctionIsSequence
  <2>3. FileIds' = FileIds \union {f} /\ f \notin FileIds
    BY <2>2 DEF FileIds
  <2>4. /\ nextFd \in Nat /\ nextFd' = nextFd + 1 /\ nextFd \notin DOMAIN fdMap
        /\ DOMAIN fdMap' = DOMAIN fdMap \union {nextFd}
        /\ fdMap'[nextFd] = f
        /\ \A fd \in DOMAIN fdMap : fdMap'[fd] = fdMap[fd] /\ fdMap[fd] \in FileIds
    BY <1>2 DEF AddedFd, FdInv, MapInv
  <2>5. MapInv'
    BY <2>3, <2>4 DEF FdInv, MapInv
  <2>6. ClosingInv'
    <3> SUFFICES ASSUME NEW d \in Calls, calls'[d].stage = "closing"
                 PROVE  /\ calls'[d].fd < nextFd'
                        /\ calls'[d].fd \in DOMAIN fdMap' => fdMap'[calls'[d].fd] \in closing'
      BY DEF ClosingInv
    <3>1. calls'[d] = calls[d] /\ calls[d].fd \in Nat /\ calls[d].fd < nextFd
      BY <2>1 DEF FdInv, ClosingInv, CallRecs
    <3> QED BY <1>2, <2>4, <3>1, <2>1 DEF FdInv, ClosingInv
  <2>7. ASSUME NEW g \in FileIds' \ closing' PROVE HasOne(g)'
    <3>1. CASE g = f
      BY <2>3, <2>4, <3>1 DEF HasOne
    <3>2. CASE g # f
      <4>1. g \in FileIds \ closing
        BY <1>2, <2>3, <2>7, <3>2
      <4>2. PICK fd \in DOMAIN fdMap : \A e \in DOMAIN fdMap : fdMap[e] = g <=> e = fd
        BY <4>1 DEF FdInv, HasOne
      <4> QED BY <2>4, <3>2, <4>2 DEF HasOne
    <3> QED BY <3>1, <3>2
  <2> QED BY <2>1, <2>2, <2>5, <2>6, <2>7 DEF FdInv
<1> QED BY <1>1, <1>2 DEF OpenEnds

LEMMA CloseFdInv ==
    ASSUME FdInv, NEW c \in Calls, NEW fd \in Fds, Close(c, fd)
    PROVE  FdInv'
<1>1. CASE BadFd(c, fd)
  <2>1. calls' \in CallRecs
        /\ \A d \in Calls : calls'[d].stage = "closing" => calls'[d] = calls[d]
    BY <1>1, SettledKeepsClosing DEF BadFd, FdInv, Stages
  <2> QED BY <1>1, <2>1, MapKept DEF BadFd, FdInv
<1>2. CASE /\ fd \in DOMAIN fdMap
           /\ calls' = [calls EXCEPT ![c] = [stage |-> "closing", fd |-> fd]]
           /\ closing' = closing \union {fdMap[fd]}
           /\ UNCHANGED <<files, fdMap, nextFd>>
  <2>1. calls' \in CallRecs
    BY <1>2 DEF FdInv, MapInv, CallRecs, Stages
  <2>2. FileIds' = FileIds /\ MapInv'
    BY <1>2 DEF FdInv, MapInv, FileIds
  <2>3. ClosingInv'
    BY <1>2 DEF FdInv, MapInv, ClosingInv, CallRecs
  <2>4. ASSUME NEW f \in FileIds' \ closing' PROVE HasOne(f)'
    BY <1>2, <2>2, <2>4 DEF FdInv, HasOne
  <2> QED BY <1>2, <2>1, <2>2, <2>3, <2>4 DEF FdInv
<1> QED BY <1>1, <1>2 DEF Close

LEMMA CloseEndsFdInv ==
    ASSUME FdInv, NEW c \in Calls, CloseEnds(c)
    PROVE  FdInv'
<1> DEFINE gone == calls[c].fd
<1>1. /\ calls[c].stage = "closing" /\ UNCHANGED <<files, nextFd, closing>>
      /\ DOMAIN fdMap' = DOMAIN fdMap \ {gone}
      /\ \A fd \in DOMAIN fdMap' : fdMap'[fd] = fdMap[fd]
  BY DEF CloseEnds
<1>2. gone \in DOMAIN fdMap => fdMap[gone] \in closing
  BY <1>1 DEF FdInv, ClosingInv
<1>3. /\ calls' \in CallRecs
      /\ \A d \in Calls : calls'[d].stage = "closing" => calls'[d] = calls[d]
  BY DEF CloseEnds, FdInv, CallRecs, Stages
<1>4. FileIds' = FileIds /\ MapInv'
  BY <1>1 DEF FdInv, MapInv, FileIds
<1>5. ClosingInv'
  BY <1>1, <1>3 DEF FdInv, ClosingInv
<1>6. ASSUME NEW f \in FileIds' \ closing' PROVE HasOne(f)'
  <2>1. PICK fd \in DOMAIN fdMap : \A e \in DOMAIN fdMap : fdMap[e] = f <=> e = fd
    BY <1>1, <1>4, <1>6 DEF FdInv, HasOne
  <2>2. fd # gone
    BY <1>1, <1>2, <1>6, <2>1
  <2> QED BY <1>1, <2>1, <2>2 DEF HasOne
<1> QED BY <1>1, <1>3, <1>4, <1>5, <1>6 DEF FdInv

(* The other steps leave the map and the number of files as they are.      *)
LEMMA ChangesFdInv ==
    ASSUME FdInv, NEW f, NEW n, Changes(f, n), NEW c, NEW stage \in Stages \ {"closing"},
           calls' \in {calls, Begun(c, stage)}
    PROVE  FdInv'
<1>1. IsSequence(files') /\ Len(files') = Len(files)
  <2>1. files' = [i \in DOMAIN files |-> files'[i]]
    BY DEF Changes
  <2> QED BY <2>1, FilesKept
<1>2. calls' \in CallRecs
      /\ \A d \in Calls : calls'[d].stage = "closing" => calls'[d] = calls[d]
  BY SettledKeepsClosing DEF FdInv
<1> QED BY <1>1, <1>2, MapKept DEF Changes

LEMMA CallFdInv ==
    ASSUME FdInv, NEW c \in Calls, Call(c)
    PROVE  FdInv'
<1>1. ASSUME NEW stage \in Stages \ {"closing"}, calls' = Begun(c, stage),
             UNCHANGED <<files, fdMap, nextFd, closing>>
      PROVE  FdInv'
  <2>1. calls' \in CallRecs
        /\ \A d \in Calls : calls'[d].stage = "closing" => calls'[d] = calls[d]
    BY <1>1, SettledKeepsClosing DEF FdInv
  <2> QED BY <1>1, <2>1, MapKept DEF FdInv
<1>2. CASE Open(c) \/ OnPath(c)
  BY <1>1, <1>2 DEF Open, OnPath, Stages
<1>3. ASSUME NEW fd \in Fds, Write(c, fd) PROVE FdInv'
  <2>1. CASE BadFd(c, fd)
    BY <1>1, <2>1 DEF BadFd, Stages
  <2>2. ASSUME NEW n, Changes(fdMap[fd], n), calls' = Begun(c, "ok") PROVE FdInv'
    BY <2>2, ChangesFdInv DEF Stages
  <2> QED BY <1>3, <2>1, <2>2 DEF Write
<1>4. ASSUME NEW fd \in Fds, ReadOrSet(c, fd) \/ Fsync(c, fd) PROVE FdInv'
  <2>1. CASE BadFd(c, fd)
    BY <1>1, <2>1 DEF BadFd, Stages
  <2>2. CASE \E stage \in {"ok", "err", "storing"} :
                /\ calls' = Begun(c, stage)
                /\ UNCHANGED <<files, fdMap, nextFd, closing>>
    BY <1>1, <2>2 DEF Stages
  <2> QED BY <1>4, <2>1, <2>2 DEF ReadOrSet, Fsync
<1> QED BY <1>2, <1>3, <1>4, CloseFdInv DEF Call

LEMMA StoreFdInv ==
    ASSUME FdInv, Store
    PROVE  FdInv'
<1>1. ASSUME NEW c, NEW stage \in Stages \ {"closing"},
             calls' \in {calls, Settled(c, stage)},
             IsSequence(files'), Len(files') = Len(files),
             UNCHANGED <<fdMap, nextFd, closing>>
      PROVE  FdInv'
  <2>1. calls' \in CallRecs
        /\ \A d \in Calls : calls'[d].stage = "closing" => calls'[d] = calls[d]
    BY <1>1, SettledKeepsClosing DEF FdInv
  <2> QED BY <1>1, <2>1, MapKept
<1>2. CASE TakeData \/ Rejected
  BY <1>1, <1>2 DEF TakeData, Rejected, Stages, FdInv
<1>3. CASE Stored
  <2>1. IsSequence(files') /\ Len(files') = Len(files)
    <3>1. files' = [i \in DOMAIN files |-> files'[i]]
      BY <1>3 DEF Stored
    <3> QED BY <3>1, FilesKept
  <2> QED BY <1>1, <1>3, <2>1 DEF Stored, Stages
<1> QED BY <1>2, <1>3 DEF Store

LEMMA NextFdInv ==
    ASSUME FdInv, [Next]_vars
    PROVE  FdInv'
<1>1. ASSUME NEW c \in Calls, PathEnds(c) \/ Handler(c) PROVE FdInv'
  <2>1. PICK stage \in {"ok", "err", "thrown", "answered"} : calls' = Settled(c, stage)
    BY <1>1 DEF PathEnds, Handler
  <2>2. calls' \in CallRecs
        /\ \A d \in Calls : calls'[d].stage = "closing" => calls'[d] = calls[d]
    BY <2>1, SettledKeepsClosing DEF FdInv, Stages
  <2> QED BY <1>1, <2>2, MapKept DEF PathEnds, Handler, FdInv
<1>2. ASSUME NEW fd \in Fds, Ftruncate(fd) PROVE FdInv'
  <2>1. PICK n : Changes(fdMap[fd], n)
    BY <1>2 DEF Ftruncate
  <2> QED BY <1>2, <2>1, ChangesFdInv DEF Ftruncate, Stages
<1>3. CASE UNCHANGED vars
  BY <1>3, MapKept DEF vars, FdInv
<1> QED BY <1>1, <1>2, <1>3, CallFdInv, OpenEndsFdInv, CloseEndsFdInv, StoreFdInv DEF Next

LEMMA ReachableByInv == FdInv => FilesReachable
<1> SUFFICES ASSUME FdInv, NEW f \in FileIds \ closing
             PROVE  Cardinality({fd \in DOMAIN fdMap : fdMap[fd] = f}) = 1
  BY DEF FilesReachable
<1>1. PICK fd \in DOMAIN fdMap : \A e \in DOMAIN fdMap : fdMap[e] = f <=> e = fd
  BY DEF FdInv, HasOne
<1>2. {e \in DOMAIN fdMap : fdMap[e] = f} = {fd}
  BY <1>1
<1> QED BY <1>2, FS_Singleton

(* A file that nobody closed has exactly one descriptor, whatever calls of *)
(* open, close and the others come between the steps of each other.        *)
THEOREM DescriptorsLead == Spec => []FilesReachable
<1>1. Init => FdInv
  BY InitFdInv
<1>2. FdInv /\ [Next]_vars => FdInv'
  BY NextFdInv
<1>3. FdInv => FilesReachable
  BY ReachableByInv
<1> QED BY <1>1, <1>2, <1>3, PTL DEF Spec

-----------------------------------------------------------------------------
(* What follows is about what is written and stored. *)
Syncs == [file : Nat, call : Calls \union {NoCall}, own : BOOLEAN, taken : BOOLEAN,
          data : Contents, size : 0 .. MaxSize]

SyncIds == 1 .. Len(syncs)

Kinds ==
    /\ files \in Seq(Files) /\ syncs \in Seq(Syncs)
    /\ nextFd >= FirstFd /\ \A fd \in DOMAIN fdMap : fd >= FirstFd
    /\ \A c \in Calls : calls[c].fd \in Fds \union {0}
    /\ \A i \in SyncIds : syncs[i].file \in FileIds
    /\ closing \union late \union refused \subseteq FileIds

(* The calls that wait for a transaction are those one was begun for.      *)
Waiting ==
    /\ \A i, j \in SyncIds : syncs[i].call # NoCall /\ syncs[i].call = syncs[j].call => i = j
    /\ \A c \in Calls : calls[c].stage = "storing" <=> \E i \in SyncIds : syncs[i].call = c

Now(f) == [ver |-> files[f].ver, len |-> files[f].size, size |-> files[f].size]

(* A transaction has what it stores of its file, or will take it from the  *)
(* file's own buffer.                                                      *)
StoresNow(s) ==
    IF s.taken
    THEN [ver |-> s.data.ver, len |-> s.data.len, size |-> s.size] = Now(s.file)
    ELSE s.own

(* What the store has of a file is what is in it, or the file is dirty; if *)
(* it was closed, the transaction close has begun is still to come.        *)
KeptOrDirty(f) ==
    \/ files[f].kept = Now(f)
    \/ /\ files[f].dirty
       /\ f \in closing => \E i \in SyncIds : syncs[i].file = f /\ syncs[i].call = NoCall

Trusted == FileIds \ (late \union refused)

Keeping ==
    /\ \A f \in Trusted : KeptOrDirty(f) /\ files[f].kept.len = files[f].kept.size
    /\ \A i \in SyncIds : syncs[i].file \in Trusted => StoresNow(syncs[i])

StoreInv == FdInv /\ Kinds /\ Waiting /\ Keeping

LEMMA InitStoreInv == Init => StoreInv
<1> SUFFICES ASSUME Init PROVE StoreInv
  OBVIOUS
<1>1. files = <<>> /\ syncs = <<>> /\ SyncIds = {} /\ FileIds = {}
  BY DEF Init, SyncIds, FileIds
<1>2. Kinds
  <2>1. files \in Seq(Files) /\ syncs \in Seq(Syncs)
    BY <1>1
  <2> QED BY <1>1, <2>1, CallbackAssumption DEF Init, Kinds
<1>3. Waiting
  BY <1>1 DEF Init, Waiting
<1>4. Keeping
  BY <1>1 DEF Init, Keeping, Trusted
<1> QED BY <1>2, <1>3, <1>4, InitFdInv DEF StoreInv

(* The file and every transaction have the fields they should have.        *)
LEMMA FileFields ==
    ASSUME Kinds, NEW f \in FileIds
    PROVE  /\ files[f] \in Files /\ f \in Nat
           /\ files[f].ver \in Nat /\ files[f].size \in 0 .. MaxSize /\ files[f].dirty \in BOOLEAN
           /\ Now(f) \in [ver : Nat, len : 0 .. MaxSize, size : 0 .. MaxSize]
<1>1. files[f] \in Files /\ f \in Nat
  BY DEF Kinds, FileIds
<1> QED BY <1>1 DEF Files, Now

LEMMA SyncFields ==
    ASSUME Kinds, NEW i \in SyncIds
    PROVE  /\ syncs[i] \in Syncs /\ syncs[i].file \in FileIds /\ syncs[i].call \in Calls \union {NoCall}
           /\ syncs[i].own \in BOOLEAN /\ syncs[i].taken \in BOOLEAN
           /\ syncs[i].data \in Contents /\ syncs[i].size \in 0 .. MaxSize
<1>1. syncs[i] \in Syncs /\ syncs[i].file \in FileIds
  BY DEF Kinds, SyncIds
<1> QED BY <1>1 DEF Syncs

(* Steps that have nothing to do with the store.                           *)
LEMMA QuietStep ==
    ASSUME StoreInv, FdInv', UNCHANGED <<files, nextFd, syncs, late, refused>>,
           closing' = closing,
           \A fd \in DOMAIN fdMap' : fd \in DOMAIN fdMap,
           \A c \in Calls : /\ calls'[c].fd \in Fds \union {0}
                            /\ calls'[c].stage = "storing" <=> calls[c].stage = "storing"
    PROVE  StoreInv'
<1>1. Fds' = Fds /\ FileIds' = FileIds /\ SyncIds' = SyncIds /\ Trusted' = Trusted
  BY DEF Fds, FileIds, SyncIds, Trusted
<1>2. Kinds'
  BY <1>1 DEF StoreInv, Kinds
<1>3. Waiting'
  BY <1>1 DEF StoreInv, Waiting
<1>4. Keeping'
  BY <1>1 DEF StoreInv, Keeping, KeptOrDirty, StoresNow, Now
<1> QED BY <1>2, <1>3, <1>4 DEF StoreInv

(* A file is opened. *)
LEMMA OpenEndsStoreInv ==
    ASSUME StoreInv, NEW c \in Calls, OpenEnds(c), FdInv'
    PROVE  StoreInv'
<1>0. calls[c].stage = "opening" /\ calls \in CallRecs /\ UNCHANGED <<syncs, closing, late, refused>>
  BY DEF OpenEnds, StoreInv, FdInv
<1>1. CASE calls' = Settled(c, "err") /\ UNCHANGED <<files, fdMap, nextFd>>
  <2>1. \A d \in Calls : /\ calls'[d].fd \in Fds \union {0}
                         /\ calls'[d].stage = "storing" <=> calls[d].stage = "storing"
    BY <1>0, <1>1 DEF Settled, CallRecs, StoreInv, Kinds
  <2> QED BY <1>0, <1>1, <2>1, QuietStep
<1>2. ASSUME NEW n \in 0 .. MaxSize, files' = Append(files, NewFile(n)),
             AddedFd(Len(files) + 1), calls' = Settled(c, "ok")
      PROVE  StoreInv'
  <2>0. PICK f : f = Len(files) + 1
    OBVIOUS
  <2>1. NewFile(n) \in Files
    BY DEF NewFile, Files
  <2>2. /\ files \in Seq(Files) /\ files' \in Seq(Files) /\ Len(files') = f /\ Len(files) \in Nat
        /\ files'[f] = NewFile(n) /\ \A g \in FileIds : files'[g] = files[g]
    BY <1>2, <2>0, <2>1 DEF StoreInv, Kinds, FileIds
  <2>3. FileIds' = FileIds \union {f} /\ f \notin FileIds
    BY <2>0, <2>2 DEF FileIds
  <2>4. /\ nextFd \in Nat /\ nextFd' = nextFd + 1 /\ nextFd >= FirstFd /\ FirstFd \in Nat
        /\ DOMAIN fdMap' = DOMAIN fdMap \union {nextFd}
    BY <1>2, CallbackAssumption DEF AddedFd, StoreInv, FdInv, MapInv, Kinds
  <2>5. Fds \subseteq Fds'
    BY <2>4 DEF Fds
  <2>6. \A d \in Calls : /\ calls'[d].fd \in Fds \union {0}
                         /\ calls'[d].stage = "storing" <=> calls[d].stage = "storing"
    BY <1>0, <1>2 DEF Settled, CallRecs, StoreInv, Kinds
  <2>7. Kinds'
    BY <1>0, <2>2, <2>3, <2>4, <2>5, <2>6 DEF StoreInv, Kinds, SyncIds
  <2>8. Waiting'
    BY <1>0, <2>6 DEF StoreInv, Waiting, SyncIds
  <2>9. Keeping'
    <3>1. ASSUME NEW g \in FileIds PROVE /\ Now(g)' = Now(g) /\ files'[g] = files[g]
      BY <2>2 DEF Now
    <3>2. Now(f)' = [ver |-> 0, len |-> n, size |-> n] /\ files'[f].kept = [ver |-> 0, len |-> n, size |-> n]
      BY <2>2 DEF Now, NewFile
    <3>3. ASSUME NEW g \in Trusted' PROVE (KeptOrDirty(g) /\ files[g].kept.len = files[g].kept.size)'
      <4>1. CASE g = f
        BY <3>2, <4>1 DEF KeptOrDirty
      <4>2. CASE g # f
        <5>1. g \in Trusted /\ g \in FileIds
          BY <1>0, <2>3, <4>2 DEF Trusted
        <5> QED BY <1>0, <3>1, <5>1 DEF KeptOrDirty, StoreInv, Keeping, SyncIds
      <4> QED BY <4>1, <4>2
    <3>4. ASSUME NEW i \in SyncIds', syncs'[i].file \in Trusted' PROVE StoresNow(syncs[i])'
      <4>1. i \in SyncIds /\ syncs'[i] = syncs[i] /\ syncs[i].file \in FileIds
        BY <1>0, SyncFields DEF SyncIds, StoreInv
      <4>2. syncs[i].file \in Trusted
        BY <1>0, <3>4, <4>1 DEF Trusted
      <4>3. StoresNow(syncs[i])
        BY <4>1, <4>2 DEF StoreInv, Keeping
      <4>4. Now(syncs[i].file)' = Now(syncs[i].file)
        BY <1>0, <3>1, <4>1
      <4> QED BY <1>0, <4>1, <4>3, <4>4 DEF StoresNow
    <3> QED BY <3>3, <3>4 DEF Keeping
  <2> QED BY <2>7, <2>8, <2>9 DEF StoreInv
<1> QED BY <1>1, <1>2 DEF OpenEnds

(* A file is changed: if it is being stored or closed nothing is said of   *)
(* it any more; if not, no transaction is there that would notice.         *)
LEMMA DetachedSyncs ==
    ASSUME StoreInv, NEW f \in FileIds, syncs' \in {syncs, Detached(f)}
    PROVE  /\ syncs' \in Seq(Syncs) /\ SyncIds' = SyncIds
           /\ \A i \in SyncIds : /\ syncs'[i].file = syncs[i].file /\ syncs'[i].call = syncs[i].call
                                 /\ syncs[i].file # f => syncs'[i] = syncs[i]
<1>1. syncs \in Seq(Syncs) /\ Kinds
  BY DEF StoreInv, Kinds
<1>2. CASE syncs' = syncs
  BY <1>1, <1>2 DEF SyncIds
<1>3. CASE syncs' = Detached(f)
  <2> DEFINE d(i) == IF syncs[i].file = f /\ syncs[i].own
                     THEN [syncs[i] EXCEPT !.own = FALSE,
                             !.data = [ver |-> files[f].ver, len |-> files[f].size]]
                     ELSE syncs[i]
  <2>1. \A i \in SyncIds : /\ d(i) \in Syncs
                           /\ d(i).file = syncs[i].file /\ d(i).call = syncs[i].call
                           /\ syncs[i].file # f => d(i) = syncs[i]
    <3> SUFFICES ASSUME NEW i \in SyncIds
                 PROVE  /\ d(i) \in Syncs
                        /\ d(i).file = syncs[i].file /\ d(i).call = syncs[i].call
                        /\ syncs[i].file # f => d(i) = syncs[i]
      OBVIOUS
    <3>1. syncs[i] \in Syncs
      BY <1>1, SyncFields
    <3>2. [ver |-> files[f].ver, len |-> files[f].size] \in Contents
      BY <1>1, FileFields DEF Contents
    <3> QED BY <3>1, <3>2 DEF Syncs
  <2>2. syncs' = [i \in 1 .. Len(syncs) |-> d(i)] /\ Len(syncs) \in Nat
    <3>1. syncs' = [i \in 1 .. Len(syncs) |-> d(i)]
      BY ONLY <1>3 DEF Detached
    <3>2. Len(syncs) \in Nat
      BY <1>1
    <3> QED BY <3>1, <3>2
  <2> HIDE DEF d
  <2>3. Len(syncs') = Len(syncs) /\ syncs' \in Seq(Syncs)
    BY <2>1, <2>2 DEF SyncIds
  <2> QED BY <2>1, <2>2, <2>3 DEF SyncIds
<1> QED BY <1>2, <1>3

LEMMA ChangesStoreInv ==
    ASSUME StoreInv, FdInv', NEW f \in FileIds, NEW n \in 0 .. MaxSize, Changes(f, n),
           \A d \in Calls : /\ calls'[d].fd = calls[d].fd
                            /\ calls'[d].stage = "storing" <=> calls[d].stage = "storing"
    PROVE  StoreInv'
<1>1. UNCHANGED <<fdMap, nextFd, closing, refused>> /\ files \in Seq(Files) /\ syncs \in Seq(Syncs)
  BY DEF Changes, StoreInv, Kinds
<1>2. /\ syncs' \in Seq(Syncs) /\ SyncIds' = SyncIds
      /\ \A i \in SyncIds : /\ syncs'[i].file = syncs[i].file /\ syncs'[i].call = syncs[i].call
                            /\ syncs[i].file # f => syncs'[i] = syncs[i]
  <2>1. syncs' \in {syncs, Detached(f)}
    BY DEF Changes
  <2> QED BY <2>1, DetachedSyncs
<1>3. files[f] \in Files /\ files[f].ver \in Nat
  BY FileFields DEF StoreInv
<1>4. /\ files' \in Seq(Files) /\ FileIds' = FileIds
      /\ \A g \in FileIds : g # f => files'[g] = files[g]
      /\ files'[f].dirty /\ files'[f].kept = files[f].kept
  <2>1. PICK r : r = [files[f] EXCEPT !.ver = @ + 1, !.size = n, !.dirty = TRUE]
    OBVIOUS
  <2>2. r \in Files /\ r.dirty /\ r.kept = files[f].kept
    <3>1. PICK x, k : x = files[f] /\ x \in Files /\ k = x.ver + 1 /\ k \in Nat
      BY <1>3
    <3>2. r = [x EXCEPT !.ver = k, !.size = n, !.dirty = TRUE]
      BY <2>1, <3>1
    <3>3. r \in Files /\ r.dirty /\ r.kept = x.kept
      BY <3>1, <3>2 DEF Files
    <3> QED BY <3>1, <3>3
  <2>3. files' = [files EXCEPT ![f] = r]
    BY <2>1 DEF Changes
  <2> QED BY <1>1, <2>2, <2>3 DEF FileIds
<1>5. /\ late' \subseteq FileIds /\ late \subseteq late'
      /\ (f \in closing \/ \E i \in SyncIds : syncs[i].file = f) => f \in late'
  BY DEF Changes, UnderWay, SyncIds, StoreInv, Kinds
<1>6. Kinds'
  BY <1>1, <1>2, <1>4, <1>5 DEF StoreInv, Kinds, Fds
<1>7. Waiting'
  BY <1>2 DEF StoreInv, Waiting
<1>8. Keeping'
  <2>1. Trusted' \subseteq Trusted
    BY <1>1, <1>4, <1>5 DEF Trusted
  <2>2. ASSUME NEW g \in Trusted' PROVE (KeptOrDirty(g) /\ files[g].kept.len = files[g].kept.size)'
    <3>1. g \in Trusted /\ g \in FileIds /\ g \notin late'
      BY <2>1 DEF Trusted
    <3>2. KeptOrDirty(g) /\ files[g].kept.len = files[g].kept.size
      BY <3>1 DEF StoreInv, Keeping
    <3>3. CASE g = f
      BY <1>1, <1>4, <1>5, <3>1, <3>2, <3>3 DEF KeptOrDirty
    <3>4. CASE g # f
      <4>1. files'[g] = files[g]
        BY <1>4, <3>1, <3>4
      <4> QED BY <1>1, <1>2, <3>2, <4>1 DEF KeptOrDirty, Now
    <3> QED BY <3>3, <3>4
  <2>3. ASSUME NEW i \in SyncIds', syncs'[i].file \in Trusted' PROVE StoresNow(syncs[i])'
    <3>1. i \in SyncIds /\ syncs'[i].file = syncs[i].file /\ syncs[i].file \in FileIds
      BY <1>2, SyncFields DEF StoreInv
    <3>2. syncs[i].file # f
      BY <1>5, <2>3, <3>1 DEF Trusted
    <3>3. syncs'[i] = syncs[i] /\ files'[syncs[i].file] = files[syncs[i].file]
      BY <1>2, <1>4, <3>1, <3>2
    <3>4. StoresNow(syncs[i])
      BY <2>1, <2>3, <3>1 DEF StoreInv, Keeping
    <3> QED BY <3>3, <3>4 DEF StoresNow, Now
  <2> QED BY <2>2, <2>3 DEF Keeping
<1> QED BY <1>6, <1>7, <1>8 DEF StoreInv

(* A transaction is begun for file f. *)
LEMMA StoringSyncs ==
    ASSUME StoreInv, NEW f \in FileIds, NEW c \in Calls \union {NoCall}, syncs' = Storing(f, c)
    PROVE  \E j : /\ syncs' \in Seq(Syncs) /\ SyncIds' = SyncIds \union {j} /\ j \notin SyncIds
                  /\ \A i \in SyncIds : syncs'[i] = syncs[i]
                  /\ syncs'[j].file = f /\ syncs'[j].call = c
                  /\ syncs'[j].own /\ ~syncs'[j].taken
<1>1. syncs \in Seq(Syncs) /\ Len(syncs) \in Nat
  BY DEF StoreInv, Kinds
<1>2. PICK r : r = [file |-> f, call |-> c, own |-> TRUE, taken |-> FALSE,
                    data |-> [ver |-> 0, len |-> 0], size |-> 0]
  OBVIOUS
<1>3. r \in Syncs /\ r.file = f /\ r.call = c /\ r.own /\ ~r.taken
  BY <1>2, CallbackAssumption DEF Syncs, Contents, FileIds
<1>4. syncs' = Append(syncs, r)
  BY <1>2 DEF Storing
<1>5. PICK j : j = Len(syncs) + 1
  OBVIOUS
<1>6. /\ syncs' \in Seq(Syncs) /\ SyncIds' = SyncIds \union {j} /\ j \notin SyncIds
      /\ \A i \in SyncIds : syncs'[i] = syncs[i]
      /\ syncs'[j] = r
  BY <1>1, <1>3, <1>4, <1>5 DEF SyncIds
<1> QED BY <1>3, <1>6

LEMMA StoringStoreInv ==
    ASSUME StoreInv, FdInv', NEW f \in FileIds, NEW c \in Calls \union {NoCall},
           syncs' = Storing(f, c), closing' \in {closing, closing \union {f}},
           c # NoCall => calls[c].stage # "storing" /\ calls'[c].stage = "storing" /\ closing' = closing,
           UNCHANGED <<files, fdMap, nextFd, late, refused>>,
           \A d \in Calls : /\ calls'[d].fd \in Fds \union {0}
                            /\ d # c => (calls'[d].stage = "storing" <=> calls[d].stage = "storing")
    PROVE  StoreInv'
<1>1. PICK j : /\ syncs' \in Seq(Syncs) /\ SyncIds' = SyncIds \union {j} /\ j \notin SyncIds
               /\ \A i \in SyncIds : syncs'[i] = syncs[i]
               /\ syncs'[j].file = f /\ syncs'[j].call = c
               /\ syncs'[j].own /\ ~syncs'[j].taken
  BY StoringSyncs
<1>2. FileIds' = FileIds /\ Fds' = Fds /\ Trusted' = Trusted
  BY DEF FileIds, Fds, Trusted
<1>3. Kinds'
  BY <1>1, <1>2 DEF StoreInv, Kinds
<1>4. Waiting'
  BY <1>1, CallbackAssumption DEF StoreInv, Waiting
<1>5. Keeping'
  <2>1. ASSUME NEW g \in Trusted PROVE (KeptOrDirty(g) /\ files[g].kept.len = files[g].kept.size)'
    <3>1. KeptOrDirty(g) /\ files[g].kept.len = files[g].kept.size
      BY DEF StoreInv, Keeping
    <3>2. g \in closing' => g \in closing \/ (g = f /\ c = NoCall)
      OBVIOUS
    <3> QED BY <1>1, <3>1, <3>2 DEF KeptOrDirty, Now
  <2>2. ASSUME NEW i \in SyncIds', syncs'[i].file \in Trusted PROVE StoresNow(syncs[i])'
    BY <1>1, <2>2 DEF StoresNow, Now, StoreInv, Keeping
  <2> QED BY <1>2, <2>1, <2>2 DEF Keeping
<1> QED BY <1>3, <1>4, <1>5 DEF StoreInv

LEMMA CloseStoreInv ==
    ASSUME StoreInv, FdInv', NEW c \in Calls, NEW fd \in Fds, Close(c, fd), fd \in DOMAIN fdMap,
           ~BadFd(c, fd)
    PROVE  StoreInv'
<1> DEFINE f == fdMap[fd]
<1>1. /\ calls[c].stage = "answered" /\ calls \in CallRecs
      /\ calls' = [calls EXCEPT ![c] = [stage |-> "closing", fd |-> fd]]
      /\ syncs' = IF files[f].dirty THEN Storing(f, NoCall) ELSE syncs
      /\ closing' = closing \union {f} /\ f \in FileIds
      /\ UNCHANGED <<files, fdMap, nextFd, late, refused>>
  BY DEF Close, MayCall, StoreInv, FdInv, MapInv
<1>2. \A d \in Calls : /\ calls'[d].fd \in Fds \union {0}
                       /\ calls'[d].stage = "storing" <=> calls[d].stage = "storing"
  BY <1>1 DEF CallRecs, StoreInv, Kinds
<1>3. CASE files[f].dirty
  <2>1. PICK g, n : g = f /\ n = NoCall
    OBVIOUS
  <2>2. /\ g \in FileIds /\ n \in Calls \union {NoCall} /\ syncs' = Storing(g, n)
        /\ closing' \in {closing, closing \union {g}} /\ n = NoCall
    BY <1>1, <1>3, <2>1
  <2> QED BY <1>1, <1>2, <2>2, StoringStoreInv
<1>4. CASE ~files[f].dirty
  <2>1. PICK g : g = f
    OBVIOUS
  <2>2. /\ syncs' = syncs /\ closing' = closing \union {g} /\ g \in FileIds /\ ~files[g].dirty
    BY <1>1, <1>4, <2>1
  <2> HIDE DEF f
  <2>3. FileIds' = FileIds /\ Fds' = Fds /\ Trusted' = Trusted /\ SyncIds' = SyncIds
    BY <1>1, <2>2 DEF FileIds, Fds, Trusted, SyncIds
  <2>4. Kinds'
    BY <1>1, <1>2, <2>2, <2>3 DEF StoreInv, Kinds
  <2>5. Waiting'
    BY <1>2, <2>2, <2>3 DEF StoreInv, Waiting
  <2>6. Keeping'
    BY <1>1, <2>2, <2>3 DEF StoreInv, Keeping, KeptOrDirty, StoresNow, Now
  <2> QED BY <2>4, <2>5, <2>6 DEF StoreInv
<1> QED BY <1>3, <1>4

(* The first transaction takes what it stores. *)
LEMMA TakeDataStoreInv ==
    ASSUME StoreInv, FdInv', TakeData
    PROVE  StoreInv'
<1>1. PICK s : s = syncs[1]
  OBVIOUS
<1>2. /\ syncs \in Seq(Syncs) /\ syncs # <<>> /\ Head(syncs) = s /\ 1 \in SyncIds /\ Len(syncs) \in Nat
      /\ UNCHANGED <<files, fdMap, nextFd, calls, closing, late, refused>>
  BY <1>1 DEF TakeData, StoreInv, Kinds, SyncIds
<1>3. s \in Syncs /\ s.file \in FileIds /\ ~s.taken
  BY <1>1, <1>2, SyncFields DEF StoreInv, TakeData
<1>4. PICK now : now = Now(s.file)
  OBVIOUS
<1>5. /\ now \in [ver : Nat, len : 0 .. MaxSize, size : 0 .. MaxSize]
      /\ now.ver = files[s.file].ver /\ now.len = files[s.file].size /\ now.size = files[s.file].size
  BY <1>3, <1>4, FileFields DEF StoreInv, Now
<1>6. PICK data : data = IF s.own THEN [ver |-> now.ver, len |-> now.len] ELSE s.data
  OBVIOUS
<1>7. data \in Contents /\ now.size \in 0 .. MaxSize
  BY <1>3, <1>5, <1>6 DEF Syncs, Contents
<1>8. PICK r : r = [s EXCEPT !.taken = TRUE, !.own = FALSE, !.size = now.size, !.data = data]
  OBVIOUS
<1>9. /\ r \in Syncs /\ r.file = s.file /\ r.call = s.call /\ r.taken /\ r.data = data /\ r.size = now.size
  BY <1>3, <1>7, <1>8 DEF Syncs
<1>10. syncs' = [syncs EXCEPT ![1] = r]
  <2>1. syncs' = [syncs EXCEPT ![1].taken = TRUE, ![1].own = FALSE,
                        ![1].size = files[s.file].size,
                        ![1].data = IF s.own THEN [ver |-> files[s.file].ver,
                                                   len |-> files[s.file].size] ELSE @]
    BY <1>2 DEF TakeData
  <2>2. r = [syncs[1] EXCEPT !.taken = TRUE, !.own = FALSE,
                        !.size = files[s.file].size,
                        !.data = IF s.own THEN [ver |-> files[s.file].ver,
                                                   len |-> files[s.file].size] ELSE @]
    BY <1>1, <1>3, <1>5, <1>6, <1>8 DEF Syncs
  <2> QED BY <1>2, <2>1, <2>2
<1>11. /\ syncs' \in Seq(Syncs) /\ SyncIds' = SyncIds /\ syncs'[1] = r
       /\ \A i \in SyncIds : /\ i # 1 => syncs'[i] = syncs[i]
                             /\ syncs'[i].file = syncs[i].file /\ syncs'[i].call = syncs[i].call
  BY <1>1, <1>2, <1>9, <1>10 DEF SyncIds
<1>12. FileIds' = FileIds /\ Fds' = Fds /\ Trusted' = Trusted
  BY <1>2 DEF FileIds, Fds, Trusted
<1>13. Kinds'
  BY <1>2, <1>11, <1>12 DEF StoreInv, Kinds
<1>14. Waiting'
  BY <1>2, <1>11 DEF StoreInv, Waiting
<1>15. Keeping'
  <2>1. ASSUME NEW g \in Trusted PROVE (KeptOrDirty(g) /\ files[g].kept.len = files[g].kept.size)'
    BY <1>2, <1>11 DEF StoreInv, Keeping, KeptOrDirty, Now
  <2>2. ASSUME NEW i \in SyncIds, syncs'[i].file \in Trusted PROVE StoresNow(syncs[i])'
    <3>1. StoresNow(syncs[i])
      BY <1>11, <2>2 DEF StoreInv, Keeping
    <3>2. CASE i = 1
      <4>1. s.own
        BY <1>1, <1>3, <3>1, <3>2 DEF StoresNow
      <4>2. data.ver = now.ver /\ data.len = now.len
        BY <1>6, <4>1
      <4>3. [ver |-> r.data.ver, len |-> r.data.len, size |-> r.size] = Now(r.file)
        BY <1>4, <1>5, <1>9, <4>2 DEF Now
      <4> QED BY <1>2, <1>9, <1>11, <3>2, <4>3 DEF StoresNow, Now
    <3>3. CASE i # 1
      BY <1>2, <1>11, <3>1, <3>3 DEF StoresNow, Now
    <3> QED BY <3>2, <3>3
  <2> QED BY <1>11, <1>12, <2>1, <2>2 DEF Keeping
<1> QED BY <1>13, <1>14, <1>15 DEF StoreInv

(* A transaction ends, in one way or the other: it leaves the queue, and   *)
(* the call that waits for it is settled.                                  *)
LEMMA EndedSyncs ==
    ASSUME StoreInv, syncs # <<>>, syncs' = Tail(syncs), NEW stage \in {"ok", "err"},
           calls' = Settled(syncs[1].call, stage)
    PROVE  /\ 1 \in SyncIds /\ syncs' \in Seq(Syncs) /\ Head(syncs) = syncs[1]
           /\ \A i \in SyncIds' : \E k \in SyncIds : k # 1 /\ syncs'[i] = syncs[k]
           /\ \A k \in SyncIds : k # 1 => \E i \in SyncIds' : syncs'[i] = syncs[k]
           /\ \A d \in Calls : calls'[d].fd = calls[d].fd
           /\ Waiting'
<1> DEFINE c == syncs[1].call
<1>1. syncs \in Seq(Syncs) /\ Len(syncs) \in Nat \ {0} /\ calls \in CallRecs
  BY DEF StoreInv, Kinds, FdInv
<1>2. /\ 1 \in SyncIds /\ syncs' \in Seq(Syncs) /\ Head(syncs) = syncs[1]
      /\ Len(syncs') = Len(syncs) - 1
      /\ \A i \in 1 .. Len(syncs') : syncs'[i] = syncs[i + 1]
  BY <1>1 DEF SyncIds
<1>3. \A i \in SyncIds' : i + 1 \in SyncIds /\ i + 1 # 1 /\ syncs'[i] = syncs[i + 1]
  BY <1>1, <1>2 DEF SyncIds
<1>4. \A k \in SyncIds : k # 1 => k - 1 \in SyncIds' /\ k = k - 1 + 1
  BY <1>1, <1>2 DEF SyncIds
<1>5. c \in Calls \union {NoCall}
  BY <1>2, SyncFields DEF StoreInv
<1>6. \A d \in Calls : /\ calls'[d].fd = calls[d].fd
                       /\ d = c => calls'[d].stage = stage
                       /\ d # c => calls'[d] = calls[d]
  <2>1. calls' = IF c = NoCall THEN calls ELSE [calls EXCEPT ![c].stage = stage]
    BY DEF Settled
  <2> HIDE DEF c
  <2> QED BY <1>1, <1>5, <2>1, CallbackAssumption DEF CallRecs
<1>7. Waiting'
  <2>1. \A i, j \in SyncIds' : syncs'[i].call # NoCall /\ syncs'[i].call = syncs'[j].call => i = j
    <3> SUFFICES ASSUME NEW i \in SyncIds', NEW j \in SyncIds',
                        syncs'[i].call # NoCall, syncs'[i].call = syncs'[j].call
                 PROVE  i = j
      OBVIOUS
    <3>1. i \in Nat /\ j \in Nat
      BY <1>1, <1>2 DEF SyncIds
    <3>2. PICK a, b : a = i + 1 /\ b = j + 1
      OBVIOUS
    <3>3. /\ a \in SyncIds /\ b \in SyncIds
          /\ syncs[a].call # NoCall /\ syncs[a].call = syncs[b].call
      BY <1>3, <3>2
    <3>4. a = b
      BY <3>3 DEF StoreInv, Waiting
    <3> QED BY <3>1, <3>2, <3>4
  <2>2. ASSUME NEW d \in Calls
        PROVE  calls'[d].stage = "storing" <=> \E i \in SyncIds' : syncs'[i].call = d
    <3>1. d # NoCall
      BY CallbackAssumption
    <3>2. CASE d = c
      <4>1. calls'[d].stage # "storing"
        BY <1>6, <3>2
      <4>2. \A k \in SyncIds : syncs[k].call = d => k = 1
        BY <1>2, <3>1, <3>2 DEF StoreInv, Waiting
      <4> QED BY <1>3, <4>1, <4>2
    <3>3. CASE d # c
      <4>1. calls'[d].stage = "storing" <=> \E k \in SyncIds : syncs[k].call = d
        BY <1>6, <3>3 DEF StoreInv, Waiting
      <4>2. ASSUME NEW k \in SyncIds, syncs[k].call = d PROVE \E i \in SyncIds' : syncs'[i].call = d
        <5>1. k # 1
          BY <3>3, <4>2
        <5> QED BY <1>3, <1>4, <4>2, <5>1
      <4> QED BY <1>3, <4>1, <4>2
    <3> QED BY <3>2, <3>3
  <2> QED BY <2>1, <2>2 DEF Waiting
<1>8. \A k \in SyncIds : k # 1 => \E i \in SyncIds' : syncs'[i] = syncs[k]
  BY <1>3, <1>4
<1> QED BY <1>2, <1>3, <1>6, <1>7, <1>8

(* A transaction has stored what it took: that is what the file has, if it *)
(* is one that anything is said of.                                        *)
LEMMA StoredStoreInv ==
    ASSUME StoreInv, FdInv', Stored
    PROVE  StoreInv'
<1>1. PICK s : s = syncs[1]
  OBVIOUS
<1>2. syncs # <<>> /\ syncs' = Tail(syncs) /\ UNCHANGED <<fdMap, nextFd, closing, late, refused>>
  BY DEF Stored
<1>3. 1 \in SyncIds /\ Head(syncs) = s
  BY <1>1, <1>2 DEF StoreInv, Kinds, SyncIds
<1>4. s \in Syncs /\ s.file \in FileIds /\ s.taken /\ s.data \in Contents /\ s.size \in 0 .. MaxSize
  BY <1>1, <1>3, SyncFields DEF StoreInv, Stored
<1>5. calls' = Settled(s.call, "ok")
  BY <1>3 DEF Stored
<1>6. /\ syncs' \in Seq(Syncs)
      /\ \A i \in SyncIds' : \E k \in SyncIds : k # 1 /\ syncs'[i] = syncs[k]
      /\ \A k \in SyncIds : k # 1 => \E i \in SyncIds' : syncs'[i] = syncs[k]
      /\ \A d \in Calls : calls'[d].fd = calls[d].fd
      /\ Waiting'
  BY <1>1, <1>2, <1>5, EndedSyncs
<1>7. PICK f, stored : f = s.file /\ stored = [ver |-> s.data.ver, len |-> s.data.len, size |-> s.size]
  OBVIOUS
<1>8. stored \in [ver : Nat, len : 0 .. MaxSize, size : 0 .. MaxSize] /\ f \in FileIds
  BY <1>4, <1>7 DEF Contents
<1>9. /\ files' \in Seq(Files) /\ FileIds' = FileIds
      /\ \A g \in FileIds : g # f => files'[g] = files[g]
      /\ files'[f].kept = stored
      /\ files'[f].ver = files[f].ver /\ files'[f].size = files[f].size
  <2>1. PICK x : x = files[f]
    OBVIOUS
  <2>2. PICK r : r = [x EXCEPT !.dirty = FALSE, !.kept = stored]
    OBVIOUS
  <2>3. x \in Files /\ files \in Seq(Files)
    BY <1>8, <2>1, FileFields DEF StoreInv, Kinds
  <2>4. r \in Files /\ r.kept = stored /\ r.ver = x.ver /\ r.size = x.size
    BY <1>8, <2>2, <2>3 DEF Files
  <2>5. files' = [files EXCEPT ![f] = r]
    <3>1. files' = [files EXCEPT ![f].dirty = FALSE, ![f].kept = stored]
      BY <1>3, <1>7 DEF Stored
    <3> QED BY <2>1, <2>2, <2>3, <3>1, <1>8
  <2> QED BY <1>8, <2>1, <2>3, <2>4, <2>5 DEF FileIds
<1>10. Trusted' = Trusted /\ Fds' = Fds
  BY <1>2, <1>9 DEF Trusted, Fds
<1>11. Kinds'
  BY <1>2, <1>6, <1>9, <1>10 DEF StoreInv, Kinds
<1>12. Keeping'
  <2>1. \A g \in FileIds : Now(g)' = Now(g)
    BY <1>9 DEF Now
  <2>2. ASSUME NEW g \in Trusted PROVE (KeptOrDirty(g) /\ files[g].kept.len = files[g].kept.size)'
    <3>1. CASE g = f
      <4>1. StoresNow(s)
        BY <1>1, <1>3, <1>7, <2>2, <3>1 DEF StoreInv, Keeping
      <4>2. stored = Now(f) /\ f \in FileIds
        BY <1>4, <1>7, <1>8, <4>1 DEF StoresNow
      <4>3. files'[f].kept = Now(f)' /\ files'[f].kept.len = files'[f].kept.size
        <5>1. Now(f)' = Now(f) /\ files'[f].kept = stored
          BY <1>9, <2>1, <4>2
        <5>2. Now(f).len = Now(f).size
          BY DEF Now
        <5> QED BY <4>2, <5>1, <5>2
      <4> QED BY <3>1, <4>3 DEF KeptOrDirty
    <3>2. CASE g # f
      <4>1. KeptOrDirty(g) /\ files[g].kept.len = files[g].kept.size /\ files'[g] = files[g]
        BY <1>9, <2>2, <3>2 DEF StoreInv, Keeping, Trusted
      <4>2. (\E i \in SyncIds : syncs[i].file = g /\ syncs[i].call = NoCall)
              => (\E i \in SyncIds' : syncs'[i].file = g /\ syncs'[i].call = NoCall)
        BY <1>1, <1>6, <1>7, <3>2
      <4> QED BY <1>2, <2>1, <2>2, <4>1, <4>2 DEF KeptOrDirty, Trusted
    <3> QED BY <3>1, <3>2
  <2>3. ASSUME NEW i \in SyncIds', syncs'[i].file \in Trusted PROVE StoresNow(syncs[i])'
    <3>1. PICK k \in SyncIds : syncs'[i] = syncs[k]
      BY <1>6
    <3>2. StoresNow(syncs[k]) /\ syncs[k].file \in FileIds
      BY <2>3, <3>1, SyncFields DEF StoreInv, Keeping
    <3>3. PICK h : h = syncs[k].file
      OBVIOUS
    <3>4. Now(h)' = Now(h) /\ syncs'[i].file = h
      BY <2>1, <3>1, <3>2, <3>3
    <3> QED BY <3>1, <3>2, <3>3, <3>4 DEF StoresNow
  <2> QED BY <1>10, <2>2, <2>3 DEF Keeping
<1> QED BY <1>6, <1>11, <1>12 DEF StoreInv

(* A transaction is rejected: the file is as dirty as it was, and the      *)
(* transaction of a close is not the one that ended, or nothing is said of *)
(* the file any more.                                                      *)
LEMMA RejectedStoreInv ==
    ASSUME StoreInv, FdInv', Rejected
    PROVE  StoreInv'
<1>1. PICK s : s = syncs[1]
  OBVIOUS
<1>2. syncs # <<>> /\ syncs' = Tail(syncs) /\ UNCHANGED <<files, fdMap, nextFd, closing, late>>
  BY DEF Rejected
<1>3. 1 \in SyncIds /\ Head(syncs) = s
  BY <1>1, <1>2 DEF StoreInv, Kinds, SyncIds
<1>4. /\ calls' = Settled(s.call, "err")
      /\ refused' = IF s.call = NoCall THEN refused \union {s.file} ELSE refused
  BY <1>3 DEF Rejected
<1>5. s.file \in FileIds
  BY <1>1, <1>3, SyncFields DEF StoreInv
<1>6. /\ syncs' \in Seq(Syncs)
      /\ \A i \in SyncIds' : \E k \in SyncIds : k # 1 /\ syncs'[i] = syncs[k]
      /\ \A k \in SyncIds : k # 1 => \E i \in SyncIds' : syncs'[i] = syncs[k]
      /\ \A d \in Calls : calls'[d].fd = calls[d].fd
      /\ Waiting'
  BY <1>1, <1>2, <1>4, EndedSyncs
<1>7. FileIds' = FileIds /\ Fds' = Fds
  BY <1>2 DEF FileIds, Fds
<1>8. refused' \subseteq FileIds
  BY <1>4, <1>5 DEF StoreInv, Kinds
<1>9. Kinds'
  BY <1>2, <1>6, <1>7, <1>8 DEF StoreInv, Kinds
<1>10. Trusted' \subseteq Trusted /\ (s.call = NoCall => s.file \notin Trusted')
  BY <1>2, <1>4, <1>7 DEF Trusted
<1>11. Keeping'
  <2>1. ASSUME NEW g \in Trusted' PROVE (KeptOrDirty(g) /\ files[g].kept.len = files[g].kept.size)'
    <3>1. KeptOrDirty(g) /\ files[g].kept.len = files[g].kept.size
      BY <1>10 DEF StoreInv, Keeping
    <3>2. (\E i \in SyncIds : syncs[i].file = g /\ syncs[i].call = NoCall)
            => (\E i \in SyncIds' : syncs'[i].file = g /\ syncs'[i].call = NoCall)
      <4> SUFFICES ASSUME NEW k \in SyncIds, syncs[k].file = g /\ syncs[k].call = NoCall
                   PROVE  \E i \in SyncIds' : syncs'[i].file = g /\ syncs'[i].call = NoCall
        OBVIOUS
      <4>1. k # 1
        BY <1>1, <1>10
      <4> QED BY <1>6, <4>1
    <3> QED BY <1>2, <3>1, <3>2 DEF KeptOrDirty, Now
  <2>2. ASSUME NEW i \in SyncIds', syncs'[i].file \in Trusted' PROVE StoresNow(syncs[i])'
    <3>1. PICK k \in SyncIds : syncs'[i] = syncs[k]
      BY <1>6
    <3>2. StoresNow(syncs[k])
      BY <1>10, <2>2, <3>1 DEF StoreInv, Keeping
    <3> QED BY <1>2, <3>1, <3>2 DEF StoresNow, Now
  <2> QED BY <2>1, <2>2 DEF Keeping
<1> QED BY <1>6, <1>9, <1>11 DEF StoreInv

LEMMA CallStoreInv ==
    ASSUME StoreInv, FdInv', NEW c \in Calls, Call(c)
    PROVE  StoreInv'
<1>1. calls \in CallRecs /\ nextFd \in Nat /\ FirstFd \in Nat /\ \A fd \in DOMAIN fdMap : fdMap[fd] \in FileIds
  BY CallbackAssumption DEF StoreInv, FdInv, MapInv
<1>2. ASSUME NEW stage \in Stages, calls' = Begun(c, stage)
      PROVE  \A d \in Calls : /\ calls'[d].fd = calls[d].fd /\ calls[d].fd \in Fds \union {0}
                              /\ d # c => calls'[d] = calls[d]
                              /\ calls'[c].stage = stage
  BY <1>1, <1>2 DEF Begun, CallRecs, StoreInv, Kinds
<1>3. ASSUME NEW stage \in Stages \ {"storing"}, calls' = Begun(c, stage), MayCall(c),
             UNCHANGED <<files, fdMap, nextFd, syncs, closing, late, refused>>
      PROVE  StoreInv'
  <2>1. \A d \in Calls : /\ calls'[d].fd \in Fds \union {0}
                         /\ calls'[d].stage = "storing" <=> calls[d].stage = "storing"
    <3>1. calls[c].stage # "storing"
      BY <1>3 DEF MayCall
    <3> QED BY <1>2, <1>3, <3>1
  <2> QED BY <1>3, <2>1, QuietStep
<1>4. ASSUME NEW fd, BadFd(c, fd) PROVE StoreInv'
  BY <1>3, <1>4 DEF BadFd, Stages
<1>5. CASE Open(c) \/ OnPath(c)
  BY <1>3, <1>5 DEF Open, OnPath, Stages
<1>6. ASSUME NEW fd \in Fds, Write(c, fd) PROVE StoreInv'
  <2>1. SUFFICES ASSUME ~BadFd(c, fd) PROVE StoreInv'
    BY <1>4
  <2>2. /\ MayCall(c) /\ fd \in DOMAIN fdMap /\ calls' = Begun(c, "ok")
        /\ \E n \in files[fdMap[fd]].size .. MaxSize : Changes(fdMap[fd], n)
    BY <1>6, <2>1 DEF Write
  <2>3. PICK f : f = fdMap[fd]
    OBVIOUS
  <2>4. f \in FileIds /\ files[f].size \in 0 .. MaxSize
    BY <1>1, <2>2, <2>3, FileFields DEF StoreInv
  <2>5. PICK n \in files[f].size .. MaxSize : Changes(f, n)
    BY <2>2, <2>3
  <2>6. n \in 0 .. MaxSize
    BY <2>4, CallbackAssumption
  <2>7. \A d \in Calls : /\ calls'[d].fd = calls[d].fd
                         /\ calls'[d].stage = "storing" <=> calls[d].stage = "storing"
    BY <1>2, <2>2 DEF MayCall, Stages
  <2> QED BY <2>4, <2>5, <2>6, <2>7, ChangesStoreInv
<1>7. ASSUME NEW fd \in Fds, ReadOrSet(c, fd) PROVE StoreInv'
  BY <1>3, <1>4, <1>7 DEF ReadOrSet, Stages
<1>8. ASSUME NEW fd \in Fds, Fsync(c, fd) PROVE StoreInv'
  <2>1. SUFFICES ASSUME ~BadFd(c, fd) PROVE StoreInv'
    BY <1>4
  <2>2. /\ MayCall(c) /\ fd \in DOMAIN fdMap
        /\ IF files[fdMap[fd]].dirty
           THEN calls' = Begun(c, "storing") /\ syncs' = Storing(fdMap[fd], c)
           ELSE calls' = Begun(c, "ok") /\ UNCHANGED syncs
        /\ UNCHANGED <<files, fdMap, nextFd, closing, late, refused>>
    BY <1>8, <2>1 DEF Fsync
  <2>3. CASE ~files[fdMap[fd]].dirty
    BY <1>3, <2>2, <2>3 DEF Stages
  <2>4. CASE files[fdMap[fd]].dirty
    <3>1. PICK f : f = fdMap[fd]
      OBVIOUS
    <3>2. f \in FileIds /\ syncs' = Storing(f, c) /\ calls' = Begun(c, "storing")
      BY <1>1, <2>2, <2>4, <3>1
    <3>3. calls[c].stage # "storing" /\ calls'[c].stage = "storing"
      BY <1>2, <2>2, <3>2 DEF MayCall, Stages
    <3>4. \A d \in Calls : /\ calls'[d].fd \in Fds \union {0}
                           /\ d # c => (calls'[d].stage = "storing" <=> calls[d].stage = "storing")
      BY <1>2, <3>2 DEF Stages
    <3> QED BY <2>2, <3>2, <3>3, <3>4, StoringStoreInv
  <2> QED BY <2>3, <2>4
<1>9. ASSUME NEW fd \in Fds, Close(c, fd) PROVE StoreInv'
  BY <1>4, <1>9, CloseStoreInv DEF Close
<1> QED BY <1>5, <1>6, <1>7, <1>8, <1>9 DEF Call

LEMMA NextStoreInv ==
    ASSUME StoreInv, [Next]_vars
    PROVE  StoreInv'
<1>1. FdInv' /\ calls \in CallRecs /\ nextFd \in Nat /\ FirstFd \in Nat
  BY NextFdInv, CallbackAssumption DEF StoreInv, FdInv, MapInv
<1>2. ASSUME NEW c \in Calls, CloseEnds(c) PROVE StoreInv'
  <2>1. calls[c].stage = "closing" /\ calls' = [calls EXCEPT ![c] = [stage |-> "ok", fd |-> 0]]
    BY <1>2 DEF CloseEnds
  <2>2. \A d \in Calls : /\ calls'[d].fd \in Fds \union {0}
                         /\ calls'[d].stage = "storing" <=> calls[d].stage = "storing"
    BY <1>1, <2>1 DEF CallRecs, StoreInv, Kinds
  <2>3. \A fd \in DOMAIN fdMap' : fd \in DOMAIN fdMap
    BY <1>2 DEF CloseEnds
  <2>4. UNCHANGED <<files, nextFd, syncs, closing, late, refused>>
    BY <1>2 DEF CloseEnds
  <2> QED BY <1>1, <2>2, <2>3, <2>4, QuietStep
<1>3. ASSUME NEW c \in Calls, PathEnds(c) \/ Handler(c) PROVE StoreInv'
  <2>1. /\ calls[c].stage # "storing"
        /\ \E stage \in {"ok", "err", "thrown", "answered"} : calls' = Settled(c, stage)
        /\ UNCHANGED <<files, fdMap, nextFd, syncs, closing, late, refused>>
    BY <1>3 DEF PathEnds, Handler
  <2>2. \A d \in Calls : /\ calls'[d].fd \in Fds \union {0}
                         /\ calls'[d].stage = "storing" <=> calls[d].stage = "storing"
    BY <1>1, <2>1 DEF Settled, CallRecs, StoreInv, Kinds
  <2> QED BY <1>1, <2>1, <2>2, QuietStep
<1>4. ASSUME NEW fd \in Fds, Ftruncate(fd) PROVE StoreInv'
  <2>1. PICK f : f = fdMap[fd]
    OBVIOUS
  <2>2. PICK n \in 0 .. MaxSize : Changes(f, n)
    BY <1>4, <2>1 DEF Ftruncate
  <2>3. f \in FileIds /\ calls' = calls
    BY <1>4, <2>1 DEF Ftruncate, StoreInv, FdInv, MapInv
  <2> QED BY <1>1, <2>2, <2>3, ChangesStoreInv
<1>5. CASE UNCHANGED vars
  BY <1>1, <1>5, QuietStep DEF vars, StoreInv, Kinds
<1> QED BY <1>1, <1>2, <1>3, <1>4, <1>5, CallStoreInv, OpenEndsStoreInv, TakeDataStoreInv,
           StoredStoreInv, RejectedStoreInv DEF Next, Store

-----------------------------------------------------------------------------
LEMMA TypesByInv == StoreInv => CallbacksTypeOK
<1> SUFFICES ASSUME StoreInv PROVE CallbacksTypeOK
  OBVIOUS
<1>1. files \in Seq(Files) /\ closing \union late \union refused \subseteq FileIds
  BY DEF StoreInv, Kinds
<1>2. DOMAIN fdMap \subseteq Fds /\ \A fd \in DOMAIN fdMap : fdMap[fd] \in FileIds
  BY CallbackAssumption DEF StoreInv, Kinds, FdInv, MapInv, Fds
<1>3. \A c \in Calls : calls[c].stage \in Stages /\ calls[c].fd \in Fds \union {0}
  BY DEF StoreInv, Kinds, FdInv, CallRecs
<1>4. \A i \in 1 .. Len(syncs) : syncs[i].file \in FileIds /\ syncs[i].data \in Contents
  BY SyncFields DEF StoreInv, SyncIds
<1>5. {syncs[i].call : i \in 1 .. Len(syncs)} \ {NoCall} = {c \in Calls : calls[c].stage = "storing"}
  <2>1. \A i \in SyncIds : syncs[i].call \in Calls \union {NoCall}
    BY SyncFields DEF StoreInv
  <2> QED BY <2>1, CallbackAssumption DEF StoreInv, Waiting, SyncIds
<1> QED BY <1>1, <1>2, <1>3, <1>4, <1>5 DEF CallbacksTypeOK

LEMMA KeptByInv == StoreInv => WritesKept
<1> SUFFICES ASSUME StoreInv, NEW f \in FileIds \ (late \union refused)
             PROVE  /\ files[f].kept.len = files[f].kept.size
                    /\ \/ files[f].kept = [ver |-> files[f].ver, len |-> files[f].size,
                                           size |-> files[f].size]
                       \/ \E i \in 1 .. Len(syncs) : syncs[i].file = f
                       \/ files[f].dirty /\ f \notin closing
  BY DEF WritesKept
<1>1. KeptOrDirty(f) /\ files[f].kept.len = files[f].kept.size
  BY DEF StoreInv, Keeping, Trusted
<1> QED BY <1>1 DEF KeptOrDirty, Now, SyncIds

(* The types: a descriptor in the map was given out and leads to a file,   *)
(* and the calls that wait for a transaction are those the transactions    *)
(* were begun for, whatever calls and failures came in between.            *)
THEOREM TypesCorrect == Spec => []CallbacksTypeOK
<1>1. Init => StoreInv
  BY InitStoreInv
<1>2. StoreInv /\ [Next]_vars => StoreInv'
  BY NextStoreInv
<1>3. StoreInv => CallbacksTypeOK
  BY TypesByInv
<1> QED BY <1>1, <1>2, <1>3, PTL DEF Spec

(* What is written to a file is in the store, on its way there, or dirty   *)
(* in an open file; the exceptions are changes made while the file was     *)
(* stored or closed, and files whose close the store rejected.             *)
THEOREM WrittenIsKept == Spec => []WritesKept
<1>1. Init => StoreInv
  BY InitStoreInv
<1>2. StoreInv /\ [Next]_vars => StoreInv'
  BY NextStoreInv
<1>3. StoreInv => WritesKept
  BY KeptByInv
<1> QED BY <1>1, <1>2, <1>3, PTL DEF Spec
=============================================================================
