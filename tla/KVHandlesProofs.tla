--------------------------- MODULE KVHandlesProofs ---------------------------
(***************************************************************************)
(* Proofs about KVHandles: the tree and the open files stay well-formed    *)
(* and agree, whatever becomes of the paths of open files, for any number  *)
(* of files, descriptors and names.  An operation on a descriptor is one   *)
(* of few changes of a world (bytes written in place, the buffer replaced, *)
(* the buffer stored, the file closed), and each of them keeps the world   *)
(* well-formed.                                                            *)
(***************************************************************************)
EXTENDS KVHandles, SyncKVFSProofs

-----------------------------------------------------------------------------
(* The groups of holders of one array: of keys and descriptors there are,  *)
(* none of them in two groups.                                             *)
Groups(sh, all) ==
    /\ \A g \in sh : g \subseteq all
    /\ \A g, h \in sh : g \intersect h # {} => g = h

(* Whoever gets another array leaves the group it is in. *)
LEMMA LeaveGroups ==
    ASSUME NEW sh, NEW all, Groups(sh, all), NEW c
    PROVE  Groups(Leave(sh, c), all \ {c})
<1>1. \A g \in Leave(sh, c) : \E h \in sh : g = h \ {c}
  BY DEF Leave
<1>2. ASSUME NEW g \in Leave(sh, c)
      PROVE  g \subseteq all \ {c}
  BY <1>1 DEF Groups
<1>3. ASSUME NEW g \in Leave(sh, c), NEW h \in Leave(sh, c), g \intersect h # {}
      PROVE  g = h
  <2>1. PICK a \in sh, b \in sh : g = a \ {c} /\ h = b \ {c}
    BY <1>1
  <2>2. a \intersect b # {}
    BY <1>3, <2>1
  <2> QED BY <2>1, <2>2 DEF Groups
<1> QED BY <1>2, <1>3 DEF Groups

(* Groups stay groups when there are more holders.                         *)
LEMMA MoreGroups ==
    ASSUME NEW sh, NEW all, Groups(sh, all), NEW more, all \subseteq more
    PROVE  Groups(sh, more)
BY DEF Groups

(* Whoever takes over an array joins the group of its holders. *)
LEMMA JoinGroups ==
    ASSUME NEW sh, NEW all, Groups(sh, all), NEW c, NEW d
    PROVE  Groups(Join(sh, c, d), all \union {c, d})
<1> DEFINE rest == Leave(sh, c)
           old  == (UNION {h \in rest : d \in h})
           new  == old \union {c, d}
<1>1. Groups(rest, all \ {c})
  BY LeaveGroups
<1>2. Join(sh, c, d) = {h \in rest : d \notin h} \union {new}
  BY DEF Join
<1> HIDE DEF rest
<1>3. new \subseteq all \union {c, d}
  BY <1>1 DEF Groups
<1>4. ASSUME NEW h \in rest, d \notin h, h \intersect new # {}
      PROVE  FALSE
  <2>1. PICK x \in h : x \in new
    BY <1>4
  <2>2. x # c /\ x # d
    BY <1>1, <1>4 DEF Groups
  <2>3. PICK g \in rest : d \in g /\ x \in g
    BY <2>1, <2>2
  <2>4. g = h
    BY <1>1, <2>3 DEF Groups
  <2> QED BY <1>4, <2>3, <2>4
<1>5. \A h \in rest : h \subseteq all \union {c, d}
  BY <1>1 DEF Groups
<1> HIDE DEF new
<1> QED BY <1>1, <1>2, <1>3, <1>4, <1>5 DEF Groups

(* What is deleted leaves its group. *)
LEMMA PurgeGroups ==
    ASSUME NEW sh, NEW s, NEW t, NEW D, Groups(sh, Used(s) \union D)
    PROVE  Groups(Purge(sh, t), Used(t) \union D)
<1>1. \A g \in Purge(sh, t) : \E h \in sh : g = h \ (Ids \ Used(t))
  BY DEF Purge
<1>2. ASSUME NEW g \in Purge(sh, t)
      PROVE  g \subseteq Used(t) \union D
  <2>1. PICK h \in sh : g = h \ (Ids \ Used(t))
    BY <1>1
  <2>2. h \subseteq Ids \union D
    BY DEF Groups, Used
  <2> QED BY <2>1, <2>2
<1>3. ASSUME NEW g \in Purge(sh, t), NEW h \in Purge(sh, t), g \intersect h # {}
      PROVE  g = h
  <2>1. PICK a \in sh, b \in sh : g = a \ (Ids \ Used(t)) /\ h = b \ (Ids \ Used(t))
    BY <1>1
  <2>2. a \intersect b # {}
    BY <1>3, <2>1
  <2> QED BY <2>1, <2>2 DEF Groups
<1> QED BY <1>2, <1>3 DEF Groups

-----------------------------------------------------------------------------
(* Two stores whose names lead to the same nodes, of the same types.       *)
Steady(s, t) ==
    /\ InodeIds(t) = InodeIds(s) /\ DirIds(t) = DirIds(s) /\ Used(t) = Used(s)
    /\ \A x \in Paths : FindId(s, x) \in Ids \/ FindId(t, x) \in Ids
                           => FindId(t, x) = FindId(s, x)

(* Steadiness composes.                                                    *)
LEMMA SteadyAgain ==
    ASSUME NEW s, NEW t, NEW u, Steady(s, t), Steady(t, u)
    PROVE  Steady(s, u) /\ Steady(s, s)
BY DEF Steady

(* Bytes written in place are as many as before. *)
LEMMA PokeType ==
    ASSUME NEW b \in Seq(Bytes), NEW at \in Nat, NEW data \in Seq(Bytes)
    PROVE  Poke(b, at, data) \in Seq(Bytes) /\ Len(Poke(b, at, data)) = Len(b)
<1>1. Len(b) \in Nat /\ b \in [1 .. Len(b) -> Bytes] /\ data \in [1 .. Len(data) -> Bytes]
      /\ Len(data) \in Nat
  OBVIOUS
<1>2. ASSUME NEW i \in 1 .. Len(b)
      PROVE  (IF i > at /\ i <= at + Len(data) THEN data[i - at] ELSE b[i]) \in Bytes
  <2>1. CASE i > at /\ i <= at + Len(data)
    <3>1. i - at \in 1 .. Len(data)
      BY <1>1, <2>1
    <3> QED BY <1>1, <2>1, <3>1
  <2>2. CASE ~(i > at /\ i <= at + Len(data))
    BY <1>1, <2>2
  <2> QED BY <2>1, <2>2
<1>3. Poke(b, at, data) \in [1 .. Len(b) -> Bytes]
  BY <1>2 DEF Poke
<1> HIDE DEF Poke
<1>4. Poke(b, at, data) \in Seq(Bytes)
  BY <1>1, <1>3
<1>5. DOMAIN Poke(b, at, data) = 1 .. Len(b)
  BY <1>3
<1> QED BY <1>1, <1>4, <1>5

(* The same, of what the store has under a key.                            *)
LEMMA PokeCellType ==
    ASSUME NEW c \in Values, NEW at \in Nat, NEW data \in Seq(Bytes)
    PROVE  /\ PokeCell(c, at, data) \in Values
           /\ PokeCell(c, at, data).kind = c.kind
           /\ c.kind # "bytes" => PokeCell(c, at, data) = c
           /\ c \in Blobs => PokeCell(c, at, data) \in Blobs
           /\ DataLen(PokeCell(c, at, data)) = DataLen(c)
<1>1. CASE c.kind = "bytes"
  <2>1. c \in Blobs /\ c.val \in Seq(Bytes)
    BY <1>1 DEF Values, Inodes, Listings, Blobs, Absent
  <2>2. Poke(c.val, at, data) \in Seq(Bytes) /\ Len(Poke(c.val, at, data)) = Len(c.val)
    BY <2>1, PokeType
  <2>3. PokeCell(c, at, data) = Data(Poke(c.val, at, data))
    BY <1>1 DEF PokeCell
  <2>4. /\ PokeCell(c, at, data) \in Blobs /\ PokeCell(c, at, data).kind = "bytes"
        /\ PokeCell(c, at, data).val = Poke(c.val, at, data)
    BY <2>2, <2>3 DEF Data, Blobs
  <2>5. DataLen(PokeCell(c, at, data)) = Len(Poke(c.val, at, data)) /\ DataLen(c) = Len(c.val)
    BY <1>1, <2>4 DEF DataLen, Text
  <2> QED BY <1>1, <2>2, <2>4, <2>5 DEF Values
<1>2. CASE c.kind # "bytes"
  <2>1. PokeCell(c, at, data) = c
    BY <1>2 DEF PokeCell
  <2> QED BY <1>2, <2>1
<1> QED BY <1>1, <1>2

(* Bytes written in place into any of the keys.                           *)
PokedStore(s, hs, at, data) ==
    [k \in Ids |-> IF k \in hs THEN PokeCell(s[k], at, data) ELSE s[k]]

(* They leave the tree as it is.                                          *)
LEMMA PokedTidy ==
    ASSUME NEW s, Tidy(s), NEW hs, NEW at \in Nat, NEW data \in Seq(Bytes),
           NEW t, t = PokedStore(s, hs, at, data)
    PROVE  Tidy(t) /\ Steady(s, t)
<1>0. /\ t = [k \in Ids |-> t[k]]
      /\ \A k \in Ids : t[k] = IF k \in hs THEN PokeCell(s[k], at, data) ELSE s[k]
  BY DEF PokedStore
<1>1. s \in Stores /\ \A k \in Ids : s[k] \in Values
  BY StoresAreFunctions DEF Tidy, Sound, Wired
<1>2. ASSUME NEW k \in Ids
      PROVE  /\ t[k] \in Values /\ t[k].kind = s[k].kind
             /\ s[k].kind # "bytes" => t[k] = s[k]
             /\ DataLen(t[k]) = DataLen(s[k])
  BY <1>0, <1>1, PokeCellType
<1>3. t \in Stores
  BY <1>0, <1>2, StoresAreFunctions
<1>4. InodeIds(t) = InodeIds(s) /\ Used(t) = Used(s)
  BY <1>2 DEF InodeIds, Used
<1>5. \A n \in InodeIds(s) : n \in Ids /\ t[n] = s[n] /\ s[n].id \in Ids
  BY <1>1, <1>2, InodeTypes DEF InodeIds
<1>6. DirIds(t) = DirIds(s)
  BY <1>4, <1>5 DEF DirIds
<1>a. /\ \A n \in InodeIds(s) : t[n] = s[n] /\ s[n].id \in Ids
      /\ \A k \in Ids : t[k].kind = s[k].kind /\ DataLen(t[k]) = DataLen(s[k])
  BY <1>2, <1>5
<1>b. /\ \A n \in InodeIds(s) : s[s[n].id].kind = KindOf(s[n].type)
      /\ \A m, n \in InodeIds(s) : s[m].id = s[n].id => m = n
      /\ Owned(s) /\ Exact(s)
  BY DEF Tidy, Sound, Wired
<1>7. Wired(t)
  BY ONLY <1>3, <1>4, <1>a, <1>b DEF Wired
<1>8. \A d \in DirIds(s) : entries(t, d) = entries(s, d)
  <2> SUFFICES ASSUME NEW d \in DirIds(s) PROVE entries(t, d) = entries(s, d)
    OBVIOUS
  <2>1. d \in InodeIds(s) /\ s[d].type = "dir" /\ s[s[d].id].kind = "listing"
    BY DEF DirIds, Tidy, Sound, Wired, KindOf
  <2>2. t[s[d].id] = s[s[d].id] /\ t[d] = s[d]
    BY <1>2, <1>5, <2>1
  <2> QED BY <2>2 DEF entries
<1>9. Sound(t)
  BY <1>4, <1>6, <1>7, <1>8, SameLinks DEF Tidy, Sound
<1>10. \A x \in Paths : FindId(s, x) \in Ids \/ FindId(t, x) \in Ids => FindId(t, x) = FindId(s, x)
  <2>1. \A x \in Paths : FindId(s, x) \in Ids => FindId(t, x) = FindId(s, x)
    BY <1>6, <1>8, <1>9, MoreEntries DEF Tidy
  <2>2. \A x \in Paths : FindId(t, x) \in Ids => FindId(s, x) = FindId(t, x)
    BY <1>6, <1>8, <1>9, MoreEntries DEF Tidy
  <2> QED BY <2>1, <2>2
<1>11. Steady(s, t)
  BY <1>4, <1>6, <1>10 DEF Steady
<1>12. Owned(t)
  BY ONLY <1>4, <1>a, <1>b DEF Owned
<1>13. Reached(t)
  BY <1>4, <1>10 DEF Tidy, Reached, HasPath, InodeIds
<1>14. Exact(t)
  BY ONLY <1>4, <1>a, <1>b DEF Exact, ExactAt
<1>15. IsFiniteSet(InodeIds(t))
  BY <1>4 DEF Tidy
<1> QED BY <1>9, <1>11, <1>12, <1>13, <1>14, <1>15 DEF Tidy

-----------------------------------------------------------------------------
(* A well-formed world: a tidy store, open files whose size is that of     *)
(* their buffer, and groups of holders that there are.                     *)
HandleOK(h) == h \in Handles /\ h.size = Len(h.buf)

WorldOK(w) ==
    /\ w = [st |-> w.st, fds |-> w.fds, sh |-> w.sh]
    /\ Tidy(w.st)
    /\ \A d \in DOMAIN w.fds : HandleOK(w.fds[d])
    /\ Groups(w.sh, Used(w.st) \union DOMAIN w.fds)

(* The path of an open file leads to a file with its bytes. *)
SavedIn(s, h) ==
    LET n == FindId(s, h.path) IN n \in Ids /\ s[s[n].id] = Data(h.buf)

(* What an operation on descriptor fd makes of world w: a well-formed      *)
(* world v in which all names lead where they led, the same files are      *)
(* open, no other has become dirty or clean, and fd is clean only if its   *)
(* bytes are stored.                                                       *)
Advances(w, fd, v) ==
    /\ WorldOK(v) /\ Steady(w.st, v.st)
    /\ DOMAIN v.fds = DOMAIN w.fds
    /\ \A d \in DOMAIN w.fds : v.fds[d].path = w.fds[d].path /\ v.fds[d].flag = w.fds[d].flag
    /\ \A d \in DOMAIN w.fds : d # fd => v.fds[d].dirty = w.fds[d].dirty
    /\ w.fds[fd].dirty /\ ~v.fds[fd].dirty => SavedIn(v.st, v.fds[fd])

(* An operation that fails at once changes nothing.                        *)
LEMMA AdvancesNot ==
    ASSUME NEW w, WorldOK(w), NEW fd
    PROVE  Advances(w, fd, w)
BY DEF Advances, Steady

(* The parts of Advances that need not be unfolded.                        *)
LEMMA AdvancesMeans ==
    ASSUME NEW w, NEW fd \in DOMAIN w.fds, NEW v, Advances(w, fd, v)
    PROVE  /\ WorldOK(v) /\ Steady(w.st, v.st)
           /\ DOMAIN v.fds = DOMAIN w.fds /\ fd \in DOMAIN v.fds
           /\ v.fds[fd].path = w.fds[fd].path /\ v.fds[fd].flag = w.fds[fd].flag
BY DEF Advances

(* Two steps of an operation, the file dirty between them, are one.        *)
LEMMA AdvancesTwice ==
    ASSUME NEW w, NEW v, NEW u, NEW fd \in DOMAIN w.fds,
           Advances(w, fd, v), v.fds[fd].dirty = TRUE, Advances(v, fd, u)
    PROVE  Advances(w, fd, u)
<1>1. Steady(w.st, u.st)
  BY SteadyAgain DEF Advances
<1> QED BY <1>1 DEF Advances

(* An open file is replaced by another with its path and flag: the one     *)
(* step of most operations.                                                *)
LEMMA HandleSet ==
    ASSUME NEW w, WorldOK(w), NEW fd \in DOMAIN w.fds, NEW h, HandleOK(h),
           h.path = w.fds[fd].path, h.flag = w.fds[fd].flag,
           w.fds[fd].dirty => h.dirty,
           NEW sh \in {w.sh, Leave(w.sh, fd)},
           NEW v, v = Changed(w, fd, h, sh)
    PROVE  Advances(w, fd, v) /\ v.fds[fd] = h
<1>1. /\ v = [st |-> v.st, fds |-> v.fds, sh |-> v.sh]
      /\ v.st = w.st /\ v.fds = [w.fds EXCEPT ![fd] = h] /\ v.sh = sh
  BY DEF Changed
<1>2. /\ DOMAIN v.fds = DOMAIN w.fds /\ v.fds[fd] = h
      /\ \A d \in DOMAIN w.fds : d # fd => v.fds[d] = w.fds[d]
  BY <1>1
<1>3. Groups(sh, Used(w.st) \union DOMAIN w.fds)
  <2> DEFINE all == Used(w.st) \union DOMAIN w.fds
  <2>1. Groups(w.sh, all)
    BY DEF WorldOK
  <2>2. Groups(Leave(w.sh, fd), all \ {fd})
    BY <2>1, LeaveGroups
  <2> HIDE DEF all
  <2>3. Groups(Leave(w.sh, fd), all)
    BY <2>2, MoreGroups
  <2> QED BY <2>1, <2>3 DEF all
<1>4. WorldOK(v)
  BY <1>1, <1>2, <1>3 DEF WorldOK
<1>5. Steady(w.st, v.st)
  BY <1>1 DEF Steady
<1> QED BY <1>2, <1>4, <1>5 DEF Advances

(* A file is marked dirty. *)
LEMMA MarkedDirty ==
    ASSUME NEW w, WorldOK(w), NEW fd \in DOMAIN w.fds,
           NEW v, v = Dirtied(w, fd)
    PROVE  /\ Advances(w, fd, v)
           /\ v.fds[fd] = [w.fds[fd] EXCEPT !.dirty = TRUE]
           /\ v.st = w.st /\ v.sh = w.sh
           /\ v.fds[fd].dirty = TRUE
<1> DEFINE h == [w.fds[fd] EXCEPT !.dirty = TRUE]
<1>1. HandleOK(w.fds[fd]) /\ w = [st |-> w.st, fds |-> w.fds, sh |-> w.sh]
  BY DEF WorldOK
<1>2. /\ HandleOK(h) /\ h.path = w.fds[fd].path /\ h.flag = w.fds[fd].flag /\ h.dirty = TRUE
  BY <1>1 DEF HandleOK, Handles
<1>3. v = Changed(w, fd, h, w.sh)
  BY DEF Dirtied
<1> HIDE DEF h
<1>a. WorldOK(w) /\ fd \in DOMAIN w.fds /\ w.sh \in {w.sh, Leave(w.sh, fd)}
      /\ (w.fds[fd].dirty => h.dirty)
  BY <1>2
<1>4. Advances(w, fd, v) /\ v.fds[fd] = h
  BY ONLY <1>2, <1>3, <1>a, HandleSet
<1>5. v.st = w.st /\ v.sh = w.sh
  BY <1>3 DEF Changed
<1> QED BY <1>2, <1>4, <1>5 DEF h

-----------------------------------------------------------------------------
(* The changes.  Bytes written in place, for all holders of the array.     *)
PokedHandle(h, at, data) == [h EXCEPT !.buf = Poke(h.buf, at, data)]

(* An open file whose buffer is written in place has its size still.       *)
LEMMA PokedHandleOK ==
    ASSUME NEW h, HandleOK(h), NEW at \in Nat, NEW data \in Seq(Bytes)
    PROVE  /\ HandleOK(PokedHandle(h, at, data))
           /\ PokedHandle(h, at, data).path = h.path /\ PokedHandle(h, at, data).flag = h.flag
           /\ PokedHandle(h, at, data).dirty = h.dirty
           /\ PokedHandle(h, at, data).size = h.size
<1>1. h.buf \in Seq(Bytes)
  BY DEF HandleOK, Handles
<1>2. Poke(h.buf, at, data) \in Seq(Bytes) /\ Len(Poke(h.buf, at, data)) = Len(h.buf)
  BY <1>1, PokeType
<1> QED BY <1>2 DEF PokedHandle, HandleOK, Handles

(* Another buffer, with a size to match. *)
Sized(h, size, b) == [h EXCEPT !.size = size, !.buf = b]

(* An open file with a new buffer and its size.                            *)
LEMMA Resized ==
    ASSUME NEW h, HandleOK(h), NEW b \in Seq(Bytes)
    PROVE  /\ HandleOK(Sized(h, Len(b), b))
           /\ Sized(h, Len(b), b).path = h.path /\ Sized(h, Len(b), b).flag = h.flag
           /\ Sized(h, Len(b), b).dirty = h.dirty
<1>1. Len(b) \in Nat
  OBVIOUS
<1> QED BY <1>1 DEF HandleOK, Handles, Sized

(* The first bytes of a buffer are as many as asked for.                   *)
LEMMA FirstPart ==
    ASSUME NEW b \in Seq(Bytes), NEW len \in Nat, len <= Len(b)
    PROVE  SubSeq(b, 1, len) \in Seq(Bytes) /\ Len(SubSeq(b, 1, len)) = len
OBVIOUS

(* All holders of an array see what is written into it.                    *)
LEMMA PokedAdvances ==
    ASSUME NEW w, WorldOK(w), NEW fd \in DOMAIN w.fds, NEW at \in Nat,
           NEW data \in Seq(Bytes), NEW v, v = PokeAll(w, fd, at, data)
    PROVE  /\ Advances(w, fd, v)
           /\ v.fds[fd].dirty = w.fds[fd].dirty /\ v.fds[fd].size = w.fds[fd].size
<1> DEFINE hs == Holders(w.sh, fd)
<1>1. /\ v = [st |-> v.st, fds |-> v.fds, sh |-> v.sh] /\ v.sh = w.sh
      /\ v.st = [k \in Ids |-> IF k \in hs THEN PokeCell(w.st[k], at, data) ELSE w.st[k]]
      /\ DOMAIN v.fds = DOMAIN w.fds
      /\ \A d \in DOMAIN w.fds : v.fds[d] \in {w.fds[d], PokedHandle(w.fds[d], at, data)}
  BY DEF PokeAll, PokedHandle
<1> HIDE DEF hs
<1>2. Tidy(v.st) /\ Steady(w.st, v.st)
  <2>1. Tidy(w.st) /\ v.st = PokedStore(w.st, hs, at, data)
    BY <1>1 DEF WorldOK, PokedStore
  <2> QED BY <2>1, PokedTidy
<1>3. ASSUME NEW d \in DOMAIN w.fds
      PROVE  /\ HandleOK(v.fds[d]) /\ v.fds[d].path = w.fds[d].path
             /\ v.fds[d].flag = w.fds[d].flag /\ v.fds[d].dirty = w.fds[d].dirty
             /\ v.fds[d].size = w.fds[d].size
  <2>1. HandleOK(w.fds[d])
    BY DEF WorldOK
  <2> QED BY <1>1, <2>1, PokedHandleOK
<1>4. Groups(v.sh, Used(v.st) \union DOMAIN v.fds)
  BY <1>1, <1>2 DEF WorldOK, Steady
<1>5. WorldOK(v)
  BY ONLY <1>1, <1>2, <1>3, <1>4 DEF WorldOK
<1> QED BY ONLY <1>1, <1>2, <1>3, <1>5, fd \in DOMAIN w.fds DEF Advances

(* PreloadFile.writeSync's buffer: whatever is written where, the size of  *)
(* the file is that of its buffer.                                         *)
LEMMA WrittenAdvances ==
    ASSUME NEW w, WorldOK(w), NEW fd \in DOMAIN w.fds, NEW data \in Seq(Bytes), NEW at \in Nat,
           w.fds[fd].dirty = TRUE, NEW v, v = Written(w, fd, data, at)
    PROVE  Advances(w, fd, v) /\ v.fds[fd].dirty = TRUE
<1> DEFINE h == w.fds[fd]
           end == at + Len(data)
           size == IF end > h.size THEN end ELSE h.size
<1>1. HandleOK(h) /\ Len(data) \in Nat
      /\ h.buf \in Seq(Bytes) /\ h.size \in Nat /\ h.size = Len(h.buf)
  BY DEF WorldOK, HandleOK, Handles
<1>2. CASE end > Len(h.buf)
  <2> DEFINE g == [h EXCEPT !.size = size, !.buf = Overlay(h.buf, at, data)]
             sh == Leave(w.sh, fd)
  <2>1. size = end /\ size \in Nat
    BY <1>1, <1>2
  <2>2. Overlay(h.buf, at, data) \in Seq(Bytes) /\ Len(Overlay(h.buf, at, data)) = end
    BY <1>1, <1>2, OverlayType, OverlayLen
  <2>3. v = Changed(w, fd, g, sh)
    BY <1>1, <1>2 DEF Written
  <2> DEFINE b == Overlay(h.buf, at, data)
  <2>4. g = Sized(h, Len(b), b) /\ b \in Seq(Bytes)
    BY <2>1, <2>2 DEF Sized
  <2> HIDE DEF g, b
  <2>5. HandleOK(g) /\ g.path = h.path /\ g.flag = h.flag /\ g.dirty = TRUE
    BY <1>1, <2>2, <2>4, Resized
  <2>6. WorldOK(w) /\ fd \in DOMAIN w.fds /\ sh \in {w.sh, Leave(w.sh, fd)}
        /\ g.path = w.fds[fd].path /\ g.flag = w.fds[fd].flag /\ (w.fds[fd].dirty => g.dirty)
    BY <2>5
  <2> HIDE DEF sh
  <2>7. Advances(w, fd, v) /\ v.fds[fd] = g
    BY ONLY <2>3, <2>5, <2>6, HandleSet
  <2> QED BY <2>5, <2>7
<1>3. CASE ~(end > Len(h.buf))
  <2> DEFINE u == PokeAll(w, fd, at, data)
  <2>1. Advances(w, fd, u) /\ u.fds[fd].dirty = TRUE /\ u.fds[fd].size = h.size
    BY PokedAdvances
  <2>2. v = Changed(u, fd, [u.fds[fd] EXCEPT !.size = h.size], u.sh)
    BY <1>1, <1>3 DEF Written
  <2> HIDE DEF u
  <2>3. WorldOK(u) /\ u = [st |-> u.st, fds |-> u.fds, sh |-> u.sh]
        /\ HandleOK(u.fds[fd]) /\ DOMAIN u.fds = DOMAIN w.fds
    BY <2>1 DEF Advances, WorldOK
  <2>4. [u.fds[fd] EXCEPT !.size = h.size] = u.fds[fd]
    BY <2>1, <2>3 DEF HandleOK, Handles
  <2> DEFINE g == u.fds[fd]
  <2>5. /\ fd \in DOMAIN u.fds /\ u.sh \in {u.sh, Leave(u.sh, fd)} /\ WorldOK(u) /\ HandleOK(g)
        /\ g.path = u.fds[fd].path /\ g.flag = u.fds[fd].flag /\ (u.fds[fd].dirty => g.dirty)
        /\ v = Changed(u, fd, g, u.sh)
    BY <2>2, <2>3, <2>4
  <2>6. g.dirty = TRUE
    BY <2>1
  <2> HIDE DEF g
  <2>7. Advances(u, fd, v) /\ v.fds[fd] = g
    BY ONLY <2>5, HandleSet
  <2> QED BY <2>1, <2>6, <2>7, AdvancesTwice
<1> QED BY <1>2, <1>3

-----------------------------------------------------------------------------
(* _syncSync: the file the path leads to by now gets the bytes, the size,  *)
(* the mode and the owner of the stats.                                    *)
LEMMA RestatType ==
    ASSUME NEW i \in Inodes, NEW h, HandleOK(h)
    PROVE  /\ Restat(i, h) \in Inodes /\ Restat(i, h).id = i.id
           /\ Restat(i, h).type = "file" /\ Restat(i, h).size = Len(h.buf)
BY DEF Restat, HandleOK, Handles, Inodes, Types

(* A path that leads to no directory does not in a steady store.           *)
LEMMA NoDirStill ==
    ASSUME NEW s, NEW t, Steady(s, t), NEW p \in Paths, IsNoDir(s, p)
    PROVE  IsNoDir(t, p)
BY DEF Steady, IsNoDir, DirIds, InodeIds

(* What storing the buffer of fd makes of a world. *)
Stores2(w, fd, r) ==
    /\ Advances(w, fd, r.w) /\ r.ret \in Errors \union {"ok"}
    /\ r.ret # "ok" => r.w = w
    /\ r.ret = "ok" /\ w.fds[fd].dirty => SavedIn(r.w.st, w.fds[fd])

(* The buffer stored under the path again: the node keeps its place, and   *)
(* its data are those of the buffer, with their size.                      *)
LEMMA StoreBufferAdvances ==
    ASSUME NEW w, WorldOK(w), NEW fd \in DOMAIN w.fds, IsNoDir(w.st, w.fds[fd].path),
           NEW r, r = StoreBuffer(w, fd)
    PROVE  Stores2(w, fd, r)
<1> DEFINE s == w.st
           h == w.fds[fd]
           n == FindId(s, h.path)
           g == [h EXCEPT !.dirty = FALSE]
           sh == Join(w.sh, s[n].id, fd)
           t == Refilled(s, n, Data(h.buf), Restat(s[n], h))
           v == [st |-> t, fds |-> [w.fds EXCEPT ![fd] = g], sh |-> sh]
<1>1. /\ w = [st |-> s, fds |-> w.fds, sh |-> w.sh] /\ Tidy(s) /\ Sound(s) /\ s \in Stores
      /\ HandleOK(h) /\ h.path \in Paths /\ h.buf \in Seq(Bytes)
  BY DEF WorldOK, Tidy, Sound, Wired, HandleOK, Handles
<1>2. n \in Ids \union Errors /\ INodeError(s, n) \in Errors \union {"ok"}
      /\ (INodeError(s, n) = "ok" => n \in InodeIds(s))
  BY <1>1, FindType, INodeFacts, SoundReads
<1>3. CASE INodeError(s, n) # "ok"
  <2>1. r = Answer(w, INodeError(s, n))
    BY <1>3 DEF StoreBuffer
  <2>2. r.w = w /\ r.ret = INodeError(s, n)
    BY <2>1 DEF Answer
  <2> QED BY <1>2, <1>3, <2>2, AdvancesNot DEF Stores2
<1>4. CASE INodeError(s, n) = "ok"
  <2>1. /\ n \in InodeIds(s) /\ n \in Ids /\ s[n] \in Inodes /\ s[n].id \in Ids
        /\ s[n].id # n /\ DOMAIN s = Ids
    BY <1>1, <1>2, <1>4, DataTypes DEF Sound, Stores
  <2>2. r = Answer(v, "ok")
    <3> DEFINE u == [s EXCEPT ![s[n].id] = Data(h.buf), ![n] = Restat(@, h)]
    <3>1. r = Answer([st |-> u, fds |-> [w.fds EXCEPT ![fd] = g], sh |-> sh], "ok")
      BY <1>4 DEF StoreBuffer
    <3>2. u = t
      BY <2>1 DEF Refilled
    <3> HIDE DEF g, t, sh, u
    <3> QED BY <3>1, <3>2
  <2>3. /\ Restat(s[n], h) \in Inodes /\ Restat(s[n], h).id = s[n].id
        /\ Restat(s[n], h).type = "file" /\ Restat(s[n], h).size = Len(h.buf)
    BY <1>1, <2>1, RestatType
  <2>4. /\ Tidy(t) /\ InodeIds(t) = InodeIds(s) /\ DirIds(t) = DirIds(s)
        /\ t[s[n].id] = Data(h.buf)
        /\ \A x \in Paths : FindId(s, x) \in Ids \/ FindId(t, x) \in Ids
                              => FindId(t, x) = FindId(s, x)
    <3> DEFINE b == h.buf
               inode == Restat(s[n], h)
               p == h.path
    <3>1. /\ Tidy(s) /\ p \in Paths /\ n = FindId(s, p) /\ n \in InodeIds(s)
          /\ IsNoDir(s, p) /\ b \in Seq(Bytes) /\ inode \in Inodes
          /\ inode.id = s[n].id /\ inode.type = "file" /\ inode.size = Len(b)
          /\ t = Refilled(s, n, Data(b), inode)
      BY <1>1, <2>1, <2>3
    <3> HIDE DEF b, inode, p, n, s, h, t
    <3>2. /\ Tidy(t) /\ InodeIds(t) = InodeIds(s) /\ DirIds(t) = DirIds(s)
          /\ t[s[n].id] = Data(b)
          /\ \A x \in Paths : FindId(s, x) \in Ids \/ FindId(t, x) \in Ids
                                => FindId(t, x) = FindId(s, x)
      BY ONLY <3>1, RefillTidy
    <3> QED BY <3>2 DEF b
  <2>5. Used(t) = Used(s) /\ s[n].id \in Used(s) /\ t[n].id = s[n].id
    <3>1. \A k \in Ids : t[k] = IF k = n THEN Restat(s[n], h)
                               ELSE IF k = s[n].id THEN Data(h.buf) ELSE s[k]
      BY <2>1 DEF Refilled
    <3>2. s[s[n].id].kind # "absent" /\ s[n].kind # "absent"
      BY <1>1, <2>1 DEF Sound, Wired, KindOf, InodeIds
    <3>3. Restat(s[n], h).kind # "absent" /\ Data(h.buf).kind # "absent"
      BY <2>3 DEF Inodes, Data
    <3> HIDE DEF t, n, s
    <3>4. \A k \in Ids : t[k].kind # "absent" <=> s[k].kind # "absent"
      BY <3>1, <3>2, <3>3
    <3> QED BY <2>1, <2>3, <3>1, <3>2, <3>4 DEF Used
  <2> HIDE DEF t, sh, n
  <2>6. Steady(s, t)
    BY <2>4, <2>5 DEF Steady
  <2>7. HandleOK(g) /\ g.path = h.path /\ g.flag = h.flag /\ g.dirty = FALSE /\ g.buf = h.buf
    BY <1>1 DEF HandleOK, Handles
  <2>8. Groups(sh, Used(t) \union DOMAIN w.fds)
    <3> DEFINE all == Used(s) \union DOMAIN w.fds
    <3>1. Groups(w.sh, all)
      BY DEF WorldOK
    <3>2. all \union {s[n].id, fd} = Used(t) \union DOMAIN w.fds
      BY <2>5
    <3> HIDE DEF all
    <3>3. Groups(Join(w.sh, s[n].id, fd), all \union {s[n].id, fd})
      BY <3>1, JoinGroups
    <3> QED BY <3>2, <3>3 DEF sh
  <2>9. /\ v = [st |-> v.st, fds |-> v.fds, sh |-> v.sh] /\ v.st = t /\ v.sh = sh
        /\ DOMAIN v.fds = DOMAIN w.fds /\ v.fds[fd] = g
        /\ \A d \in DOMAIN w.fds : d # fd => v.fds[d] = w.fds[d]
    OBVIOUS
  <2>10. r.w = v /\ r.ret = "ok"
    BY <2>2 DEF Answer
  <2> HIDE DEF v, g
  <2>11. \A d \in DOMAIN w.fds : HandleOK(w.fds[d])
    BY DEF WorldOK
  <2>12. WorldOK(v)
    <3>1. \A d \in DOMAIN v.fds : HandleOK(v.fds[d])
      BY ONLY <2>7, <2>9, <2>11
    <3> QED BY ONLY <2>4, <2>8, <2>9, <3>1 DEF WorldOK
  <2>13. SavedIn(t, h) /\ SavedIn(t, g)
    BY <1>1, <2>1, <2>4, <2>5, <2>7 DEF SavedIn, n
  <2>14. Advances(w, fd, v)
    <3>1. \A d \in DOMAIN w.fds : v.fds[d].path = w.fds[d].path /\ v.fds[d].flag = w.fds[d].flag
      BY <2>7, <2>9
    <3>2. \A d \in DOMAIN w.fds : d # fd => v.fds[d].dirty = w.fds[d].dirty
      BY <2>9
    <3> QED BY <2>6, <2>9, <2>12, <2>13, <3>1, <3>2 DEF Advances
  <2> QED BY <2>9, <2>10, <2>13, <2>14 DEF Stores2
<1> QED BY <1>3, <1>4

-----------------------------------------------------------------------------
(* The operations on a descriptor.  What the callers see to: an open file  *)
(* that is to be stored is not stored where a directory is by now.         *)
Storable(w, fd) == IsNoDir(w.st, w.fds[fd].path)

OpResult(w, fd, r) == Advances(w, fd, r.w) /\ r.ret \in HandleErrors \union {"ok"}

(* The path of a file stays storable through an operation on it.           *)
LEMMA StorableStill ==
    ASSUME NEW w, WorldOK(w), NEW fd \in DOMAIN w.fds, NEW v, Advances(w, fd, v), Storable(w, fd)
    PROVE  Storable(v, fd)
<1>1. w.fds[fd].path \in Paths
  BY DEF WorldOK, HandleOK, Handles
<1> QED BY <1>1, NoDirStill DEF Storable, Advances

(* syncSync stores the buffer of a dirty file.                             *)
LEMMA syncSyncAdvances ==
    ASSUME NEW w, WorldOK(w), NEW fd \in DOMAIN w.fds, w.fds[fd].dirty => Storable(w, fd),
           NEW r, r = syncSync(w, fd)
    PROVE  OpResult(w, fd, r) /\ Stores2(w, fd, r)
<1>1. CASE w.fds[fd].dirty
  BY <1>1, StoreBufferAdvances DEF syncSync, Storable, Stores2, OpResult, HandleErrors
<1>2. CASE ~w.fds[fd].dirty
  <2>1. r.w = w /\ r.ret = "ok"
    BY <1>2 DEF syncSync, Answer
  <2> QED BY <1>2, <2>1, AdvancesNot DEF Stores2, OpResult
<1> QED BY <1>1, <1>2

(* writeSync *)
LEMMA handleWriteAdvances ==
    ASSUME NEW w, WorldOK(w), NEW fd \in DOMAIN w.fds, NEW data \in Seq(Bytes), NEW at \in Nat,
           isSynchronous(w.fds[fd].flag) => Storable(w, fd),
           NEW r, r = handleWrite(w, fd, data, at)
    PROVE  OpResult(w, fd, r)
<1> DEFINE u == Dirtied(w, fd)
           v == Written(u, fd, data, at)
           x == syncSync(v, fd)
           g == [v.fds[fd] EXCEPT !.pos = at + Len(v.fds[fd].buf)]
           y == Changed(v, fd, g, v.sh)
<1>1. Advances(w, fd, u) /\ WorldOK(u) /\ fd \in DOMAIN u.fds /\ u.fds[fd].dirty = TRUE
  BY MarkedDirty, AdvancesMeans
<1>2. \/ r = Answer(u, "EPERM")
      \/ r = Answer(v, "Error")
      \/ isSynchronous(u.fds[fd].flag) /\ r = x
      \/ r = Answer(y, "ok")
  BY DEF handleWrite
<1> HIDE DEF u
<1>3. Advances(u, fd, v) /\ WorldOK(v) /\ fd \in DOMAIN v.fds /\ v.fds[fd].dirty = TRUE
  BY <1>1, WrittenAdvances, AdvancesMeans
<1>4. Advances(w, fd, v)
  BY <1>1, <1>3, AdvancesTwice
<1>5. isSynchronous(u.fds[fd].flag) => Storable(v, fd)
  BY <1>1, <1>4, StorableStill, AdvancesMeans
<1> HIDE DEF v
<1>6. CASE r = Answer(u, "EPERM")
  BY <1>1, <1>6 DEF Answer, OpResult, HandleErrors, Errors
<1>7. CASE r = Answer(v, "Error")
  BY <1>4, <1>7 DEF Answer, OpResult, HandleErrors, Errors
<1>8. CASE isSynchronous(u.fds[fd].flag) /\ r = x
  <2>1. OpResult(v, fd, x)
    BY <1>3, <1>5, <1>8, syncSyncAdvances
  <2> HIDE DEF x
  <2>2. Advances(v, fd, x.w) /\ x.ret \in HandleErrors \union {"ok"}
    BY <2>1 DEF OpResult
  <2>3. fd \in DOMAIN w.fds /\ Advances(w, fd, x.w)
    BY <1>3, <1>4, <2>2, AdvancesTwice
  <2> QED BY <1>8, <2>2, <2>3 DEF OpResult
<1>9. CASE r = Answer(y, "ok")
  <2>1. HandleOK(v.fds[fd]) /\ v.fds[fd].buf \in Seq(Bytes)
    BY <1>3 DEF WorldOK, HandleOK, Handles
  <2>2. at + Len(v.fds[fd].buf) \in Nat
    BY <2>1
  <2>3. HandleOK(g) /\ g.path = v.fds[fd].path /\ g.flag = v.fds[fd].flag
        /\ g.dirty = v.fds[fd].dirty
    BY <2>1, <2>2 DEF HandleOK, Handles
  <2>4. (v.fds[fd].dirty => g.dirty) /\ v.sh \in {v.sh, Leave(v.sh, fd)}
    BY <2>3
  <2> HIDE DEF g
  <2>5. Advances(v, fd, y)
    BY <1>3, <2>3, <2>4, HandleSet
  <2> HIDE DEF y
  <2>6. Advances(w, fd, y)
    BY <1>3, <1>4, <2>5, AdvancesTwice
  <2> QED BY <1>9, <2>6 DEF Answer, OpResult
<1> QED BY <1>2, <1>6, <1>7, <1>8, <1>9

(* truncateSync *)
LEMMA handleTruncateAdvances ==
    ASSUME NEW w, WorldOK(w), NEW fd \in DOMAIN w.fds, NEW len \in Nat,
           isSynchronous(w.fds[fd].flag) => Storable(w, fd),
           NEW r, r = handleTruncate(w, fd, len)
    PROVE  OpResult(w, fd, r)
<1> DEFINE u == Dirtied(w, fd)
           h == u.fds[fd]
           zeros == [i \in 1 .. len - Len(h.buf) |-> 0]
           grown == handleWrite(u, fd, zeros, Len(h.buf))
           g == [h EXCEPT !.size = len, !.buf = SubSeq(h.buf, 1, len)]
           cut == Changed(u, fd, g, u.sh)
<1>1. Advances(w, fd, u) /\ WorldOK(u) /\ fd \in DOMAIN u.fds /\ u.fds[fd].dirty = TRUE
  BY MarkedDirty, AdvancesMeans
<1>2. \/ r = Answer(u, "EPERM")
      \/ len > Len(h.buf) /\ r \in {grown, MaySync(grown.w, fd)}
      \/ ~(len > Len(h.buf)) /\ r = MaySync(cut, fd)
  BY DEF handleTruncate
<1>3. isSynchronous(h.flag) => Storable(u, fd)
  BY <1>1, StorableStill, AdvancesMeans
<1> HIDE DEF u
<1>4. HandleOK(h) /\ h.buf \in Seq(Bytes) /\ Len(h.buf) \in Nat
  BY <1>1 DEF WorldOK, HandleOK, Handles
<1>5. ASSUME NEW v, Advances(u, fd, v)
      PROVE  OpResult(w, fd, MaySync(v, fd))
  <2> DEFINE x == MaySync(v, fd)
  <2>1. WorldOK(v) /\ fd \in DOMAIN v.fds /\ Advances(w, fd, v) /\ v.fds[fd].flag = h.flag
    BY <1>1, <1>5, AdvancesTwice, AdvancesMeans
  <2>2. isSynchronous(h.flag) => Storable(v, fd)
    BY <1>1, <1>3, <1>5, StorableStill
  <2>3. CASE isSynchronous(h.flag) /\ v.fds[fd].dirty = TRUE
    <3>1. x = syncSync(v, fd)
      BY <2>1, <2>3 DEF MaySync
    <3>2. OpResult(v, fd, x)
      BY <2>1, <2>2, <2>3, <3>1, syncSyncAdvances
    <3> HIDE DEF x
    <3>3. OpResult(w, fd, x)
      BY <2>1, <2>3, <3>2, AdvancesTwice DEF OpResult
    <3> QED BY <3>3 DEF x
  <2>4. CASE ~isSynchronous(h.flag) \/ v.fds[fd].dirty # TRUE
    <3>1. v.fds[fd].dirty \in BOOLEAN
      BY <2>1 DEF WorldOK, HandleOK, Handles
    <3>2. x = Answer(v, "ok")
      BY <2>1, <2>4, <3>1 DEF MaySync, syncSync
    <3> QED BY <2>1, <3>2 DEF OpResult, Answer
  <2> QED BY <2>3, <2>4
<1>6. CASE r = Answer(u, "EPERM")
  BY <1>1, <1>6 DEF Answer, OpResult, HandleErrors, Errors
<1>7. CASE len > Len(h.buf) /\ r \in {grown, MaySync(grown.w, fd)}
  <2>1. zeros \in Seq(Bytes)
    <3>1. len - Len(h.buf) \in Nat
      BY <1>4, <1>7
    <3> QED BY <3>1, ByteAssumption
  <2> HIDE DEF zeros
  <2>2. OpResult(u, fd, grown)
    BY <1>1, <1>3, <1>4, <2>1, handleWriteAdvances
  <2> HIDE DEF grown
  <2>3. OpResult(w, fd, grown)
    BY <1>1, <2>2, AdvancesTwice DEF OpResult
  <2>4. OpResult(w, fd, MaySync(grown.w, fd))
    BY <1>5, <2>2 DEF OpResult
  <2> QED BY <1>7, <2>3, <2>4
<1>8. CASE ~(len > Len(h.buf)) /\ r = MaySync(cut, fd)
  <2> DEFINE b == SubSeq(h.buf, 1, len)
  <2>1. b \in Seq(Bytes) /\ Len(b) = len
    <3>1. len <= Len(h.buf)
      BY <1>4, <1>8
    <3> QED BY <1>4, <3>1, FirstPart
  <2>2. g = Sized(h, len, b)
    BY DEF Sized
  <2> HIDE DEF g, h, b
  <2>3. HandleOK(g) /\ g.path = h.path /\ g.flag = h.flag /\ g.dirty = h.dirty
    BY <1>4, <2>1, <2>2, Resized
  <2>4. (u.fds[fd].dirty => g.dirty) /\ u.sh \in {u.sh, Leave(u.sh, fd)}
        /\ g.path = u.fds[fd].path /\ g.flag = u.fds[fd].flag
    BY <2>3 DEF h
  <2>5. Advances(u, fd, cut)
    BY <1>1, <2>3, <2>4, HandleSet
  <2> HIDE DEF cut
  <2> QED BY <1>5, <1>8, <2>5
<1> QED BY <1>2, <1>6, <1>7, <1>8

(* readSync *)
LEMMA handleReadAdvances ==
    ASSUME NEW w, WorldOK(w), NEW fd \in DOMAIN w.fds, NEW len \in Nat, NEW at \in Nat,
           NEW r, r = handleRead(w, fd, len, at)
    PROVE  OpResult(w, fd, r)
<1> DEFINE h == w.fds[fd]
           n == IF at + len > h.size THEN h.size - at ELSE len
           g == [h EXCEPT !.pos = at + n]
           v == Changed(w, fd, g, w.sh)
<1>1. r \in {Answer(w, "EPERM"), Answer(w, "Error"), Answer(v, "ok")}
  BY DEF handleRead
<1>2. HandleOK(h) /\ h.size \in Nat
  BY DEF WorldOK, HandleOK, Handles
<1>3. at + n \in Nat
  BY <1>2
<1>4. HandleOK(g) /\ g.path = h.path /\ g.flag = h.flag /\ g.dirty = h.dirty
  BY <1>2, <1>3 DEF HandleOK, Handles
<1>5. (h.dirty => g.dirty) /\ w.sh \in {w.sh, Leave(w.sh, fd)}
  BY <1>4
<1> HIDE DEF g
<1>6. Advances(w, fd, v)
  BY <1>4, <1>5, HandleSet
<1> HIDE DEF v
<1>7. \A u : Answer(u, "EPERM").w = u /\ Answer(u, "Error").w = u /\ Answer(u, "ok").w = u
  BY DEF Answer
<1>8. r.w \in {w, v} /\ r.ret \in {"EPERM", "Error", "ok"}
  BY <1>1 DEF Answer
<1> QED BY <1>6, <1>8, AdvancesNot DEF OpResult, HandleErrors, Errors

-----------------------------------------------------------------------------
(* Closing a file that was stored: it holds no array any more. *)
LEMMA closeSteady ==
    ASSUME NEW w, WorldOK(w), NEW fd \in DOMAIN w.fds, w.fds[fd].dirty => Storable(w, fd),
           NEW r, r = close(w, fd)
    PROVE  /\ WorldOK(r.w) /\ Steady(w.st, r.w.st) /\ r.ret \in HandleErrors \union {"ok"}
           /\ \/ r.w = w
              \/ /\ DOMAIN r.w.fds = DOMAIN w.fds \ {fd}
                 /\ \A d \in DOMAIN w.fds : d # fd => r.w.fds[d].dirty = w.fds[d].dirty
                 /\ w.fds[fd].dirty => SavedIn(r.w.st, w.fds[fd])
<1> DEFINE x == syncSync(w, fd)
           v == [st  |-> x.w.st,
                 fds |-> [d \in DOMAIN x.w.fds \ {fd} |-> x.w.fds[d]],
                 sh  |-> Leave(x.w.sh, fd)]
<1>1. OpResult(w, fd, x) /\ Stores2(w, fd, x)
  BY syncSyncAdvances
<1>2. IF x.ret # "ok" THEN r = x ELSE r = Answer(v, "ok")
  BY DEF close
<1> HIDE DEF x
<1>3. CASE x.ret # "ok"
  BY <1>1, <1>2, <1>3 DEF OpResult, Stores2, Steady
<1>4. CASE x.ret = "ok"
  <2>1. /\ Advances(w, fd, x.w) /\ WorldOK(x.w) /\ Steady(w.st, x.w.st)
        /\ DOMAIN x.w.fds = DOMAIN w.fds
    BY <1>1, AdvancesMeans DEF OpResult
  <2>2. /\ v = [st |-> v.st, fds |-> v.fds, sh |-> v.sh]
        /\ v.st = x.w.st /\ v.sh = Leave(x.w.sh, fd)
        /\ DOMAIN v.fds = DOMAIN w.fds \ {fd}
        /\ \A d \in DOMAIN w.fds \ {fd} : v.fds[d] = x.w.fds[d]
    BY <2>1
  <2>3. r.w = v /\ r.ret = "ok"
    BY <1>2, <1>4 DEF Answer
  <2> HIDE DEF v
  <2>4. Groups(v.sh, Used(v.st) \union DOMAIN v.fds)
    <3> DEFINE all == Used(x.w.st) \union DOMAIN w.fds
    <3>1. Groups(x.w.sh, all)
      BY <2>1 DEF WorldOK
    <3> HIDE DEF all
    <3>2. Groups(v.sh, all \ {fd})
      BY <2>2, <3>1, LeaveGroups
    <3>3. all \ {fd} \subseteq Used(v.st) \union DOMAIN v.fds
      BY <2>2 DEF all
    <3> QED BY <3>2, <3>3, MoreGroups
  <2>5. \A d \in DOMAIN v.fds : HandleOK(v.fds[d])
    BY <2>1, <2>2 DEF WorldOK
  <2>6. WorldOK(v)
    BY <2>1, <2>2, <2>4, <2>5 DEF WorldOK
  <2>7. \A d \in DOMAIN w.fds : d # fd => v.fds[d].dirty = w.fds[d].dirty
    BY <2>1, <2>2 DEF Advances
  <2>8. w.fds[fd].dirty => SavedIn(v.st, w.fds[fd])
    BY <1>1, <1>4, <2>2 DEF Stores2
  <2> QED BY <2>1, <2>2, <2>3, <2>6, <2>7, <2>8
<1> QED BY <1>3, <1>4

-----------------------------------------------------------------------------
(* The inductive invariant. *)
HandlesInv ==
    /\ WorldOK(World)
    /\ Cardinality(InodeIds(store)) <= MaxNodes
    /\ ret \in HandleErrors \union {"ok"}
    /\ nextFd \in FirstFd .. MaxFd + 1
    /\ DOMAIN fdMap \subseteq FirstFd .. nextFd - 1

(* The parts of the invariant, in terms of the variables.                  *)
LEMMA InvMeans ==
    ASSUME HandlesInv
    PROVE  /\ World.st = store /\ World.fds = fdMap /\ World.sh = shared
           /\ Tidy(store) /\ store \in Stores
           /\ \A d \in DOMAIN fdMap : HandleOK(fdMap[d])
           /\ Groups(shared, Used(store) \union DOMAIN fdMap)
BY DEF HandlesInv, WorldOK, World, Tidy, Sound, Wired

(* The steps on descriptors take over a world that is well-formed. *)
LEMMA TakeKeeps ==
    ASSUME HandlesInv, NEW r, Take(r), WorldOK(r.w), r.ret \in HandleErrors \union {"ok"},
           DOMAIN r.w.fds \subseteq DOMAIN fdMap
    PROVE  /\ HandlesInv'
           /\ store' = r.w.st /\ fdMap' = r.w.fds /\ nextFd' = nextFd
<1>1. /\ store' = r.w.st /\ fdMap' = r.w.fds /\ shared' = r.w.sh /\ ret' = r.ret
      /\ nextFd' = nextFd /\ WithinBounds(r.w.st)
  BY DEF Take
<1>2. World' = r.w
  BY <1>1 DEF World, WorldOK
<1> QED BY <1>1, <1>2 DEF HandlesInv, WithinBounds

(* The steps of the file system leave the open files alone. *)
LEMMA FsStepKeeps ==
    ASSUME HandlesInv, NEW r, FsStep(r), Tidy(r.st), r.ret \in Errors \union {"ok"}
    PROVE  HandlesInv' /\ fdMap' = fdMap /\ nextFd' = nextFd
<1>1. /\ store' = r.st /\ ret' = r.ret /\ WithinBounds(r.st)
      /\ shared' = Purge(shared, r.st) /\ fdMap' = fdMap /\ nextFd' = nextFd
  BY DEF FsStep, Apply
<1>2. Groups(shared', Used(store') \union DOMAIN fdMap')
  BY <1>1, InvMeans, PurgeGroups
<1>3. Tidy(store') /\ \A d \in DOMAIN fdMap' : HandleOK(fdMap'[d])
  BY <1>1, InvMeans
<1>4. World' = [st |-> store', fds |-> fdMap', sh |-> shared']
  BY DEF World
<1>5. WorldOK(World')
  BY ONLY <1>2, <1>3, <1>4 DEF WorldOK
<1> QED BY <1>1, <1>5 DEF HandlesInv, WithinBounds, HandleErrors

(* Opening a file adds one descriptor, whose buffer is the array in the    *)
(* store.                                                                  *)
LEMMA OpenKeeps ==
    ASSUME HandlesInv, NEW p \in Paths, NEW flag \in WriteFlags, NEW mode \in Perms,
           NEW cred \in Creds, Open(p, flag, mode, cred)
    PROVE  /\ HandlesInv'
           /\ (fdMap' = fdMap /\ nextFd' = nextFd) \/ nextFd' = nextFd + 1
           /\ \A d \in DOMAIN fdMap : d \in DOMAIN fdMap' /\ fdMap'[d] = fdMap[d]
<1>1. PICK new \in NewIds(store) :
         LET r == openSync(store, p, flag, mode, cred, new)
             w == Opened(r, p, flag)
         IN  IF r.ret # "ok" THEN FsStep(r)
             ELSE /\ Apply(r)
                  /\ fdMap' = w.fds /\ shared' = w.sh
                  /\ nextFd' = nextFd + 1
  BY DEF Open
<1> DEFINE r == openSync(store, p, flag, mode, cred, new)
<1>2. /\ Tidy(store) /\ store \in Stores /\ Unused(store, new) /\ new[1] \in Ids /\ new[2] \in Ids
  BY InvMeans, NewIdsFresh, NewIdsType
<1>3. IsNoDir(store, p)
  BY <1>2, NoDirPath DEF Open
<1>4. OpenedWell(store, p, flag, cred, r)
  BY <1>2, <1>3, openSyncTidy
<1>5. r \in Results
  BY <1>2, openSyncType
<1> HIDE DEF r
<1>6. /\ Tidy(r.st) /\ r.ret \in Errors \union {"ok"}
      /\ (r.ret = "ok" => IsFileAt(r.st, p))
  BY <1>4, <1>5 DEF OpenedWell, Results, Answers
<1>7. CASE r.ret # "ok"
  <2>1. FsStep(r)
    BY <1>1, <1>7 DEF r
  <2> QED BY <1>6, <2>1, FsStepKeeps
<1>8. CASE r.ret = "ok"
  <2> DEFINE n == FindId(r.st, p)
             i == r.st[n]
             D == DOMAIN fdMap \union {nextFd}
             h == [path |-> p, flag |-> flag, pos |-> 0, size |-> i.size, mode |-> i.mode,
                   uid |-> i.uid, buf |-> Text(r.st[i.id]), dirty |-> FALSE]
  <2>1. /\ Apply(r) /\ nextFd' = nextFd + 1
        /\ fdMap' = [d \in D |-> IF d # nextFd THEN fdMap[d] ELSE h]
        /\ shared' = Join(Purge(shared, r.st), nextFd, i.id)
    BY <1>1, <1>8 DEF r, Opened
  <2>2. /\ n \in InodeIds(r.st) /\ i \in Inodes /\ i.id \in Ids /\ i.type = "file"
        /\ r.st[i.id].kind = "bytes" /\ r.st \in Stores
    <3>1. Wired(r.st) /\ r.st \in Stores /\ n \in InodeIds(r.st) /\ n \notin DirIds(r.st)
      BY <1>6, <1>8 DEF IsFileAt, IsNoDir, Tidy, Sound, Wired
    <3> HIDE DEF n
    <3>2. i \in Inodes /\ i.id \in Ids /\ i.type \in Types
      BY <3>1, DataTypes
    <3>3. i.type = "file"
      BY <3>1, <3>2 DEF Types, DirIds
    <3>4. r.st[i.id].kind = "bytes"
      BY <3>1, <3>3 DEF Wired, KindOf
    <3> QED BY <3>1, <3>2, <3>3, <3>4
  <2>3. i.size = Len(Text(r.st[i.id])) /\ Text(r.st[i.id]) \in Seq(Bytes)
    <3>1. r.st[i.id] \in Values
      BY <2>2, StoresAreFunctions
    <3>2. Text(r.st[i.id]) \in Seq(Bytes)
      BY <3>1, TextType
    <3>3. ExactAt(r.st, n)
      BY <1>6, <2>2 DEF Tidy, Exact
    <3> HIDE DEF n
    <3> QED BY <2>2, <3>2, <3>3 DEF ExactAt, DataLen
  <2>4. i.size \in Nat /\ i.mode \in Perms /\ i.uid \in Uids /\ flag \in Flags
    BY <2>2, ParameterAssumption DEF Inodes
  <2>5. HandleOK(h)
    <3> HIDE DEF i
    <3> QED BY <2>3, <2>4 DEF HandleOK, Handles
  <2>6. i.id \in Used(r.st)
    BY <2>2 DEF Used
  <2> HIDE DEF h, i
  <2>7. store' = r.st /\ ret' = "ok" /\ WithinBounds(r.st)
    BY <1>8, <2>1 DEF Apply
  <2>8. nextFd \in Nat /\ nextFd \in FirstFd .. MaxFd /\ nextFd \notin DOMAIN fdMap
        /\ DOMAIN fdMap \subseteq FirstFd .. nextFd - 1
    BY FdAssumption DEF HandlesInv, Open
  <2>9. DOMAIN fdMap' = D /\ fdMap'[nextFd] = h
        /\ \A d \in DOMAIN fdMap : d \in D /\ fdMap'[d] = fdMap[d]
    BY <2>1, <2>8
  <2>10. Groups(shared', Used(store') \union DOMAIN fdMap')
    <3> DEFINE all == Used(r.st) \union DOMAIN fdMap
    <3>1. Groups(Purge(shared, r.st), all)
      BY InvMeans, PurgeGroups
    <3>2. all \union {nextFd, i.id} = Used(store') \union DOMAIN fdMap'
      BY <2>6, <2>7, <2>9
    <3> HIDE DEF all
    <3>3. Groups(shared', all \union {nextFd, i.id})
      BY <2>1, <3>1, JoinGroups
    <3> QED BY <3>2, <3>3
  <2>11. \A d \in DOMAIN fdMap' : HandleOK(fdMap'[d])
    BY <2>5, <2>9, InvMeans
  <2>12. World' = [st |-> store', fds |-> fdMap', sh |-> shared'] /\ Tidy(store')
    BY <1>6, <2>7 DEF World
  <2>13. WorldOK(World')
    BY ONLY <2>10, <2>11, <2>12 DEF WorldOK
  <2>14. nextFd' \in FirstFd .. MaxFd + 1 /\ DOMAIN fdMap' \subseteq FirstFd .. nextFd' - 1
    BY <2>1, <2>8, <2>9, FdAssumption
  <2>15. HandlesInv'
    BY <2>7, <2>13, <2>14 DEF HandlesInv, WithinBounds, HandleErrors
  <2> QED BY <2>1, <2>9, <2>15
<1> QED BY <1>7, <1>8

(* A call of the file system while files are open. *)
LEMMA FsNextKeeps ==
    ASSUME HandlesInv, FsNext
    PROVE  /\ HandlesInv'
           /\ (fdMap' = fdMap /\ nextFd' = nextFd) \/ nextFd' = nextFd + 1
           /\ \A d \in DOMAIN fdMap : d \in DOMAIN fdMap' /\ fdMap'[d] = fdMap[d]
<1> DEFINE Goal == /\ HandlesInv'
                   /\ (fdMap' = fdMap /\ nextFd' = nextFd) \/ nextFd' = nextFd + 1
                   /\ \A d \in DOMAIN fdMap : d \in DOMAIN fdMap' /\ fdMap'[d] = fdMap[d]
<1>1. Tidy(store) /\ store \in Stores
  BY InvMeans
<1>2. \A p \in UsedPaths : p \in Paths
  BY UsedPathsType
<1>3. \A cred \in Users : cred \in Creds
  BY ParameterAssumption
<1>4. \A mode \in Modes : mode \in Perms
  BY ParameterAssumption
<1>5. ASSUME NEW r \in Results, FsStep(r), Tidy(r.st)
      PROVE  Goal
  BY <1>5, FsStepKeeps DEF Results, Answers
<1> HIDE DEF Goal
<1>6. ASSUME NEW p \in UsedPaths, NEW cred \in Users, NEW mode \in Modes, HMkdir(p, mode, cred)
      PROVE  Goal
  <2>1. PICK new \in NewIds(store) : FsStep(mkdirSync(store, p, mode, cred, new))
    BY <1>6 DEF HMkdir
  <2> DEFINE r == mkdirSync(store, p, mode, cred, new)
  <2>2. Unused(store, new) /\ new[1] \in Ids /\ new[2] \in Ids
    BY <1>1, NewIdsFresh, NewIdsType
  <2>3. Tidy(r.st)
    BY <1>1, <1>2, <1>3, <1>4, <2>2, mkdirSyncTidy
  <2>4. r \in Results
    BY <1>1, <1>2, <1>3, <1>4, <2>2, DataType, commitNewFileType DEF mkdirSync, Types
  <2> QED BY <1>5, <2>1, <2>3, <2>4
<1>7. ASSUME NEW p \in UsedPaths, NEW cred \in Users, HUnlink(p, cred)
      PROVE  Goal
  <2> DEFINE r == unlinkSync(store, p, cred)
  <2>1. Tidy(r.st)
    BY <1>1, <1>2, unlinkSyncTidy
  <2>2. r \in Results
    BY <1>1, <1>2, removeEntryType DEF unlinkSync
  <2> QED BY <1>5, <1>7, <2>1, <2>2 DEF HUnlink
<1>8. ASSUME NEW p \in UsedPaths, NEW cred \in Users, HRmdir(p, cred)
      PROVE  Goal
  <2> DEFINE r == rmdirSync(store, p, cred)
  <2>1. Tidy(r.st)
    BY <1>1, <1>2, rmdirSyncTidy
  <2>2. r \in Results
    BY <1>1, <1>2, rmdirSyncType
  <2> QED BY <1>5, <1>8, <2>1, <2>2 DEF HRmdir
<1>9. ASSUME NEW p \in UsedPaths, NEW q \in UsedPaths, NEW cred \in Users, HRename(p, q, cred)
      PROVE  Goal
  <2> DEFINE r == renameSync(store, p, q, cred)
  <2>1. q # <<>> /\ FsStep(r)
    BY <1>9 DEF HRename
  <2>2. Tidy(r.st)
    BY <1>1, <1>2, <2>1, renameSyncTidy
  <2>3. r \in Results
    BY <1>1, <1>2, renameSyncType
  <2> QED BY <1>5, <2>1, <2>2, <2>3
<1>10. ASSUME NEW p \in UsedPaths, NEW cred \in Users, NEW mode \in Modes,
              NEW flag \in WriteFlags, Open(p, flag, mode, cred)
       PROVE  Goal
  BY <1>2, <1>3, <1>4, <1>10, OpenKeeps DEF Goal
<1>11. Goal
  BY <1>6, <1>7, <1>8, <1>9, <1>10 DEF FsNext
<1> QED BY <1>11 DEF Goal

-----------------------------------------------------------------------------
(* SavedWhenClean, of one step. *)
Forgotten(fd) ==
    LET open == fd \in DOMAIN fdMap'
        h    == IF open THEN fdMap'[fd] ELSE fdMap[fd]
    IN  fdMap[fd].dirty /\ (open => ~h.dirty) /\ ~SavedIn(store', h)

(* A call for a descriptor. *)
LEMMA FdNextKeeps ==
    ASSUME HandlesInv, FdNext
    PROVE  /\ HandlesInv' /\ nextFd' = nextFd /\ Steady(store, store')
           /\ \A d \in DOMAIN fdMap : ~Forgotten(d)
<1> DEFINE Goal == /\ HandlesInv' /\ nextFd' = nextFd /\ Steady(store, store')
                   /\ \A d \in DOMAIN fdMap : ~Forgotten(d)
<1>1. /\ World.st = store /\ World.fds = fdMap /\ WorldOK(World)
      /\ \A d \in DOMAIN fdMap : HandleOK(fdMap[d])
  BY InvMeans DEF HandlesInv
<1>2. ASSUME NEW fd \in DOMAIN fdMap, NEW r, Take(r), OpResult(World, fd, r)
      PROVE  Goal
  <2>1. /\ WorldOK(r.w) /\ Steady(store, r.w.st) /\ DOMAIN r.w.fds = DOMAIN fdMap
        /\ r.ret \in HandleErrors \union {"ok"}
    BY <1>1, <1>2, AdvancesMeans DEF OpResult
  <2>2. HandlesInv' /\ store' = r.w.st /\ fdMap' = r.w.fds /\ nextFd' = nextFd
    BY <1>2, <2>1, TakeKeeps
  <2>3. \A d \in DOMAIN fdMap : d # fd => fdMap'[d].dirty = fdMap[d].dirty
    BY <1>1, <1>2, <2>2 DEF OpResult, Advances
  <2>4. fdMap[fd].dirty /\ ~fdMap'[fd].dirty => SavedIn(store', fdMap'[fd])
    BY <1>1, <1>2, <2>2 DEF OpResult, Advances
  <2>5. DOMAIN fdMap' = DOMAIN fdMap
    BY <2>1, <2>2
  <2>6. \A d \in DOMAIN fdMap : ~Forgotten(d)
    BY <2>3, <2>4, <2>5 DEF Forgotten
  <2> QED BY <2>1, <2>2, <2>6
<1>3. ASSUME NEW fd \in DOMAIN fdMap
      PROVE  /\ getPos(fdMap[fd]) \in Nat
             /\ fdMap[fd].path \in Paths
             /\ ~IsDirPath(fdMap[fd].path) => Storable(World, fd)
  <2>1. fdMap[fd] \in Handles
    BY <1>1 DEF HandleOK
  <2>2. getPos(fdMap[fd]) \in Nat /\ fdMap[fd].path \in Paths
    BY <2>1 DEF getPos, Handles
  <2> QED BY <1>1, <2>2, InvMeans, NoDirPath DEF Storable
<1> HIDE DEF Goal
<1>4. ASSUME NEW fd, NEW data \in Contents, NEW at \in {NoPosition} \union 0 .. MaxLen - 1,
             Write(fd, data, at)
      PROVE  Goal
  <2> DEFINE pos == IF at = NoPosition THEN getPos(fdMap[fd]) ELSE at
             r == handleWrite(World, fd, data, pos)
  <2>1. /\ fd \in DOMAIN fdMap /\ Take(r)
        /\ isSynchronous(fdMap[fd].flag) => ~IsDirPath(fdMap[fd].path)
    BY <1>4 DEF Write, IsOpen
  <2>2. pos \in Nat /\ data \in Seq(Bytes)
    BY <1>3, <2>1, ParameterAssumption DEF NoPosition
  <2> HIDE DEF pos
  <2>3. OpResult(World, fd, r)
    BY <1>1, <1>3, <2>1, <2>2, handleWriteAdvances
  <2> QED BY <1>2, <2>1, <2>3
<1>5. ASSUME NEW fd, NEW len \in -1 .. MaxLen, Ftruncate(fd, len)
      PROVE  Goal
  <2> DEFINE r == handleTruncate(World, fd, len)
             e == Answer(World, "EINVAL")
  <2>1. /\ fd \in DOMAIN fdMap /\ Take(IF len < 0 THEN e ELSE r)
        /\ isSynchronous(fdMap[fd].flag) => ~IsDirPath(fdMap[fd].path)
    BY <1>5 DEF Ftruncate, IsOpen
  <2>2. CASE len < 0
    <3>1. OpResult(World, fd, e)
      BY <1>1, AdvancesNot DEF OpResult, Answer, HandleErrors
    <3> QED BY <1>2, <2>1, <2>2, <3>1
  <2>3. CASE ~(len < 0)
    <3>1. len \in Nat
      BY <2>3, ParameterAssumption
    <3>2. OpResult(World, fd, r)
      BY <1>1, <1>3, <2>1, <3>1, handleTruncateAdvances
    <3> QED BY <1>2, <2>1, <2>3, <3>2
  <2> QED BY <2>2, <2>3
<1>6. ASSUME NEW fd, NEW len \in 1 .. MaxLen, NEW at \in {NoPosition} \union 0 .. MaxLen - 1,
             Read(fd, len, at)
      PROVE  Goal
  <2> DEFINE pos == IF at = NoPosition THEN getPos(fdMap[fd]) ELSE at
             r == handleRead(World, fd, len, pos)
  <2>1. fd \in DOMAIN fdMap /\ Take(r)
    BY <1>6 DEF Read, IsOpen
  <2>2. pos \in Nat /\ len \in Nat
    BY <1>3, <2>1, ParameterAssumption DEF NoPosition
  <2> HIDE DEF pos
  <2>3. OpResult(World, fd, r)
    BY <1>1, <2>1, <2>2, handleReadAdvances
  <2> QED BY <1>2, <2>1, <2>3
<1>7. ASSUME NEW fd, NEW x, Fchmod(fd, x) \/ Fchown(fd, x)
      PROVE  Goal
  <2> DEFINE e == Answer(World, "ENOTSUP")
  <2>1. fd \in DOMAIN fdMap /\ Take(e)
    BY <1>7 DEF Fchmod, Fchown, chmodSync, chownSync, IsOpen
  <2>2. OpResult(World, fd, e)
    BY <1>1, AdvancesNot DEF OpResult, Answer, HandleErrors
  <2> QED BY <1>2, <2>1, <2>2
<1>8. ASSUME NEW fd, Fsync(fd)
      PROVE  Goal
  <2> DEFINE r == syncSync(World, fd)
  <2>1. fd \in DOMAIN fdMap /\ Take(r) /\ (fdMap[fd].dirty => ~IsDirPath(fdMap[fd].path))
    BY <1>8 DEF Fsync, IsOpen, OntoFile
  <2>2. OpResult(World, fd, r)
    BY <1>1, <1>3, <2>1, syncSyncAdvances
  <2> QED BY <1>2, <2>1, <2>2
<1>9. ASSUME NEW fd, Close(fd)
      PROVE  Goal
  <2> DEFINE r == close(World, fd)
  <2>1. fd \in DOMAIN fdMap /\ Take(r) /\ (fdMap[fd].dirty => ~IsDirPath(fdMap[fd].path))
    BY <1>9 DEF Close, IsOpen, OntoFile
  <2>2. /\ WorldOK(r.w) /\ Steady(store, r.w.st) /\ r.ret \in HandleErrors \union {"ok"}
        /\ \/ r.w = World
           \/ /\ DOMAIN r.w.fds = DOMAIN fdMap \ {fd}
              /\ \A d \in DOMAIN fdMap : d # fd => r.w.fds[d].dirty = fdMap[d].dirty
              /\ fdMap[fd].dirty => SavedIn(r.w.st, fdMap[fd])
    BY <1>1, <1>3, <2>1, closeSteady
  <2> HIDE DEF r
  <2>3. DOMAIN r.w.fds \subseteq DOMAIN fdMap
    BY <1>1, <2>2
  <2>4. HandlesInv' /\ store' = r.w.st /\ fdMap' = r.w.fds /\ nextFd' = nextFd
    BY <2>1, <2>2, <2>3, TakeKeeps
  <2>5. \A d \in DOMAIN fdMap : ~Forgotten(d)
    BY <1>1, <2>2, <2>4 DEF Forgotten
  <2> QED BY <2>2, <2>4, <2>5 DEF Goal
<1>10. ASSUME NEW fd, BadFd(fd)
       PROVE  Goal
  <2>1. ret' = "EBADF" /\ UNCHANGED <<store, fdMap, nextFd, shared>>
    BY <1>10 DEF BadFd
  <2>2. World' = World
    BY <2>1 DEF World
  <2>3. HandlesInv'
    BY <2>1, <2>2 DEF HandlesInv, HandleErrors
  <2> QED BY <2>1, <2>3 DEF Goal, Forgotten, Steady
<1>11. Goal
  BY <1>4, <1>5, <1>6, <1>7, <1>8, <1>9, <1>10 DEF FdNext
<1> QED BY <1>11 DEF Goal

-----------------------------------------------------------------------------
(* The tree and the open files are well-formed at all times and agree: the *)
(* store is a tree of which all is reached, every open file has the size   *)
(* of its buffer, and every array with several holders has one group of    *)
(* them.  Callers pass over a path that leads to a directory by now.       *)
THEOREM HandlesInvariant == HSpec => []HandlesInv
<1>1. HInit => HandlesInv
  <2> SUFFICES ASSUME HInit PROVE HandlesInv
    OBVIOUS
  <2>1. Tidy(store) /\ InodeIds(store) = {Root}
    BY RootTidy DEF HInit, Init
  <2>2. Cardinality(InodeIds(store)) <= MaxNodes
    <3>1. Cardinality(InodeIds(store)) = 1
      BY <2>1, FS_Singleton
    <3> QED BY <3>1, ParameterAssumption
  <2>3. fdMap = <<>> /\ DOMAIN fdMap = {} /\ nextFd = FirstFd /\ shared = {} /\ ret = "ok"
    BY DEF HInit, Init
  <2>4. World = [st |-> store, fds |-> fdMap, sh |-> shared]
    BY DEF World
  <2>5. Groups(shared, Used(store) \union DOMAIN fdMap)
    BY <2>3 DEF Groups
  <2>6. WorldOK(World)
    BY ONLY <2>1, <2>3, <2>4, <2>5 DEF WorldOK
  <2> QED BY <2>2, <2>3, <2>6, FdAssumption DEF HandlesInv
<1>2. HandlesInv /\ [FsNext \/ FdNext]_hvars => HandlesInv'
  <2> SUFFICES ASSUME HandlesInv, [FsNext \/ FdNext]_hvars PROVE HandlesInv'
    OBVIOUS
  <2>1. CASE UNCHANGED hvars
    <3>1. World' = World
      BY <2>1 DEF hvars, World
    <3> QED BY <2>1, <3>1 DEF hvars, HandlesInv
  <2> QED BY <2>1, FsNextKeeps, FdNextKeeps
<1> QED BY <1>1, <1>2, PTL DEF HSpec

(* The types of the variables of the file system with files open.          *)
THEOREM HandlesTypeCorrect == HSpec => []HandlesTypeOK
<1>1. HandlesInv => HandlesTypeOK
  BY InvMeans DEF HandlesInv, HandleOK, Groups, HandlesTypeOK
<1> QED BY <1>1, HandlesInvariant, PTL

(* Whatever becomes of the paths of open files (removed, renamed, taken by *)
(* another file), storing them leaves no entry without its node and no key *)
(* out of reach (GraphSound of the runs).                                  *)
THEOREM HandlesKeepTheGraph == HSpec => []GraphSound
<1>1. HandlesInv => GraphSound
  <2> SUFFICES ASSUME HandlesInv PROVE NoDangling /\ NoLeak
    BY DEF GraphSound
  <2>1. NoDangling
    BY InvMeans, SoundMeans DEF Tidy, NoDangling
  <2>2. TreeInv
    BY InvMeans DEF HandlesInv, TreeInv
  <2> QED BY <2>1, <2>2, TidyLeaksNothing
<1> QED BY <1>1, HandlesInvariant, PTL

(* An inode has the size of its data, and an open file that of its buffer, *)
(* although a stale descriptor writes the stats of one file into the inode *)
(* of another (SizesExact of the runs).                                    *)
THEOREM HandlesKeepSizes == HSpec => []SizesExact
<1>1. HandlesInv => SizesExact
  BY InvMeans DEF Tidy, Exact, ExactAt, SizeExact, HandleOK, SizesExact
<1> QED BY <1>1, HandlesInvariant, PTL

(* The names of two steady stores lead to nodes of the same kind.          *)
LEMMA SteadyKinds ==
    ASSUME store \in Stores, store' \in Stores, Steady(store, store'), NEW p \in TreePaths
    PROVE  KindAt(p)' = KindAt(p)
<1> DEFINE n == FindId(store, p)
           m == FindId(store', p)
<1>1. p \in Paths
  BY DEF TreePaths, Paths
<1>2. n \in Ids \/ m \in Ids => m = n
  BY <1>1 DEF Steady
<1>3. /\ InodeIds(store') = InodeIds(store) /\ InodeIds(store) \subseteq Ids
      /\ DirIds(store') = DirIds(store)
  BY DEF Steady, InodeIds
<1>4. CASE n \in InodeIds(store)
  <2>1. m = n /\ n \in InodeIds(store')
    BY <1>2, <1>3, <1>4
  <2> HIDE DEF n, m
  <2>2. store[n].type \in Types /\ store'[n].type \in Types
    BY <1>4, <2>1, InodeTypes DEF Inodes
  <2>3. store'[n].type = store[n].type
    BY <1>3, <1>4, <2>1, <2>2 DEF DirIds, Types
  <2> QED BY <1>4, <2>1, <2>3 DEF KindAt, n, m
<1>5. CASE n \notin InodeIds(store)
  <2>1. m \notin InodeIds(store')
    BY <1>2, <1>3, <1>5
  <2> QED BY <1>5, <2>1 DEF KindAt
<1> QED BY <1>4, <1>5

(* What is done with open files neither creates, removes nor moves what    *)
(* the tree has: no file that was unlinked comes back when it is stored    *)
(* (NamesSurvive of the runs).                                             *)
THEOREM HandlesKeepNames == HSpec => NamesSurvive
<1>1. HandlesInv /\ HandlesInv' /\ [FsNext \/ FdNext]_hvars
         => [store' # store /\ fdMap' # fdMap /\ nextFd' = nextFd
                => \A p \in TreePaths : KindAt(p)' = KindAt(p)]_hvars
  <2> SUFFICES ASSUME HandlesInv, HandlesInv', FsNext \/ FdNext,
                      store' # store, fdMap' # fdMap, nextFd' = nextFd
               PROVE  \A p \in TreePaths : KindAt(p)' = KindAt(p)
    OBVIOUS
  <2>1. nextFd # nextFd + 1
    BY FdAssumption DEF HandlesInv
  <2>2. FdNext
    BY <2>1, FsNextKeeps
  <2>3. Steady(store, store')
    BY <2>2, FdNextKeeps
  <2>4. store \in Stores /\ store' \in Stores
    BY InvMeans DEF HandlesInv, WorldOK, World, Tidy, Sound, Wired
  <2> QED BY <2>3, <2>4, SteadyKinds
<1> QED BY <1>1, HandlesInvariant, PTL DEF HSpec, NamesSurvive

(* Nothing written is forgotten: when an open file stops being dirty or is *)
(* closed, its bytes are in the store under its path (SavedWhenClean of    *)
(* the runs).                                                              *)
THEOREM HandlesForgetNothing == HSpec => SavedWhenClean
<1> DEFINE Saved(fd) ==
              LET open == fd \in DOMAIN fdMap'
                  h    == IF open THEN fdMap'[fd] ELSE fdMap[fd]
                  n    == FindId(store', h.path)
              IN  fdMap[fd].dirty /\ (open => ~h.dirty)
                    => n \in Ids /\ store'[store'[n].id] = Data(h.buf)
<1>1. HandlesInv /\ [FsNext \/ FdNext]_hvars
         => [fdMap' # fdMap => \A fd \in DOMAIN fdMap : Saved(fd)]_hvars
  <2> SUFFICES ASSUME HandlesInv, FsNext \/ FdNext, NEW fd \in DOMAIN fdMap
               PROVE  Saved(fd)
    OBVIOUS
  <2>1. CASE FsNext
    BY <2>1, FsNextKeeps
  <2>2. CASE FdNext
    BY <2>2, FdNextKeeps DEF Forgotten, SavedIn
  <2> QED BY <2>1, <2>2
<1> QED BY <1>1, HandlesInvariant, PTL DEF HSpec, SavedWhenClean
=============================================================================
