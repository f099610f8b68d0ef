--------------------------- MODULE KVNodesProofs ----------------------------
(***************************************************************************)
(* Facts about the layout of KVNodes that the proofs about its users rest  *)
(* on: what _findINode computes, the types of what a store holds, when the *)
(* tree in a store is whole (Tidy), that each of the ways to change it     *)
(* keeps it so, and what each of them changes under which paths.           *)
(***************************************************************************)
EXTENDS KVNodes, FiniteSetTheorems, SequenceTheorems, WellFoundedInduction, TLAPS

(* A set of natural numbers that is not empty has a least element. *)
LEMMA LeastNat ==
    ASSUME NEW T \in SUBSET Nat, T # {}
    PROVE  \E m \in T : \A k \in T : m <= k
<1> DEFINE R == OpToRel(<, Nat)
<1>1. R = {x \in Nat \X Nat : x[1] < x[2]}
  BY DEF OpToRel
<1>2. IsWellFoundedOn(R, Nat)
  BY NatLessThanWellFounded
<1> HIDE DEF R
<1>3. \E m \in T : \A k \in T : ~(<<k, m>> \in R)
  BY <1>2, WFMin
<1>4. PICK m \in T : \A k \in T : ~(<<k, m>> \in R)
  BY <1>3
<1>5. ASSUME NEW k \in T PROVE m <= k
  <2>1. /\ k \in Nat /\ m \in Nat
        /\ <<k, m>> \notin R
    BY <1>4
  <2>2. ~(k < m)
    BY <1>1, <2>1
  <2> QED
    BY <2>1, <2>2
<1> QED
  BY <1>4, <1>5

-----------------------------------------------------------------------------
(* _findINode's recursion is well-founded: the walk along a path starts at *)
(* the root, and every step of it is a look into the directory before.     *)
LEMMA WalkEquation ==
    ASSUME NEW s, NEW p, Len(p) \in Nat
    PROVE  Walk(s, p) = [i \in 0 .. Len(p) |->
                IF i = 0 THEN Root ELSE Child(s, Walk(s, p)[i - 1], p[i])]
<1> DEFINE Step(f, n) == [i \in 0 .. n |-> IF i = 0 THEN Root ELSE Child(s, f[i - 1], p[i])]
           Stuck == {n \in 0 .. Len(p) : ~ \E f : f = Step(f, n)}
<1>1. Stuck = {}
  <2> SUFFICES ASSUME Stuck # {} PROVE FALSE
    OBVIOUS
  <2>1. PICK m \in Stuck : \A k \in Stuck : m <= k
    <3>1. Stuck \in SUBSET Nat
      OBVIOUS
    <3> HIDE DEF Stuck
    <3> QED
      BY <3>1, LeastNat
  <2>2. m # 0
    <3> DEFINE f == [i \in 0 .. 0 |-> Root]
    <3>1. f = Step(f, 0)
      OBVIOUS
    <3> HIDE DEF f, Step
    <3> QED
      BY <2>1, <3>1
  <2>3. m \in 1 .. Len(p) /\ m - 1 \in 0 .. Len(p) /\ m - 1 \notin Stuck
    <3>1. m \in 0 .. Len(p)
      OBVIOUS
    <3> HIDE DEF Stuck
    <3>2. m \in 1 .. Len(p) /\ m - 1 \in 0 .. Len(p) /\ ~(m <= m - 1)
      BY <3>1, <2>2
    <3>3. m - 1 \notin Stuck
      BY <3>2, <2>1
    <3> QED
      BY <3>2, <3>3
  <2>4. PICK f : f = Step(f, m - 1)
    BY <2>3
  <2> DEFINE g == [i \in 0 .. m |-> IF i = m THEN Child(s, f[m - 1], p[m]) ELSE f[i]]
  <2>5. \A i \in 0 .. m : g[i] = IF i = 0 THEN Root ELSE Child(s, g[i - 1], p[i])
    <3> TAKE i \in 0 .. m
    <3>1. CASE i = m
      <4>1. g[i] = Child(s, f[m - 1], p[m]) /\ g[m - 1] = f[m - 1]
        BY <3>1, <2>3
      <4> QED
        BY <4>1, <3>1, <2>2
    <3>2. CASE i # m
      <4>1. i \in 0 .. m - 1 /\ g[i] = f[i]
        BY <3>2, <2>3
      <4>2. f[i] = IF i = 0 THEN Root ELSE Child(s, f[i - 1], p[i])
        BY <2>4, <4>1
      <4>3. i # 0 => g[i - 1] = f[i - 1]
        BY <4>1, <2>3
      <4> QED
        BY <4>1, <4>2, <4>3
    <3> QED
      BY <3>1, <3>2
  <2>6. g = Step(g, m)
    BY <2>5
  <2> HIDE DEF g, Step
  <2> QED
    BY <2>1, <2>6
<1>2. \E f : f = Step(f, Len(p))
  BY <1>1
<1>3. Walk(s, p) = CHOOSE f : f = Step(f, Len(p))
  BY DEF Walk
<1> HIDE DEF Step
<1>4. Walk(s, p) = Step(Walk(s, p), Len(p))
  BY <1>2, <1>3
<1> QED
  BY <1>4 DEF Step

-----------------------------------------------------------------------------
(* What getINode accepts is an inode, what it throws is an error. *)
LEMMA INodeFacts ==
    ASSUME NEW s \in Stores, NEW n \in Ids \union Errors
    PROVE  /\ INodeError(s, n) \in Errors \union {"ok"}
           /\ INodeError(s, n) = "ok" => n \in Ids /\ s[n] \in Inodes
<1>1. CASE n \in Errors
  BY <1>1 DEF INodeError, Errors
<1>2. CASE n \notin Errors
  <2>1. n \in Ids /\ s[n] \in Inodes \union Listings \union Blobs \union {Absent}
    BY <1>2 DEF Stores
  <2>2. s[n].kind = "inode" => s[n] \in Inodes
    BY <2>1 DEF Listings, Blobs, Absent
  <2> QED
    BY <1>2, <2>1, <2>2 DEF INodeError, Errors
<1> QED
  BY <1>1, <1>2

(* What getDirListing accepts is a directory with a listing. *)
LEMMA ListingFacts ==
    ASSUME NEW s \in Stores, NEW n \in Ids \union Errors
    PROVE  /\ ListingError(s, n) \in Errors \union {"ok"}
           /\ ListingError(s, n) = "ok" =>
                /\ n \in Ids /\ s[n] \in Inodes
                /\ s[n].type = "dir"
                /\ s[s[n].id] \in Listings
                /\ entries(s, n) \in Entries
<1>1. ListingError(s, n) \in Errors \union {"ok"}
  BY INodeFacts DEF ListingError, Errors
<1>2. ASSUME ListingError(s, n) = "ok"
      PROVE  /\ n \in Ids /\ s[n] \in Inodes
             /\ s[n].type = "dir"
             /\ s[s[n].id] \in Listings
             /\ entries(s, n) \in Entries
  <2>1. INodeError(s, n) = "ok" /\ s[n].type = "dir" /\ s[s[n].id].kind = "listing"
    BY <1>2, INodeFacts DEF ListingError
  <2>2. n \in Ids /\ s[n] \in Inodes
    BY <2>1, INodeFacts
  <2>3. s[s[n].id] \in Inodes \union Listings \union Blobs \union {Absent}
    BY <2>2 DEF Stores, Inodes
  <2>4. s[s[n].id] \in Listings
    BY <2>1, <2>3 DEF Inodes, Blobs, Absent
  <2> QED
    BY <2>1, <2>2, <2>4 DEF entries, Listings
<1> QED
  BY <1>1, <1>2

LEMMA ChildType ==
    ASSUME NEW s \in Stores, NEW n \in Ids \union Errors, NEW f \in Names
    PROVE  Child(s, n, f) \in Ids \union Errors
<1>1. CASE ListingError(s, n) # "ok"
  BY <1>1, ListingFacts DEF Child
<1>2. CASE ListingError(s, n) = "ok"
  <2>1. entries(s, n)[f] \in Ids \union {NoEntry}
    BY <1>2, ListingFacts DEF Entries
  <2> QED
    BY <1>2, <2>1 DEF Child, Errors
<1> QED
  BY <1>1, <1>2

(* A lookup answers a key or an error, for every path and every store. *)
LEMMA FindType ==
    ASSUME NEW s \in Stores, NEW p \in Paths
    PROVE  FindId(s, p) \in Ids \union Errors
<1> DEFINE w == Walk(s, p)
           Bad == {i \in 0 .. Len(p) : w[i] \notin Ids \union Errors}
<1>1. Len(p) \in Nat /\ \A i \in 1 .. Len(p) : p[i] \in Names
  BY DEF Paths
<1>2. w = [i \in 0 .. Len(p) |-> IF i = 0 THEN Root ELSE Child(s, w[i - 1], p[i])]
  BY <1>1, WalkEquation
<1>3. Bad \in SUBSET Nat
  OBVIOUS
<1> HIDE DEF w
<1>4. ASSUME NEW m \in Bad, \A k \in Bad : m <= k PROVE FALSE
  <2>1. m \in 0 .. Len(p) /\ w[m] \notin Ids \union Errors
    OBVIOUS
  <2>2. m # 0
    BY <2>1, <1>2, <1>1, IdsAssumption
  <2>3. m - 1 \in 0 .. Len(p) /\ ~(m <= m - 1) /\ m \in 1 .. Len(p)
    BY <2>1, <2>2, <1>1
  <2>4. w[m - 1] \in Ids \union Errors
    BY <2>3, <1>4
  <2>5. w[m] = Child(s, w[m - 1], p[m])
    BY <2>1, <2>2, <1>2
  <2> QED
    BY <2>1, <2>3, <2>4, <2>5, <1>1, ChildType
<1>5. Bad = {}
  <2> HIDE DEF Bad
  <2> QED
    BY <1>3, <1>4, LeastNat
<1> QED
  BY <1>1, <1>5 DEF FindId, w

-----------------------------------------------------------------------------
(* Soundness of the graph of nodes, in two parts.  Wired: every inode has  *)
(* data of its kind, and no other inode has it.                            *)
KindOf(type) == IF type = "dir" THEN "listing" ELSE "bytes"

Wired(s) ==
    /\ s \in Stores
    /\ \A n \in InodeIds(s) : s[s[n].id].kind = KindOf(s[n].type)
    /\ \A m, n \in InodeIds(s) : s[m].id = s[n].id => m = n

(* Linked: the entries of all directories lead to inodes, to each but the  *)
(* root by one entry at most, and are under proper names.                  *)
AllNames == Names \union {NoName}

Linked(s) ==
    /\ Root \in DirIds(s)
    /\ \A d \in DirIds(s), f \in AllNames :
          entries(s, d)[f] # NoEntry =>
              f \in Names /\ entries(s, d)[f] \in InodeIds(s) \ {Root}
    /\ \A d, e \in DirIds(s), f, g \in AllNames :
          entries(s, d)[f] # NoEntry /\ entries(s, d)[f] = entries(s, e)[g]
              => d = e /\ f = g

Sound(s) == Wired(s) /\ Linked(s)

LEMMA SoundMeans ==
    ASSUME NEW s, Sound(s)
    PROVE  NoDanglingIn(s) /\ NoSharingIn(s)
<1>1. NoDanglingIn(s)
  <2>1. ASSUME NEW d \in DirIds(s), NEW f \in Names
        PROVE  entries(s, d)[f] \in InodeIds(s) \union {NoEntry}
    BY DEF Sound, Linked, AllNames
  <2> QED BY <2>1 DEF Sound, Wired, Linked, KindOf, NoDanglingIn
<1>2. NoSharingIn(s)
  BY IdsAssumption DEF Sound, Wired, Linked, AllNames, NoSharingIn
<1> QED BY <1>1, <1>2

LEMMA InodeTypes ==
    ASSUME NEW s \in Stores, NEW n \in InodeIds(s)
    PROVE  n \in Ids /\ s[n] \in Inodes /\ s[n].id \in Ids /\ s[n].kind = "inode"
<1>1. s[n] \in Inodes
  BY DEF InodeIds, Stores, Listings, Blobs, Absent
<1> QED BY <1>1 DEF InodeIds, Inodes

(* The data of an inode, by kind. *)
LEMMA DataTypes ==
    ASSUME NEW s, Wired(s), NEW n \in InodeIds(s)
    PROVE  /\ n \in Ids /\ s[n] \in Inodes /\ s[n].id \in Ids
           /\ s[n].id \notin InodeIds(s)
           /\ s[n].type = "dir" => s[s[n].id] \in Listings /\ entries(s, n) \in Entries
           /\ s[n].type = "file" => s[s[n].id] \in Blobs
           /\ s[n].type \in Types
<1>1. n \in Ids /\ s[n] \in Inodes /\ s[n].id \in Ids
  BY InodeTypes DEF Wired
<1>2. s[s[n].id] \in Inodes \union Listings \union Blobs \union {Absent}
  BY <1>1 DEF Wired, Stores
<1>3. s[s[n].id].kind = KindOf(s[n].type)
  BY DEF Wired
<1>4. s[n].type \in Types
  BY <1>1 DEF Inodes
<1>5. s[n].type = "dir" => s[s[n].id] \in Listings
  BY <1>2, <1>3 DEF KindOf, Inodes, Blobs, Absent
<1>6. s[n].type = "file" => s[s[n].id] \in Blobs
  BY <1>2, <1>3 DEF KindOf, Inodes, Listings, Absent
<1>7. s[n].id \notin InodeIds(s)
  BY <1>3, <1>4 DEF KindOf, InodeIds, Types
<1> QED BY <1>1, <1>4, <1>5, <1>6, <1>7 DEF entries, Listings

-----------------------------------------------------------------------------
(* The writes operations make, one by one, and what each leaves alone.     *)

(* t has the node n of s, with the inode and the data it has in s.         *)
Keeps(s, t, n) == n \in InodeIds(t) /\ t[n] = s[n] /\ t[s[n].id] = s[s[n].id]

LEMMA KeepsEntries ==
    ASSUME NEW s, NEW t, NEW d \in DirIds(s), Keeps(s, t, d)
    PROVE  d \in DirIds(t) /\ entries(t, d) = entries(s, d)
BY DEF Keeps, DirIds, entries

LEMMA FewerNodes ==
    ASSUME NEW s, Wired(s), NEW t \in Stores, \A n \in InodeIds(t) : Keeps(s, t, n),
           InodeIds(t) \subseteq InodeIds(s)
    PROVE  Wired(t)
<1>1. ASSUME NEW n \in InodeIds(t)
      PROVE  n \in InodeIds(s) /\ t[n] = s[n] /\ t[t[n].id] = s[s[n].id]
  BY DEF Keeps
<1>2. ASSUME NEW m \in InodeIds(t), NEW n \in InodeIds(t), t[m].id = t[n].id PROVE m = n
  BY <1>1, <1>2 DEF Wired
<1> QED BY <1>1, <1>2 DEF Wired

Relisted(s, d, e)          == [s EXCEPT ![s[d].id] = Listing(e)]
Gone(s, n)              == [s EXCEPT ![s[n].id] = Absent, ![n] = Absent]
Made(s, i, j, data, inode) == [s EXCEPT ![i] = data, ![j] = inode]
Refilled(s, n, data, inode) == [s EXCEPT ![s[n].id] = data, ![n] = inode]
Entered(s, d, f, n)        == [entries(s, d) EXCEPT ![f] = n]

LEMMA ListingPut ==
    ASSUME NEW s, Wired(s), NEW d \in DirIds(s), NEW e \in Entries, NEW t,
           t = Relisted(s, d, e)
    PROVE  /\ Wired(t)
           /\ InodeIds(t) = InodeIds(s) /\ DirIds(t) = DirIds(s)
           /\ \A n \in InodeIds(s) : t[n] = s[n]
           /\ \A k \in InodeIds(s) \ {d} : Keeps(s, t, k)
           /\ entries(t, d) = e
           /\ Used(t) = Used(s)
<1>1. d \in InodeIds(s) /\ s[d].type = "dir"
  BY DEF DirIds
<1>2. s[d].id \in Ids /\ s[d].id \notin InodeIds(s) /\ s[s[d].id] \in Listings
  BY <1>1, DataTypes
<1>3. Listing(e) \in Listings /\ Listing(e).kind = "listing" /\ Listing(e).ent = e
  BY DEF Listing, Listings
<1>4. t \in Stores /\ t[s[d].id] = Listing(e)
      /\ \A k \in Ids \ {s[d].id} : t[k] = s[k]
  BY <1>2, <1>3 DEF Wired, Stores, Relisted
<1>5. InodeIds(t) = InodeIds(s) /\ \A n \in InodeIds(s) : t[n] = s[n]
  BY <1>2, <1>3, <1>4 DEF InodeIds
<1>6. DirIds(t) = DirIds(s)
  BY <1>5 DEF DirIds
<1>7. ASSUME NEW n \in InodeIds(s), n # d PROVE t[s[n].id] = s[s[n].id]
  <2>1. s[n].id # s[d].id /\ s[n].id \in Ids
    BY <1>1, <1>7, DataTypes DEF Wired
  <2> QED BY <1>4, <2>1
<1>8. entries(t, d) = e
  BY <1>1, <1>3, <1>4, <1>5 DEF entries
<1>9. Wired(t)
  <2>1. ASSUME NEW n \in InodeIds(t) PROVE t[t[n].id].kind = KindOf(t[n].type)
    <3>1. CASE n = d
      BY <1>1, <1>3, <1>4, <1>5, <3>1 DEF KindOf
    <3>2. CASE n # d
      BY <1>5, <1>7, <3>2 DEF Wired
    <3> QED BY <3>1, <3>2
  <2> QED BY <1>4, <1>5, <2>1 DEF Wired
<1>10. Used(t) = Used(s)
  BY <1>2, <1>3, <1>4 DEF Used, Listings
<1> QED BY <1>5, <1>6, <1>7, <1>8, <1>9, <1>10 DEF Keeps

(* A node is deleted, with its data. *)
LEMMA NodeDeleted ==
    ASSUME NEW s, Wired(s), NEW n \in InodeIds(s), NEW t,
           t = Gone(s, n)
    PROVE  /\ Wired(t)
           /\ InodeIds(t) = InodeIds(s) \ {n} /\ DirIds(t) = DirIds(s) \ {n}
           /\ \A k \in InodeIds(s) \ {n} : Keeps(s, t, k)
           /\ Used(t) = Used(s) \ {n, s[n].id}
<1>1. n \in Ids /\ s[n].id \in Ids /\ s[n].id \notin InodeIds(s) /\ s[n].id # n
  BY DataTypes
<1>2. Absent.kind = "absent"
  BY DEF Absent
<1>3. t \in Stores /\ t[n] = Absent /\ t[s[n].id] = Absent
      /\ \A k \in Ids \ {n, s[n].id} : t[k] = s[k]
  BY <1>1 DEF Wired, Stores, Gone
<1>4. InodeIds(t) = InodeIds(s) \ {n} /\ \A m \in InodeIds(s) \ {n} : t[m] = s[m]
  BY <1>1, <1>2, <1>3 DEF InodeIds
<1>5. DirIds(t) = DirIds(s) \ {n}
  BY <1>4 DEF DirIds
<1>6. ASSUME NEW m \in InodeIds(s) \ {n} PROVE t[s[m].id] = s[s[m].id]
  <2>1. s[m].id # s[n].id /\ s[m].id \in Ids /\ s[m].id # n
    BY <1>6, DataTypes DEF Wired
  <2> QED BY <1>3, <2>1
<1>7. Wired(t)
  BY <1>3, <1>4, <1>6, FewerNodes DEF Keeps
<1>8. Used(t) = Used(s) \ {n, s[n].id}
  BY <1>1, <1>2, <1>3 DEF Used
<1> QED BY <1>4, <1>5, <1>6, <1>7, <1>8 DEF Keeps

(* A node is made under unused keys. *)
LEMMA NodeMade ==
    ASSUME NEW s, Wired(s), NEW i \in Ids \ Used(s), NEW j \in Ids \ Used(s), i # j,
           NEW data \in Listings \union Blobs, NEW inode \in Inodes,
           inode.id = i, data.kind = KindOf(inode.type), NEW t,
           t = Made(s, i, j, data, inode)
    PROVE  /\ Wired(t)
           /\ InodeIds(t) = InodeIds(s) \union {j}
           /\ \A k \in InodeIds(s) : Keeps(s, t, k)
           /\ t[j] = inode /\ t[i] = data
           /\ Used(t) = Used(s) \union {i, j}
<1>1. inode.kind = "inode" /\ data.kind # "inode" /\ data.kind # "absent"
  BY DEF Inodes, Listings, Blobs
<1>2. t \in Stores /\ t[i] = data /\ t[j] = inode /\ \A k \in Ids \ {i, j} : t[k] = s[k]
  BY DEF Wired, Stores, Made
<1>3. InodeIds(s) \subseteq Used(s)
  BY DEF InodeIds, Used
<1>4. InodeIds(t) = InodeIds(s) \union {j} /\ \A n \in InodeIds(s) : t[n] = s[n]
  <2>1. i \notin InodeIds(s) /\ i \notin InodeIds(t) /\ j \notin InodeIds(s) /\ j \in InodeIds(t)
    BY <1>1, <1>2, <1>3 DEF InodeIds
  <2>2. \A n \in Ids \ {i, j} : n \in InodeIds(t) <=> n \in InodeIds(s)
    BY <1>2 DEF InodeIds
  <2>3. InodeIds(s) \subseteq Ids /\ InodeIds(t) \subseteq Ids
    BY DEF InodeIds
  <2> QED BY <1>2, <2>1, <2>2, <2>3
<1>5. ASSUME NEW n \in InodeIds(s)
      PROVE  s[n].id \in Used(s) /\ t[s[n].id] = s[s[n].id]
  <2>1. s[n].id \in Ids /\ s[s[n].id].kind # "absent"
    BY DataTypes DEF Wired, KindOf
  <2>2. s[n].id \in Used(s)
    BY <2>1 DEF Used
  <2> QED BY <1>2, <2>1, <2>2
<1>6. Wired(t)
  <2>0. ASSUME NEW n \in InodeIds(t), n # j
        PROVE  /\ n \in InodeIds(s) /\ t[n] = s[n] /\ t[t[n].id] = s[s[n].id]
               /\ t[n].id # i
    BY <1>4, <1>5, <2>0
  <2>1. ASSUME NEW n \in InodeIds(t) PROVE t[t[n].id].kind = KindOf(t[n].type)
    <3>1. CASE n = j
      BY <1>2, <3>1
    <3>2. CASE n # j
      BY <2>0, <3>2 DEF Wired
    <3> QED BY <3>1, <3>2
  <2>2. ASSUME NEW m \in InodeIds(t), NEW n \in InodeIds(t), t[m].id = t[n].id PROVE m = n
    <3>1. t[j].id = i
      BY <1>2
    <3>2. CASE m # j /\ n # j
      BY <2>0, <2>2, <3>2 DEF Wired
    <3> QED BY <2>0, <2>2, <3>1, <3>2
  <2> QED BY <1>2, <2>1, <2>2 DEF Wired
<1>7. Used(t) = Used(s) \union {i, j}
  BY <1>1, <1>2 DEF Used
<1> QED BY <1>2, <1>4, <1>5, <1>6, <1>7 DEF Keeps

(* The same entries in the same directories. *)
LEMMA SameLinks ==
    ASSUME NEW s, Linked(s), NEW t, InodeIds(t) = InodeIds(s), DirIds(t) = DirIds(s),
           \A d \in DirIds(s) : entries(t, d) = entries(s, d)
    PROVE  Linked(t)
BY DEF Linked

(* An entry more, to a new node. *)
LEMMA LinkMore ==
    ASSUME NEW s, Linked(s), NEW t, NEW d \in DirIds(s), NEW f \in Names,
           NEW j \in Ids \ InodeIds(s), InodeIds(t) = InodeIds(s) \union {j},
           DirIds(t) \in {DirIds(s), DirIds(s) \union {j}},
           \A x \in DirIds(s), h \in AllNames :
                entries(t, x)[h] = IF x = d /\ h = f THEN j ELSE entries(s, x)[h],
           j \in DirIds(t) => entries(t, j) = NoEntries
    PROVE  Linked(t)
<1>1. \A h \in AllNames : NoEntries[h] = NoEntry
  BY DEF NoEntries, AllNames
<1>2. j # NoEntry
  BY IdsAssumption
<1>3. ASSUME NEW x \in DirIds(t), NEW h \in AllNames, entries(t, x)[h] # NoEntry
      PROVE  /\ x \in DirIds(s)
             /\ \/ x = d /\ h = f /\ entries(t, x)[h] = j
                \/ /\ ~(x = d /\ h = f) /\ entries(t, x)[h] = entries(s, x)[h]
                   /\ entries(s, x)[h] # NoEntry
  BY <1>1, <1>3
<1>4. ASSUME NEW x \in DirIds(s), NEW h \in AllNames, entries(s, x)[h] # NoEntry
      PROVE  h \in Names /\ entries(s, x)[h] \in InodeIds(s) \ {Root} /\ entries(s, x)[h] # j
  BY <1>4 DEF Linked
<1>5. Root \in DirIds(t) /\ Root \in InodeIds(s)
  BY DEF Linked, DirIds
<1>6. ASSUME NEW x \in DirIds(t), NEW h \in AllNames, entries(t, x)[h] # NoEntry
      PROVE  h \in Names /\ entries(t, x)[h] \in InodeIds(t) \ {Root}
  BY <1>3, <1>4, <1>5, <1>6
<1>7. ASSUME NEW x \in DirIds(t), NEW y \in DirIds(t), NEW h \in AllNames, NEW g \in AllNames,
             entries(t, x)[h] # NoEntry, entries(t, x)[h] = entries(t, y)[g]
      PROVE  x = y /\ h = g
  BY <1>3, <1>4, <1>7 DEF Linked
<1> QED BY <1>5, <1>6, <1>7 DEF Linked

(* An entry less, and its node. *)
LEMMA LinkLess ==
    ASSUME NEW s, Linked(s), NEW t, NEW d \in DirIds(s), NEW f \in AllNames, NEW n,
           n = entries(s, d)[f], n # NoEntry,
           InodeIds(t) = InodeIds(s) \ {n}, DirIds(t) = DirIds(s) \ {n},
           \A x \in DirIds(t), h \in AllNames :
                entries(t, x)[h] = IF x = d /\ h = f THEN NoEntry ELSE entries(s, x)[h]
    PROVE  Linked(t)
<1>1. n \in InodeIds(s) \ {Root}
  BY DEF Linked
<1>2. Root \in DirIds(t)
  BY <1>1 DEF Linked
<1>3. ASSUME NEW x \in DirIds(t), NEW h \in AllNames, entries(t, x)[h] # NoEntry
      PROVE  /\ x \in DirIds(s) /\ ~(x = d /\ h = f)
             /\ entries(t, x)[h] = entries(s, x)[h]
  BY <1>3
<1>4. ASSUME NEW x \in DirIds(t), NEW h \in AllNames, entries(t, x)[h] # NoEntry
      PROVE  h \in Names /\ entries(t, x)[h] \in InodeIds(t) \ {Root}
  <2>1. h \in Names /\ entries(s, x)[h] \in InodeIds(s) \ {Root}
    BY <1>3, <1>4 DEF Linked
  <2>2. entries(s, x)[h] # n
    BY <1>3, <1>4 DEF Linked
  <2> QED BY <1>3, <1>4, <2>1, <2>2
<1>5. ASSUME NEW x \in DirIds(t), NEW y \in DirIds(t), NEW h \in AllNames, NEW g \in AllNames,
             entries(t, x)[h] # NoEntry, entries(t, x)[h] = entries(t, y)[g]
      PROVE  x = y /\ h = g
  BY <1>3, <1>5 DEF Linked
<1> QED BY <1>2, <1>4, <1>5 DEF Linked

(* A file gets new bytes, and its inode new values. *)
LEMMA FilePut ==
    ASSUME NEW s, Sound(s), NEW n \in InodeIds(s), s[n].type = "file",
           NEW data \in Blobs, NEW inode \in Inodes, inode.id = s[n].id, inode.type = "file",
           NEW t, t = Refilled(s, n, data, inode)
    PROVE  /\ Sound(t)
           /\ InodeIds(t) = InodeIds(s) /\ DirIds(t) = DirIds(s) /\ Used(t) = Used(s)
           /\ \A k \in InodeIds(s) \ {n} : Keeps(s, t, k)
           /\ t[n] = inode /\ t[t[n].id] = data
<1>1. /\ Wired(s) /\ Linked(s) /\ s \in Stores
      /\ n \in Ids /\ s[n].id \in Ids /\ s[n].id \notin InodeIds(s) /\ s[n].id # n
  BY DataTypes DEF Sound, Wired
<1>2. inode.kind = "inode" /\ data.kind = "bytes"
  BY DEF Inodes, Blobs
<1>3. t \in Stores /\ t[n] = inode /\ t[s[n].id] = data
      /\ \A k \in Ids \ {n, s[n].id} : t[k] = s[k]
  BY <1>1 DEF Stores, Refilled
<1>4. InodeIds(t) = InodeIds(s) /\ \A m \in InodeIds(s) \ {n} : t[m] = s[m]
  <2>1. \A k \in Ids : k \in InodeIds(t) <=> k \in InodeIds(s)
    BY <1>1, <1>2, <1>3 DEF InodeIds
  <2> QED BY <1>1, <1>3, <2>1 DEF InodeIds
<1>5. Used(t) = Used(s)
  <2>1. s[s[n].id].kind = "bytes" /\ s[n].kind = "inode"
    BY <1>1 DEF Wired, KindOf, InodeIds
  <2> QED BY <1>1, <1>2, <1>3, <2>1 DEF Used
<1>6. DirIds(t) = DirIds(s)
  <2>1. n \notin DirIds(s) /\ n \notin DirIds(t)
    BY <1>3 DEF DirIds
  <2> QED BY <1>4, <2>1 DEF DirIds
<1>7. ASSUME NEW m \in InodeIds(s) \ {n} PROVE t[s[m].id] = s[s[m].id]
  <2>1. s[m].id # s[n].id /\ s[m].id \in Ids /\ s[m].id # n
    BY <1>1, <1>7, DataTypes DEF Wired
  <2> QED BY <1>3, <2>1
<1>8. \A k \in InodeIds(s) \ {n} : Keeps(s, t, k)
  BY <1>4, <1>7 DEF Keeps
<1>9. Wired(t)
  <2>1. ASSUME NEW m \in InodeIds(t)
        PROVE  t[m].id = s[m].id /\ t[m].type = s[m].type /\ t[t[m].id].kind = s[s[m].id].kind
    <3>1. CASE m = n
      BY <1>1, <1>2, <1>3, <3>1 DEF Wired, KindOf
    <3>2. CASE m # n
      BY <1>4, <1>7, <3>2
    <3> QED BY <3>1, <3>2
  <2>2. ASSUME NEW l \in InodeIds(t), NEW m \in InodeIds(t), t[l].id = t[m].id PROVE l = m
    BY <1>1, <1>4, <2>1, <2>2 DEF Wired
  <2>3. ASSUME NEW m \in InodeIds(t) PROVE t[t[m].id].kind = KindOf(t[m].type)
    BY <1>1, <1>4, <2>1 DEF Wired
  <2> QED BY <1>3, <2>2, <2>3 DEF Wired
<1>10. Linked(t)
  <2>1. n \notin DirIds(s)
    BY DEF DirIds
  <2>2. \A d \in DirIds(s) : entries(t, d) = entries(s, d)
    BY <1>8, <2>1, KeepsEntries DEF DirIds
  <2> QED BY <1>1, <1>4, <1>6, <2>2, SameLinks
<1> QED BY <1>1, <1>3, <1>4, <1>5, <1>6, <1>8, <1>9, <1>10 DEF Sound

-----------------------------------------------------------------------------
(* The three ways a directory tree changes.  Each is the writes the code   *)
(* makes, in its order, and what becomes of every entry of every directory.*)

(* commitNewFile *)
Added(s, d, f, i, j, data, inode) ==
    Relisted(Made(s, i, j, data, inode), d, Entered(s, d, f, j))

Addable(s, d, f, i, j, data, inode) ==
    /\ d \in DirIds(s) /\ f \in Names /\ entries(s, d)[f] = NoEntry
    /\ i \in Ids \ Used(s) /\ j \in Ids \ Used(s) /\ i # j
    /\ data \in Listings \union Blobs /\ inode \in Inodes
    /\ inode.id = i /\ data.kind = KindOf(inode.type)
    /\ inode.type = "dir" => data = Listing(NoEntries)

LEMMA NodeAdded ==
    ASSUME NEW s, Sound(s), NEW d, NEW f, NEW i, NEW j, NEW data, NEW inode,
           Addable(s, d, f, i, j, data, inode),
           NEW t, t = Added(s, d, f, i, j, data, inode)
    PROVE  /\ Sound(t)
           /\ InodeIds(t) = InodeIds(s) \union {j} /\ Used(t) = Used(s) \union {i, j}
           /\ \A n \in InodeIds(s) : t[n] = s[n]
           /\ \A k \in InodeIds(s) \ {d} : Keeps(s, t, k)
           /\ t[j] = inode /\ t[i] = data /\ j \notin InodeIds(s)
           /\ DirIds(t) = DirIds(s) \union (IF inode.type = "dir" THEN {j} ELSE {})
           /\ \A x \in DirIds(s), h \in AllNames :
                entries(t, x)[h] = IF x = d /\ h = f THEN j ELSE entries(s, x)[h]
           /\ inode.type = "dir" => entries(t, j) = NoEntries
<1>0. /\ d \in DirIds(s) /\ f \in Names /\ entries(s, d)[f] = NoEntry
      /\ i \in Ids \ Used(s) /\ j \in Ids \ Used(s) /\ i # j
      /\ data \in Listings \union Blobs /\ inode \in Inodes
      /\ inode.id = i /\ data.kind = KindOf(inode.type)
      /\ inode.type = "dir" => data = Listing(NoEntries)
  BY DEF Addable
<1> DEFINE r == Made(s, i, j, data, inode)
           e == Entered(s, d, f, j)
<1> USE <1>0
<1>1. Wired(s) /\ Linked(s) /\ d \in InodeIds(s) /\ s[d].type = "dir"
  BY DEF Sound, DirIds
<1>2. /\ Wired(r)
      /\ InodeIds(r) = InodeIds(s) \union {j}
      /\ \A k \in InodeIds(s) : Keeps(s, r, k)
      /\ r[j] = inode /\ r[i] = data
      /\ Used(r) = Used(s) \union {i, j}
  BY <1>1, NodeMade
<1>3. entries(s, d) \in Entries /\ e \in Entries
      /\ \A h \in AllNames : e[h] = IF h = f THEN j ELSE entries(s, d)[h]
  BY <1>1, DataTypes DEF Entries, AllNames, Entered
<1> HIDE DEF r, e
<1>4. d \in DirIds(r) /\ r[d] = s[d]
  BY <1>1, <1>2 DEF Keeps, DirIds
<1>5. /\ Wired(t)
      /\ InodeIds(t) = InodeIds(r) /\ DirIds(t) = DirIds(r)
      /\ \A n \in InodeIds(r) : t[n] = r[n]
      /\ \A k \in InodeIds(r) \ {d} : Keeps(r, t, k)
      /\ entries(t, d) = e
      /\ Used(t) = Used(r)
  <2>1. t = Relisted(r, d, e)
    BY DEF r, e, Added
  <2> QED BY <1>2, <1>3, <1>4, <2>1, ListingPut
<1>6. j \notin InodeIds(s) /\ d # j
  BY <1>1 DEF Used, InodeIds
<1>7. \A n \in InodeIds(s) : t[n] = s[n]
  BY <1>2, <1>5 DEF Keeps
<1>8. \A k \in InodeIds(s) \ {d} : Keeps(s, t, k)
  BY <1>2, <1>5 DEF Keeps
<1>9. t[j] = inode /\ t[i] = data
  BY <1>2, <1>5, <1>6 DEF Keeps
<1>10. DirIds(t) = DirIds(s) \union (IF inode.type = "dir" THEN {j} ELSE {})
  BY <1>2, <1>5, <1>7, <1>9 DEF DirIds
<1>11. inode.type = "dir" => entries(t, j) = NoEntries
  BY <1>9 DEF entries, Listing
<1>12. ASSUME NEW x \in DirIds(s), NEW h \in AllNames
       PROVE  entries(t, x)[h] = IF x = d /\ h = f THEN j ELSE entries(s, x)[h]
  <2>1. CASE x = d
    BY <1>3, <1>5, <2>1
  <2>2. CASE x # d
    <3>1. entries(t, x) = entries(s, x)
      BY <1>8, <2>2, KeepsEntries DEF DirIds
    <3> QED BY <2>2, <3>1
  <2> QED BY <2>1, <2>2
<1>13. Linked(t)
  <2>1. DirIds(t) \in {DirIds(s), DirIds(s) \union {j}}
        /\ (j \in DirIds(t) => inode.type = "dir")
    BY <1>6, <1>10 DEF DirIds
  <2> QED BY <1>1, <1>2, <1>5, <1>6, <1>11, <1>12, <2>1, LinkMore
<1> QED BY <1>2, <1>5, <1>6, <1>7, <1>8, <1>9, <1>10, <1>11, <1>12, <1>13 DEF Sound

(* removeEntry *)
TakenOut(s, d, f, n) == Relisted(Gone(s, n), d, Entered(s, d, f, NoEntry))

LEMMA NodeRemoved ==
    ASSUME NEW s, Sound(s), NEW d \in DirIds(s), NEW f \in AllNames, NEW n,
           n = entries(s, d)[f], n # NoEntry, n # d, NEW t,
           t = TakenOut(s, d, f, n)
    PROVE  /\ Sound(t)
           /\ n \in InodeIds(s) \ {Root}
           /\ InodeIds(t) = InodeIds(s) \ {n} /\ DirIds(t) = DirIds(s) \ {n}
           /\ Used(t) = Used(s) \ {n, s[n].id}
           /\ \A m \in InodeIds(t) : t[m] = s[m]
           /\ \A m \in InodeIds(s) \ {d, n} : Keeps(s, t, m)
           /\ \A x \in DirIds(t), h \in AllNames :
                entries(t, x)[h] = IF x = d /\ h = f THEN NoEntry ELSE entries(s, x)[h]
<1> DEFINE r == Gone(s, n)
           e == Entered(s, d, f, NoEntry)
<1>1. Wired(s) /\ Linked(s) /\ d \in InodeIds(s) /\ n \in InodeIds(s) \ {Root}
  BY DEF Sound, Linked, DirIds
<1>r. r = Gone(s, n) /\ Wired(s) /\ n \in InodeIds(s)
  BY <1>1
<1>e. e = Entered(s, d, f, NoEntry)
  OBVIOUS
<1> HIDE DEF r, e
<1>2. /\ Wired(r)
      /\ InodeIds(r) = InodeIds(s) \ {n} /\ DirIds(r) = DirIds(s) \ {n}
      /\ \A k \in InodeIds(s) \ {n} : Keeps(s, r, k)
      /\ Used(r) = Used(s) \ {n, s[n].id}
  BY ONLY <1>r, NodeDeleted
<1>3. entries(s, d) \in Entries /\ e \in Entries
      /\ \A h \in AllNames : e[h] = IF h = f THEN NoEntry ELSE entries(s, d)[h]
  BY <1>1, <1>e, DataTypes DEF Entries, AllNames, DirIds, Entered
<1>4. d \in DirIds(r) /\ r[d] = s[d]
  BY <1>1, <1>2 DEF Keeps
<1>5. /\ Wired(t)
      /\ InodeIds(t) = InodeIds(r) /\ DirIds(t) = DirIds(r)
      /\ \A m \in InodeIds(r) : t[m] = r[m]
      /\ \A k \in InodeIds(r) \ {d} : Keeps(r, t, k)
      /\ entries(t, d) = e
      /\ Used(t) = Used(r)
  <2>1. t = Relisted(r, d, e)
    BY <1>r, <1>e DEF TakenOut
  <2> QED BY <1>2, <1>3, <1>4, <2>1, ListingPut
<1>6. \A m \in InodeIds(t) : t[m] = s[m]
  BY <1>2, <1>5 DEF Keeps
<1>7. \A m \in InodeIds(s) \ {d, n} : Keeps(s, t, m)
  BY <1>2, <1>5 DEF Keeps
<1>8. ASSUME NEW x \in DirIds(t), NEW h \in AllNames
      PROVE  entries(t, x)[h] = IF x = d /\ h = f THEN NoEntry ELSE entries(s, x)[h]
  <2>1. CASE x = d
    BY <1>3, <1>5, <2>1
  <2>2. CASE x # d
    <3>1. entries(t, x) = entries(s, x)
      BY <1>2, <1>5, <1>7, <2>2, KeepsEntries DEF DirIds
    <3> QED BY <2>2, <3>1
  <2> QED BY <2>1, <2>2
<1>9. Linked(t)
  BY <1>1, <1>2, <1>5, <1>8, LinkLess
<1> QED BY <1>1, <1>2, <1>5, <1>6, <1>7, <1>8, <1>9 DEF Sound

(* An entry that moves, over another it may replace. *)
LEMMA LinkMoved ==
    ASSUME NEW s, Linked(s), NEW t, NEW d \in DirIds(s), NEW f \in AllNames,
           NEW e \in DirIds(s), NEW g \in Names, NEW n, n = entries(s, d)[f], n # NoEntry,
           NEW target, target = IF d = e /\ f = g THEN NoEntry ELSE entries(s, e)[g],
           target \notin DirIds(s),
           InodeIds(t) = InodeIds(s) \ {target}, DirIds(t) = DirIds(s),
           \A x \in DirIds(s), h \in AllNames :
                entries(t, x)[h] = IF x = e /\ h = g THEN n
                                   ELSE IF x = d /\ h = f THEN NoEntry ELSE entries(s, x)[h]
    PROVE  Linked(t)
<1>1. n \in InodeIds(s) \ {Root} /\ Root \in InodeIds(s) /\ g \in AllNames
  BY DEF Linked, DirIds, AllNames
<1>2. n # target
  BY <1>1 DEF Linked
<1>3. ASSUME NEW x \in DirIds(t), NEW h \in AllNames, entries(t, x)[h] # NoEntry
      PROVE  \/ x = e /\ h = g /\ entries(t, x)[h] = n
             \/ /\ ~(x = e /\ h = g) /\ ~(x = d /\ h = f)
                /\ entries(t, x)[h] = entries(s, x)[h]
  BY <1>3
<1>4. ASSUME NEW x \in DirIds(s), NEW h \in AllNames, entries(s, x)[h] # NoEntry
      PROVE  /\ h \in Names /\ entries(s, x)[h] \in InodeIds(s) \ {Root}
             /\ entries(s, x)[h] = n => x = d /\ h = f
             /\ entries(s, x)[h] = target => x = e /\ h = g
  BY <1>1, <1>4 DEF Linked
<1>5. Root \in DirIds(t)
  BY DEF Linked
<1>6. ASSUME NEW x \in DirIds(t), NEW h \in AllNames, entries(t, x)[h] # NoEntry
      PROVE  h \in Names /\ entries(t, x)[h] \in InodeIds(t) \ {Root}
  BY <1>1, <1>2, <1>3, <1>4, <1>6
<1>7. ASSUME NEW x \in DirIds(t), NEW y \in DirIds(t), NEW h \in AllNames, NEW k \in AllNames,
             entries(t, x)[h] # NoEntry, entries(t, x)[h] = entries(t, y)[k]
      PROVE  x = y /\ h = k
  BY <1>3, <1>4, <1>7 DEF Linked
<1> QED BY <1>5, <1>6, <1>7 DEF Linked

(* renameSync *)
Unlinked(s, d, f, e) == IF d = e THEN Entered(s, d, f, NoEntry) ELSE entries(s, e)
Cleared(s, n)        == IF n = NoEntry THEN s ELSE Gone(s, n)
Target(s, d, f, e, g) == Unlinked(s, d, f, e)[g]
Rehung(s, d, f, e, g) ==
    Relisted(Relisted(Cleared(s, Target(s, d, f, e, g)), d, Entered(s, d, f, NoEntry)),
             e, [Unlinked(s, d, f, e) EXCEPT ![g] = entries(s, d)[f]])

LEMMA NodeMoved ==
    ASSUME NEW s, Sound(s), NEW d \in DirIds(s), NEW f \in AllNames,
           NEW e \in DirIds(s), NEW g \in Names, entries(s, d)[f] # NoEntry,
           NEW target, target = Target(s, d, f, e, g),
           target # NoEntry => s[target].type = "file",
           NEW t, t = Rehung(s, d, f, e, g)
    PROVE  /\ Sound(t)
           /\ entries(s, d)[f] \in InodeIds(t) /\ target = (IF d = e /\ f = g THEN NoEntry ELSE entries(s, e)[g])
           /\ InodeIds(t) = InodeIds(s) \ {target} /\ DirIds(t) = DirIds(s)
           /\ target = NoEntry => Used(t) = Used(s)
           /\ target # NoEntry => Used(t) = Used(s) \ {target, s[target].id}
           /\ \A m \in InodeIds(t) : t[m] = s[m]
           /\ \A m \in InodeIds(t) \ {d, e} : Keeps(s, t, m)
           /\ \A x \in DirIds(s), h \in AllNames :
                entries(t, x)[h] = IF x = e /\ h = g THEN entries(s, d)[f]
                                   ELSE IF x = d /\ h = f THEN NoEntry ELSE entries(s, x)[h]
<1> DEFINE n == entries(s, d)[f]
           c == Cleared(s, target)
           old == Entered(s, d, f, NoEntry)
           b == Relisted(c, d, old)
           new == [Unlinked(s, d, f, e) EXCEPT ![g] = entries(s, d)[f]]
<1>0. /\ c = Cleared(s, target) /\ b = Relisted(c, d, old)
      /\ old = Entered(s, d, f, NoEntry)
      /\ new = [Unlinked(s, d, f, e) EXCEPT ![g] = n]
      /\ t = Relisted(b, e, new)
  BY DEF Rehung
<1> n = entries(s, d)[f] /\ n # NoEntry
  OBVIOUS
<1> HIDE DEF n, c, old, b, new
<1>1. /\ Wired(s) /\ Linked(s) /\ g \in AllNames
      /\ d \in InodeIds(s) /\ s[d].type = "dir" /\ e \in InodeIds(s) /\ s[e].type = "dir"
  BY DEF Sound, DirIds, AllNames
<1>2. entries(s, d) \in Entries /\ entries(s, e) \in Entries
      /\ old \in Entries
      /\ \A h \in AllNames : old[h] = IF h = f THEN NoEntry ELSE entries(s, d)[h]
  <2>1. entries(s, d) \in Entries /\ entries(s, e) \in Entries
    BY <1>1, DataTypes
  <2> QED BY <1>0, <2>1 DEF Entries, AllNames, Entered
<1>3. /\ n \in Ids
      /\ new \in Entries
      /\ \A h \in AllNames : new[h] = IF h = g THEN n ELSE IF d = e THEN old[h] ELSE entries(s, e)[h]
  <2>1. n \in Ids
    BY <1>1 DEF Linked, InodeIds
  <2>2. Unlinked(s, d, f, e) \in Entries
        /\ Unlinked(s, d, f, e) = IF d = e THEN old ELSE entries(s, e)
    BY <1>0, <1>2 DEF Unlinked
  <2>3. new \in Entries
    BY <1>0, <2>1, <2>2 DEF Entries, AllNames
  <2> QED BY <1>0, <2>1, <2>2, <2>3 DEF Entries, AllNames
<1>4. target = IF d = e /\ f = g THEN NoEntry ELSE entries(s, e)[g]
  BY <1>0, <1>1, <1>2 DEF Unlinked, Target
<1>5. target # NoEntry => target \in InodeIds(s)
  BY <1>1, <1>4 DEF Linked
<1>6. NoEntry \notin InodeIds(s) /\ target \notin DirIds(s)
  BY <1>5, IdsAssumption DEF InodeIds, DirIds
<1>7. /\ Wired(c)
      /\ InodeIds(c) = InodeIds(s) \ {target} /\ DirIds(c) = DirIds(s)
      /\ \A k \in InodeIds(c) : Keeps(s, c, k)
      /\ target = NoEntry => Used(c) = Used(s)
      /\ target # NoEntry => Used(c) = Used(s) \ {target, s[target].id}
  <2>1. CASE target = NoEntry
    <3>1. c = s
      BY <1>0, <2>1 DEF Cleared
    <3> QED BY <1>1, <1>6, <2>1, <3>1 DEF Keeps
  <2>2. CASE target # NoEntry
    <3>1. c = Gone(s, target)
      BY <1>0, <2>2 DEF Cleared
    <3>2. Wired(s) /\ target \in InodeIds(s)
      BY <1>1, <1>5, <2>2
    <3>3. /\ Wired(c)
          /\ InodeIds(c) = InodeIds(s) \ {target} /\ DirIds(c) = DirIds(s) \ {target}
          /\ \A k \in InodeIds(s) \ {target} : Keeps(s, c, k)
          /\ Used(c) = Used(s) \ {target, s[target].id}
      BY ONLY <3>1, <3>2, NodeDeleted
    <3> QED BY <1>6, <2>2, <3>3
  <2> QED BY <2>1, <2>2
<1>8. d \in DirIds(c) /\ e \in DirIds(c) /\ c[d] = s[d] /\ c[e] = s[e]
  BY <1>1, <1>6, <1>7 DEF Keeps
<1>9. /\ Wired(b)
      /\ InodeIds(b) = InodeIds(c) /\ DirIds(b) = DirIds(c)
      /\ \A m \in InodeIds(c) : b[m] = c[m]
      /\ \A k \in InodeIds(c) \ {d} : Keeps(c, b, k)
      /\ entries(b, d) = old
      /\ Used(b) = Used(c)
  <2>1. Wired(c) /\ d \in DirIds(c) /\ old \in Entries /\ b = Relisted(c, d, old)
    BY <1>0, <1>2, <1>7, <1>8
  <2> QED BY ONLY <2>1, ListingPut
<1>10. /\ Wired(t)
       /\ InodeIds(t) = InodeIds(b) /\ DirIds(t) = DirIds(b)
       /\ \A m \in InodeIds(b) : t[m] = b[m]
       /\ \A k \in InodeIds(b) \ {e} : Keeps(b, t, k)
       /\ entries(t, e) = new
       /\ Used(t) = Used(b)
  <2>1. Wired(b) /\ e \in DirIds(b) /\ new \in Entries /\ t = Relisted(b, e, new)
    BY <1>0, <1>3, <1>8, <1>9
  <2> QED BY ONLY <2>1, ListingPut
<1>11. \A m \in InodeIds(t) : t[m] = s[m]
  BY <1>7, <1>9, <1>10 DEF Keeps
<1>12. \A m \in InodeIds(t) \ {d, e} : Keeps(s, t, m)
  BY <1>7, <1>9, <1>10 DEF Keeps
<1>13. ASSUME NEW x \in DirIds(s), NEW h \in AllNames
       PROVE  entries(t, x)[h] = IF x = e /\ h = g THEN n
                                 ELSE IF x = d /\ h = f THEN NoEntry ELSE entries(s, x)[h]
  <2>1. CASE x = e
    BY <1>2, <1>3, <1>10, <2>1
  <2>2. CASE x # e /\ x = d
    <3>1. d \in DirIds(b) /\ d \in InodeIds(b) \ {e}
      BY <1>7, <1>8, <1>9, <2>2 DEF DirIds
    <3>2. entries(t, d) = old
      BY <1>9, <1>10, <3>1, KeepsEntries
    <3> QED BY <1>2, <2>2, <3>2
  <2>3. CASE x # e /\ x # d
    <3>1. x \in InodeIds(t) \ {d, e}
      BY <1>7, <1>9, <1>10, <2>3 DEF DirIds
    <3>2. entries(t, x) = entries(s, x)
      BY <1>12, <3>1, KeepsEntries
    <3> QED BY <2>3, <3>2
  <2> QED BY <2>1, <2>2, <2>3
<1>14. InodeIds(t) = InodeIds(s) \ {target} /\ DirIds(t) = DirIds(s)
  BY <1>7, <1>9, <1>10
<1>15. Linked(t)
  BY <1>1, <1>4, <1>6, <1>13, <1>14, LinkMoved
<1>16. n \in InodeIds(t)
  <2>1. n \in InodeIds(s)
    BY <1>1 DEF Linked
  <2>2. n # target
    BY <1>1, <1>4 DEF Linked
  <2> QED BY <1>14, <2>1, <2>2
<1> QED BY <1>4, <1>7, <1>9, <1>10, <1>11, <1>12, <1>13, <1>14, <1>15, <1>16 DEF Sound

-----------------------------------------------------------------------------
(* Lookups.  Two walks take the same way as long as the names and the      *)
(* looks into directories on that way are the same.                        *)
LEMMA SameWalk ==
    ASSUME NEW s, NEW t, NEW p, NEW q, Len(p) \in Nat, Len(q) \in Nat,
           NEW k \in Nat, k <= Len(p), k <= Len(q),
           \A i \in 1 .. k :
                p[i] = q[i] /\ Child(t, Walk(s, p)[i - 1], p[i]) = Child(s, Walk(s, p)[i - 1], p[i])
    PROVE  \A i \in 0 .. k : Walk(t, q)[i] = Walk(s, p)[i]
<1> DEFINE v == Walk(s, p)
           w == Walk(t, q)
           Bad == {i \in 0 .. k : w[i] # v[i]}
<1>1. v = [i \in 0 .. Len(p) |-> IF i = 0 THEN Root ELSE Child(s, v[i - 1], p[i])]
  BY WalkEquation
<1>2. w = [i \in 0 .. Len(q) |-> IF i = 0 THEN Root ELSE Child(t, w[i - 1], q[i])]
  BY WalkEquation
<1>3. \A i \in 1 .. k : p[i] = q[i] /\ Child(t, v[i - 1], p[i]) = Child(s, v[i - 1], p[i])
  OBVIOUS
<1>4. Bad \in SUBSET Nat
  OBVIOUS
<1> HIDE DEF v, w
<1>5. ASSUME NEW m \in Bad, \A i \in Bad : m <= i PROVE FALSE
  <2>1. m \in 0 .. k /\ w[m] # v[m]
    OBVIOUS
  <2>2. m # 0
    BY <2>1, <1>1, <1>2
  <2>3. m - 1 \in 0 .. k /\ ~(m <= m - 1) /\ m \in 1 .. k
    BY <2>1, <2>2
  <2>4. w[m - 1] = v[m - 1]
    BY <2>3, <1>5
  <2> m \in 0 .. Len(p) /\ m \in 0 .. Len(q)
    BY <2>1
  <2>5. v[m] = Child(s, v[m - 1], p[m])
    BY <2>2, <1>1
  <2>6. w[m] = Child(t, w[m - 1], q[m])
    BY <2>2, <1>2
  <2> QED
    BY <2>1, <2>3, <2>4, <2>5, <2>6, <1>3
<1>6. Bad = {}
  <2> HIDE DEF Bad
  <2> QED
    BY <1>4, <1>5, LeastNat
<1> QED
  BY <1>6 DEF v, w

(* Finding a path is a look for its last name in the directory above it.   *)
LEMMA DirnameLess ==
    ASSUME NEW p \in Paths, p # <<>>
    PROVE  /\ Len(p) \in Nat \ {0} /\ dirname(p) \in Paths /\ Len(dirname(p)) = Len(p) - 1
           /\ basename(p) = p[Len(p)] /\ basename(p) \in Names
           /\ \A i \in 1 .. Len(p) - 1 : dirname(p)[i] = p[i]
           /\ p = Append(dirname(p), basename(p))
<1>1. p \in Seq(Names) /\ Len(p) \in Nat /\ Len(p) # 0
  BY DEF Paths
<1>2. dirname(p) = SubSeq(p, 1, Len(p) - 1) /\ basename(p) = p[Len(p)]
  BY DEF dirname, basename
<1>3. p = Append(SubSeq(p, 1, Len(p) - 1), p[Len(p)])
  BY <1>1
<1> QED
  BY <1>1, <1>2, <1>3 DEF Paths

LEMMA FindRoot == \A s : FindId(s, <<>>) = Root
<1> TAKE s
<1>1. Walk(s, <<>>) = [i \in 0 .. 0 |-> IF i = 0 THEN Root ELSE Child(s, Walk(s, <<>>)[i - 1], <<>>[i])]
  BY WalkEquation
<1> QED
  BY <1>1 DEF FindId

LEMMA FindStep ==
    ASSUME NEW s, NEW p \in Paths, p # <<>>
    PROVE  FindId(s, p) = Child(s, FindId(s, dirname(p)), basename(p))
<1> DEFINE q == dirname(p)
           n == Len(p)
<1>1. /\ n \in Nat \ {0} /\ Len(q) = n - 1 /\ basename(p) = p[n]
      /\ \A i \in 1 .. n - 1 : q[i] = p[i]
  BY DirnameLess
<1> HIDE DEF q
<1>2. \A i \in 0 .. n - 1 : Walk(s, p)[i] = Walk(s, q)[i]
  <2> DEFINE k == n - 1
  <2>1. /\ k \in Nat /\ k <= Len(p) /\ k <= Len(q) /\ Len(q) \in Nat /\ Len(p) \in Nat
        /\ \A i \in 1 .. k : p[i] = q[i]
    BY <1>1
  <2> HIDE DEF k, n
  <2>2. \A i \in 0 .. k : Walk(s, q)[i] = Walk(s, p)[i]
    BY <2>1, SameWalk
  <2> QED
    BY <2>2 DEF k
<1>3. Walk(s, p)[n] = Child(s, Walk(s, p)[n - 1], p[n])
  BY <1>1, WalkEquation
<1> QED
  BY <1>1, <1>2, <1>3 DEF FindId, q

(* In a sound store what is found is an inode, and listings are read from  *)
(* directories and nothing else.                                           *)
LEMMA SoundReads ==
    ASSUME NEW s, Sound(s), NEW n \in Ids \union Errors
    PROVE  /\ INodeError(s, n) = "ok" <=> n \in InodeIds(s)
           /\ ListingError(s, n) = "ok" <=> n \in DirIds(s)
<1>1. s \in Stores /\ Wired(s)
  BY DEF Sound, Wired
<1>2. INodeError(s, n) = "ok" <=> n \in InodeIds(s)
  BY IdsAssumption DEF INodeError, InodeIds, Errors
<1>3. ASSUME n \in DirIds(s) PROVE ListingError(s, n) = "ok"
  <2>1. n \in InodeIds(s) /\ s[n].type = "dir" /\ INodeError(s, n) = "ok"
    BY <1>2, <1>3 DEF DirIds
  <2>2. s[s[n].id].kind = "listing"
    BY <1>1, <2>1 DEF Wired, KindOf
  <2> QED
    BY <2>1, <2>2 DEF ListingError
<1>4. ASSUME ListingError(s, n) = "ok" PROVE n \in DirIds(s)
  <2>1. INodeError(s, n) = "ok"
    BY <1>4 DEF ListingError
  <2> QED
    BY <1>1, <1>2, <1>4, <2>1, ListingFacts DEF DirIds
<1> QED
  BY <1>2, <1>3, <1>4

LEMMA SoundChild ==
    ASSUME NEW s, Sound(s), NEW n \in Ids \union Errors, NEW f \in Names
    PROVE  /\ Child(s, n, f) \in Ids =>
                /\ n \in DirIds(s) /\ entries(s, n)[f] # NoEntry
                /\ Child(s, n, f) = entries(s, n)[f]
                /\ Child(s, n, f) \in InodeIds(s) \ {Root}
           /\ n \in DirIds(s) /\ entries(s, n)[f] # NoEntry =>
                Child(s, n, f) = entries(s, n)[f]
<1>1. ListingError(s, n) \in Errors \union {"ok"} /\ (ListingError(s, n) = "ok" <=> n \in DirIds(s))
  BY SoundReads, ListingFacts DEF Sound, Wired
<1>2. ASSUME Child(s, n, f) \in Ids
      PROVE  n \in DirIds(s) /\ entries(s, n)[f] # NoEntry /\ Child(s, n, f) = entries(s, n)[f]
  BY <1>1, <1>2, IdsAssumption DEF Child, Errors
<1>3. ASSUME n \in DirIds(s), entries(s, n)[f] # NoEntry
      PROVE  Child(s, n, f) = entries(s, n)[f] /\ Child(s, n, f) \in InodeIds(s) \ {Root}
  <2>1. Child(s, n, f) = entries(s, n)[f]
    BY <1>1, <1>3 DEF Child
  <2> QED
    BY <1>3, <2>1 DEF Sound, Linked, AllNames
<1> QED
  BY <1>2, <1>3

LEMMA SoundFind ==
    ASSUME NEW s, Sound(s), NEW p \in Paths
    PROVE  /\ FindId(s, p) \in InodeIds(s) \union Errors
           /\ FindId(s, p) \in Ids /\ p # <<>> =>
                /\ FindId(s, dirname(p)) \in DirIds(s)
                /\ entries(s, FindId(s, dirname(p)))[basename(p)] = FindId(s, p)
                /\ FindId(s, p) # Root
<1>1. s \in Stores /\ Root \in InodeIds(s)
  BY DEF Sound, Wired, Linked, DirIds
<1>2. CASE p = <<>>
  BY <1>1, <1>2, FindRoot
<1>3. CASE p # <<>>
  <2>1. /\ FindId(s, p) = Child(s, FindId(s, dirname(p)), basename(p))
        /\ dirname(p) \in Paths /\ basename(p) \in Names
    BY <1>3, FindStep, DirnameLess
  <2>2. FindId(s, p) \in Ids \union Errors /\ FindId(s, dirname(p)) \in Ids \union Errors
    BY <1>1, <2>1, FindType
  <2> QED
    BY <2>1, <2>2, SoundChild
<1> QED
  BY <1>2, <1>3

(* No node has two paths. *)
LEMMA FindUnique ==
    ASSUME NEW s, Sound(s), NEW p \in Paths, NEW q \in Paths,
           FindId(s, p) = FindId(s, q), FindId(s, p) \in Ids
    PROVE  p = q
<1> DEFINE Twice(a, b) == a # b /\ FindId(s, a) = FindId(s, b) /\ FindId(s, a) \in Ids
           Bad == {k \in Nat : \E a, b \in Paths : k = Len(a) /\ Twice(a, b)}
<1>1. ASSUME NEW m \in Bad, \A k \in Bad : m <= k PROVE FALSE
  <2>1. PICK a \in Paths, b \in Paths : m = Len(a) /\ Twice(a, b)
    OBVIOUS
  <2>2. a # <<>> /\ b # <<>>
    BY <2>1, SoundFind, FindRoot
  <2> DEFINE c == dirname(a)
             d == dirname(b)
  <2>3. /\ FindId(s, c) \in DirIds(s) /\ entries(s, FindId(s, c))[basename(a)] = FindId(s, a)
        /\ FindId(s, d) \in DirIds(s) /\ entries(s, FindId(s, d))[basename(b)] = FindId(s, b)
    BY <2>1, <2>2, SoundFind
  <2>4. /\ c \in Paths /\ Len(c) = m - 1 /\ a = Append(c, basename(a)) /\ basename(a) \in AllNames
        /\ d \in Paths /\ b = Append(d, basename(b)) /\ basename(b) \in AllNames
    BY <2>1, <2>2, DirnameLess DEF AllNames
  <2> HIDE DEF c, d
  <2>5. FindId(s, a) # NoEntry /\ FindId(s, a) = FindId(s, b)
    BY <2>1, IdsAssumption
  <2>6. FindId(s, c) = FindId(s, d) /\ basename(a) = basename(b)
    BY <2>3, <2>4, <2>5 DEF Sound, Linked
  <2>7. Twice(c, d)
    BY <2>1, <2>3, <2>4, <2>6 DEF DirIds, InodeIds
  <2>8. m - 1 \in Bad
    BY <2>4, <2>7
  <2> QED
    BY <2>8, <1>1
<1>2. Bad = {}
  <2>1. Bad \in SUBSET Nat
    OBVIOUS
  <2> HIDE DEF Bad
  <2> QED
    BY <2>1, <1>1, LeastNat
<1>3. Len(p) \in Nat
  BY DEF Paths
<1> QED
  BY <1>2, <1>3

LEMMA FindAppend ==
    ASSUME NEW s, Sound(s), NEW p \in Paths, FindId(s, p) \in DirIds(s), NEW f \in Names,
           entries(s, FindId(s, p))[f] # NoEntry
    PROVE  Append(p, f) \in Paths /\ FindId(s, Append(p, f)) = entries(s, FindId(s, p))[f]
<1> DEFINE q == Append(p, f)
<1>1. q \in Paths /\ q # <<>> /\ dirname(q) = p /\ basename(q) = f
  <2>1. p \in Seq(Names) /\ q \in Seq(Names) /\ Len(q) = Len(p) + 1 /\ q # <<>>
        /\ q[Len(q)] = f
    BY DEF Paths
  <2>2. SubSeq(q, 1, Len(q) - 1) = p
    BY <2>1
  <2> QED
    BY <2>1, <2>2 DEF Paths, dirname, basename
<1>2. FindId(s, q) = Child(s, FindId(s, p), f)
  BY <1>1, FindStep
<1>3. FindId(s, p) \in Ids
  BY DEF DirIds, InodeIds
<1> QED
  BY <1>1, <1>2, <1>3, SoundChild

LEMMA AboveFacts ==
    ASSUME NEW p \in Paths
    PROVE  /\ IsAtOrAbove(p, p)
           /\ \A q \in Paths : IsAtOrAbove(q, p) => Len(q) <= Len(p)
           /\ \A q \in Paths : q # <<>> /\ IsAtOrAbove(q, p) => IsAtOrAbove(dirname(q), p)
<1>1. p \in Seq(Names) /\ Len(p) \in Nat
  BY DEF Paths
<1>2. IsAtOrAbove(p, p)
  BY <1>1 DEF IsAtOrAbove
<1>3. ASSUME NEW q \in Paths, q # <<>>, IsAtOrAbove(q, p)
      PROVE  IsAtOrAbove(dirname(q), p)
  <2>1. Len(q) <= Len(p) /\ q = SubSeq(p, 1, Len(q)) /\ Len(q) \in Nat \ {0}
    BY <1>3, DirnameLess DEF IsAtOrAbove
  <2>2. dirname(q) \in Seq(Names) /\ Len(dirname(q)) = Len(q) - 1
        /\ \A i \in 1 .. Len(q) - 1 : dirname(q)[i] = q[i]
    BY <1>3, DirnameLess DEF Paths
  <2>3. \A i \in 1 .. Len(q) : q[i] = p[i]
    BY <1>1, <2>1
  <2>4. SubSeq(p, 1, Len(q) - 1) \in Seq(Names) /\ Len(SubSeq(p, 1, Len(q) - 1)) = Len(q) - 1
        /\ \A i \in 1 .. Len(q) - 1 : SubSeq(p, 1, Len(q) - 1)[i] = p[i]
    BY <1>1, <2>1
  <2>5. SubSeq(p, 1, Len(q) - 1) = dirname(q)
    BY <2>1, <2>2, <2>3, <2>4
  <2> QED
    BY <2>1, <2>2, <2>5 DEF IsAtOrAbove
<1> QED
  BY <1>2, <1>3 DEF IsAtOrAbove

(* A path that is not at or below one of the paths C whose entries changed *)
(* leads where it led.                                                     *)
LEMMA FindKept ==
    ASSUME NEW s, Sound(s), NEW t, Sound(t), NEW C, C \subseteq Paths \ {<<>>},
           \A x \in DirIds(s), f \in Names :
              entries(s, x)[f] # NoEntry /\
              ~(\E c \in C : x = FindId(s, dirname(c)) /\ f = basename(c))
                => x \in DirIds(t) /\ entries(t, x)[f] = entries(s, x)[f],
           NEW p \in Paths, FindId(s, p) \in Ids, \A c \in C : ~IsAtOrAbove(c, p)
    PROVE  FindId(t, p) = FindId(s, p)
<1> DEFINE Other(q) == IsAtOrAbove(q, p) /\ FindId(s, q) \in Ids /\ FindId(t, q) # FindId(s, q)
           Bad == {k \in Nat : \E q \in Paths : k = Len(q) /\ Other(q)}
<1>1. ASSUME NEW m \in Bad, \A k \in Bad : m <= k PROVE FALSE
  <2>1. PICK q \in Paths : m = Len(q) /\ Other(q)
    OBVIOUS
  <2>2. q # <<>>
    BY <2>1, FindRoot
  <2> DEFINE a == dirname(q)
             f == basename(q)
             x == FindId(s, a)
  <2>3. x \in DirIds(s) /\ entries(s, x)[f] = FindId(s, q) /\ x \in Ids
    BY <2>1, <2>2, SoundFind DEF DirIds, InodeIds
  <2>4. a \in Paths /\ Len(a) = m - 1 /\ m - 1 \in Nat /\ ~(m <= m - 1)
        /\ f \in Names /\ q = Append(a, f)
    BY <2>1, <2>2, DirnameLess
  <2>5. IsAtOrAbove(a, p)
    BY <2>1, <2>2, AboveFacts
  <2>6. FindId(t, a) = x
    BY <2>3, <2>4, <2>5, <1>1
  <2>7. ASSUME NEW c \in C, x = FindId(s, dirname(c)), f = basename(c) PROVE FALSE
    <3>1. c \in Paths /\ c # <<>> /\ dirname(c) \in Paths /\ c = Append(dirname(c), basename(c))
      BY DirnameLess
    <3>2. dirname(c) = a
      BY <2>3, <2>4, <2>7, <3>1, FindUnique
    <3>3. c = q
      BY <2>4, <2>7, <3>1, <3>2
    <3> QED
      BY <2>1, <3>3
  <2>8. entries(s, x)[f] # NoEntry
    BY <2>1, <2>3, IdsAssumption
  <2>9. x \in DirIds(t) /\ entries(t, x)[f] = entries(s, x)[f]
    BY <2>3, <2>4, <2>7, <2>8
  <2>10. FindId(t, q) = entries(t, x)[f]
    <3> HIDE DEF a, f, x
    <3>1. FindId(t, Append(a, f)) = entries(t, FindId(t, a))[f]
      BY <2>4, <2>6, <2>8, <2>9, FindAppend
    <3> QED
      BY <2>4, <2>6, <3>1
  <2> QED
    BY <2>1, <2>3, <2>9, <2>10
<1>2. Bad = {}
  <2>1. Bad \in SUBSET Nat
    OBVIOUS
  <2> HIDE DEF Bad
  <2> QED
    BY <2>1, <1>1, LeastNat
<1>3. Len(p) \in Nat /\ IsAtOrAbove(p, p)
  BY AboveFacts DEF Paths
<1> QED
  BY <1>2, <1>3

-----------------------------------------------------------------------------
(* The values in a store. *)
Values  == Inodes \union Listings \union Blobs \union {Absent}

LEMMA StoresAreFunctions == Stores = [Ids -> Values]
BY DEF Stores, Values

LEMMA PutType ==
    ASSUME NEW s \in Stores, NEW k \in Ids, NEW v \in Values
    PROVE  [s EXCEPT ![k] = v] \in Stores
BY StoresAreFunctions

LEMMA DirnameType ==
    ASSUME NEW p \in Paths
    PROVE  /\ dirname(p) \in Paths
           /\ basename(p) \in Names \union {NoName}
<1>1. CASE p = <<>>
  BY <1>1 DEF dirname, basename
<1>2. CASE p # <<>>
  <2>1. Len(p) \in Nat /\ Len(p) > 0 /\ p \in Seq(Names)
    BY <1>2 DEF Paths
  <2>2. SubSeq(p, 1, Len(p) - 1) \in Seq(Names)
    BY <2>1
  <2>3. p[Len(p)] \in Names
    BY <2>1
  <2> QED
    BY <1>2, <2>2, <2>3 DEF dirname, basename, Paths
<1> QED
  BY <1>1, <1>2

LEMMA NoEntriesType == NoEntries \in Entries
BY DEF NoEntries, Entries

LEMMA TextType ==
    ASSUME NEW c \in Values
    PROVE  Text(c) \in Seq(Bytes) /\ DataLen(c) \in Nat
<1> DEFINE len == IF c.ent = NoEntries THEN 2 ELSE 3
<1>1. [i \in 1 .. len |-> 0] \in Seq(Bytes)
  BY ByteAssumption
<1>2. c.kind = "bytes" => c.val \in Seq(Bytes)
  BY DEF Values, Inodes, Listings, Blobs, Absent
<1>3. Text(c) \in Seq(Bytes)
  BY <1>1, <1>2 DEF Text
<1> QED
  BY <1>3 DEF DataLen

LEMMA DataType ==
    /\ Data(<<>>) \in Blobs /\ DataLen(Data(<<>>)) \in Nat
    /\ Listing(NoEntries) \in Listings /\ DataLen(Listing(NoEntries)) \in Nat
<1>1. Data(<<>>) \in Blobs /\ Listing(NoEntries) \in Listings
  BY NoEntriesType DEF Data, Blobs, Listing, Listings
<1> QED
  BY <1>1, TextType DEF Values

LEMMA OverlayType ==
    ASSUME NEW b \in Seq(Bytes), NEW at \in Nat, NEW data \in Seq(Bytes)
    PROVE  Overlay(b, at, data) \in Seq(Bytes)
<1> DEFINE end == at + Len(data)
           len == IF end > Len(b) THEN end ELSE Len(b)
<1>1. Len(b) \in Nat /\ Len(data) \in Nat /\ len \in Nat
  OBVIOUS
<1>2. ASSUME NEW i \in 1 .. len
      PROVE  (IF i > at /\ i <= end THEN data[i - at]
              ELSE IF i <= Len(b) THEN b[i] ELSE 0) \in Bytes
  <2>1. CASE i > at /\ i <= end
    <3>1. i - at \in 1 .. Len(data)
      BY <1>1, <2>1
    <3>2. data[i - at] \in Bytes
      BY <3>1
    <3> QED
      BY <2>1, <3>2
  <2>2. CASE ~(i > at /\ i <= end) /\ i <= Len(b)
    <3>1. i \in 1 .. Len(b)
      BY <1>1, <2>2
    <3>2. b[i] \in Bytes
      BY <3>1
    <3> QED
      BY <2>2, <3>2
  <2>3. CASE ~(i > at /\ i <= end) /\ ~(i <= Len(b))
    BY <2>3, ByteAssumption
  <2> QED
    BY <2>1, <2>2, <2>3
<1>3. Overlay(b, at, data) \in [1 .. len -> Bytes]
  BY <1>2 DEF Overlay
<1> HIDE DEF len, end
<1> QED
  BY <1>1, <1>3

LEMMA OverlayLen ==
    ASSUME NEW b \in Seq(Bytes), NEW at \in Nat, NEW data \in Seq(Bytes)
    PROVE  Len(Overlay(b, at, data)) =
                IF at + Len(data) > Len(b) THEN at + Len(data) ELSE Len(b)
<1> DEFINE len == IF at + Len(data) > Len(b) THEN at + Len(data) ELSE Len(b)
           F(i) == IF i > at /\ i <= at + Len(data) THEN data[i - at]
                   ELSE IF i <= Len(b) THEN b[i] ELSE 0
<1>1. len \in Nat
  OBVIOUS
<1>2. Overlay(b, at, data) = [i \in 1 .. len |-> F(i)]
  BY DEF Overlay
<1> HIDE DEF len, F
<1>3. Len([i \in 1 .. len |-> F(i)]) = len
  BY <1>1
<1> QED BY <1>2, <1>3 DEF len

LEMMA ListingType ==
    ASSUME NEW list \in Entries
    PROVE  Listing(list) \in Values
BY DEF Listing, Listings, Values

-----------------------------------------------------------------------------
(* A tree is whole.  Of the store it is said what the runs' invariants say,*)
(* strengthened: entries are also unique under the empty name, and every   *)
(* node has a path, of any length.                                         *)

(* No key is used but by a node, and every node is reached. *)
Owned(s) == \A k \in Used(s) : k \in InodeIds(s) \/ \E n \in InodeIds(s) : k = s[n].id

HasPath(s, n) == \E p \in Paths : FindId(s, p) = n

Reached(s) == \A n \in InodeIds(s) : HasPath(s, n)

(* The size of a file is the length of its data. *)
ExactAt(s, n) == s[n].type = "file" => s[n].size = DataLen(s[s[n].id])

Exact(s) == \A n \in InodeIds(s) : ExactAt(s, n)

Tidy(s) == Sound(s) /\ Owned(s) /\ Reached(s) /\ Exact(s) /\ IsFiniteSet(InodeIds(s))

-----------------------------------------------------------------------------
(* Where no entry is lost, a path that led to a node leads there still. *)
LEMMA MoreEntries ==
    ASSUME NEW s, Sound(s), NEW t, Sound(t),
           \A x \in DirIds(s), h \in Names :
              entries(s, x)[h] # NoEntry => x \in DirIds(t) /\ entries(t, x)[h] = entries(s, x)[h],
           NEW p \in Paths, FindId(s, p) \in Ids
    PROVE  FindId(t, p) = FindId(s, p)
<1> DEFINE C == {}
<1>1. /\ C \subseteq Paths \ {<<>>} /\ \A c \in C : ~IsAtOrAbove(c, p)
      /\ \A x \in DirIds(s), h \in Names :
          entries(s, x)[h] # NoEntry /\
          ~(\E c \in C : x = FindId(s, dirname(c)) /\ h = basename(c))
            => x \in DirIds(t) /\ entries(t, x)[h] = entries(s, x)[h]
  OBVIOUS
<1> HIDE DEF C
<1> QED BY <1>1, FindKept

(* Every node has still a path if every entry passes it on. *)
LEMMA ReachedStill ==
    ASSUME NEW s, Sound(s), NEW t, Sound(t), Reached(s),
           \A x \in DirIds(s), f \in Names :
              LET m == entries(s, x)[f]
              IN  m \in InodeIds(t) => x \in InodeIds(t) /\ (HasPath(t, x) => HasPath(t, m))
    PROVE  \A m \in InodeIds(s) \intersect InodeIds(t) : HasPath(t, m)
<1> DEFINE Lost(p) == FindId(s, p) \in InodeIds(t) /\ ~HasPath(t, FindId(s, p))
           Bad == {k \in Nat : \E p \in Paths : k = Len(p) /\ Lost(p)}
<1>1. ASSUME NEW k \in Bad, \A l \in Bad : k <= l PROVE FALSE
  <2>1. PICK p \in Paths : k = Len(p) /\ Lost(p)
    OBVIOUS
  <2>2. p # <<>>
    <3>1. <<>> \in Paths
      BY DEF Paths
    <3> QED BY <2>1, <3>1, FindRoot DEF HasPath
  <2> DEFINE q == dirname(p)
             x == FindId(s, q)
             f == basename(p)
  <2>3. FindId(s, p) \in Ids
    BY <2>1 DEF InodeIds
  <2>4. x \in DirIds(s) /\ entries(s, x)[f] = FindId(s, p)
    BY <2>2, <2>3, SoundFind
  <2>5. q \in Paths /\ Len(q) = k - 1 /\ k - 1 \in Nat /\ ~(k <= k - 1) /\ f \in Names
    BY <2>1, <2>2, DirnameLess
  <2> HIDE DEF q, f
  <2>6. x \in InodeIds(t) /\ ~HasPath(t, x)
    BY <2>1, <2>4, <2>5
  <2> QED BY <2>5, <2>6, <1>1
<1>2. Bad = {}
  <2>1. Bad \in SUBSET Nat
    OBVIOUS
  <2> HIDE DEF Bad
  <2> QED BY <2>1, <1>1, LeastNat
<1>3. \A p \in Paths : Len(p) \in Nat
  BY DEF Paths
<1>4. \A p \in Paths : FindId(s, p) \in InodeIds(t) => HasPath(t, FindId(s, p))
  BY <1>2, <1>3
<1> QED BY <1>4 DEF Reached, HasPath

(* A path passes every directory above it, and no node twice: it is        *)
(* shorter than the number of inodes.                                      *)
LEMMA PathsAreShort ==
    ASSUME NEW s, Sound(s), IsFiniteSet(InodeIds(s)), NEW p \in Paths, FindId(s, p) \in Ids
    PROVE  Len(p) + 1 <= Cardinality(InodeIds(s)) /\ Cardinality(InodeIds(s)) \in Nat
<1> DEFINE n == Len(p)
           Up(k) == SubSeq(p, 1, n - k)
           Bad == {k \in 0 .. n : FindId(s, Up(k)) \notin InodeIds(s)}
<1>1. p \in Seq(Names) /\ n \in Nat
  BY DEF Paths
<1>2. \A k \in 0 .. n : Up(k) \in Paths /\ Len(Up(k)) = n - k
  BY <1>1 DEF Paths
<1>3. ASSUME NEW k \in Bad, \A l \in Bad : k <= l PROVE FALSE
  <2>1. k \in 0 .. n /\ FindId(s, Up(k)) \notin InodeIds(s)
    OBVIOUS
  <2>2. k # 0
    <3>1. Up(0) = p
      BY <1>1
    <3>2. FindId(s, p) \in InodeIds(s)
      BY SoundFind, IdsAssumption
    <3> QED BY <2>1, <3>1, <3>2
  <2>3. k - 1 \in 0 .. n /\ ~(k <= k - 1) /\ Len(Up(k - 1)) # 0
    BY <1>1, <1>2, <2>1, <2>2
  <2>4. FindId(s, Up(k - 1)) \in InodeIds(s)
    BY <2>3, <1>3
  <2>5. Up(k) = dirname(Up(k - 1)) /\ Up(k - 1) # <<>> /\ Up(k - 1) \in Paths
    <3>1. Up(k - 1) \in Paths /\ Up(k - 1) # <<>>
      BY <1>2, <2>3
    <3>2. dirname(Up(k - 1)) = SubSeq(Up(k - 1), 1, n - k)
      BY <1>1, <1>2, <2>1, <2>3, <3>1 DEF dirname
    <3>3. SubSeq(SubSeq(p, 1, n - (k - 1)), 1, n - k) = SubSeq(p, 1, n - k)
      BY <1>1, <2>1, <2>2
    <3> QED BY <3>1, <3>2, <3>3
  <2> HIDE DEF Up
  <2>6. FindId(s, Up(k)) \in DirIds(s)
    BY <2>4, <2>5, SoundFind DEF InodeIds
  <2> QED BY <2>1, <2>6 DEF DirIds
<1>4. Bad = {}
  <2>1. Bad \in SUBSET Nat
    BY <1>1
  <2> HIDE DEF Bad
  <2> QED BY <2>1, <1>3, LeastNat
<1> DEFINE g == [k \in 0 .. n |-> FindId(s, Up(k))]
<1>5. g \in [0 .. n -> InodeIds(s)]
  BY <1>4
<1>6. ASSUME NEW k \in 0 .. n, NEW l \in 0 .. n, g[k] = g[l] PROVE k = l
  <2> HIDE DEF Up
  <2>1. FindId(s, Up(k)) = FindId(s, Up(l)) /\ FindId(s, Up(k)) \in Ids
    BY <1>4, <1>6 DEF InodeIds
  <2>2. Up(k) = Up(l)
    BY <1>2, <2>1, FindUnique
  <2>3. n - k = n - l
    BY <1>2, <2>2
  <2> QED BY <1>1, <2>3
<1> HIDE DEF g
<1>7. g \in Injection(0 .. n, InodeIds(s))
  BY <1>5, <1>6 DEF Injection, IsInjective
<1>8. Cardinality(0 .. n) <= Cardinality(InodeIds(s))
  BY <1>7, FS_Injection
<1>9. Cardinality(0 .. n) = n + 1
  BY <1>1, FS_Interval
<1> QED BY <1>1, <1>8, <1>9, FS_CardinalityType

-----------------------------------------------------------------------------
(* The writes of KVNodes keep a store tidy. *)

LEMMA ExactKept ==
    ASSUME NEW s, Exact(s), NEW t, NEW n \in InodeIds(s), Keeps(s, t, n)
    PROVE  ExactAt(t, n)
BY DEF Exact, ExactAt, Keeps

LEMMA FewerInodes ==
    ASSUME NEW s, IsFiniteSet(InodeIds(s)), NEW t, NEW j,
           InodeIds(t) \subseteq InodeIds(s) \union {j}
    PROVE  IsFiniteSet(InodeIds(t))
BY FS_AddElement, FS_Subset

(* Keys that are not a node's own, a node's data or unused: none. *)
LEMMA OwnedStill ==
    ASSUME NEW s, Owned(s), NEW t, NEW i, NEW j,
           \A k \in Used(t) : k \in Used(s) \/ k = i \/ k = j,
           i \in Used(t) => \E n \in InodeIds(t) : i = t[n].id,
           j \in Used(t) => j \in InodeIds(t),
           \A n \in InodeIds(s) \intersect InodeIds(t) : t[n] = s[n],
           \A n \in InodeIds(s) \ InodeIds(t) : n = j /\ s[n].id = i
    PROVE  Owned(t)
<1> SUFFICES ASSUME NEW k \in Used(t), k # i, k # j
             PROVE  k \in InodeIds(t) \/ \E n \in InodeIds(t) : k = t[n].id
  BY DEF Owned
<1>1. k \in InodeIds(s) \/ \E n \in InodeIds(s) : k = s[n].id
  BY DEF Owned
<1>2. CASE k \in InodeIds(s)
  BY <1>2
<1>3. CASE \E n \in InodeIds(s) : k = s[n].id
  <2>1. PICK n \in InodeIds(s) : k = s[n].id
    BY <1>3
  <2>2. n \in InodeIds(t)
    BY <2>1
  <2> QED BY <2>1, <2>2
<1> QED BY <1>1, <1>2, <1>3

(* commitNewFile *)
LEMMA AddedTidy ==
    ASSUME NEW s, Tidy(s), NEW d, NEW f, NEW i, NEW j, NEW data, NEW inode,
           Addable(s, d, f, i, j, data, inode),
           inode.type = "file" => inode.size = DataLen(data),
           NEW t, t = Added(s, d, f, i, j, data, inode)
    PROVE  Tidy(t)
<1>0. /\ d \in DirIds(s) /\ f \in Names /\ entries(s, d)[f] = NoEntry
      /\ j \in Ids \ Used(s) /\ inode.id = i
  BY DEF Addable
<1> USE <1>0
<1>1. /\ Sound(s) /\ Owned(s) /\ Reached(s) /\ Exact(s) /\ IsFiniteSet(InodeIds(s))
      /\ d \in InodeIds(s) /\ f \in AllNames
  BY DEF Tidy, DirIds, AllNames
<1>2. /\ Sound(t)
      /\ InodeIds(t) = InodeIds(s) \union {j} /\ Used(t) = Used(s) \union {i, j}
      /\ \A n \in InodeIds(s) : t[n] = s[n]
      /\ \A k \in InodeIds(s) \ {d} : Keeps(s, t, k)
      /\ t[j] = inode /\ t[i] = data /\ j \notin InodeIds(s)
      /\ DirIds(t) = DirIds(s) \union (IF inode.type = "dir" THEN {j} ELSE {})
      /\ \A x \in DirIds(s), h \in AllNames :
           entries(t, x)[h] = IF x = d /\ h = f THEN j ELSE entries(s, x)[h]
  BY <1>1, NodeAdded
<1>3. Owned(t)
  BY <1>1, <1>2, OwnedStill
<1>4. Exact(t)
  <2>1. ASSUME NEW n \in InodeIds(t) PROVE ExactAt(t, n)
    <3>1. CASE n = j
      BY <1>2, <3>1 DEF ExactAt
    <3>2. CASE n = d
      <4>1. t[d].type # "file"
        BY <1>1, <1>2 DEF DirIds
      <4> QED BY <3>2, <4>1 DEF ExactAt
    <3>3. CASE n # j /\ n # d
      BY <1>1, <1>2, <3>3, ExactKept
    <3> QED BY <3>1, <3>2, <3>3
  <2> QED BY <2>1 DEF Exact
<1>5. ASSUME NEW n \in InodeIds(s) PROVE HasPath(t, n) /\ (n = d => HasPath(t, j))
  <2>1. PICK p \in Paths : FindId(s, p) = n
    BY <1>1 DEF Reached, HasPath
  <2>2. \A x \in DirIds(s), h \in Names :
          entries(s, x)[h] # NoEntry => x \in DirIds(t) /\ entries(t, x)[h] = entries(s, x)[h]
    BY <1>2 DEF AllNames
  <2>3. FindId(s, p) \in Ids
    BY <2>1 DEF InodeIds
  <2>4. FindId(t, p) = n
    BY <1>1, <1>2, <2>1, <2>2, <2>3, MoreEntries
  <2>5. ASSUME n = d PROVE HasPath(t, j)
    <3>1. FindId(t, p) = d /\ d \in DirIds(t) /\ entries(t, d)[f] = j /\ j # NoEntry
      BY <1>1, <1>2, <2>4, <2>5, IdsAssumption
    <3> QED BY <1>2, <3>1, FindAppend DEF HasPath
  <2> QED BY <2>4, <2>5 DEF HasPath
<1>6. Reached(t)
  BY <1>1, <1>2, <1>5 DEF Reached
<1>7. IsFiniteSet(InodeIds(t))
  BY <1>1, <1>2, FewerInodes
<1> QED BY <1>2, <1>3, <1>4, <1>6, <1>7 DEF Tidy

(* removeEntry, of a file or an empty directory *)
LEMMA TakenOutTidy ==
    ASSUME NEW s, Tidy(s), NEW d \in DirIds(s), NEW f \in AllNames, NEW n,
           n = entries(s, d)[f], n # NoEntry,
           n \in DirIds(s) => entries(s, n) = NoEntries, NEW t,
           t = TakenOut(s, d, f, n)
    PROVE  Tidy(t)
<1>1. /\ Sound(s) /\ Owned(s) /\ Reached(s) /\ Exact(s) /\ IsFiniteSet(InodeIds(s))
      /\ d \in InodeIds(s)
  BY DEF Tidy, DirIds
<1>2. ASSUME n \in DirIds(s), NEW h \in AllNames PROVE entries(s, n)[h] = NoEntry
  BY <1>2 DEF NoEntries, AllNames
<1>3. n # d
  BY <1>2
<1>4. /\ Sound(t)
      /\ n \in InodeIds(s) \ {Root}
      /\ InodeIds(t) = InodeIds(s) \ {n} /\ DirIds(t) = DirIds(s) \ {n}
      /\ Used(t) = Used(s) \ {n, s[n].id}
      /\ \A m \in InodeIds(t) : t[m] = s[m]
      /\ \A m \in InodeIds(s) \ {d, n} : Keeps(s, t, m)
      /\ \A x \in DirIds(t), h \in AllNames :
           entries(t, x)[h] = IF x = d /\ h = f THEN NoEntry ELSE entries(s, x)[h]
  BY <1>1, <1>3, NodeRemoved
<1>5. Owned(t)
  <2>1. \A m \in InodeIds(s) \ InodeIds(t) : m = n /\ s[m].id = s[n].id
    BY <1>4
  <2> DEFINE i == s[n].id
  <2>2. /\ \A k \in Used(t) : k \in Used(s) \/ k = i \/ k = n
        /\ i \notin Used(t) /\ n \notin Used(t)
    BY <1>4
  <2> HIDE DEF i
  <2>3. \A m \in InodeIds(s) \ InodeIds(t) : m = n /\ s[m].id = i
    BY <2>1 DEF i
  <2>4. Owned(s) /\ \A m \in InodeIds(s) \intersect InodeIds(t) : t[m] = s[m]
    BY <1>1, <1>4
  <2> QED BY ONLY <2>2, <2>3, <2>4, OwnedStill
<1>6. Exact(t)
  <2>1. ASSUME NEW m \in InodeIds(t) PROVE ExactAt(t, m)
    <3>1. CASE m = d
      <4>1. t[d].type # "file"
        BY <1>1, <1>4, <3>1 DEF DirIds
      <4> QED BY <3>1, <4>1 DEF ExactAt
    <3>2. CASE m # d
      BY <1>1, <1>4, <3>2, ExactKept
    <3> QED BY <3>1, <3>2
  <2> QED BY <2>1 DEF Exact
<1>7. ASSUME NEW x \in DirIds(s), NEW h \in Names, entries(s, x)[h] \in InodeIds(t)
      PROVE  x \in InodeIds(t) /\ (HasPath(t, x) => HasPath(t, entries(s, x)[h]))
  <2>1. h \in AllNames /\ entries(s, x)[h] # NoEntry /\ entries(s, x)[h] # n
    BY <1>4, <1>7, IdsAssumption DEF AllNames, InodeIds
  <2>2. x # n
    BY <1>2, <2>1
  <2>3. x \in DirIds(t) /\ x \in InodeIds(t)
    BY <1>4, <2>2 DEF DirIds
  <2>4. entries(t, x)[h] = entries(s, x)[h]
    BY <1>4, <2>1, <2>3
  <2> QED BY <1>4, <2>1, <2>3, <2>4, FindAppend DEF HasPath
<1>8. Reached(t)
  <2>1. \A x \in DirIds(s), h \in Names :
          LET m == entries(s, x)[h]
          IN  m \in InodeIds(t) => x \in InodeIds(t) /\ (HasPath(t, x) => HasPath(t, m))
    BY <1>7
  <2>2. \A m \in InodeIds(s) \intersect InodeIds(t) : HasPath(t, m)
    BY <1>1, <1>4, <2>1, ReachedStill
  <2> QED BY <1>4, <2>2 DEF Reached
<1>9. IsFiniteSet(InodeIds(t))
  BY <1>1, <1>4, FewerInodes
<1> QED BY <1>4, <1>5, <1>6, <1>8, <1>9 DEF Tidy

(* renameSync: what is below the moved node goes with it, and the new      *)
(* parent is still reached because it is not below the moved node.         *)
LEMMA RehungTidy ==
    ASSUME NEW s, Tidy(s), NEW p \in Paths, p # <<>>, NEW q \in Paths, q # <<>>,
           NEW d \in DirIds(s), d = FindId(s, dirname(p)), NEW f \in Names, f = basename(p),
           NEW e \in DirIds(s), e = FindId(s, dirname(q)), NEW g \in Names, g = basename(q),
           entries(s, d)[f] # NoEntry, ~IsAtOrAbove(p, dirname(q)),
           NEW target, target = Target(s, d, f, e, g),
           target # NoEntry => s[target].type = "file",
           NEW t, t = Rehung(s, d, f, e, g)
    PROVE  Tidy(t)
<1> DEFINE n == entries(s, d)[f]
<1>1. /\ Sound(s) /\ Owned(s) /\ Reached(s) /\ Exact(s) /\ IsFiniteSet(InodeIds(s))
      /\ d \in InodeIds(s) /\ e \in InodeIds(s) /\ f \in AllNames /\ g \in AllNames
  BY DEF Tidy, DirIds, AllNames
<1>2. n = entries(s, d)[f] /\ n # NoEntry
  OBVIOUS
<1> HIDE DEF n
<1>3. /\ Sound(t)
      /\ n \in InodeIds(t) /\ target = (IF d = e /\ f = g THEN NoEntry ELSE entries(s, e)[g])
      /\ InodeIds(t) = InodeIds(s) \ {target} /\ DirIds(t) = DirIds(s)
      /\ target = NoEntry => Used(t) = Used(s)
      /\ target # NoEntry => Used(t) = Used(s) \ {target, s[target].id}
      /\ \A m \in InodeIds(t) : t[m] = s[m]
      /\ \A m \in InodeIds(t) \ {d, e} : Keeps(s, t, m)
      /\ \A x \in DirIds(s), h \in AllNames :
           entries(t, x)[h] = IF x = e /\ h = g THEN n
                              ELSE IF x = d /\ h = f THEN NoEntry ELSE entries(s, x)[h]
  <2>1. /\ Sound(s) /\ d \in DirIds(s) /\ f \in AllNames /\ e \in DirIds(s) /\ g \in Names
        /\ entries(s, d)[f] # NoEntry /\ target = Target(s, d, f, e, g)
        /\ target # NoEntry => s[target].type = "file"
        /\ t = Rehung(s, d, f, e, g)
    BY <1>1, <1>2
  <2>2. /\ Sound(t)
        /\ entries(s, d)[f] \in InodeIds(t) /\ target = (IF d = e /\ f = g THEN NoEntry ELSE entries(s, e)[g])
        /\ InodeIds(t) = InodeIds(s) \ {target} /\ DirIds(t) = DirIds(s)
        /\ target = NoEntry => Used(t) = Used(s)
        /\ target # NoEntry => Used(t) = Used(s) \ {target, s[target].id}
        /\ \A m \in InodeIds(t) : t[m] = s[m]
        /\ \A m \in InodeIds(t) \ {d, e} : Keeps(s, t, m)
        /\ \A x \in DirIds(s), h \in AllNames :
             entries(t, x)[h] = IF x = e /\ h = g THEN entries(s, d)[f]
                                ELSE IF x = d /\ h = f THEN NoEntry ELSE entries(s, x)[h]
    BY ONLY <2>1, NodeMoved
  <2> QED BY <1>2, <2>2
<1>4. Owned(t)
  <2>1. CASE target = NoEntry
    <3>1. InodeIds(t) = InodeIds(s) /\ Used(t) = Used(s)
      BY <1>3, <2>1, IdsAssumption DEF InodeIds
    <3> QED BY <1>1, <1>3, <3>1 DEF Owned
  <2>2. CASE target # NoEntry
    <3> DEFINE i == s[target].id
    <3>1. /\ \A k \in Used(t) : k \in Used(s) \/ k = i \/ k = target
          /\ i \notin Used(t) /\ target \notin Used(t)
      BY <1>3, <2>2
    <3>2. \A m \in InodeIds(s) \ InodeIds(t) : m = target /\ s[m].id = i
      BY <1>3
    <3>3. Owned(s) /\ \A m \in InodeIds(s) \intersect InodeIds(t) : t[m] = s[m]
      BY <1>1, <1>3
    <3> HIDE DEF i
    <3> QED BY ONLY <3>1, <3>2, <3>3, OwnedStill
  <2> QED BY <2>1, <2>2
<1>5. Exact(t)
  <2>1. ASSUME NEW m \in InodeIds(t) PROVE ExactAt(t, m)
    <3>1. CASE m \in {d, e}
      <4>1. t[m].type # "file"
        BY <1>1, <1>3, <3>1 DEF DirIds
      <4> QED BY <4>1 DEF ExactAt
    <3>2. CASE m \notin {d, e}
      BY <1>1, <1>3, <3>2, ExactKept
    <3> QED BY <3>1, <3>2
  <2> QED BY <2>1 DEF Exact
<1>6. HasPath(t, n)
  <2> DEFINE a == dirname(q)
             C == {p, q}
  <2>1. a \in Paths /\ dirname(p) \in Paths /\ Len(a) = Len(q) - 1 /\ Len(q) \in Nat
    BY DirnameLess
  <2>2. ~IsAtOrAbove(q, a)
    BY <2>1, AboveFacts
  <2>3. FindId(t, a) = e
    <3>1. C \subseteq Paths \ {<<>>} /\ \A c \in C : ~IsAtOrAbove(c, a)
      BY <2>2
    <3>2. ASSUME NEW x \in DirIds(s), NEW h \in Names, entries(s, x)[h] # NoEntry,
                 ~(\E c \in C : x = FindId(s, dirname(c)) /\ h = basename(c))
          PROVE  x \in DirIds(t) /\ entries(t, x)[h] = entries(s, x)[h]
      <4>1. ~(x = d /\ h = f) /\ ~(x = e /\ h = g) /\ h \in AllNames
        BY <3>2 DEF AllNames
      <4> QED BY <1>3, <4>1
    <3>3. e = FindId(s, a) /\ FindId(s, a) \in Ids
      BY <1>1 DEF InodeIds
    <3> HIDE DEF C, a
    <3>4. FindId(t, a) = FindId(s, a)
      BY <1>1, <1>3, <2>1, <3>1, <3>2, <3>3, FindKept
    <3> QED BY <3>3, <3>4
  <2>4. e \in DirIds(t) /\ entries(t, e)[g] = n
    BY <1>1, <1>3
  <2> HIDE DEF a
  <2> QED BY <1>2, <1>3, <2>1, <2>3, <2>4, FindAppend DEF HasPath
<1>7. ASSUME NEW x \in DirIds(s), NEW h \in Names, entries(s, x)[h] \in InodeIds(t)
      PROVE  x \in InodeIds(t) /\ (HasPath(t, x) => HasPath(t, entries(s, x)[h]))
  <2>1. h \in AllNames /\ entries(s, x)[h] # NoEntry /\ entries(s, x)[h] # target
    BY <1>3, <1>7, IdsAssumption DEF AllNames, InodeIds
  <2>2. x \in DirIds(t) /\ x \in InodeIds(t)
    BY <1>3 DEF DirIds
  <2>3. CASE x = d /\ h = f
    BY <1>2, <1>6, <2>2, <2>3
  <2>4. CASE ~(x = d /\ h = f)
    <3>1. entries(t, x)[h] = entries(s, x)[h]
      BY <1>3, <2>1, <2>4
    <3> QED BY <1>3, <2>1, <2>2, <3>1, FindAppend DEF HasPath
  <2> QED BY <2>3, <2>4
<1>8. Reached(t)
  <2>1. \A x \in DirIds(s), h \in Names :
          LET m == entries(s, x)[h]
          IN  m \in InodeIds(t) => x \in InodeIds(t) /\ (HasPath(t, x) => HasPath(t, m))
    BY <1>7
  <2>2. \A m \in InodeIds(s) \intersect InodeIds(t) : HasPath(t, m)
    BY <1>1, <1>3, <2>1, ReachedStill
  <2> QED BY <1>3, <2>2 DEF Reached
<1>9. IsFiniteSet(InodeIds(t))
  BY <1>1, <1>3, FewerInodes
<1> QED BY <1>3, <1>4, <1>5, <1>8, <1>9 DEF Tidy

(* syncFile *)
LEMMA RefilledTidy ==
    ASSUME NEW s, Tidy(s), NEW n \in InodeIds(s), s[n].type = "file",
           NEW data \in Blobs, NEW inode \in Inodes, inode.id = s[n].id, inode.type = "file",
           inode.size = DataLen(data),
           NEW t, t = Refilled(s, n, data, inode)
    PROVE  Tidy(t)
<1>1. Sound(s) /\ Owned(s) /\ Reached(s) /\ Exact(s) /\ IsFiniteSet(InodeIds(s))
  BY DEF Tidy
<1>2. /\ Sound(t)
      /\ InodeIds(t) = InodeIds(s) /\ DirIds(t) = DirIds(s) /\ Used(t) = Used(s)
      /\ \A k \in InodeIds(s) \ {n} : Keeps(s, t, k)
      /\ t[n] = inode /\ t[t[n].id] = data
  BY <1>1, FilePut
<1>3. \A m \in InodeIds(s) : t[m].id = s[m].id
  BY <1>2 DEF Keeps
<1>4. Owned(t)
  BY <1>1, <1>2, <1>3 DEF Owned
<1>5. Exact(t)
  <2>1. ExactAt(t, n)
    BY <1>2 DEF ExactAt
  <2>2. \A m \in InodeIds(t) \ {n} : ExactAt(t, m)
    BY <1>1, <1>2, ExactKept
  <2> QED BY <2>1, <2>2 DEF Exact
<1>6. \A x \in DirIds(s) : entries(t, x) = entries(s, x)
  BY <1>2, KeepsEntries DEF DirIds
<1>7. ASSUME NEW x \in DirIds(s), NEW h \in Names, entries(s, x)[h] \in InodeIds(t)
      PROVE  x \in InodeIds(t) /\ (HasPath(t, x) => HasPath(t, entries(s, x)[h]))
  <2>1. entries(s, x)[h] # NoEntry /\ entries(t, x)[h] = entries(s, x)[h]
    BY <1>6, <1>7, IdsAssumption DEF InodeIds
  <2>2. x \in DirIds(t) /\ x \in InodeIds(t)
    BY <1>2 DEF DirIds
  <2> QED BY <1>2, <2>1, <2>2, FindAppend DEF HasPath
<1>8. Reached(t)
  <2>1. \A x \in DirIds(s), h \in Names :
          LET m == entries(s, x)[h]
          IN  m \in InodeIds(t) => x \in InodeIds(t) /\ (HasPath(t, x) => HasPath(t, m))
    BY <1>7
  <2>2. \A m \in InodeIds(s) \intersect InodeIds(t) : HasPath(t, m)
    BY <1>1, <1>2, <2>1, ReachedStill
  <2> QED BY <1>2, <2>2 DEF Reached
<1> QED BY <1>1, <1>2, <1>4, <1>5, <1>8 DEF Tidy

-----------------------------------------------------------------------------
(* An empty file system: the root, and the empty listing it points to.     *)
RootOnly(i) ==
    [k \in Ids |-> IF k = Root THEN Inode(i, RootSize, "dir", 0 .. 8, 0, 0)
                   ELSE IF k = i THEN Listing(NoEntries) ELSE Absent]

LEMMA RootOnlyTidy ==
    ASSUME NEW i \in Ids, i # Root, NEW t, t = RootOnly(i)
    PROVE  Tidy(t) /\ InodeIds(t) = {Root} /\ DirIds(t) = {Root}
           /\ \A p \in Paths : p # <<>> => FindId(t, p) \notin Ids
<1>1. Root \in Ids
  BY IdsAssumption
<1>2. t \in Stores
  <2>1. Inode(i, RootSize, "dir", 0 .. 8, 0, 0) \in Values
    BY UidAssumption DEF Inode, Inodes, Values, RootSize, Types, Perms, ModeBits
  <2>2. Listing(NoEntries) \in Values /\ Absent \in Values
    BY NoEntriesType, ListingType DEF Values
  <2> QED BY <2>1, <2>2, StoresAreFunctions DEF RootOnly
<1>3. /\ t[Root].kind = "inode" /\ t[Root].id = i /\ t[Root].type = "dir"
      /\ t[i].kind = "listing" /\ t[i].ent = NoEntries
      /\ \A k \in Ids \ {i, Root} : t[k].kind = "absent"
  BY <1>1 DEF RootOnly, Inode, Listing, Absent
<1>4. InodeIds(t) = {Root} /\ DirIds(t) = {Root} /\ entries(t, Root) = NoEntries
  BY <1>1, <1>3 DEF InodeIds, DirIds, entries
<1>5. Used(t) \subseteq {Root, i}
  BY <1>3 DEF Used
<1>6. Wired(t)
  BY <1>1, <1>2, <1>3, <1>4 DEF Wired, KindOf
<1>7. \A h \in AllNames : entries(t, Root)[h] = NoEntry
  BY <1>4 DEF NoEntries, AllNames
<1>8. Linked(t)
  BY <1>4, <1>7 DEF Linked
<1>9. Owned(t) /\ Exact(t)
  BY <1>3, <1>4, <1>5 DEF Owned, Exact, ExactAt
<1>10. Reached(t)
  <2>1. <<>> \in Paths /\ FindId(t, <<>>) = Root
    BY FindRoot DEF Paths
  <2> QED BY <1>4, <2>1 DEF Reached, HasPath
<1>11. IsFiniteSet(InodeIds(t))
  BY <1>4, FS_Singleton
<1>12. ASSUME NEW p \in Paths, p # <<>>, FindId(t, p) \in Ids PROVE FALSE
  <2>1. /\ FindId(t, dirname(p)) \in DirIds(t) /\ basename(p) \in Names
        /\ entries(t, FindId(t, dirname(p)))[basename(p)] = FindId(t, p)
    BY <1>6, <1>8, <1>12, SoundFind, DirnameLess DEF Sound
  <2> QED BY <1>4, <1>7, <1>12, <2>1, IdsAssumption DEF AllNames
<1> QED BY <1>4, <1>6, <1>8, <1>9, <1>10, <1>11, <1>12 DEF Tidy, Sound

-----------------------------------------------------------------------------
(* What the calls do to a store.  Two keys for a new node.                 *)
Unused(s, new) ==
    new[1] \in Ids \ Used(s) /\ new[2] \in Ids \ Used(s) /\ new[1] # new[2]

(* The store commitNewFile leaves is the one of Added. *)
Committed(s, d, f, new, data, inode) ==
    [s EXCEPT ![new[1]] = data, ![new[2]] = inode,
              ![s[d].id] = Listing([entries(s, d) EXCEPT ![f] = new[2]])]

LEMMA CommitIsAdded ==
    ASSUME NEW s \in Stores, NEW d \in InodeIds(s), NEW f, NEW new, Unused(s, new),
           NEW data, NEW inode
    PROVE  Committed(s, d, f, new, data, inode) = Added(s, d, f, new[1], new[2], data, inode)
<1> DEFINE r == Made(s, new[1], new[2], data, inode)
<1>1. d \in Used(s) /\ d \in DOMAIN s
  BY DEF InodeIds, Used, Stores
<1>2. r = [s EXCEPT ![new[1]] = data, ![new[2]] = inode]
  BY DEF Made
<1>3. r[d] = s[d]
  BY <1>1, <1>2 DEF Unused
<1>4. Added(s, d, f, new[1], new[2], data, inode)
        = [r EXCEPT ![s[d].id] = Listing([entries(s, d) EXCEPT ![f] = new[2]])]
  BY <1>3 DEF Added, Relisted, Entered
<1> QED BY <1>2, <1>4 DEF Committed

(* Where a node can be put: its directory is there, and the name is free.  *)
IsFree(s, p) ==
    /\ p # <<>>
    /\ FindId(s, dirname(p)) \in DirIds(s)
    /\ entries(s, FindId(s, dirname(p)))[basename(p)] = NoEntry

(* What the operations do to the store at a path: a node is made there,    *)
CreatedAt(s, t, p, type) ==
    /\ p # <<>>
    /\ \E i, j, data, inode :
          /\ Addable(s, FindId(s, dirname(p)), basename(p), i, j, data, inode)
          /\ inode.type = type
          /\ type = "file" => data = Data(<<>>)
          /\ t = Added(s, FindId(s, dirname(p)), basename(p), i, j, data, inode)

(* a file or an empty directory is taken away,                             *)
TakenOutAt(s, t, p) ==
    /\ p # <<>>
    /\ FindId(s, p) \in InodeIds(s)
    /\ FindId(s, p) \in DirIds(s) => entries(s, FindId(s, p)) = NoEntries
    /\ t = TakenOut(s, FindId(s, dirname(p)), basename(p), FindId(s, p))

(* a node goes from one path to another,                                   *)
RehungAt(s, t, p, q) ==
    /\ p # <<>> /\ q # <<>>
    /\ FindId(s, dirname(p)) \in DirIds(s) /\ FindId(s, dirname(q)) \in DirIds(s)
    /\ entries(s, FindId(s, dirname(p)))[basename(p)] # NoEntry
    /\ ~IsAtOrAbove(p, dirname(q))
    /\ \E target :
          /\ target = Target(s, FindId(s, dirname(p)), basename(p),
                                FindId(s, dirname(q)), basename(q))
          /\ target # NoEntry => s[target].type = "file"
    /\ t = Rehung(s, FindId(s, dirname(p)), basename(p), FindId(s, dirname(q)), basename(q))

(* or a file gets other contents.                                          *)
RefilledAt(s, t, p) ==
    /\ FindId(s, p) \in InodeIds(s) /\ s[FindId(s, p)].type = "file"
    /\ \E data \in Blobs, inode \in Inodes :
          /\ inode.id = s[FindId(s, p)].id /\ inode.type = "file"
          /\ inode.size = DataLen(data)
          /\ t = Refilled(s, FindId(s, p), data, inode)

(* The checks of commitNewFile make sure that there is room in the tree.   *)
LEMMA CommitTidy ==
    ASSUME NEW s, Tidy(s), NEW p \in Paths, p # <<>>, NEW type \in Types, NEW mode \in Perms,
           NEW uid \in Uids, NEW gid \in Uids, NEW data \in Listings \union Blobs,
           data = IF type = "dir" THEN Listing(NoEntries) ELSE Data(<<>>),
           NEW new, Unused(s, new),
           ListingError(s, FindId(s, dirname(p))) = "ok",
           entries(s, FindId(s, dirname(p)))[basename(p)] = NoEntry,
           NEW t, t = Committed(s, FindId(s, dirname(p)), basename(p), new, data,
                                Inode(new[1], DataLen(data), type, mode, uid, gid))
    PROVE  /\ Tidy(t) /\ CreatedAt(s, t, p, type)
           /\ FindId(t, p) = new[2] /\ new[2] \in InodeIds(t)
           /\ InodeIds(t) = InodeIds(s) \union {new[2]} /\ new[2] \notin InodeIds(s)
           /\ DirIds(t) = DirIds(s) \union (IF type = "dir" THEN {new[2]} ELSE {})
<1> DEFINE d == FindId(s, dirname(p))
           f == basename(p)
           i == new[1]
           j == new[2]
           inode == Inode(new[1], DataLen(data), type, mode, uid, gid)
<1>1. s \in Stores /\ Sound(s)
  BY DEF Tidy, Sound, Wired
<1>2. d \in Ids \union Errors /\ dirname(p) \in Paths
  BY <1>1, DirnameType, FindType
<1>3. d \in DirIds(s) /\ d \in InodeIds(s) /\ f \in Names /\ j \in Ids
  BY <1>1, <1>2, SoundReads, DirnameLess DEF DirIds, Unused
<1>4. Addable(s, d, f, i, j, data, inode)
  <2>1. DataLen(data) \in Nat
    BY DataType
  <2>2. inode \in Inodes /\ inode.id = i /\ inode.type = type
    BY <2>1 DEF Inode, Inodes, Unused
  <2>3. data.kind = KindOf(type) /\ (type = "dir" => data = Listing(NoEntries))
    BY DEF Data, Listing, KindOf
  <2>4. d \in DirIds(s) /\ f \in Names /\ entries(s, d)[f] = NoEntry
    BY <1>3
  <2>5. i \in Ids \ Used(s) /\ j \in Ids \ Used(s) /\ i # j
    BY DEF Unused
  <2> HIDE DEF inode, d, f
  <2> QED BY <2>2, <2>3, <2>4, <2>5 DEF Addable
<1>5. inode.size = DataLen(data) /\ inode.type = type
  BY DEF Inode
<1>6. t = Added(s, d, f, i, j, data, inode)
  <2>1. t = Committed(s, d, f, new, data, inode)
    OBVIOUS
  <2> HIDE DEF inode, d, f
  <2> QED BY <1>1, <1>3, <2>1, CommitIsAdded
<1>7. d = FindId(s, dirname(p)) /\ f = basename(p)
  OBVIOUS
<1> HIDE DEF i, j, inode, d, f
<1>8. Tidy(t)
  BY ONLY <1>4, <1>5, <1>6, AddedTidy, Tidy(s)
<1>9. /\ Sound(t) /\ InodeIds(t) = InodeIds(s) \union {j} /\ j \notin InodeIds(s)
      /\ DirIds(t) = DirIds(s) \union (IF inode.type = "dir" THEN {j} ELSE {})
      /\ \A x \in DirIds(s), h \in AllNames :
              entries(t, x)[h] = IF x = d /\ h = f THEN j ELSE entries(s, x)[h]
  BY ONLY <1>1, <1>4, <1>6, NodeAdded
<1>10. FindId(t, p) = j
  <2>1. /\ \A x \in DirIds(s), h \in Names :
           entries(s, x)[h] # NoEntry => x \in DirIds(t) /\ entries(t, x)[h] = entries(s, x)[h]
        /\ d \in DirIds(t) /\ entries(t, d)[f] = j /\ j # NoEntry /\ d \in Ids
    BY <1>3, <1>4, <1>9, IdsAssumption DEF AllNames, DirIds, InodeIds, Addable
  <2>2. FindId(t, dirname(p)) = d
    BY <1>1, <1>2, <1>7, <1>9, <2>1, MoreEntries
  <2>3. p = Append(dirname(p), f)
    BY <1>7, DirnameLess
  <2>4. FindId(t, Append(dirname(p), f)) = entries(t, d)[f]
    BY <1>2, <1>3, <1>9, <2>1, <2>2, FindAppend
  <2> QED BY <2>1, <2>3, <2>4
<1>11. CreatedAt(s, t, p, type)
  <2>1. type = "file" => data = Data(<<>>)
    OBVIOUS
  <2> QED BY <1>4, <1>5, <1>6, <1>7, <2>1 DEF CreatedAt
<1> QED BY <1>5, <1>8, <1>9, <1>10, <1>11 DEF j

(* The store removeEntry leaves is the one of TakenOut. *)
EntryRemoved(s, d, f, n) ==
    [Gone(s, n) EXCEPT ![s[d].id] = Listing([entries(s, d) EXCEPT ![f] = NoEntry])]

LEMMA RemovalIsTakenOut ==
    ASSUME NEW s, Wired(s), NEW d \in InodeIds(s), NEW n \in InodeIds(s), n # d, NEW f
    PROVE  EntryRemoved(s, d, f, n) = TakenOut(s, d, f, n)
<1> DEFINE r == Gone(s, n)
<1>1. d \in Ids /\ n \in Ids /\ s[n].id # d
  BY DataTypes
<1>2. r[d] = s[d]
  BY <1>1 DEF Gone, Wired, Stores
<1>4. TakenOut(s, d, f, n) = [r EXCEPT ![s[d].id] = Listing([entries(s, d) EXCEPT ![f] = NoEntry])]
  BY <1>2 DEF TakenOut, Relisted, Entered
<1> QED BY <1>4 DEF EntryRemoved

(* The entry of a name in a directory is where the path leads. *)
LEMMA EntryIsFound ==
    ASSUME NEW s, Sound(s), NEW p \in Paths,
           ListingError(s, FindId(s, dirname(p))) = "ok",
           entries(s, FindId(s, dirname(p)))[basename(p)] # NoEntry
    PROVE  /\ p # <<>> /\ FindId(s, dirname(p)) \in DirIds(s)
           /\ FindId(s, p) = entries(s, FindId(s, dirname(p)))[basename(p)]
           /\ FindId(s, p) \in InodeIds(s)
<1> DEFINE d == FindId(s, dirname(p))
           f == basename(p)
<1>1. d \in Ids \union Errors /\ dirname(p) \in Paths /\ f \in AllNames /\ s \in Stores
  BY DirnameType, FindType DEF AllNames, Sound, Wired
<1>2. d \in DirIds(s)
  BY <1>1, SoundReads
<1>3. f \in Names /\ entries(s, d)[f] \in InodeIds(s)
  BY <1>1, <1>2 DEF Sound, Linked
<1>4. p # <<>>
  BY <1>3, NameAssumption DEF basename
<1>5. FindId(s, p) = Child(s, d, f)
  BY <1>4, FindStep
<1> HIDE DEF d, f
<1>6. FindId(s, p) = entries(s, d)[f]
  BY <1>1, <1>2, <1>3, <1>5, SoundChild DEF d, f
<1> QED BY <1>2, <1>3, <1>4, <1>6 DEF d, f

(* removeEntry takes a file out, or a directory that is empty.             *)
LEMMA RemovalTidy ==
    ASSUME NEW s, Tidy(s), NEW p \in Paths, NEW n, n = FindId(s, p),
           ListingError(s, FindId(s, dirname(p))) = "ok",
           entries(s, FindId(s, dirname(p)))[basename(p)] # NoEntry,
           n \in DirIds(s) => entries(s, n) = NoEntries,
           NEW t, t = EntryRemoved(s, FindId(s, dirname(p)), basename(p), n)
    PROVE  /\ Tidy(t) /\ TakenOutAt(s, t, p) /\ IsFree(t, p)
           /\ Used(t) \subseteq Used(s)
           /\ InodeIds(t) = InodeIds(s) \ {n} /\ DirIds(t) = DirIds(s) \ {n}
<1> DEFINE d == FindId(s, dirname(p))
           f == basename(p)
<1>1. s \in Stores /\ Sound(s) /\ Wired(s)
  BY DEF Tidy, Sound, Wired
<1>2. p # <<>> /\ d \in DirIds(s) /\ n = entries(s, d)[f] /\ n \in InodeIds(s)
  BY <1>1, EntryIsFound
<1>3. dirname(p) \in Paths /\ f \in AllNames /\ d \in Ids /\ d \in InodeIds(s)
      /\ f \in Names
  BY <1>2, DirnameLess DEF AllNames, DirIds, InodeIds
<1>4. n # d
  BY <1>2, <1>3, IdsAssumption DEF NoEntries, AllNames, InodeIds
<1>5. d = FindId(s, dirname(p)) /\ f = basename(p)
  OBVIOUS
<1> HIDE DEF d, f
<1>6. t = TakenOut(s, d, f, n)
  BY <1>1, <1>2, <1>3, <1>4, <1>5, RemovalIsTakenOut
<1>7. Tidy(s) /\ d \in DirIds(s) /\ f \in AllNames /\ n = entries(s, d)[f] /\ n # NoEntry /\ n # d
      /\ (n \in DirIds(s) => entries(s, n) = NoEntries)
  BY <1>2, <1>3, <1>4, IdsAssumption DEF InodeIds
<1>8. Tidy(t)
  BY ONLY <1>6, <1>7, TakenOutTidy
<1>9. /\ Used(t) = Used(s) \ {n, s[n].id} /\ Sound(t)
      /\ DirIds(t) = DirIds(s) \ {n} /\ InodeIds(t) = InodeIds(s) \ {n}
      /\ \A x \in DirIds(t), h \in AllNames :
           entries(t, x)[h] = IF x = d /\ h = f THEN NoEntry ELSE entries(s, x)[h]
  BY ONLY <1>1, <1>6, <1>7, NodeRemoved
<1>10. FindId(t, dirname(p)) = d
  <2> DEFINE C == {p}
             a == dirname(p)
  <2>1. ASSUME NEW x \in DirIds(s), NEW h \in Names, entries(s, x)[h] # NoEntry,
               ~(x = FindId(s, dirname(p)) /\ h = basename(p))
        PROVE  x \in DirIds(t) /\ entries(t, x)[h] = entries(s, x)[h]
    <3>1. h \in AllNames /\ ~(x = d /\ h = f)
      BY <1>5, <2>1 DEF AllNames
    <3>2. x # n
      BY <1>7, <2>1 DEF NoEntries
    <3> QED BY <1>9, <3>1, <3>2
  <2>2. a \in Paths /\ ~IsAtOrAbove(p, a)
    BY <1>2, DirnameLess, AboveFacts
  <2>3. FindId(s, a) = d /\ FindId(s, a) \in Ids
    BY <1>3, <1>5
  <2>4. /\ C \subseteq Paths \ {<<>>} /\ \A c \in C : ~IsAtOrAbove(c, a)
        /\ \A x \in DirIds(s), h \in Names :
            entries(s, x)[h] # NoEntry /\
            ~(\E c \in C : x = FindId(s, dirname(c)) /\ h = basename(c))
              => x \in DirIds(t) /\ entries(t, x)[h] = entries(s, x)[h]
    BY <1>2, <2>1, <2>2
  <2> HIDE DEF C, a
  <2>5. FindId(t, a) = FindId(s, a)
    BY <1>1, <1>9, <2>2, <2>3, <2>4, FindKept
  <2> QED BY <2>3, <2>5 DEF a
<1>11. IsFree(t, p)
  BY <1>2, <1>3, <1>4, <1>5, <1>9, <1>10 DEF IsFree
<1>12. TakenOutAt(s, t, p)
  BY <1>2, <1>5, <1>6, <1>7 DEF TakenOutAt
<1> QED BY <1>8, <1>9, <1>11, <1>12

(* The store renameSync leaves is the one of Rehung. *)
EntryMoved(s, d, f, e, g, target, old, new) ==
    [Cleared(s, target) EXCEPT
        ![s[d].id] = Listing(old),
        ![s[e].id] = Listing([new EXCEPT ![g] = entries(s, d)[f]])]

LEMMA MoveIsRehung ==
    ASSUME NEW s, Wired(s), NEW d \in InodeIds(s), NEW e \in InodeIds(s), NEW f, NEW g,
           NEW target, target = Target(s, d, f, e, g),
           target # NoEntry => target \in InodeIds(s) /\ target # d /\ target # e,
           NEW old, old = Entered(s, d, f, NoEntry), NEW new, new = Unlinked(s, d, f, e)
    PROVE  EntryMoved(s, d, f, e, g, target, old, new) = Rehung(s, d, f, e, g)
<1> DEFINE c == Cleared(s, target)
           b == Relisted(c, d, old)
<1>2. c[d] = s[d] /\ c[e] = s[e] /\ DOMAIN c = Ids /\ s[d].id # e
  <2>1. d \in Ids /\ e \in Ids /\ DOMAIN s = Ids /\ s[d].id # e
    BY DataTypes DEF Wired, Stores
  <2>2. CASE target = NoEntry
    BY <2>1, <2>2 DEF Cleared
  <2>3. CASE target # NoEntry
    <3>1. target \in Ids /\ s[target].id \notin {d, e} /\ target \notin {d, e}
      BY <2>3, DataTypes
    <3>2. c = Gone(s, target)
      BY <2>3 DEF Cleared
    <3> QED BY <2>1, <3>1, <3>2 DEF Gone
  <2> QED BY <2>2, <2>3
<1>3. b = [c EXCEPT ![s[d].id] = Listing(old)]
  BY <1>2 DEF Relisted
<1>4. b[e] = s[e]
  <2> HIDE DEF c
  <2> QED BY <1>2, <1>3, DataTypes
<1> HIDE DEF b, c
<1>5. Relisted(b, e, [new EXCEPT ![g] = entries(s, d)[f]])
        = [b EXCEPT ![s[e].id] = Listing([new EXCEPT ![g] = entries(s, d)[f]])]
  BY <1>4 DEF Relisted
<1>6. EntryMoved(s, d, f, e, g, target, old, new)
        = [b EXCEPT ![s[e].id] = Listing([new EXCEPT ![g] = entries(s, d)[f]])]
  BY <1>3 DEF EntryMoved, c
<1>7. Rehung(s, d, f, e, g) = Relisted(b, e, [new EXCEPT ![g] = entries(s, d)[f]])
  BY DEF Rehung, b, c
<1> QED BY <1>5, <1>6, <1>7

(* rename moves a node, and with it what is below: over a file and within  *)
(* one directory too, two paths of one name each leading to one directory  *)
(* only if they are the same.                                              *)
LEMMA MoveTidy ==
    ASSUME NEW s, Tidy(s), NEW p \in Paths, NEW q \in Paths, q # <<>>,
           NEW d, d = FindId(s, dirname(p)), NEW e, e = FindId(s, dirname(q)),
           ListingError(s, d) = "ok", ListingError(s, e) = "ok",
           entries(s, d)[basename(p)] # NoEntry,
           IF p = <<>> \/ dirname(q) = <<>> THEN p # dirname(q)
           ELSE ~IsAtOrAbove(p, dirname(q)),
           NEW old, old = [entries(s, d) EXCEPT ![basename(p)] = NoEntry],
           NEW new, new = IF dirname(q) = dirname(p) THEN old ELSE entries(s, e),
           NEW target, target = new[basename(q)],
           target # NoEntry => INodeError(s, target) = "ok" /\ s[target].type = "file",
           NEW t, t = EntryMoved(s, d, basename(p), e, basename(q), target, old, new)
    PROVE  /\ Tidy(t) /\ RehungAt(s, t, p, q)
           /\ InodeIds(t) = InodeIds(s) \ {target} /\ DirIds(t) = DirIds(s)
<1> DEFINE f == basename(p)
           g == basename(q)
<1>1. s \in Stores /\ Sound(s) /\ Wired(s)
  BY DEF Tidy, Sound, Wired
<1>2. p # <<>> /\ d \in DirIds(s) /\ f \in Names
  BY <1>1, EntryIsFound, DirnameLess
<1>3. /\ dirname(p) \in Paths /\ dirname(q) \in Paths /\ g \in Names
      /\ e \in Ids \union Errors
  BY <1>1, <1>2, FindType, DirnameLess
<1>4. e \in DirIds(s) /\ d \in InodeIds(s) /\ e \in InodeIds(s) /\ d \in Ids /\ e \in Ids
  BY <1>1, <1>2, <1>3, SoundReads DEF DirIds, InodeIds
<1>5. ~IsAtOrAbove(p, dirname(q))
  <2>1. CASE dirname(q) = <<>>
    BY <1>2, <2>1, DirnameLess DEF IsAtOrAbove
  <2>2. CASE dirname(q) # <<>>
    BY <1>2, <2>2
  <2> QED BY <2>1, <2>2
<1>6. dirname(q) = dirname(p) <=> d = e
  BY <1>1, <1>2, <1>3, <1>4, FindUnique
<1>7. old = Entered(s, d, f, NoEntry) /\ new = Unlinked(s, d, f, e)
      /\ target = Target(s, d, f, e, g)
  BY <1>6 DEF Unlinked, Entered, Target
<1>8. target # NoEntry => target \in InodeIds(s) /\ target # d /\ target # e
  <2>1. entries(s, d) \in Entries /\ entries(s, e) \in Entries
    BY <1>1, <1>2, <1>4, DataTypes DEF DirIds
  <2>2. new \in Entries
    BY <1>2, <2>1 DEF Entries
  <2> HIDE DEF g
  <2>3. new[g] \in Ids \union {NoEntry}
    BY <1>3, <2>2 DEF Entries
  <2> QED BY <1>1, <1>2, <1>4, <2>3, SoundReads DEF DirIds, g
<1>9. t = EntryMoved(s, d, f, e, g, target, old, new)
      /\ f = basename(p) /\ g = basename(q)
  OBVIOUS
<1> HIDE DEF f, g
<1>10. t = Rehung(s, d, f, e, g)
  BY ONLY <1>1, <1>4, <1>7, <1>8, <1>9, MoveIsRehung
<1>11. /\ Tidy(s) /\ p \in Paths /\ p # <<>> /\ q \in Paths /\ q # <<>>
       /\ d = FindId(s, dirname(p)) /\ e = FindId(s, dirname(q))
       /\ d \in DirIds(s) /\ f \in Names /\ e \in DirIds(s) /\ g \in Names
       /\ f \in AllNames /\ entries(s, d)[f] # NoEntry
       /\ target # NoEntry => s[target].type = "file"
  BY <1>2, <1>3, <1>4, <1>9 DEF AllNames
<1>12. Tidy(t)
  BY ONLY <1>5, <1>7, <1>9, <1>10, <1>11, RehungTidy
<1>13. RehungAt(s, t, p, q)
  BY ONLY <1>5, <1>7, <1>9, <1>10, <1>11 DEF RehungAt
<1>14. InodeIds(t) = InodeIds(s) \ {target} /\ DirIds(t) = DirIds(s)
  BY ONLY <1>1, <1>7, <1>10, <1>11, NodeMoved
<1> QED BY <1>12, <1>13, <1>14

(* Where a path leads to, if it leads anywhere, is a file. *)
IsNoDir(s, p) == FindId(s, p) \notin DirIds(s)

(* A file that is stored gets other contents of the size it says.          *)
LEMMA RefillTidy ==
    ASSUME NEW s, Tidy(s), NEW p \in Paths, NEW n, n = FindId(s, p), n \in InodeIds(s),
           IsNoDir(s, p), NEW b \in Seq(Bytes), NEW inode \in Inodes,
           inode.id = s[n].id, inode.type = "file", inode.size = Len(b),
           NEW t, t = Refilled(s, n, Data(b), inode)
    PROVE  /\ Tidy(t) /\ RefilledAt(s, t, p)
           /\ InodeIds(t) = InodeIds(s) /\ DirIds(t) = DirIds(s)
           /\ t[s[n].id] = Data(b)
           /\ \A x \in Paths : FindId(s, x) \in Ids \/ FindId(t, x) \in Ids
                               => FindId(t, x) = FindId(s, x)
<1>1. s \in Stores /\ Sound(s) /\ Wired(s)
  BY DEF Tidy, Sound, Wired
<1>2. s[n].type = "file"
  BY <1>1, DataTypes DEF Types, DirIds, IsNoDir
<1>3. Data(b) \in Blobs /\ inode.size = DataLen(Data(b))
  BY DEF Data, Blobs, DataLen, Text
<1>4. Tidy(t) /\ RefilledAt(s, t, p)
  <2> DEFINE data == Data(b)
  <2>1. data \in Blobs /\ inode.size = DataLen(data) /\ t = Refilled(s, n, data, inode)
    BY <1>3
  <2> HIDE DEF data
  <2>2. Tidy(t)
    BY <1>2, <2>1, RefilledTidy
  <2>3. RefilledAt(s, t, p)
    BY <1>2, <2>1 DEF RefilledAt
  <2> QED BY <2>2, <2>3
<1>5. t[s[n].id] = Data(b)
  <2>1. n # s[n].id /\ s[n].id \in DOMAIN s
    BY <1>1, DataTypes DEF Stores
  <2> QED BY <2>1 DEF Refilled
<1> DEFINE data == Data(b)
<1>6. data \in Blobs /\ t = Refilled(s, n, data, inode)
  BY <1>3
<1> HIDE DEF data
<1>7. /\ Sound(t) /\ InodeIds(t) = InodeIds(s) /\ DirIds(t) = DirIds(s)
      /\ \A k \in InodeIds(s) \ {n} : Keeps(s, t, k)
  BY <1>1, <1>2, <1>6, FilePut
<1>8. \A x \in DirIds(s) : entries(t, x) = entries(s, x)
  BY <1>2, <1>7, KeepsEntries DEF DirIds
<1>9. \A x \in Paths : FindId(s, x) \in Ids \/ FindId(t, x) \in Ids
                       => FindId(t, x) = FindId(s, x)
  BY <1>1, <1>7, <1>8, MoreEntries
<1> QED BY <1>4, <1>5, <1>7, <1>9

-----------------------------------------------------------------------------
(* What paths lead to. *)

(* NodeAt, of any store. *)
NodeIn(s, p) ==
    LET n == FindId(s, p)
    IN  IF n \notin Ids THEN [kind |-> "none"]
        ELSE IF s[n].type = "dir" THEN [kind |-> "dir"]
        ELSE [kind |-> "file", val |-> s[s[n].id].val]

NoNode   == [kind |-> "none"]
DirNode  == [kind |-> "dir"]
FileNodes == [kind : {"file"}, val : Seq(Bytes)]

LEMMA NodeKinds ==
    ASSUME NEW s, Sound(s), NEW p \in Paths
    PROVE  /\ FindId(s, p) \notin Ids => NodeIn(s, p) = NoNode
           /\ FindId(s, p) \in DirIds(s) => NodeIn(s, p) = DirNode
           /\ FindId(s, p) \in InodeIds(s) \ DirIds(s) => NodeIn(s, p) \in FileNodes
           /\ FindId(s, p) \in Ids => FindId(s, p) \in InodeIds(s)
           /\ FileNodes \intersect {NoNode, DirNode} = {} /\ NoNode # DirNode
<1>1. FindId(s, p) \in InodeIds(s) \union Errors /\ Wired(s)
  BY SoundFind DEF Sound
<1>2. FileNodes \intersect {NoNode, DirNode} = {} /\ NoNode # DirNode
  BY DEF NoNode, DirNode, FileNodes
<1>3. CASE FindId(s, p) \notin Ids
  BY <1>2, <1>3 DEF NodeIn, NoNode, DirIds, InodeIds
<1>4. CASE FindId(s, p) \in Ids
  <2>1. FindId(s, p) \in InodeIds(s)
    BY <1>1, <1>4, IdsAssumption
  <2>2. CASE FindId(s, p) \in DirIds(s)
    BY <1>2, <1>4, <2>1, <2>2 DEF NodeIn, DirNode, DirIds
  <2>3. CASE FindId(s, p) \notin DirIds(s)
    <3>1. s[FindId(s, p)].type # "dir"
      BY <2>1, <2>3 DEF DirIds
    <3>2. s[s[FindId(s, p)].id] \in Blobs
      BY <1>1, <2>1, <3>1, DataTypes DEF Types
    <3>3. s[s[FindId(s, p)].id].val \in Seq(Bytes)
      BY <3>2 DEF Blobs
    <3>4. NodeIn(s, p) = [kind |-> "file", val |-> s[s[FindId(s, p)].id].val]
      BY <1>4, <3>1 DEF NodeIn
    <3>5. NodeIn(s, p) \in FileNodes
      BY <3>3, <3>4 DEF FileNodes
    <3> QED BY <1>2, <1>4, <2>1, <2>3, <3>5
  <2> QED BY <2>2, <2>3
<1> QED BY <1>3, <1>4

(* Above a path means above its parent, unless it is the path itself.      *)
LEMMA AboveParent ==
    ASSUME NEW p \in Paths, NEW x \in Paths, IsAtOrAbove(p, x), p # x
    PROVE  x # <<>> /\ Len(p) < Len(x) /\ IsAtOrAbove(p, dirname(x))
<1>1. Len(p) \in Nat /\ Len(x) \in Nat /\ p \in Seq(Names) /\ x \in Seq(Names)
  BY DEF Paths
<1>2. Len(p) <= Len(x) /\ SubSeq(x, 1, Len(p)) = p
  BY ONLY IsAtOrAbove(p, x) DEF IsAtOrAbove
<1>3. Len(p) # Len(x)
  <2>1. SubSeq(x, 1, Len(x)) = x
    BY <1>1
  <2> QED BY <1>2, <2>1, Zenon
<1>4. Len(p) < Len(x) /\ x # <<>>
  BY <1>1, <1>2, <1>3
<1> DEFINE a == dirname(x)
<1>5. a = SubSeq(x, 1, Len(x) - 1) /\ Len(a) = Len(x) - 1
  BY <1>4, DirnameLess DEF dirname
<1>6. Len(p) <= Len(a)
  BY <1>1, <1>4, <1>5
<1>7. SubSeq(a, 1, Len(p)) = SubSeq(x, 1, Len(p))
  BY <1>1, <1>4, <1>5
<1> QED BY <1>2, <1>4, <1>6, <1>7 DEF IsAtOrAbove

(* A path that leads somewhere passes directories that are not empty.      *)
LEMMA FindAbove ==
    ASSUME NEW s, Sound(s), NEW p \in Paths, NEW x \in Paths, IsAtOrAbove(p, x), p # x,
           FindId(s, x) \in Ids
    PROVE  FindId(s, p) \in DirIds(s) /\ entries(s, FindId(s, p)) # NoEntries
<1> DEFINE Goal == FindId(s, p) \in DirIds(s) /\ entries(s, FindId(s, p)) # NoEntries
           Below(k) == \E y \in Paths : /\ k = Len(y) /\ IsAtOrAbove(p, y) /\ p # y
                                        /\ FindId(s, y) \in Ids
           T == {k \in Nat : Below(k)}
<1>1. Len(x) \in T
  BY DEF Paths
<1>2. PICK k \in T : \A l \in T : k <= l
  <2>1. T \in SUBSET Nat /\ T # {}
    BY <1>1
  <2> HIDE DEF T
  <2> QED BY <2>1, LeastNat
<1>3. PICK y \in Paths : k = Len(y) /\ IsAtOrAbove(p, y) /\ p # y /\ FindId(s, y) \in Ids
  OBVIOUS
<1>4. Len(y) \in Nat
  BY DEF Paths
<1>5. y # <<>> /\ IsAtOrAbove(p, dirname(y))
  BY <1>3, AboveParent
<1> DEFINE a == dirname(y)
<1>6. /\ a \in Paths /\ Len(a) = Len(y) - 1 /\ FindId(s, a) \in DirIds(s)
      /\ entries(s, FindId(s, a))[basename(y)] = FindId(s, y) /\ basename(y) \in Names
  BY <1>3, <1>5, DirnameLess, SoundFind
<1>7. IsAtOrAbove(p, a)
  BY <1>5
<1>8. CASE p = a
  <2>1. entries(s, FindId(s, p))[basename(y)] # NoEntry
    BY <1>3, <1>6, <1>8, IdsAssumption
  <2>2. NoEntries[basename(y)] = NoEntry
    BY <1>6 DEF NoEntries
  <2> QED BY <1>6, <1>8, <2>1, <2>2
<1>9. CASE p # a
  <2>1. Below(k - 1) /\ k - 1 \in Nat /\ ~(k <= k - 1)
    <3>1. FindId(s, a) \in Ids
      BY <1>6 DEF DirIds, InodeIds
    <3>2. k - 1 = Len(a) /\ k - 1 \in Nat /\ ~(k <= k - 1)
      BY <1>3, <1>4, <1>5, <1>6
    <3> QED BY <1>6, <1>7, <1>9, <3>1, <3>2
  <2> QED BY <1>2, <2>1
<1> QED BY <1>8, <1>9

(* Apart from the entries at C two stores lead to the same.                *)
SameBut(s, t, C) ==
    \A x \in DirIds(s), f \in Names :
        entries(s, x)[f] # NoEntry /\
        ~(\E c \in C : x = FindId(s, dirname(c)) /\ f = basename(c))
            => x \in DirIds(t) /\ entries(t, x)[f] = entries(s, x)[f]

(* A node is the same in both: it has the type and, as a file, the data.   *)
SameAt(s, t, n) ==
    /\ n \in DirIds(s) => n \in DirIds(t)
    /\ n \in InodeIds(s) \ DirIds(s) => Keeps(s, t, n)

LEMMA SameNode ==
    ASSUME NEW s, Sound(s), NEW t, Sound(t), NEW p \in Paths, NEW q \in Paths,
           FindId(t, q) = FindId(s, p), FindId(s, p) \in Ids, SameAt(s, t, FindId(s, p))
    PROVE  NodeIn(t, q) = NodeIn(s, p)
<1> DEFINE n == FindId(s, p)
<1>1. n \in InodeIds(s)
  BY NodeKinds
<1>2. CASE n \in DirIds(s)
  BY <1>2, NodeKinds DEF SameAt
<1>3. CASE n \notin DirIds(s)
  <2>1. t[n] = s[n] /\ t[s[n].id] = s[s[n].id]
    BY <1>1, <1>3 DEF SameAt, Keeps
  <2> QED BY <2>1 DEF NodeIn
<1> QED BY <1>2, <1>3

(* What is not at or below one of the changed paths leads where it led.    *)
LEMMA FindKeptBut ==
    ASSUME NEW s, Sound(s), NEW t, Sound(t), NEW C, C \subseteq Paths \ {<<>>},
           SameBut(s, t, C),
           NEW x \in Paths, FindId(s, x) \in Ids, \A c \in C : ~IsAtOrAbove(c, x)
    PROVE  FindId(t, x) = FindId(s, x)
BY FindKept DEF SameBut

(* What is not at or below one of the changed paths is what it was.        *)
LEMMA SameElsewhere ==
    ASSUME NEW s, Sound(s), NEW t, Sound(t), NEW C, C \subseteq Paths \ {<<>>},
           NEW D, D \subseteq Paths \ {<<>>},
           SameBut(s, t, C), SameBut(t, s, D),
           NEW x \in Paths, \A c \in C : ~IsAtOrAbove(c, x), \A c \in D : ~IsAtOrAbove(c, x),
           FindId(s, x) \in Ids => SameAt(s, t, FindId(s, x))
    PROVE  /\ NodeIn(t, x) = NodeIn(s, x)
           /\ FindId(s, x) \in Ids \/ FindId(t, x) \in Ids => FindId(t, x) = FindId(s, x)
<1>1. FindId(s, x) \in Ids => FindId(t, x) = FindId(s, x)
  BY FindKeptBut
<1>2. FindId(t, x) \in Ids => FindId(s, x) = FindId(t, x)
  BY FindKeptBut
<1>3. CASE FindId(s, x) \in Ids
  BY <1>1, <1>3, SameNode
<1>4. CASE FindId(s, x) \notin Ids
  BY <1>2, <1>4, NodeKinds
<1> QED BY <1>3, <1>4

-----------------------------------------------------------------------------
(* All paths but one lead to what they did. *)
Only(s, t, p) == \A x \in Paths : x # p => NodeIn(t, x) = NodeIn(s, x)

(* commitNewFile makes one node. *)
LEMMA CreatedTree ==
    ASSUME NEW s, Sound(s), NEW t, NEW p \in Paths, NEW type \in Types,
           CreatedAt(s, t, p, type)
    PROVE  /\ p # <<>> /\ NodeIn(s, dirname(p)) = DirNode /\ NodeIn(s, p) = NoNode
           /\ NodeIn(t, p) \in IF type = "dir" THEN {DirNode} ELSE FileNodes
           /\ Only(s, t, p)
<1> DEFINE d == FindId(s, dirname(p))
           f == basename(p)
<1>1. p # <<>> /\ d = FindId(s, dirname(p)) /\ f = basename(p)
      /\ dirname(p) \in Paths /\ f \in Names
  BY DirnameLess DEF CreatedAt
<1>2. PICK i, j, data, inode :
        /\ Addable(s, d, f, i, j, data, inode) /\ inode.type = type
        /\ t = Added(s, d, f, i, j, data, inode)
  BY DEF CreatedAt
<1> HIDE DEF d, f
<1>3. /\ Sound(t)
      /\ InodeIds(t) = InodeIds(s) \union {j}
      /\ \A k \in InodeIds(s) \ {d} : Keeps(s, t, k)
      /\ t[j] = inode /\ j \notin InodeIds(s)
      /\ DirIds(t) = DirIds(s) \union (IF inode.type = "dir" THEN {j} ELSE {})
      /\ \A x \in DirIds(s), h \in AllNames :
           entries(t, x)[h] = IF x = d /\ h = f THEN j ELSE entries(s, x)[h]
      /\ inode.type = "dir" => entries(t, j) = NoEntries
  BY <1>2, NodeAdded
<1>4. d \in DirIds(s) /\ d \in Ids /\ entries(s, d)[f] = NoEntry /\ j \in Ids
  BY <1>2 DEF Addable, DirIds, InodeIds
<1>5. FindId(s, p) \notin Ids
  BY <1>1, <1>4, SoundFind, IdsAssumption
<1>6. \A x \in DirIds(s), h \in Names :
        entries(s, x)[h] # NoEntry => x \in DirIds(t) /\ entries(t, x)[h] = entries(s, x)[h]
  BY <1>3, <1>4 DEF AllNames
<1>7. FindId(t, dirname(p)) = d
  BY <1>1, <1>3, <1>4, <1>6, MoreEntries
<1>8. FindId(t, p) = j
  <2>1. d \in DirIds(t) /\ entries(t, d)[f] = j /\ j # NoEntry
    BY <1>1, <1>3, <1>4, IdsAssumption DEF AllNames
  <2>2. FindId(t, Append(dirname(p), f)) = entries(t, d)[f]
    BY <1>1, <1>3, <1>7, <2>1, FindAppend
  <2>3. p = Append(dirname(p), f)
    BY <1>1, DirnameLess
  <2> QED BY <2>1, <2>2, <2>3
<1>9. NodeIn(t, p) \in IF type = "dir" THEN {DirNode} ELSE FileNodes
  <2>1. CASE type = "dir"
    BY <1>2, <1>3, <1>8, <2>1, NodeKinds
  <2>2. CASE type # "dir"
    <3>1. j \in InodeIds(t) \ DirIds(t)
      BY <1>2, <1>3, <2>2 DEF DirIds
    <3> QED BY <1>3, <1>8, <2>2, <3>1, NodeKinds
  <2> QED BY <2>1, <2>2
<1>10. ASSUME NEW x \in Paths, x # p PROVE NodeIn(t, x) = NodeIn(s, x)
  <2>1. CASE IsAtOrAbove(p, x)
    <3>1. FindId(s, x) \notin Ids
      BY <1>5, <1>10, <2>1, FindAbove DEF DirIds, InodeIds
    <3>2. FindId(t, x) \notin Ids
      <4>1. j \in DirIds(t) => entries(t, j) = NoEntries
        BY <1>3 DEF DirIds
      <4> QED BY <1>3, <1>8, <1>10, <2>1, <4>1, FindAbove
    <3> QED BY <1>3, <3>1, <3>2, NodeKinds
  <2>2. CASE ~IsAtOrAbove(p, x)
    <3> DEFINE C == {}
               D == {p}
    <3>1. SameBut(s, t, C)
      BY <1>6 DEF SameBut
    <3>2. SameBut(t, s, D)
      <4>1. ASSUME NEW y \in DirIds(t), NEW h \in Names, entries(t, y)[h] # NoEntry,
                   ~(y = d /\ h = f)
            PROVE  y \in DirIds(s) /\ entries(s, y)[h] = entries(t, y)[h]
        <5>1. y # j
          BY <1>3, <4>1 DEF NoEntries, DirIds
        <5> QED BY <1>3, <4>1, <5>1 DEF AllNames
      <4> QED BY <1>1, <1>7, <4>1 DEF SameBut
    <3>3. FindId(s, x) \in Ids => SameAt(s, t, FindId(s, x))
      BY <1>3, <1>4 DEF SameAt
    <3>4. /\ C \subseteq Paths \ {<<>>} /\ D \subseteq Paths \ {<<>>}
          /\ \A c \in C : ~IsAtOrAbove(c, x)
          /\ \A c \in D : ~IsAtOrAbove(c, x)
          /\ Sound(s) /\ Sound(t) /\ x \in Paths
      BY <1>1, <1>3, <2>2
    <3> HIDE DEF C, D
    <3> QED BY ONLY <3>1, <3>2, <3>3, <3>4, SameElsewhere
  <2> QED BY <2>1, <2>2
<1> QED BY <1>1, <1>4, <1>5, <1>9, <1>10, NodeKinds DEF Only

(* removeEntry takes one node away. *)
LEMMA TakenOutTree ==
    ASSUME NEW s, Sound(s), NEW t, NEW p \in Paths, TakenOutAt(s, t, p)
    PROVE  /\ p # <<>> /\ NodeIn(s, dirname(p)) = DirNode /\ NodeIn(s, p) # NoNode
           /\ \A x \in Paths : IsAtOrAbove(p, x) /\ x # p => NodeIn(s, x) = NoNode
           /\ NodeIn(t, p) = NoNode
           /\ Only(s, t, p)
<1> DEFINE d == FindId(s, dirname(p))
           f == basename(p)
           n == FindId(s, p)
<1>1. /\ p # <<>> /\ d = FindId(s, dirname(p)) /\ f = basename(p) /\ n = FindId(s, p)
      /\ dirname(p) \in Paths /\ f \in Names /\ f \in AllNames
      /\ n \in InodeIds(s) /\ (n \in DirIds(s) => entries(s, n) = NoEntries)
      /\ t = TakenOut(s, d, f, n)
  BY DirnameLess DEF TakenOutAt, AllNames
<1> HIDE DEF d, f, n
<1>2. d \in DirIds(s) /\ n = entries(s, d)[f] /\ n # NoEntry /\ n \in Ids /\ d \in Ids
  BY <1>1, SoundFind, IdsAssumption DEF InodeIds, DirIds
<1>3. n # d
  BY <1>1, <1>2 DEF NoEntries, AllNames
<1>4. /\ Sound(t)
      /\ InodeIds(t) = InodeIds(s) \ {n} /\ DirIds(t) = DirIds(s) \ {n}
      /\ \A m \in InodeIds(s) \ {d, n} : Keeps(s, t, m)
      /\ \A x \in DirIds(t), h \in AllNames :
           entries(t, x)[h] = IF x = d /\ h = f THEN NoEntry ELSE entries(s, x)[h]
  BY <1>1, <1>2, <1>3, NodeRemoved
<1>5. ASSUME NEW x \in Paths, IsAtOrAbove(p, x), x # p PROVE FindId(s, x) \notin Ids
  BY <1>1, <1>5, FindAbove
<1>6. \A y \in DirIds(t), h \in Names : entries(t, y)[h] # NoEntry =>
            y \in DirIds(s) /\ entries(s, y)[h] = entries(t, y)[h]
  BY <1>4 DEF AllNames
<1>7. ASSUME NEW x \in Paths, FindId(t, x) \in Ids
      PROVE  FindId(s, x) = FindId(t, x) /\ FindId(t, x) # n
  <2>1. FindId(s, x) = FindId(t, x)
    BY <1>4, <1>6, <1>7, MoreEntries
  <2>2. FindId(t, x) \in InodeIds(t)
    BY <1>4, <1>7, NodeKinds
  <2> QED BY <1>4, <2>1, <2>2
<1>8. FindId(t, p) \notin Ids
  BY <1>1, <1>7
<1>9. ASSUME NEW x \in Paths, x # p PROVE NodeIn(t, x) = NodeIn(s, x)
  <2>1. CASE IsAtOrAbove(p, x)
    <3>1. FindId(s, x) \notin Ids /\ FindId(t, x) \notin Ids
      BY <1>5, <1>7, <1>9, <2>1
    <3> QED BY <1>4, <3>1, NodeKinds
  <2>2. CASE ~IsAtOrAbove(p, x)
    <3> DEFINE C == {p}
               D == {}
    <3>1. SameBut(s, t, C)
      <4>1. ASSUME NEW y \in DirIds(s), NEW h \in Names, entries(s, y)[h] # NoEntry,
                   ~(y = d /\ h = f)
            PROVE  y \in DirIds(t) /\ entries(t, y)[h] = entries(s, y)[h]
        <5>1. y # n
          BY <1>1, <4>1 DEF NoEntries
        <5> QED BY <1>4, <4>1, <5>1 DEF AllNames
      <4> QED BY <1>1, <4>1 DEF SameBut
    <3>2. SameBut(t, s, D)
      BY <1>6 DEF SameBut
    <3>3. FindId(s, x) \in Ids => SameAt(s, t, FindId(s, x))
      <4>1. FindId(s, x) \in Ids => FindId(s, x) # n
        BY <1>1, <1>9, FindUnique
      <4> QED BY <1>2, <1>4, <4>1 DEF SameAt
    <3>4. /\ C \subseteq Paths \ {<<>>} /\ D \subseteq Paths \ {<<>>}
          /\ \A c \in C : ~IsAtOrAbove(c, x)
          /\ \A c \in D : ~IsAtOrAbove(c, x)
          /\ Sound(s) /\ Sound(t) /\ x \in Paths
      BY <1>1, <1>4, <2>2
    <3> HIDE DEF C, D
    <3> QED BY ONLY <3>1, <3>2, <3>3, <3>4, SameElsewhere
  <2> QED BY <2>1, <2>2
<1>10. NodeIn(s, dirname(p)) = DirNode
  BY <1>1, <1>2, NodeKinds
<1>11. NodeIn(s, p) # NoNode
  BY <1>1, NodeKinds
<1>12. NodeIn(t, p) = NoNode
  BY <1>4, <1>8, NodeKinds
<1>13. \A x \in Paths : IsAtOrAbove(p, x) /\ x # p => NodeIn(s, x) = NoNode
  BY <1>5, NodeKinds
<1> QED BY <1>1, <1>9, <1>10, <1>11, <1>12, <1>13 DEF Only

(* syncFile gives one file other contents. *)
LEMMA RefilledTree ==
    ASSUME NEW s, Sound(s), NEW t, NEW p \in Paths, RefilledAt(s, t, p)
    PROVE  /\ p # <<>> /\ NodeIn(s, dirname(p)) = DirNode /\ NodeIn(s, p) \in FileNodes
           /\ NodeIn(t, p) \in FileNodes
           /\ Only(s, t, p)
<1> DEFINE n == FindId(s, p)
<1>1. n = FindId(s, p) /\ n \in InodeIds(s) /\ s[n].type = "file" /\ n \in Ids /\ n \notin DirIds(s)
  BY DEF RefilledAt, InodeIds, DirIds
<1>2. PICK data \in Blobs, inode \in Inodes :
        inode.id = s[n].id /\ inode.type = "file" /\ t = Refilled(s, n, data, inode)
  BY DEF RefilledAt
<1> HIDE DEF n
<1>3. /\ Sound(t)
      /\ InodeIds(t) = InodeIds(s) /\ DirIds(t) = DirIds(s)
      /\ \A k \in InodeIds(s) \ {n} : Keeps(s, t, k)
  BY <1>1, <1>2, FilePut
<1>4. \A x \in DirIds(s) : entries(t, x) = entries(s, x)
  BY <1>1, <1>3, KeepsEntries DEF DirIds
<1>5. ASSUME NEW x \in Paths
      PROVE  (FindId(s, x) \in Ids \/ FindId(t, x) \in Ids) => FindId(t, x) = FindId(s, x)
  BY <1>3, <1>4, MoreEntries
<1>6. p # <<>>
  BY <1>1, FindRoot DEF Sound, Linked
<1>7. ASSUME NEW x \in Paths, x # p PROVE NodeIn(t, x) = NodeIn(s, x)
  <2>1. CASE FindId(s, x) \notin Ids
    BY <1>3, <1>5, <2>1, NodeKinds
  <2>2. CASE FindId(s, x) \in Ids
    <3>1. FindId(s, x) # n
      BY <1>1, <1>7, FindUnique
    <3>2. SameAt(s, t, FindId(s, x))
      BY <1>3, <3>1 DEF SameAt
    <3> QED BY <1>3, <1>5, <2>2, <3>2, SameNode
  <2> QED BY <2>1, <2>2
<1>8. NodeIn(s, dirname(p)) = DirNode
  BY <1>1, <1>6, SoundFind, DirnameLess, NodeKinds
<1>9. FindId(t, p) = n
  BY <1>1, <1>5
<1> QED BY <1>1, <1>3, <1>6, <1>7, <1>8, <1>9, NodeKinds DEF Only

-----------------------------------------------------------------------------
(* Paths below a path. *)
LEMMA BelowPaths ==
    ASSUME NEW p \in Paths, NEW z \in Paths
    PROVE  /\ p \o z \in Paths /\ Len(p \o z) = Len(p) + Len(z)
           /\ IsAtOrAbove(p, p \o z)
           /\ z = <<>> => p \o z = p
           /\ z # <<>> => /\ p \o z # <<>>
                          /\ dirname(p \o z) = p \o dirname(z)
                          /\ basename(p \o z) = basename(z)
<1> DEFINE x == p \o z
<1>1. p \in Seq(Names) /\ z \in Seq(Names) /\ Len(p) \in Nat /\ Len(z) \in Nat
  BY DEF Paths
<1>2. /\ x \in Seq(Names) /\ Len(x) = Len(p) + Len(z)
      /\ \A i \in 1 .. Len(x) : x[i] = IF i <= Len(p) THEN p[i] ELSE z[i - Len(p)]
  BY <1>1
<1>3. IsAtOrAbove(p, x)
  <2>1. SubSeq(x, 1, Len(p)) = p
    BY <1>1, <1>2
  <2> QED BY <1>1, <1>2, <2>1 DEF IsAtOrAbove
<1>4. z = <<>> => x = p
  BY <1>1
<1>5. ASSUME z # <<>>
      PROVE  x # <<>> /\ dirname(x) = p \o dirname(z) /\ basename(x) = basename(z)
  <2>1. Len(z) > 0 /\ x # <<>>
    BY <1>1, <1>2, <1>5
  <2>2. basename(x) = basename(z)
    BY <1>1, <1>2, <1>5, <2>1 DEF basename
  <2>3. dirname(x) = SubSeq(x, 1, Len(x) - 1) /\ dirname(z) = SubSeq(z, 1, Len(z) - 1)
    BY <1>5, <2>1 DEF dirname
  <2>4. SubSeq(x, 1, Len(x) - 1) = p \o SubSeq(z, 1, Len(z) - 1)
    BY <1>1, <1>2, <2>1
  <2> QED BY <2>1, <2>2, <2>3, <2>4
<1> QED BY <1>2, <1>3, <1>4, <1>5 DEF Paths

LEMMA BelowIsConcat ==
    ASSUME NEW p \in Paths, NEW x \in Paths, IsAtOrAbove(p, x)
    PROVE  /\ SubSeq(x, Len(p) + 1, Len(x)) \in Paths
           /\ x = p \o SubSeq(x, Len(p) + 1, Len(x))
<1> DEFINE z == SubSeq(x, Len(p) + 1, Len(x))
<1>1. p \in Seq(Names) /\ x \in Seq(Names) /\ Len(p) \in Nat /\ Len(x) \in Nat
  BY DEF Paths
<1>2. Len(p) <= Len(x) /\ SubSeq(x, 1, Len(p)) = p
  BY DEF IsAtOrAbove
<1>3. z \in Seq(Names) /\ Len(z) = Len(x) - Len(p)
  BY <1>1, <1>2
<1>4. \A i \in 1 .. Len(z) : z[i] = x[i + Len(p)]
  BY <1>1, <1>2
<1>5. \A i \in 1 .. Len(p) : p[i] = x[i]
  BY <1>1, <1>2
<1> HIDE DEF z
<1>6. Len(p \o z) = Len(x) /\ p \o z \in Seq(Names)
  BY <1>1, <1>2, <1>3
<1>7. ASSUME NEW i \in 1 .. Len(x) PROVE (p \o z)[i] = x[i]
  <2>1. CASE i <= Len(p)
    BY <1>1, <1>3, <1>5, <2>1
  <2>2. CASE ~(i <= Len(p))
    <3>1. i - Len(p) \in 1 .. Len(z)
      BY <1>1, <1>3, <2>2
    <3>2. (p \o z)[i] = z[i - Len(p)]
      BY <1>1, <1>3, <2>2
    <3>3. z[i - Len(p)] = x[i - Len(p) + Len(p)] /\ i - Len(p) + Len(p) = i
      BY <1>1, <1>4, <3>1
    <3> QED BY <3>2, <3>3
  <2> QED BY <2>1, <2>2
<1>8. p \o z = x
  BY <1>1, <1>6, <1>7, SeqEqual
<1> QED BY <1>3, <1>8 DEF Paths, z

(* What is below a node goes with it. *)
LEMMA SubtreeKept ==
    ASSUME NEW s, Sound(s), NEW t, Sound(t), NEW p \in Paths, NEW q \in Paths,
           FindId(t, q) = FindId(s, p),
           \A y \in Paths, x \in DirIds(s), h \in Names :
              x = FindId(s, p \o y) /\ entries(s, x)[h] # NoEntry
                  => x \in DirIds(t) /\ entries(t, x)[h] = entries(s, x)[h],
           NEW z \in Paths, FindId(s, p \o z) \in Ids
    PROVE  FindId(t, q \o z) = FindId(s, p \o z)
<1> DEFINE Lost(k) == \E y \in Paths : /\ k = Len(y) /\ FindId(s, p \o y) \in Ids
                                       /\ FindId(t, q \o y) # FindId(s, p \o y)
           T == {k \in Nat : Lost(k)}
<1>1. SUFFICES ASSUME FindId(t, q \o z) # FindId(s, p \o z) PROVE FALSE
  OBVIOUS
<1>2. Len(z) \in T
  BY <1>1 DEF Paths
<1>3. PICK k \in T : \A l \in T : k <= l
  <2>1. T \in SUBSET Nat /\ T # {}
    BY <1>2
  <2> HIDE DEF T
  <2> QED BY <2>1, LeastNat
<1>4. PICK y \in Paths : /\ k = Len(y) /\ FindId(s, p \o y) \in Ids
                         /\ FindId(t, q \o y) # FindId(s, p \o y)
  OBVIOUS
<1>5. y # <<>>
  BY <1>4, BelowPaths
<1> DEFINE a == dirname(y)
           h == basename(y)
           w == p \o y
<1>6. a \in Paths /\ Len(a) = Len(y) - 1 /\ h \in Names /\ Len(y) \in Nat \ {0}
  BY <1>5, DirnameLess
<1>7. /\ p \o y \in Paths /\ p \o y # <<>> /\ dirname(p \o y) = p \o a /\ basename(p \o y) = h
      /\ q \o y \in Paths /\ q \o y # <<>> /\ dirname(q \o y) = q \o a /\ basename(q \o y) = h
      /\ p \o a \in Paths /\ q \o a \in Paths
  <2> HIDE DEF a, h
  <2>1. ASSUME NEW r \in Paths
        PROVE  /\ r \o y \in Paths /\ r \o y # <<>> /\ dirname(r \o y) = r \o a
               /\ basename(r \o y) = h /\ r \o a \in Paths
    <3>1. r \o a \in Paths
      BY <1>6, BelowPaths
    <3>2. r \o y \in Paths /\ r \o y # <<>>
      BY <1>5, BelowPaths
    <3>3. dirname(r \o y) = r \o a /\ basename(r \o y) = h
      BY <1>5, BelowPaths DEF a, h
    <3> QED BY <3>1, <3>2, <3>3
  <2> QED BY <2>1
<1> DEFINE n == FindId(s, p \o a)
<1>8. n \in DirIds(s) /\ entries(s, n)[h] = FindId(s, p \o y) /\ entries(s, n)[h] # NoEntry
  <2>1. w \in Paths /\ w # <<>> /\ FindId(s, w) \in Ids /\ dirname(w) = p \o a /\ basename(w) = h
    BY <1>4, <1>7
  <2> HIDE DEF w
  <2>2. /\ FindId(s, dirname(w)) \in DirIds(s)
        /\ entries(s, FindId(s, dirname(w)))[basename(w)] = FindId(s, w)
    BY <2>1, SoundFind
  <2>3. FindId(s, w) # NoEntry
    BY <2>1, IdsAssumption
  <2> QED BY <2>1, <2>2, <2>3 DEF w
<1>9. FindId(t, q \o a) = n
  <2>1. n \in Ids
    BY <1>8 DEF DirIds, InodeIds
  <2>2. FindId(t, q \o a) # n => Lost(k - 1)
    BY <1>4, <1>6, <2>1
  <2>3. k - 1 \in Nat /\ ~(k <= k - 1)
    BY <1>4, <1>6
  <2> QED BY <1>3, <2>2, <2>3
<1>10. n \in DirIds(t) /\ entries(t, n)[h] = entries(s, n)[h]
  BY <1>6, <1>8
<1>11. q \o y = Append(q \o a, h)
  BY <1>7, DirnameLess
<1>12. FindId(t, q \o y) = entries(t, n)[h]
  BY <1>6, <1>7, <1>8, <1>9, <1>10, <1>11, FindAppend
<1> QED BY <1>4, <1>8, <1>10, <1>12

(* The entry of a directory is what the path through it leads to.          *)
LEMMA FindLast ==
    ASSUME NEW s, Sound(s), NEW p \in Paths, p # <<>>, FindId(s, dirname(p)) \in DirIds(s),
           entries(s, FindId(s, dirname(p)))[basename(p)] # NoEntry
    PROVE  FindId(s, p) = entries(s, FindId(s, dirname(p)))[basename(p)]
<1> DEFINE a == dirname(p)
           f == basename(p)
<1>1. a \in Paths /\ f \in Names /\ p = Append(a, f)
  BY DirnameLess
<1>2. FindId(s, a) \in DirIds(s) /\ entries(s, FindId(s, a))[f] # NoEntry
  OBVIOUS
<1> HIDE DEF a, f
<1>3. FindId(s, Append(a, f)) = entries(s, FindId(s, a))[f]
  BY <1>1, <1>2, FindAppend
<1> QED BY <1>1, <1>3 DEF a, f

(* renameSync moves a node with all that is below it.                      *)
MovedTree(s, t, p, q) ==
    /\ p # <<>> /\ q # <<>>
    /\ NodeIn(s, p) # NoNode /\ NodeIn(s, dirname(q)) = DirNode /\ NodeIn(s, q) # DirNode
    /\ ~IsAtOrAbove(p, q)
    /\ \A x \in Paths : IsAtOrAbove(p, x) => NodeIn(t, x) = NoNode
    /\ \A x \in Paths : ~IsAtOrAbove(p, x) /\ ~IsAtOrAbove(q, x) => NodeIn(t, x) = NodeIn(s, x)
    /\ \A z \in Paths : NodeIn(t, q \o z) = NodeIn(s, p \o z)

LEMMA RehungTree ==
    ASSUME NEW s, Sound(s), NEW t, NEW p \in Paths, NEW q \in Paths, p # q, RehungAt(s, t, p, q)
    PROVE  MovedTree(s, t, p, q) /\ Sound(t)
<1> DEFINE d == FindId(s, dirname(p))
           f == basename(p)
           e == FindId(s, dirname(q))
           g == basename(q)
           n == entries(s, d)[f]
<1>1. PICK target : /\ target = Target(s, d, f, e, g)
                    /\ target # NoEntry => s[target].type = "file"
  BY DEF RehungAt
<1>2. /\ p # <<>> /\ q # <<>> /\ d = FindId(s, dirname(p)) /\ e = FindId(s, dirname(q))
      /\ f = basename(p) /\ g = basename(q)
      /\ d \in DirIds(s) /\ e \in DirIds(s) /\ n = entries(s, d)[f] /\ n # NoEntry
      /\ ~IsAtOrAbove(p, dirname(q)) /\ t = Rehung(s, d, f, e, g)
  BY DEF RehungAt
<1>3. /\ dirname(p) \in Paths /\ f \in Names /\ f \in AllNames /\ p = Append(dirname(p), f)
      /\ dirname(q) \in Paths /\ g \in Names /\ g \in AllNames /\ q = Append(dirname(q), g)
      /\ Len(p) \in Nat /\ Len(q) \in Nat
      /\ Len(dirname(p)) = Len(p) - 1 /\ Len(dirname(q)) = Len(q) - 1
  BY <1>2, DirnameLess DEF AllNames
<1>4. ~(d = e /\ f = g)
  <2>1. d \in Ids
    BY <1>2 DEF DirIds, InodeIds
  <2>2. d = e => dirname(p) = dirname(q)
    BY <1>2, <1>3, <2>1, FindUnique
  <2> QED BY <1>3, <2>2
<1> HIDE DEF d, f, e, g, n
<1>5. FindId(s, p) = n
  BY <1>2, FindLast
<1>6. /\ Sound(t)
      /\ n \in InodeIds(t) /\ target = entries(s, e)[g]
      /\ InodeIds(t) = InodeIds(s) \ {target} /\ DirIds(t) = DirIds(s)
      /\ \A m \in InodeIds(t) \ {d, e} : Keeps(s, t, m)
      /\ \A x \in DirIds(s), h \in AllNames :
           entries(t, x)[h] = IF x = e /\ h = g THEN n
                              ELSE IF x = d /\ h = f THEN NoEntry ELSE entries(s, x)[h]
  BY <1>1, <1>2, <1>3, <1>4, NodeMoved
<1>7. target # NoEntry => target \notin DirIds(s)
  BY <1>1 DEF DirIds
<1>8. d \in Ids /\ e \in Ids /\ n \in Ids /\ n \in InodeIds(s)
  BY <1>2, <1>6 DEF DirIds, InodeIds
<1>9. FindId(s, q) \in Ids => FindId(s, q) = target /\ FindId(s, q) \notin DirIds(s)
  BY <1>2, <1>6, <1>7, SoundFind, IdsAssumption
<1>10. ~IsAtOrAbove(p, q)
  BY <1>2, AboveParent
<1>11. ~IsAtOrAbove(q, dirname(p))
  <2>1. ASSUME IsAtOrAbove(q, dirname(p)) PROVE FindId(s, q) \in DirIds(s)
    BY <1>2, <1>3, <1>8, <2>1, FindAbove
  <2> QED BY <1>9, <2>1 DEF DirIds, InodeIds
<1> DEFINE C == {p, q}
           D == {q}
<1>12. SameBut(s, t, C)
  BY <1>2, <1>3, <1>6 DEF SameBut, AllNames
<1>13. C \subseteq Paths \ {<<>>} /\ D \subseteq Paths \ {<<>>}
  BY <1>2
<1>14. FindId(t, dirname(q)) = e
  <2>1. ~IsAtOrAbove(q, dirname(q)) /\ ~IsAtOrAbove(p, dirname(q))
    BY <1>2, <1>3, AboveFacts
  <2>2. \A c \in C : ~IsAtOrAbove(c, dirname(q))
    BY <2>1
  <2> HIDE DEF C
  <2>3. FindId(s, dirname(q)) = e /\ e \in Ids /\ dirname(q) \in Paths
    BY <1>2, <1>3, <1>8
  <2>4. Sound(s) /\ Sound(t)
    BY <1>6
  <2>5. FindId(t, dirname(q)) = FindId(s, dirname(q))
    BY ONLY <1>12, <1>13, <2>2, <2>3, <2>4, FindKeptBut
  <2> QED BY <2>3, <2>5
<1>15. FindId(t, dirname(p)) = d
  <2>1. ~IsAtOrAbove(p, dirname(p)) /\ ~IsAtOrAbove(q, dirname(p))
    BY <1>3, <1>11, AboveFacts
  <2>2. \A c \in C : ~IsAtOrAbove(c, dirname(p))
    BY <2>1
  <2> HIDE DEF C
  <2>3. FindId(s, dirname(p)) = d /\ d \in Ids /\ dirname(p) \in Paths
    BY <1>2, <1>3, <1>8
  <2>4. Sound(s) /\ Sound(t)
    BY <1>6
  <2>5. FindId(t, dirname(p)) = FindId(s, dirname(p))
    BY ONLY <1>12, <1>13, <2>2, <2>3, <2>4, FindKeptBut
  <2> QED BY <2>3, <2>5
<1>16. SameBut(t, s, D)
  BY <1>2, <1>3, <1>6, <1>14 DEF SameBut, AllNames
<1>17. FindId(t, q) = n
  <2>1. e \in DirIds(t) /\ entries(t, e)[g] = n /\ n # NoEntry
    BY <1>2, <1>3, <1>6
  <2> QED BY <1>2, <1>6, <1>14, <2>1, FindLast
<1>18. FindId(t, p) \notin Ids
  <2>1. entries(t, d)[f] = NoEntry
    BY <1>2, <1>3, <1>4, <1>6
  <2> QED BY <1>2, <1>6, <1>15, <2>1, SoundFind, IdsAssumption
<1>19. ASSUME NEW x \in Paths, IsAtOrAbove(p, x) PROVE NodeIn(t, x) = NoNode
  <2>1. FindId(t, x) \notin Ids
    BY <1>6, <1>18, <1>19, FindAbove DEF DirIds, InodeIds
  <2> QED BY <1>6, <2>1, NodeKinds
<1>20. ASSUME NEW x \in Paths, ~IsAtOrAbove(q, x) \/ x # q, FindId(s, x) \in Ids
       PROVE  SameAt(s, t, FindId(s, x))
  <2>1. FindId(s, x) \in InodeIds(s)
    BY <1>20, NodeKinds
  <2>2. x # q
    BY <1>20, AboveFacts
  <2>3. FindId(s, x) # target
    <3>1. ASSUME FindId(s, x) = target PROVE FindId(s, q) = target
      <4>1. entries(s, e)[g] # NoEntry
        BY <1>6, <1>20, <3>1, IdsAssumption
      <4> QED BY <1>2, <1>6, <3>1, <4>1, FindLast
    <3> QED BY <1>20, <2>2, <3>1, FindUnique
  <2> QED BY <1>2, <1>6, <2>1, <2>3 DEF SameAt
<1>21. ASSUME NEW x \in Paths, ~IsAtOrAbove(p, x), ~IsAtOrAbove(q, x)
       PROVE  NodeIn(t, x) = NodeIn(s, x)
  <2>1. \A c \in C : ~IsAtOrAbove(c, x)
    BY <1>21
  <2>2. \A c \in D : ~IsAtOrAbove(c, x)
    BY <1>21
  <2>3. FindId(s, x) \in Ids => SameAt(s, t, FindId(s, x))
    BY <1>20, <1>21
  <2>4. Sound(s) /\ Sound(t) /\ x \in Paths
    BY <1>6
  <2> HIDE DEF C, D
  <2> QED BY ONLY <1>12, <1>13, <1>16, <2>1, <2>2, <2>3, <2>4, SameElsewhere
<1>22. ASSUME NEW z \in Paths PROVE NodeIn(t, q \o z) = NodeIn(s, p \o z)
  <2> DEFINE x == p \o z
             y == q \o z
  <2>1. x \in Paths /\ y \in Paths /\ IsAtOrAbove(p, x)
    BY <1>22, BelowPaths
  <2>2. x # q
    BY <1>10, <2>1
  <2>3. FindId(s, x) \in Ids => FindId(t, y) = FindId(s, x)
    <3>1. ASSUME NEW w \in Paths, NEW m \in DirIds(s), NEW h \in Names,
                 m = FindId(s, p \o w), entries(s, m)[h] # NoEntry
          PROVE  m \in DirIds(t) /\ entries(t, m)[h] = entries(s, m)[h]
      <4> DEFINE v == p \o w
      <4>1. v \in Paths /\ IsAtOrAbove(p, v) /\ Len(v) >= Len(p) /\ m = FindId(s, v) /\ m \in Ids
        BY <1>3, <3>1, BelowPaths DEF IsAtOrAbove, DirIds, InodeIds
      <4> HIDE DEF v
      <4>2. m # e
        BY <1>2, <1>3, <4>1, FindUnique
      <4>3. m # d
        <5>1. v # dirname(p)
          BY <1>3, <4>1
        <5> QED BY <1>2, <1>3, <4>1, <5>1, FindUnique
      <4> QED BY <1>6, <4>2, <4>3 DEF AllNames
    <3> QED BY <1>5, <1>6, <1>17, <3>1, SubtreeKept
  <2>4. FindId(t, y) \in Ids => FindId(s, x) = FindId(t, y)
    <3>1. ASSUME NEW w \in Paths, NEW m \in DirIds(t), NEW h \in Names,
                 m = FindId(t, q \o w), entries(t, m)[h] # NoEntry
          PROVE  m \in DirIds(s) /\ entries(s, m)[h] = entries(t, m)[h]
      <4> DEFINE v == q \o w
      <4>1. v \in Paths /\ Len(v) >= Len(q) /\ m = FindId(t, v) /\ m \in Ids
        BY <1>3, <3>1, BelowPaths DEF IsAtOrAbove, DirIds, InodeIds
      <4> HIDE DEF v
      <4>2. m # e
        <5>1. v # dirname(q)
          BY <1>3, <4>1
        <5> QED BY <1>3, <1>6, <1>14, <4>1, <5>1, FindUnique
      <4> QED BY <1>6, <3>1, <4>2 DEF AllNames
    <3> QED BY <1>5, <1>6, <1>17, <3>1, SubtreeKept
  <2> HIDE DEF x, y
  <2>5. CASE FindId(s, x) \in Ids
    <3>1. SameAt(s, t, FindId(s, x))
      BY <1>20, <2>1, <2>2, <2>5
    <3> QED BY <1>6, <2>1, <2>3, <2>5, <3>1, SameNode DEF x, y
  <2>6. CASE FindId(s, x) \notin Ids
    <3>1. NodeIn(t, y) = NoNode /\ NodeIn(s, x) = NoNode
      BY <1>6, <2>1, <2>4, <2>6, NodeKinds
    <3> QED BY <3>1 DEF x, y
  <2> QED BY <2>5, <2>6
<1>23. NodeIn(s, p) # NoNode /\ NodeIn(s, dirname(q)) = DirNode
  BY <1>2, <1>3, <1>5, <1>8, NodeKinds
<1>24. NodeIn(s, q) # DirNode
  <2>1. FindId(s, q) \in Ids => NodeIn(s, q) \in FileNodes
    BY <1>9, NodeKinds
  <2> QED BY <2>1, NodeKinds
<1> QED BY <1>2, <1>6, <1>10, <1>19, <1>21, <1>22, <1>23, <1>24 DEF MovedTree

(* A node that is moved to where it is stays where it is.                  *)
LEMMA RehungInPlace ==
    ASSUME NEW s, Sound(s), NEW t, NEW p \in Paths, RehungAt(s, t, p, p)
    PROVE  \A x \in Paths : NodeIn(t, x) = NodeIn(s, x)
<1> DEFINE d == FindId(s, dirname(p))
           f == basename(p)
<1>1. PICK target : /\ target = Target(s, d, f, d, f)
                    /\ target # NoEntry => s[target].type = "file"
  BY DEF RehungAt
<1>2. /\ d \in DirIds(s) /\ entries(s, d)[f] # NoEntry /\ t = Rehung(s, d, f, d, f)
      /\ f \in Names /\ f \in AllNames
  BY DirnameLess DEF RehungAt, AllNames
<1> HIDE DEF d, f
<1>3. /\ Sound(t) /\ target = NoEntry
      /\ InodeIds(t) = InodeIds(s) \ {target} /\ DirIds(t) = DirIds(s)
      /\ \A m \in InodeIds(t) \ {d, d} : Keeps(s, t, m)
      /\ \A x \in DirIds(s), h \in AllNames :
           entries(t, x)[h] = IF x = d /\ h = f THEN entries(s, d)[f]
                              ELSE IF x = d /\ h = f THEN NoEntry ELSE entries(s, x)[h]
  BY <1>1, <1>2, NodeMoved
<1>4. InodeIds(t) = InodeIds(s)
  BY <1>3, IdsAssumption DEF InodeIds
<1>5. \A x \in DirIds(s), h \in Names : entries(t, x)[h] = entries(s, x)[h]
  BY <1>3 DEF AllNames
<1>6. ASSUME NEW x \in Paths PROVE NodeIn(t, x) = NodeIn(s, x)
  <2>1. FindId(s, x) \in Ids \/ FindId(t, x) \in Ids => FindId(t, x) = FindId(s, x)
    BY <1>3, <1>5, MoreEntries
  <2>2. SameAt(s, t, FindId(s, x))
    BY <1>2, <1>3, <1>4 DEF SameAt
  <2> QED BY <1>3, <2>1, <2>2, SameNode, NodeKinds
<1> QED BY <1>6

-----------------------------------------------------------------------------
(* The tree in a store of at most m nodes: none of its paths has m names.  *)
PathsBelow(m) == UNION {[1 .. n -> Names] : n \in 0 .. m - 1}

Fits(s, m) == Tidy(s) /\ Cardinality(InodeIds(s)) <= m

LEMMA PathsBelowAre ==
    ASSUME NEW m \in Nat \ {0}
    PROVE  /\ PathsBelow(m) \subseteq Paths /\ <<>> \in PathsBelow(m)
           /\ \A p \in Paths : p \in PathsBelow(m) <=> Len(p) <= m - 1
           /\ \A p \in PathsBelow(m) : p # <<>> => dirname(p) \in PathsBelow(m)
<1>1. ASSUME NEW p \in PathsBelow(m) PROVE p \in Paths /\ Len(p) <= m - 1
  <2>1. PICK n \in 0 .. m - 1 : p \in [1 .. n -> Names]
    BY DEF PathsBelow
  <2>2. n \in Nat /\ n <= m - 1
    BY <2>1
  <2> QED BY <2>1, <2>2 DEF Paths
<1>2. ASSUME NEW p \in Paths, Len(p) <= m - 1 PROVE p \in PathsBelow(m)
  <2> DEFINE k == Len(p)
  <2>1. k \in 0 .. m - 1 /\ p \in [1 .. k -> Names]
    BY <1>2 DEF Paths
  <2> HIDE DEF k
  <2> QED BY ONLY <2>1 DEF PathsBelow
<1>3. <<>> \in PathsBelow(m)
  <2>1. <<>> \in Paths /\ Len(<<>>) <= m - 1
    BY DEF Paths
  <2> QED BY <1>2, <2>1
<1>4. ASSUME NEW p \in PathsBelow(m), p # <<>> PROVE dirname(p) \in PathsBelow(m)
  <2>1. p \in Paths /\ Len(p) <= m - 1
    BY <1>1
  <2>2. dirname(p) \in Paths /\ Len(dirname(p)) = Len(p) - 1 /\ Len(p) \in Nat
    BY <1>4, <2>1, DirnameLess
  <2>3. Len(dirname(p)) <= m - 1
    BY <2>1, <2>2
  <2> QED BY <1>2, <2>2, <2>3
<1> QED BY <1>1, <1>2, <1>3, <1>4

LEMMA NodesFit ==
    ASSUME NEW m \in Nat \ {0}, NEW s, Fits(s, m), NEW p \in Paths, NodeIn(s, p) # NoNode
    PROVE  p \in PathsBelow(m)
<1>1. FindId(s, p) \in Ids
  BY NodeKinds DEF Fits, Tidy
<1>2. Len(p) + 1 <= Cardinality(InodeIds(s)) /\ Cardinality(InodeIds(s)) \in Nat
  BY <1>1, PathsAreShort DEF Fits, Tidy
<1>3. Len(p) <= m - 1
  BY <1>2 DEF Fits, Paths
<1> QED BY <1>3, PathsBelowAre

(* A tidy store leaks nothing: every key belongs to a node that one of so  *)
(* few paths leads to.                                                     *)
LEMMA NothingOutOfReach ==
    ASSUME NEW m \in Nat \ {0}, NEW s, Fits(s, m), NEW k \in Used(s)
    PROVE  \E p \in PathsBelow(m) :
             LET n == FindId(s, p) IN n \in Ids /\ (k = n \/ k = s[n].id)
<1>1. PICK n \in InodeIds(s) : k = n \/ k = s[n].id
  BY DEF Fits, Tidy, Owned
<1>2. PICK p \in Paths : FindId(s, p) = n
  BY DEF Fits, Tidy, Reached, HasPath
<1>3. n \in Ids
  BY DEF InodeIds
<1>4. Len(p) + 1 <= Cardinality(InodeIds(s)) /\ Cardinality(InodeIds(s)) \in Nat
  BY <1>2, <1>3, PathsAreShort DEF Fits, Tidy
<1>5. Len(p) <= m - 1
  BY <1>4 DEF Fits, Paths
<1> QED BY <1>1, <1>2, <1>3, <1>5, PathsBelowAre

(* The changes of a tree that are changes of one node. *)
DirMade(s, t, p) ==
    /\ p # <<>> /\ NodeIn(s, dirname(p)) = DirNode /\ NodeIn(s, p) = NoNode
    /\ NodeIn(t, p) = DirNode
    /\ Only(s, t, p)

FileSet(s, t, p) ==
    /\ p # <<>> /\ NodeIn(s, dirname(p)) = DirNode /\ NodeIn(s, p) # DirNode
    /\ NodeIn(t, p) \in FileNodes
    /\ Only(s, t, p)

NodeGone(s, t, p) ==
    /\ p # <<>> /\ NodeIn(s, p) # NoNode
    /\ \A x \in Paths : IsAtOrAbove(p, x) /\ x # p => NodeIn(s, x) = NoNode
    /\ NodeIn(t, p) = NoNode
    /\ Only(s, t, p)

(* What is at the paths after a move: those below the old place are free,  *)
(* those below the new one have what was below the old.                    *)
LEMMA MovedNodes ==
    ASSUME NEW m \in Nat \ {0}, NEW s, Fits(s, m), NEW t, Fits(t, m),
           NEW p \in Paths, NEW q \in Paths, MovedTree(s, t, p, q)
    PROVE  /\ p \in PathsBelow(m) /\ q \in PathsBelow(m)
           /\ \A x \in PathsBelow(m) :
                NodeIn(t, x) = IF IsAtOrAbove(p, x) THEN NoNode
                               ELSE IF ~IsAtOrAbove(q, x) THEN NodeIn(s, x)
                               ELSE LET y == p \o SubSeq(x, Len(q) + 1, Len(x))
                                    IN  IF y \in PathsBelow(m) THEN NodeIn(s, y) ELSE NoNode
<1> DEFINE there(x) == p \o SubSeq(x, Len(q) + 1, Len(x))
<1>1. /\ NodeIn(s, p) # NoNode
      /\ \A x \in Paths : IsAtOrAbove(p, x) => NodeIn(t, x) = NoNode
      /\ \A x \in Paths : ~IsAtOrAbove(p, x) /\ ~IsAtOrAbove(q, x) => NodeIn(t, x) = NodeIn(s, x)
      /\ \A z \in Paths : NodeIn(t, q \o z) = NodeIn(s, p \o z)
  BY DEF MovedTree
<1>2. p \in PathsBelow(m)
  BY <1>1, NodesFit
<1>3. q \in PathsBelow(m)
  <2> DEFINE z == <<>>
  <2>1. z \in Paths /\ q \o z = q /\ p \o z = p
    BY BelowPaths DEF Paths
  <2>2. NodeIn(t, q) # NoNode
    BY <1>1, <2>1
  <2> QED BY <2>2, NodesFit
<1>4. ASSUME NEW x \in PathsBelow(m)
      PROVE  NodeIn(t, x) = IF IsAtOrAbove(p, x) THEN NoNode
                            ELSE IF ~IsAtOrAbove(q, x) THEN NodeIn(s, x)
                            ELSE IF there(x) \in PathsBelow(m) THEN NodeIn(s, there(x)) ELSE NoNode
  <2>1. x \in Paths
    BY PathsBelowAre
  <2>2. CASE IsAtOrAbove(p, x) \/ ~IsAtOrAbove(q, x)
    BY <1>1, <2>1, <2>2
  <2>3. CASE ~IsAtOrAbove(p, x) /\ IsAtOrAbove(q, x)
    <3> DEFINE z == SubSeq(x, Len(q) + 1, Len(x))
    <3>1. z \in Paths /\ x = q \o z /\ there(x) = p \o z
      BY <2>1, <2>3, BelowIsConcat
    <3> HIDE DEF z
    <3>2. NodeIn(t, x) = NodeIn(s, there(x)) /\ there(x) \in Paths
      BY <1>1, <3>1, BelowPaths
    <3> HIDE DEF there
    <3>3. there(x) \notin PathsBelow(m) => NodeIn(s, there(x)) = NoNode
      BY <3>2, NodesFit
    <3> QED BY <2>3, <3>2, <3>3
  <2> QED BY <2>2, <2>3
<1> QED BY <1>2, <1>3, <1>4
=============================================================================
