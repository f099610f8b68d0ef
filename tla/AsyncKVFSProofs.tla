-------------------------- MODULE AsyncKVFSProofs --------------------------
(***************************************************************************)
(* Proofs about AsyncKVFS: with calls whose transactions interleave the    *)
(* tree stays whole, and the cache says what is so but for what may be     *)
(* left of a path that was unlinked while a lookup was waiting for it, for *)
(* any number of paths, nodes, names, calls and entries of the cache.      *)
(***************************************************************************)
EXTENDS AsyncKVFS, KVNodesProofs

-----------------------------------------------------------------------------
(* The LRU cache, whatever it is a cache of: within its limit, no path     *)
(* twice.                                                                  *)
CacheEntries == [path : Paths, id : Ids]

CacheIs(c) ==
    /\ c \in Seq(CacheEntries) /\ Len(c) <= CacheSize
    /\ \A i, j \in 1 .. Len(c) : c[i].path = c[j].path => i = j

In(c, e) == \E i \in 1 .. Len(c) : c[i] = e

(* What is removed is there no more, everything else is.                   *)
LEMMA RemoveFacts ==
    ASSUME NEW c, CacheIs(c), NEW p
    PROVE  /\ CacheIs(lruRemove(c, p))
           /\ \A i \in 1 .. Len(lruRemove(c, p)) :
                 In(c, lruRemove(c, p)[i]) /\ lruRemove(c, p)[i].path # p
           /\ Len(lruRemove(c, p)) <= Len(c)
           /\ Has(c, p) => Len(lruRemove(c, p)) < Len(c)
<1> DEFINE k == At(c, p)
           r == SubSeq(c, 1, k - 1) \o SubSeq(c, k + 1, Len(c))
<1>1. c \in Seq(CacheEntries) /\ Len(c) \in Nat /\ \A i \in 1 .. Len(c) : c[i] \in CacheEntries
  BY DEF CacheIs
<1>2. CASE ~Has(c, p)
  <2>1. lruRemove(c, p) = c
    BY <1>2 DEF lruRemove
  <2> QED BY <1>1, <1>2, <2>1 DEF Has, In
<1>3. CASE Has(c, p)
  <2>1. k \in 1 .. Len(c) /\ c[k].path = p
    BY <1>3 DEF Has, At
  <2>2. lruRemove(c, p) = r
    BY <1>3 DEF lruRemove
  <2> HIDE DEF k
  <2>3. /\ r \in Seq(CacheEntries) /\ Len(r) = Len(c) - 1
        /\ \A i \in 1 .. Len(c) - 1 : r[i] = IF i < k THEN c[i] ELSE c[i + 1]
    <3> DEFINE a == SubSeq(c, 1, k - 1)
               b == SubSeq(c, k + 1, Len(c))
    <3>1. /\ a \in Seq(CacheEntries) /\ Len(a) = k - 1
          /\ \A i \in 1 .. k - 1 : a[i] = c[i]
      BY <1>1, <2>1
    <3>2. /\ b \in Seq(CacheEntries) /\ Len(b) = Len(c) - k
          /\ \A i \in 1 .. Len(c) - k : b[i] = c[i + k]
      BY <1>1, <2>1
    <3>3. r = a \o b
      OBVIOUS
    <3> HIDE DEF a, b, r
    <3>4. r \in Seq(CacheEntries) /\ Len(r) = Len(a) + Len(b)
          /\ \A i \in 1 .. Len(r) : r[i] = IF i <= Len(a) THEN a[i] ELSE b[i - Len(a)]
      <4>1. a \in Seq(CacheEntries) /\ b \in Seq(CacheEntries) /\ r = a \o b
        BY <3>1, <3>2, <3>3
      <4> HIDE DEF CacheEntries
      <4>2. r \in Seq(CacheEntries) /\ Len(r) = Len(a) + Len(b)
        BY ONLY <4>1
      <4>3. \A i \in 1 .. Len(r) : r[i] = IF i <= Len(a) THEN a[i] ELSE b[i - Len(a)]
        BY ONLY <4>1
      <4> QED BY <4>2, <4>3
    <3>5. k \in Nat /\ Len(r) = Len(c) - 1
      BY <1>1, <2>1, <3>1, <3>2, <3>4
    <3>6. ASSUME NEW i \in 1 .. Len(c) - 1
          PROVE  r[i] = IF i < k THEN c[i] ELSE c[i + 1]
      <4>1. CASE i < k
        BY <3>1, <3>4, <3>5, <4>1
      <4>2. CASE ~(i < k)
        <5>1. i - (k - 1) \in 1 .. Len(c) - k /\ i - (k - 1) + k = i + 1
          BY <1>1, <2>1, <3>5, <4>2
        <5>2. r[i] = b[i - (k - 1)]
          BY <3>1, <3>4, <3>5, <4>2
        <5> QED BY <3>2, <4>2, <5>1, <5>2
      <4> QED BY <4>1, <4>2
    <3> QED BY <3>4, <3>5, <3>6
  <2> HIDE DEF r
  <2>4. ASSUME NEW i \in 1 .. Len(r)
        PROVE  \E m \in 1 .. Len(c) : r[i] = c[m] /\ m # k /\ m = IF i < k THEN i ELSE i + 1
    BY <1>1, <2>1, <2>3
  <2>5. \A i \in 1 .. Len(r) : In(c, r[i]) /\ r[i].path # p
    BY <2>1, <2>4 DEF CacheIs, In
  <2>6. ASSUME NEW i \in 1 .. Len(r), NEW j \in 1 .. Len(r), r[i].path = r[j].path
        PROVE  i = j
    <3>1. PICK m \in 1 .. Len(c) : r[i] = c[m] /\ m = IF i < k THEN i ELSE i + 1
      BY <2>4
    <3>2. PICK n \in 1 .. Len(c) : r[j] = c[n] /\ n = IF j < k THEN j ELSE j + 1
      BY <2>4
    <3>3. m = n
      BY <2>6, <3>1, <3>2 DEF CacheIs
    <3> QED BY <2>1, <2>3, <3>1, <3>2, <3>3
  <2>7. Len(r) < Len(c) /\ Len(r) <= CacheSize
    BY <1>1, <2>3, AsyncAssumption DEF CacheIs
  <2> QED BY <2>2, <2>3, <2>5, <2>6, <2>7 DEF CacheIs
<1> QED BY <1>2, <1>3

(* What is set comes first, and drives out at most what was there.         *)
LEMMA SetFacts ==
    ASSUME NEW c, CacheIs(c), NEW p \in Paths, NEW n \in Ids
    PROVE  /\ CacheIs(lruSet(c, p, n))
           /\ \A i \in 1 .. Len(lruSet(c, p, n)) :
                 lruSet(c, p, n)[i] = Entry(p, n) \/ In(c, lruSet(c, p, n)[i])
<1> DEFINE m == IF Len(c) < CacheSize THEN Len(c) ELSE CacheSize - 1
           d == IF Has(c, p) THEN lruRemove(c, p) ELSE SubSeq(c, 1, m)
           e == Entry(p, n)
           r == <<e>> \o d
<1>1. r = lruSet(c, p, n)
  BY DEF lruSet
<1>2. /\ c \in Seq(CacheEntries) /\ Len(c) \in Nat /\ Len(c) <= CacheSize
      /\ CacheSize \in Nat /\ CacheSize > 1
  BY AsyncAssumption DEF CacheIs
<1>3. e \in CacheEntries /\ e.path = p
  BY DEF Entry, CacheEntries
<1>4. /\ CacheIs(d) /\ Len(d) < CacheSize
      /\ \A i \in 1 .. Len(d) : In(c, d[i]) /\ d[i].path # p
  <2>1. CASE Has(c, p)
    <3>1. /\ CacheIs(lruRemove(c, p)) /\ Len(lruRemove(c, p)) < Len(c)
          /\ \A i \in 1 .. Len(lruRemove(c, p)) :
                 In(c, lruRemove(c, p)[i]) /\ lruRemove(c, p)[i].path # p
      BY <2>1, RemoveFacts
    <3>2. Len(lruRemove(c, p)) \in Nat
      BY <3>1 DEF CacheIs
    <3> QED BY <1>2, <2>1, <3>1, <3>2
  <2>2. CASE ~Has(c, p)
    <3>1. m \in 0 .. Len(c) /\ m < CacheSize
      BY <1>2
    <3> HIDE DEF m
    <3>2. /\ SubSeq(c, 1, m) \in Seq(CacheEntries) /\ Len(SubSeq(c, 1, m)) = m
          /\ \A i \in 1 .. m : SubSeq(c, 1, m)[i] = c[i]
      BY <1>2, <3>1
    <3>3. d = SubSeq(c, 1, m)
      BY <2>2
    <3> HIDE DEF d
    <3>4. \A i \in 1 .. Len(d) : i \in 1 .. Len(c) /\ d[i] = c[i]
      BY <1>2, <3>1, <3>2, <3>3
    <3>5. \A i \in 1 .. Len(d) : In(c, d[i]) /\ d[i].path # p
      BY <2>2, <3>4 DEF In, Has
    <3>6. \A i, j \in 1 .. Len(d) : d[i].path = d[j].path => i = j
      BY <3>4 DEF CacheIs
    <3> QED BY <1>2, <3>1, <3>2, <3>3, <3>5, <3>6 DEF CacheIs
  <2> QED BY <2>1, <2>2
<1> HIDE DEF d, e
<1>5. d \in Seq(CacheEntries) /\ Len(d) \in Nat /\ <<e>> \in Seq(CacheEntries) /\ Len(<<e>>) = 1
      /\ <<e>>[1] = e
  BY <1>3, <1>4 DEF CacheIs
<1>6. /\ r \in Seq(CacheEntries) /\ Len(r) = Len(d) + 1
      /\ \A i \in 1 .. Len(r) : r[i] = IF i = 1 THEN e ELSE d[i - 1]
  <2> HIDE DEF CacheEntries
  <2>1. r \in Seq(CacheEntries) /\ Len(r) = Len(d) + 1
    BY ONLY <1>5
  <2>2. \A i \in 1 .. Len(r) : r[i] = IF i = 1 THEN e ELSE d[i - 1]
    BY ONLY <1>5
  <2> QED BY <2>1, <2>2
<1> HIDE DEF r
<1>7. ASSUME NEW i \in 1 .. Len(r), i # 1
      PROVE  i - 1 \in 1 .. Len(d) /\ r[i] = d[i - 1]
  BY <1>5, <1>6, <1>7
<1>8. \A i \in 1 .. Len(r) : r[i] = e \/ In(c, r[i])
  BY <1>4, <1>6, <1>7
<1>9. ASSUME NEW i \in 1 .. Len(r), NEW j \in 1 .. Len(r), r[i].path = r[j].path
      PROVE  i = j
  <2>1. CASE i = 1 /\ j = 1
    BY <2>1
  <2>2. CASE i = 1 /\ j # 1
    BY <1>3, <1>4, <1>6, <1>7, <1>9, <2>2
  <2>3. CASE i # 1 /\ j = 1
    BY <1>3, <1>4, <1>6, <1>7, <1>9, <2>3
  <2>4. CASE i # 1 /\ j # 1
    <3>1. i - 1 = j - 1
      <4>1. /\ i - 1 \in 1 .. Len(d) /\ r[i] = d[i - 1]
            /\ j - 1 \in 1 .. Len(d) /\ r[j] = d[j - 1]
        BY <1>7, <2>4
      <4>2. d[i - 1].path = d[j - 1].path
        BY <1>9, <4>1
      <4>3. \A k, l \in 1 .. Len(d) : d[k].path = d[l].path => k = l
        BY <1>4 DEF CacheIs
      <4> QED BY ONLY <4>1, <4>2, <4>3
    <3> QED BY <1>6, <3>1
  <2> QED BY <2>1, <2>2, <2>3, <2>4
<1>10. Len(r) <= CacheSize
  BY <1>2, <1>4, <1>5, <1>6
<1> QED BY <1>1, <1>6, <1>8, <1>9, <1>10 DEF CacheIs, e

LEMMA SetHas ==
    ASSUME NEW c, CacheIs(c), NEW p \in Paths, NEW n \in Ids
    PROVE  Has(lruSet(c, p, n), p)
<1> DEFINE e == Entry(p, n)
           d == IF Has(c, p) THEN lruRemove(c, p)
                ELSE SubSeq(c, 1, IF Len(c) < CacheSize THEN Len(c) ELSE CacheSize - 1)
<1>1. CacheIs(lruSet(c, p, n)) /\ lruSet(c, p, n) = <<e>> \o d
  BY SetFacts DEF lruSet
<1>2. d \in Seq(CacheEntries)
  <2>1. CASE Has(c, p)
    BY <2>1, RemoveFacts DEF CacheIs
  <2>2. CASE ~Has(c, p)
    <3>1. c \in Seq(CacheEntries) /\ Len(c) \in Nat /\ CacheSize \in Nat /\ CacheSize > 1
          /\ Len(c) <= CacheSize
      BY AsyncAssumption DEF CacheIs
    <3>2. (IF Len(c) < CacheSize THEN Len(c) ELSE CacheSize - 1) \in 0 .. Len(c)
      BY <3>1
    <3> HIDE DEF CacheEntries
    <3> QED BY <2>2, <3>1, <3>2
  <2> QED BY <2>1, <2>2
<1>3. e \in CacheEntries
  BY DEF CacheEntries, Entry
<1>4. Len(<<e>> \o d) >= 1 /\ (<<e>> \o d)[1] = e
  <2> HIDE DEF e, d, CacheEntries
  <2> QED BY <1>2, <1>3
<1>5. e.path = p /\ Len(lruSet(c, p, n)) \in Nat
  BY <1>1 DEF Entry, CacheIs
<1>6. Len(lruSet(c, p, n)) >= 1 /\ lruSet(c, p, n)[1].path = p
  <2> HIDE DEF e, d
  <2> QED BY <1>1, <1>4, <1>5
<1> HIDE DEF e, d
<1> QED BY <1>5, <1>6 DEF Has

(* What is got comes first, as it was.                                     *)
LEMMA GetFacts ==
    ASSUME NEW c, CacheIs(c), NEW p \in Paths
    PROVE  /\ CacheIs(lruGet(c, p))
           /\ \A i \in 1 .. Len(lruGet(c, p)) : In(c, lruGet(c, p)[i])
           /\ Has(c, p) => In(c, Entry(p, Value(c, p))) /\ Value(c, p) \in Ids
<1>1. CASE ~Has(c, p)
  BY <1>1 DEF lruGet, In
<1>2. CASE Has(c, p)
  <2>1. At(c, p) \in 1 .. Len(c) /\ c[At(c, p)].path = p
    BY <1>2 DEF Has, At
  <2>2. c[At(c, p)] \in CacheEntries
    BY <2>1 DEF CacheIs
  <2>3. c[At(c, p)] = Entry(p, Value(c, p)) /\ Value(c, p) \in Ids
    BY <2>1, <2>2 DEF CacheEntries, Entry, Value
  <2>4. In(c, Entry(p, Value(c, p)))
    BY <2>1, <2>3 DEF In
  <2>5. lruGet(c, p) = lruSet(c, p, Value(c, p))
    BY <1>2 DEF lruGet
  <2> QED BY <2>3, <2>4, <2>5, SetFacts
<1> QED BY <1>1, <1>2

-----------------------------------------------------------------------------
(* The beginnings of a path. *)
LEMMA PrefixFacts ==
    ASSUME NEW p \in Paths, NEW i \in 0 .. Len(p)
    PROVE  /\ Prefix(p, i) \in Paths /\ Len(Prefix(p, i)) = i
           /\ Prefix(p, 0) = <<>> /\ Prefix(p, Len(p)) = p
           /\ i > 0 => /\ Prefix(p, i) # <<>>
                       /\ dirname(Prefix(p, i)) = Prefix(p, i - 1)
                       /\ basename(Prefix(p, i)) = p[i] /\ p[i] \in Names
<1>1. p \in Seq(Names) /\ Len(p) \in Nat
  BY DEF Paths
<1>2. Prefix(p, i) \in Paths /\ Len(Prefix(p, i)) = i
  BY <1>1 DEF Prefix, Paths
<1>3. Prefix(p, 0) = <<>>
  BY <1>1 DEF Prefix
<1>4. Prefix(p, Len(p)) = p
  BY <1>1 DEF Prefix
<1>5. ASSUME i > 0
      PROVE  /\ Prefix(p, i) # <<>>
             /\ dirname(Prefix(p, i)) = Prefix(p, i - 1)
             /\ basename(Prefix(p, i)) = p[i] /\ p[i] \in Names
  <2> DEFINE x == Prefix(p, i)
  <2>1. x # <<>>
    BY <1>2, <1>5
  <2>2. x \in Seq(Names) /\ \A j \in 1 .. i : x[j] = p[j]
    BY <1>1 DEF Prefix
  <2>3. p[i] \in Names
    BY <1>1, <1>5
  <2>4. basename(x) = p[i]
    BY <1>2, <1>5, <2>1, <2>2 DEF basename
  <2>5. dirname(x) = SubSeq(x, 1, i - 1)
    BY <1>2, <2>1 DEF dirname
  <2>6. SubSeq(x, 1, i - 1) = SubSeq(p, 1, i - 1)
    <3> HIDE DEF x
    <3> QED BY <1>1, <1>2, <1>5, <2>2 DEF x
  <2> QED BY <2>1, <2>3, <2>4, <2>5, <2>6 DEF Prefix
<1> QED BY <1>2, <1>3, <1>4, <1>5

(* What the beginning of a path leads to, step by step.                    *)
LEMMA FindPrefix ==
    ASSUME NEW s, NEW p \in Paths, NEW i \in 1 .. Len(p)
    PROVE  FindId(s, Prefix(p, i)) = Child(s, FindId(s, Prefix(p, i - 1)), p[i])
BY PrefixFacts, FindStep

(* What is said of a path: that it leads to a node, or, where the path is   *)
(* one of r, that a node is that is gone.                                  *)
Lost(s, n) == s[n].kind # "inode"

Leads(s, r, p, n) == FindId(s, p) = n \/ (Lost(s, n) /\ p \in r)

(* A lookup has begun well: where it goes on from is where its path leads. *)
Started(s, r, p, b) == b.from \in 0 .. Len(p) /\ Leads(s, r, Prefix(p, b.from), b.id)

(* A beginning of a path is at it or above it. *)
LEMMA PrefixAbove ==
    ASSUME NEW p \in Paths, NEW i \in 0 .. Len(p)
    PROVE  IsAtOrAbove(Prefix(p, i), p)
<1>1. p \in Seq(Names) /\ Len(p) \in Nat
  BY DEF Paths
<1>2. Len(Prefix(p, i)) = i
  BY PrefixFacts
<1> QED BY <1>1, <1>2 DEF Prefix, IsAtOrAbove

(* The nodes a lookup goes through. *)
Follows(g, s, p, b) ==
    \A i \in b.from .. Len(p) : g[i] = IF i = b.from THEN b.id ELSE Child(s, g[i - 1], p[i])

Same(f, g, p, b) == \A i \in b.from .. Len(p) : f[i] = g[i]

LEMMA FoundSteps ==
    ASSUME NEW s, NEW p \in Paths, NEW b, b.from \in 0 .. Len(p), NEW g, Follows(g, s, p, b)
    PROVE  Same(Found(s, p, b), g, p, b)
<1> DEFINE from == b.from
           Step(f) == [i \in from .. Len(p) |->
                          IF i = from THEN b.id ELSE Child(s, f[i - 1], p[i])]
           h == [i \in from .. Len(p) |-> g[i]]
           f == Found(s, p, b)
<1>1. from \in 0 .. Len(p) /\ Len(p) \in Nat
  BY DEF Paths
<1>2. f = CHOOSE k : k = Step(k)
  BY DEF Found
<1>3. \A i \in from .. Len(p) : h[i] = IF i = from THEN b.id ELSE Child(s, h[i - 1], p[i])
  <2> SUFFICES ASSUME NEW i \in from .. Len(p)
               PROVE  h[i] = IF i = from THEN b.id ELSE Child(s, h[i - 1], p[i])
    OBVIOUS
  <2>0. h[i] = IF i = from THEN b.id ELSE Child(s, g[i - 1], p[i])
    BY DEF Follows
  <2>1. i # from => i - 1 \in from .. Len(p)
    BY <1>1
  <2> QED BY <2>0, <2>1
<1>4. h = Step(h)
  BY <1>3
<1> HIDE DEF h
<1>5. f = Step(f)
  <2> HIDE DEF f, Step
  <2> QED BY <1>2, <1>4
<1>6. \A i \in from .. Len(p) : f[i] = IF i = from THEN b.id ELSE Child(s, f[i - 1], p[i])
  <2> HIDE DEF f
  <2> QED BY <1>5
<1> DEFINE T == {i \in from .. Len(p) : f[i] # h[i]}
<1> HIDE DEF f, Step
<1>7. T = {}
  <2> SUFFICES ASSUME T # {} PROVE FALSE
    OBVIOUS
  <2>1. T \in SUBSET Nat
    BY <1>1
  <2>2. PICK m \in T : \A k \in T : m <= k
    <3> HIDE DEF T
    <3> QED BY <2>1, LeastNat
  <2>3. m \in from .. Len(p) /\ f[m] # h[m]
    OBVIOUS
  <2>4. m # from
    BY <1>3, <1>6, <2>3
  <2>5. m - 1 \in from .. Len(p) /\ ~(m <= m - 1)
    BY <1>1, <2>3, <2>4
  <2>6. m - 1 \notin T
    <3> HIDE DEF T
    <3> QED BY <2>2, <2>5
  <2>7. f[m - 1] = h[m - 1]
    BY <2>5, <2>6
  <2> QED BY <1>3, <1>6, <2>3, <2>4, <2>7
<1> QED BY <1>7 DEF h, f, Same

(* A lookup that has begun well finds what the path leads to, or it stops  *)
(* at a node that is gone.                                                 *)
LEMMA FoundRight ==
    ASSUME NEW s, NEW p \in Paths, NEW b, b.from \in 0 .. Len(p),
           FindId(s, Prefix(p, b.from)) = b.id
    PROVE  \A i \in b.from .. Len(p) : Found(s, p, b)[i] = FindId(s, Prefix(p, i))
<1> DEFINE g == [i \in b.from .. Len(p) |-> FindId(s, Prefix(p, i))]
<1>1. Len(p) \in Nat
  BY DEF Paths
<1>2. \A i \in b.from .. Len(p) : g[i] = IF i = b.from THEN b.id ELSE Child(s, g[i - 1], p[i])
  <2> SUFFICES ASSUME NEW i \in b.from .. Len(p), i # b.from
               PROVE  g[i] = Child(s, g[i - 1], p[i])
    OBVIOUS
  <2>1. i \in 1 .. Len(p) /\ i - 1 \in b.from .. Len(p)
    BY <1>1
  <2> QED BY <2>1, FindPrefix
<1>3. \A i \in b.from .. Len(p) : g[i] = FindId(s, Prefix(p, i))
  OBVIOUS
<1> HIDE DEF g
<1>4. \A i \in b.from .. Len(p) : Found(s, p, b)[i] = g[i]
  <2>1. Follows(g, s, p, b)
    BY <1>2 DEF Follows
  <2>2. Same(Found(s, p, b), g, p, b)
    BY <2>1, FoundSteps
  <2> QED BY <2>2 DEF Same
<1> QED BY <1>3, <1>4

LEMMA FoundGone ==
    ASSUME NEW s, NEW p \in Paths, NEW b, b.from \in 0 .. Len(p), b.id \in Ids, Lost(s, b.id)
    PROVE  \A i \in b.from .. Len(p) :
              Found(s, p, b)[i] = IF i = b.from THEN b.id ELSE "ENOENT"
<1> DEFINE g == [i \in b.from .. Len(p) |-> IF i = b.from THEN b.id ELSE "ENOENT"]
<1>1. Len(p) \in Nat
  BY DEF Paths
<1>2. "ENOENT" \in Errors /\ "ENOENT" # "ok" /\ b.id \notin Errors
  BY IdsAssumption DEF Errors
<1>3. \A f : Child(s, b.id, f) = "ENOENT" /\ Child(s, "ENOENT", f) = "ENOENT"
  BY <1>2 DEF Child, ListingError, INodeError, Lost
<1>4. \A i \in b.from .. Len(p) : g[i] = IF i = b.from THEN b.id ELSE Child(s, g[i - 1], p[i])
  <2> SUFFICES ASSUME NEW i \in b.from .. Len(p), i # b.from
               PROVE  g[i] = Child(s, g[i - 1], p[i])
    OBVIOUS
  <2>1. i - 1 \in b.from .. Len(p)
    BY <1>1
  <2> QED BY <1>3, <2>1
<1>5. \A i \in b.from .. Len(p) : g[i] = IF i = b.from THEN b.id ELSE "ENOENT"
  OBVIOUS
<1> HIDE DEF g
<1>6. \A i \in b.from .. Len(p) : Found(s, p, b)[i] = g[i]
  <2>1. Follows(g, s, p, b)
    BY <1>4 DEF Follows
  <2>2. Same(Found(s, p, b), g, p, b)
    BY <2>1, FoundSteps
  <2> QED BY <2>2 DEF Same
<1> QED BY <1>5, <1>6

LEMMA FoundFacts ==
    ASSUME NEW s, NEW r, NEW p \in Paths, NEW b, Started(s, r, p, b), b.id \in Ids
    PROVE  /\ \A i \in b.from .. Len(p) :
                 i # b.from /\ Found(s, p, b)[i] \in Ids =>
                     Found(s, p, b)[i] = FindId(s, Prefix(p, i))
           /\ \/ FoundId(s, p, b) = FindId(s, p)
              \/ /\ FoundId(s, p, b) \in Ids \union Errors
                 /\ INodeError(s, FoundId(s, p, b)) = "ENOENT"
                 /\ Prefix(p, b.from) \in r
<1>1. b.from \in 0 .. Len(p) /\ Len(p) \in Nat /\ Prefix(p, Len(p)) = p
  BY PrefixFacts DEF Started, Paths
<1>2. Len(p) \in b.from .. Len(p)
  BY <1>1
<1>3. CASE FindId(s, Prefix(p, b.from)) = b.id
  <2>1. \A i \in b.from .. Len(p) : Found(s, p, b)[i] = FindId(s, Prefix(p, i))
    BY <1>1, <1>3, FoundRight
  <2> QED BY <1>1, <1>2, <2>1 DEF FoundId
<1>4. CASE Lost(s, b.id) /\ Prefix(p, b.from) \in r
  <2>1. \A i \in b.from .. Len(p) : Found(s, p, b)[i] = IF i = b.from THEN b.id ELSE "ENOENT"
    BY <1>1, <1>4, FoundGone
  <2>2. "ENOENT" \in Errors /\ b.id \notin Errors /\ "ENOENT" \notin Ids
    BY IdsAssumption DEF Errors
  <2>3. INodeError(s, b.id) = "ENOENT" /\ INodeError(s, "ENOENT") = "ENOENT"
    BY <1>4, <2>2 DEF INodeError, Lost
  <2>4. FoundId(s, p, b) = b.id \/ FoundId(s, p, b) = "ENOENT"
    BY <1>2, <2>1 DEF FoundId
  <2> QED BY <1>4, <2>1, <2>2, <2>3, <2>4
<1> QED BY <1>3, <1>4 DEF Started, Leads

-----------------------------------------------------------------------------
(* What the cache says is so, in any store. *)
Coherent(s, r, c) == \A i \in 1 .. Len(c) : Leads(s, r, c[i].path, c[i].id)

(* A cache that came of another by entries that are so, for beginnings of  *)
(* p, and by the loss of some.                                             *)
New(s, p, e) == FindId(s, e.path) = e.id /\ \E k \in 0 .. Len(p) : e.path = Prefix(p, k)

Learned(s, c, p, d) ==
    /\ CacheIs(d)
    /\ \A i \in 1 .. Len(d) : In(c, d[i]) \/ New(s, p, d[i])

LEMMA LearnedNothing ==
    ASSUME NEW s, NEW c, CacheIs(c), NEW p
    PROVE  Learned(s, c, p, c)
BY DEF Learned, In

LEMMA LearnedMore ==
    ASSUME NEW s, NEW c, NEW p \in Paths, NEW d, Learned(s, c, p, d),
           NEW k \in 0 .. Len(p), NEW n \in Ids, FindId(s, Prefix(p, k)) = n
    PROVE  Learned(s, c, p, lruSet(d, Prefix(p, k), n))
<1> DEFINE e == lruSet(d, Prefix(p, k), n)
<1>1. Prefix(p, k) \in Paths
  BY PrefixFacts
<1>2. /\ CacheIs(e)
      /\ \A i \in 1 .. Len(e) : e[i] = Entry(Prefix(p, k), n) \/ In(d, e[i])
  BY <1>1, SetFacts DEF Learned
<1>3. New(s, p, Entry(Prefix(p, k), n))
  BY DEF Entry, New
<1> HIDE DEF e
<1>4. ASSUME NEW i \in 1 .. Len(e)
      PROVE  In(c, e[i]) \/ New(s, p, e[i])
  <2>1. CASE e[i] = Entry(Prefix(p, k), n)
    BY <1>3, <2>1
  <2>2. CASE In(d, e[i])
    <3>1. PICK j \in 1 .. Len(d) : d[j] = e[i]
      BY <2>2 DEF In
    <3> QED BY <3>1 DEF Learned
  <2> QED BY <1>2, <2>1, <2>2
<1> QED BY <1>2, <1>4 DEF Learned, e

LEMMA LearnedCoherent ==
    ASSUME NEW s, NEW r, NEW c, Coherent(s, r, c), NEW p, NEW d, Learned(s, c, p, d)
    PROVE  Coherent(s, r, d)
BY DEF Learned, Coherent, In, New, Leads

(* What a lookup found is so, and without a cache it is not remembered.    *)
LEMMA RememberedFacts ==
    ASSUME NEW c, CacheIs(c), NEW s, NEW r, NEW p \in Paths, NEW b, Started(s, r, p, b),
           b.id \in Ids
    PROVE  /\ Learned(s, c, p, Remembered(c, s, p, b))
           /\ ~cacheOn => Remembered(c, s, p, b) = c
<1> DEFINE from == b.from
           node == Found(s, p, b)
           More(d, i) == IF node[i] \in Ids THEN lruSet(d, Prefix(p, i), node[i]) ELSE d
           Step(f, m) == [i \in from .. m |-> IF i = from THEN c ELSE More(f[i - 1], i)]
           after == CHOOSE f : f = Step(f, Len(p))
           Stuck == {m \in from .. Len(p) : ~ \E f : f = Step(f, m)}
<1>1. from \in 0 .. Len(p) /\ Len(p) \in Nat
  BY DEF Started, Paths
<1>2. \A i \in from .. Len(p) :
        i # from /\ node[i] \in Ids => node[i] = FindId(s, Prefix(p, i))
  BY FoundFacts
<1>3. Remembered(c, s, p, b) = IF cacheOn THEN after[Len(p)] ELSE c
  <2>1. \A f : Step(f, Len(p)) =
            [i \in b.from .. Len(p) |->
                IF i = b.from THEN c
                ELSE IF node[i] \in Ids THEN lruSet(f[i - 1], Prefix(p, i), node[i])
                ELSE f[i - 1]]
    OBVIOUS
  <2> QED BY DEF Remembered
<1> HIDE DEF node, More, from
<1>4. Stuck = {}
  <2> SUFFICES ASSUME Stuck # {} PROVE FALSE
    OBVIOUS
  <2>1. PICK m \in Stuck : \A k \in Stuck : m <= k
    <3>1. Stuck \in SUBSET Nat
      BY <1>1
    <3> HIDE DEF Stuck
    <3> QED BY <3>1, LeastNat
  <2>2. m # from
    <3> DEFINE f == [i \in from .. from |-> c]
    <3>1. f = Step(f, from)
      BY <1>1
    <3> HIDE DEF f, Step
    <3> QED BY <2>1, <3>1
  <2>3. m \in from .. Len(p) /\ m - 1 \in from .. Len(p) /\ m - 1 \notin Stuck
    <3>1. m \in from .. Len(p)
      OBVIOUS
    <3> HIDE DEF Stuck
    <3>2. m - 1 \in from .. Len(p) /\ ~(m <= m - 1)
      BY <1>1, <2>2, <3>1
    <3> QED BY <2>1, <3>1, <3>2
  <2>4. PICK f : f = Step(f, m - 1)
    BY <2>3
  <2> DEFINE g == [i \in from .. m |-> IF i = m THEN More(f[m - 1], m) ELSE f[i]]
  <2>5. \A i \in from .. m : g[i] = IF i = from THEN c ELSE More(g[i - 1], i)
    <3> TAKE i \in from .. m
    <3>1. CASE i = m
      <4>1. g[i] = More(f[m - 1], m) /\ g[m - 1] = f[m - 1]
        BY <1>1, <2>3, <3>1
      <4> HIDE DEF g
      <4> QED BY <2>2, <3>1, <4>1
    <3>2. CASE i # m
      <4>1. i \in from .. m - 1 /\ g[i] = f[i]
        BY <1>1, <2>3, <3>2
      <4>2. f[i] = IF i = from THEN c ELSE More(f[i - 1], i)
        BY <2>4, <4>1
      <4>3. i # from => g[i - 1] = f[i - 1]
        BY <1>1, <2>3, <4>1
      <4> HIDE DEF g
      <4> QED BY <4>1, <4>2, <4>3
    <3> QED BY <3>1, <3>2
  <2>6. g = Step(g, m)
    BY <2>5
  <2> HIDE DEF g, Step
  <2> QED BY <2>1, <2>6
<1>5. after = Step(after, Len(p))
  <2>1. Len(p) \in from .. Len(p)
    BY <1>1
  <2>2. \E f : f = Step(f, Len(p))
    BY <1>4, <2>1
  <2> HIDE DEF Step
  <2> QED BY <2>2
<1> HIDE DEF after
<1>6. \A i \in from .. Len(p) : after[i] = IF i = from THEN c ELSE More(after[i - 1], i)
  BY <1>5
<1> HIDE DEF Step
<1> DEFINE Bad == {i \in from .. Len(p) : ~Learned(s, c, p, after[i])}
<1>7. ASSUME NEW i \in Bad, \A k \in Bad : i <= k PROVE FALSE
  <2>1. i \in from .. Len(p) /\ ~Learned(s, c, p, after[i])
    OBVIOUS
  <2>2. i # from
    BY <1>6, <2>1, LearnedNothing
  <2>3. i - 1 \in from .. Len(p) /\ ~(i <= i - 1) /\ i \in 0 .. Len(p)
    BY <1>1, <2>1, <2>2
  <2>4. Learned(s, c, p, after[i - 1])
    BY <1>7, <2>3
  <2>5. after[i] = IF node[i] \in Ids THEN lruSet(after[i - 1], Prefix(p, i), node[i])
                   ELSE after[i - 1]
    BY <1>6, <2>1, <2>2 DEF More
  <2>6. node[i] \in Ids => node[i] = FindId(s, Prefix(p, i))
    BY <1>2, <2>1, <2>2 DEF from
  <2> QED BY <2>1, <2>3, <2>4, <2>5, <2>6, LearnedMore
<1>8. Bad = {}
  <2>1. Bad \in SUBSET Nat
    BY <1>1
  <2> HIDE DEF Bad
  <2> QED BY <2>1, <1>7, LeastNat
<1>9. Learned(s, c, p, after[Len(p)])
  BY <1>1, <1>8
<1> QED BY <1>3, <1>9, LearnedNothing

(* The start of a lookup: what it takes from the cache is so.              *)
LEMMA GreatestNat ==
    ASSUME NEW n \in Nat, NEW T \in SUBSET (0 .. n), T # {}
    PROVE  \E m \in T : \A k \in T : k <= m
<1> DEFINE U == {n - k : k \in T}
<1>0. \A k \in T : k \in 0 .. n
  OBVIOUS
<1>1. U \in SUBSET Nat /\ U # {}
  <2>1. \A k \in T : n - k \in Nat
    BY <1>0
  <2>2. U \subseteq Nat
    BY <2>1
  <2> QED BY <2>2
<1>2. PICK l \in U : \A k \in U : l <= k
  <2> HIDE DEF U
  <2> QED BY <1>1, LeastNat
<1>3. PICK m \in T : l = n - m
  OBVIOUS
<1>4. \A k \in T : n - m <= n - k
  BY <1>2, <1>3
<1>5. ASSUME NEW k \in T PROVE k <= m
  <2>1. k \in Int /\ m \in Int /\ n \in Int /\ n - m <= n - k
    BY <1>0, <1>4
  <2> QED BY ONLY <2>1
<1> QED BY <1>5

LEMMA BeginFacts ==
    ASSUME NEW c, CacheIs(c), NEW s, NEW r, Coherent(s, r, c), NEW p \in Paths,
           NEW on \in BOOLEAN, NEW b, b = Begin(on, c, p)
    PROVE  /\ Started(s, r, p, b) /\ b.id \in Ids /\ b.from \in Nat
           /\ CacheIs(b.cache) /\ Coherent(s, r, b.cache)
           /\ \A i \in 1 .. Len(b.cache) : In(c, b.cache[i]) \/ b.cache[i].path = <<>>
           /\ b.from = 0 \/ Has(b.cache, Prefix(p, b.from))
           /\ ~on => b.from = 0 /\ b.id = Root /\ b.cache = c
<1> DEFINE known == {i \in 1 .. Len(p) : Has(c, Prefix(p, i))}
           level == CHOOSE i \in known : \A j \in known : j <= i
           x == Prefix(p, level)
<1>1. Len(p) \in Nat /\ p \in Seq(Names)
  BY DEF Paths
<1>2. CASE on /\ known # {}
  <2>1. level \in known
    <3>1. known \in SUBSET (0 .. Len(p))
      BY <1>1
    <3> HIDE DEF known
    <3>2. \E m \in known : \A k \in known : k <= m
      BY <1>1, <1>2, <3>1, GreatestNat
    <3> QED BY <3>2
  <2>2. level \in 1 .. Len(p) /\ Has(c, x)
    BY <2>1
  <2>3. b = [from |-> level, id |-> Value(c, x), cache |-> lruGet(c, x)]
    BY <1>2 DEF Begin
  <2> HIDE DEF known, level
  <2>4. x \in Paths /\ level \in 0 .. Len(p)
    BY <1>1, <2>2, PrefixFacts
  <2> HIDE DEF x
  <2>5. /\ CacheIs(lruGet(c, x))
        /\ \A i \in 1 .. Len(lruGet(c, x)) : In(c, lruGet(c, x)[i])
        /\ In(c, Entry(x, Value(c, x))) /\ Value(c, x) \in Ids
    BY <2>2, <2>4, GetFacts
  <2>6. PICK k \in 1 .. Len(c) : c[k] = Entry(x, Value(c, x))
    BY <2>5 DEF In
  <2>7. Leads(s, r, x, Value(c, x))
    BY <2>6 DEF Coherent, Entry
  <2>8. Coherent(s, r, lruGet(c, x)) /\ Has(lruGet(c, x), x)
    <3>1. Has(lruGet(c, x), x)
      <4>1. lruGet(c, x) = lruSet(c, x, Value(c, x))
        BY <2>2 DEF lruGet
      <4> QED BY <2>2, <2>4, <2>5, <4>1, SetHas
    <3> QED BY <2>5, <3>1 DEF Coherent, In
  <2>9. b.from = level /\ b.id = Value(c, x) /\ b.cache = lruGet(c, x)
    BY <2>3
  <2>10. Started(s, r, p, b) /\ Has(b.cache, Prefix(p, b.from))
    BY <2>4, <2>7, <2>8, <2>9 DEF Started, x
  <2>11. level \in Nat
    BY <1>1, <2>2
  <2> QED BY ONLY <1>2, <2>5, <2>8, <2>9, <2>10, <2>11
<1>3. CASE ~(on /\ known # {})
  <2> DEFINE d == IF on /\ p = <<>> THEN lruSet(c, p, Root) ELSE c
  <2>1. b = [from |-> 0, id |-> Root, cache |-> d]
    BY <1>3 DEF Begin
  <2> HIDE DEF known, level, x
  <2>2. /\ CacheIs(d) /\ Coherent(s, r, d)
        /\ \A i \in 1 .. Len(d) : In(c, d[i]) \/ d[i].path = <<>>
    <3>1. CASE on /\ p = <<>>
      <4>1. d = lruSet(c, <<>>, Root) /\ <<>> \in Paths
        BY <3>1
      <4> HIDE DEF d
      <4>2. /\ CacheIs(d)
            /\ \A i \in 1 .. Len(d) : d[i] = Entry(<<>>, Root) \/ In(c, d[i])
        BY <4>1, SetFacts, IdsAssumption
      <4>3. Entry(<<>>, Root).path = <<>> /\ Entry(<<>>, Root).id = Root
        BY DEF Entry
      <4>4. Coherent(s, r, d)
        BY <4>2, <4>3, FindRoot DEF Coherent, In, Leads
      <4> QED BY <4>2, <4>3, <4>4
    <3>2. CASE ~(on /\ p = <<>>)
      <4>1. d = c
        BY <3>2
      <4> QED BY <4>1 DEF In
    <3> QED BY <3>1, <3>2
  <2>3. b.from = 0 /\ b.id = Root /\ b.cache = d
    BY <2>1
  <2>4. Started(s, r, p, b)
    BY <1>1, <2>3, PrefixFacts, FindRoot DEF Started, Leads
  <2> QED BY <1>3, <2>2, <2>3, <2>4, IdsAssumption
<1> QED BY <1>2, <1>3

-----------------------------------------------------------------------------
(* The queue. *)
ByPath    == {"stat", "readdir", "openStat", "openFile", "truncated", "close"}
OpenSteps == {"openStat", "openFile", "parentStat", "create", "truncated"}
Makers    == OpenSteps \union {"mkdir"}
Alone     == {"readdir", "rmdir", "clear", "makeRoot"}
StepNames == ByPath \union OpenSteps \union Alone \union {"mkdir", "unlink", "rename"}

Wants == [do : {"write", "append", "truncate", "read"}, data : Seq(Bytes), len : Nat]

Txs == [step : StepNames, p : Paths, look : Paths, from : Nat, id : Ids, q : Paths,
        flag : Flags, mode : Perms, want : Wants, buf : Seq(Bytes), stats : Stats,
        saved : BOOLEAN, cred : Creds]

(* What a transaction looks up, and the names it may ask for.              *)
Shape(t) ==
    /\ t.look = IF t.step \in ByPath THEN t.p ELSE dirname(t.p)
    /\ t.step = "mkdir" => ~IsFileName(t.p)
    /\ t.step = "rename" => t.q # <<>> /\ (t.p # <<>> => IsFileName(t.p) = IsFileName(t.q))
    /\ t.step \in OpenSteps \union {"close"} => IsFileName(t.p)
    /\ t.step \in {"clear", "makeRoot"} => t.p = <<>> /\ t.from = 0 /\ t.id = Root

Blank(s) == \A k \in Ids : s[k] = Absent

EmptyAt(s, p) == FindId(s, p) \in DirIds(s) => entries(s, FindId(s, p)) = NoEntries

(* What a transaction that waits may count on, of the store, the paths     *)
(* dropped while a lookup waited, the cache and whether it is there: what  *)
(* its lookup started from is so still, or gone; nothing came into a       *)
(* directory since it was read to be removed; the store is still cleared;  *)
(* a path that was dropped from the cache is not back, but where a lookup  *)
(* waited that may put it back.                                            *)
Suits(s, r, c, on, t) ==
    /\ Started(s, r, t.look, t)
    /\ t.step = "rmdir" => EmptyAt(s, t.p)
    /\ t.step = "makeRoot" => Blank(s)
    /\ t.step \in {"clear", "makeRoot"} => c = <<>>
    /\ t.step \in {"unlink", "rmdir"} /\ t.p # <<>> /\ Has(c, t.p) => t.p \in r
    /\ t.step = "rename" => c = <<>> /\ ~on

(* Where there is no cache it is never given back.  h: whether there is.   *)
CacheOK(h, s, r, c, on) ==
    /\ CacheIs(c) /\ Coherent(s, r, c)
    /\ h \in BOOLEAN /\ on \in BOOLEAN
    /\ ~h => ~on

TxOK(h, s, r, c, on, t) ==
    /\ t \in Txs /\ Shape(t) /\ Suits(s, r, c, on, t)
    /\ t.saved => h

(* A directory that is read to be removed is the last in the queue, behind *)
(* files being closed; what removes it, or empties the store, is alone.    *)
Ordered(q) ==
    \A i \in 1 .. Len(q) :
        /\ q[i].step = "readdir" => i = Len(q) /\ \A j \in 1 .. i - 1 : q[j].step = "close"
        /\ q[i].step \in {"rmdir", "clear", "makeRoot"} => Len(q) = 1

(* Of two transactions in the queue: what waits behind a rename started    *)
(* from the root; a path that was dropped to be unlinked while a lookup    *)
(* waited that may put it back, or that a lookup started from all the      *)
(* same, is one of r.                                                      *)
Pair(h, r, a, b) ==
    /\ a.step = "rename" => b.from = 0 /\ b.id = Root /\ (h => b.step # "rename")
    /\ b.step = "unlink" /\ IsAtOrAbove(b.p, a.look) => b.p \in r
    /\ a.step = "unlink" /\ a.p # <<>> /\ Prefix(b.look, b.from) = a.p => a.p \in r

Paired(h, r, q) == \A j \in 1 .. Len(q) : \A i \in 1 .. j - 1 : Pair(h, r, q[i], q[j])

QueueOK(h, s, r, c, on, q) ==
    /\ q \in Seq(Txs)
    /\ \A i \in 1 .. Len(q) : TxOK(h, s, r, c, on, q[i])
    /\ Ordered(q)
    /\ Paired(h, r, q)

(* All of them have begun well. *)
AllStarted(s, r, q) == \A i \in 1 .. Len(q) : Started(s, r, q[i].look, q[i])

(* A cache that came of another: what is new in it are paths at or above p. *)
Grown(c, p, d) ==
    \A i \in 1 .. Len(d) : In(c, d[i]) \/ IsAtOrAbove(d[i].path, p)

LEMMA GrownHas ==
    ASSUME NEW c, NEW p, NEW d, Grown(c, p, d), NEW x, Has(d, x)
    PROVE  Has(c, x) \/ IsAtOrAbove(x, p)
<1>1. PICK i \in 1 .. Len(d) : d[i].path = x
  BY DEF Has
<1>2. CASE In(c, d[i])
  BY <1>1, <1>2 DEF In, Has
<1> QED BY <1>1, <1>2 DEF Grown

LEMMA LearnedGrown ==
    ASSUME NEW s, NEW c, NEW p \in Paths, NEW d, Learned(s, c, p, d)
    PROVE  Grown(c, p, d)
<1> SUFFICES ASSUME NEW i \in 1 .. Len(d), New(s, p, d[i])
             PROVE  IsAtOrAbove(d[i].path, p)
  BY DEF Grown, Learned
<1>1. PICK k \in 0 .. Len(p) : d[i].path = Prefix(p, k)
  BY DEF New
<1> QED BY <1>1, PrefixAbove

(* The root is above all, and nothing is above the root. *)
LEMMA RootAbove ==
    ASSUME NEW p \in Paths
    PROVE  /\ IsAtOrAbove(<<>>, p)
           /\ \A x \in Paths : IsAtOrAbove(x, <<>>) => x = <<>>
<1>1. IsAtOrAbove(<<>>, p)
  <2>1. p \in Seq(Names) /\ Len(p) \in Nat
    BY DEF Paths
  <2> QED BY <2>1 DEF IsAtOrAbove
<1>2. ASSUME NEW x \in Paths, IsAtOrAbove(x, <<>>) PROVE x = <<>>
  <2>1. x \in Seq(Names) /\ Len(x) \in Nat
    BY DEF Paths
  <2> QED BY <1>2, <2>1 DEF IsAtOrAbove
<1> QED BY <1>1, <1>2

(* Sequences of anything: their rest, and one element more.                *)
LEMMA RestFacts ==
    ASSUME NEW S, NEW q \in Seq(S), q # <<>>
    PROVE  /\ Tail(q) \in Seq(S) /\ Len(Tail(q)) = Len(q) - 1 /\ Len(q) \in Nat \ {0}
           /\ \A i \in 1 .. Len(Tail(q)) : i + 1 \in 1 .. Len(q) /\ Tail(q)[i] = q[i + 1]
           /\ Head(q) = q[1] /\ 1 \in 1 .. Len(q) /\ Head(q) \in S
           /\ Len(q) = 1 => Tail(q) = <<>>
<1>1. Len(q) \in Nat /\ Len(q) # 0
  OBVIOUS
<1>2. Tail(q) \in Seq(S) /\ Len(Tail(q)) = Len(q) - 1
  OBVIOUS
<1>3. \A i \in 1 .. Len(q) - 1 : Tail(q)[i] = q[i + 1]
  OBVIOUS
<1>4. Head(q) = q[1] /\ q[1] \in S
  BY <1>1
<1>5. Len(q) = 1 => Tail(q) = <<>>
  <2> DEFINE r == Tail(q)
  <2>1. r \in Seq(S) /\ Len(r) = Len(q) - 1
    BY <1>2
  <2> HIDE DEF r
  <2>2. Len(q) = 1 => r = <<>>
    BY <1>1, <2>1
  <2> QED BY <2>2 DEF r
<1> QED BY <1>1, <1>2, <1>3, <1>4, <1>5

LEMMA MoreFacts ==
    ASSUME NEW S, NEW q \in Seq(S), NEW x \in S
    PROVE  /\ Append(q, x) \in Seq(S) /\ Len(Append(q, x)) = Len(q) + 1 /\ Len(q) \in Nat
           /\ \A i \in 1 .. Len(q) : Append(q, x)[i] = q[i]
           /\ Append(q, x)[Len(q) + 1] = x
           /\ q \o <<x>> = Append(q, x)
           /\ \A i \in 1 .. Len(q) + 1 : i = Len(q) + 1 \/ i \in 1 .. Len(q)
OBVIOUS

(* What is left in the queue when its first transaction has ended is as it *)
(* was, whatever that one did to the store, if what it started from is.    *)
LEMMA StillOK ==
    ASSUME NEW h, NEW s, NEW r, NEW c, NEW on \in BOOLEAN,
           NEW a, TxOK(h, s, r, c, on, a), NEW x, TxOK(h, s, r, c, on, x), Pair(h, r, a, x),
           x.step \notin {"rmdir", "clear", "makeRoot"},
           NEW t, Started(t, r, x.look, x),
           NEW d, Grown(c, a.look, d), ~on /\ c = <<>> => d = <<>>,
           NEW on2 \in BOOLEAN, on2 => on \/ (a.step = "rename" /\ a.saved)
    PROVE  TxOK(h, t, r, d, on2, x)
<1>1. ASSUME x.step = "unlink", x.p # <<>>, Has(d, x.p) PROVE x.p \in r
  <2>1. CASE Has(c, x.p)
    BY <1>1, <2>1 DEF TxOK, Suits
  <2>2. CASE IsAtOrAbove(x.p, a.look)
    BY <1>1, <2>2 DEF Pair
  <2> QED BY <1>1, <2>1, <2>2, GrownHas
<1>2. ASSUME x.step = "rename" PROVE d = <<>> /\ ~on2
  <2>1. c = <<>> /\ ~on
    BY <1>2 DEF TxOK, Suits
  <2>2. ~(a.step = "rename" /\ a.saved)
    BY <1>2 DEF Pair, TxOK
  <2> QED BY <2>1, <2>2
<1>3. Suits(t, r, d, on2, x)
  BY <1>1, <1>2 DEF Suits
<1> QED BY <1>3 DEF TxOK

LEMMA RestOK ==
    ASSUME NEW h, NEW s, NEW r, NEW c, NEW on \in BOOLEAN, NEW q, QueueOK(h, s, r, c, on, q),
           q # <<>>, NEW t, AllStarted(t, r, Tail(q)),
           NEW d, Grown(c, Head(q).look, d), ~on /\ c = <<>> => d = <<>>,
           NEW on2 \in BOOLEAN, on2 => on \/ (Head(q).step = "rename" /\ Head(q).saved)
    PROVE  /\ QueueOK(h, t, r, d, on2, Tail(q))
           /\ Head(q).step \in Alone => Tail(q) = <<>>
           /\ \A i \in 1 .. Len(Tail(q)) :
                /\ Tail(q)[i].step \notin {"rmdir", "clear", "makeRoot"}
                /\ Head(q).step # "close" => Tail(q)[i].step # "readdir"
<1> DEFINE u == Tail(q)
<1>1. /\ u \in Seq(Txs) /\ Len(u) = Len(q) - 1 /\ Len(q) \in Nat \ {0}
      /\ \A i \in 1 .. Len(u) : i + 1 \in 1 .. Len(q) /\ u[i] = q[i + 1]
      /\ Head(q) = q[1] /\ 1 \in 1 .. Len(q)
      /\ Len(q) = 1 => u = <<>>
  <2>1. q \in Seq(Txs)
    BY DEF QueueOK
  <2> QED BY <2>1, RestFacts
<1>0. \A i \in 1 .. Len(u) : Started(t, r, u[i].look, u[i])
  BY DEF AllStarted
<1> HIDE DEF u
<1>2. /\ Ordered(q) /\ Paired(h, r, q)
      /\ \A i \in 1 .. Len(q) : TxOK(h, s, r, c, on, q[i])
  BY DEF QueueOK
<1>3. Head(q).step \in Alone => u = <<>>
  <2>1. Head(q).step \in Alone => Len(q) = 1
    BY <1>1, <1>2 DEF Ordered, Alone
  <2> QED BY <1>1, <1>2, <2>1
<1>4. ASSUME NEW i \in 1 .. Len(u)
      PROVE  /\ u[i].step \notin {"rmdir", "clear", "makeRoot"}
             /\ Head(q).step # "close" => u[i].step # "readdir"
             /\ TxOK(h, t, r, d, on2, u[i])
             /\ u[i].step = "readdir" => i = Len(u) /\ \A j \in 1 .. i - 1 : u[j].step = "close"
  <2>1. i \in Nat /\ Len(q) # 1 /\ i + 1 \in 1 .. Len(q) /\ u[i] = q[i + 1]
        /\ 1 \in 1 .. (i + 1) - 1
    BY <1>1
  <2>2. u[i].step \notin {"rmdir", "clear", "makeRoot"}
    BY <1>2, <2>1 DEF Ordered
  <2>3. u[i].step = "readdir" => i + 1 = Len(q) /\ \A j \in 1 .. i : q[j].step = "close"
    BY <1>2, <2>1 DEF Ordered
  <2>4. u[i].step = "readdir" => i = Len(u) /\ \A j \in 1 .. i - 1 : u[j].step = "close"
    <3> SUFFICES ASSUME u[i].step = "readdir"
                 PROVE  i = Len(u) /\ \A j \in 1 .. i - 1 : u[j].step = "close"
      OBVIOUS
    <3>1. i = Len(u)
      BY <1>1, <2>1, <2>3
    <3>2. ASSUME NEW j \in 1 .. i - 1 PROVE u[j].step = "close"
      <4>1. j \in 1 .. Len(u) /\ j + 1 \in 1 .. i
        BY <1>1, <2>1, <3>1, <3>2
      <4> QED BY <1>1, <2>3, <4>1
    <3> QED BY <3>1, <3>2
  <2>5. Head(q).step # "close" => u[i].step # "readdir"
    <3>1. 1 \in 1 .. i
      BY <2>1
    <3> QED BY <1>1, <2>3, <3>1
  <2>6. /\ TxOK(h, s, r, c, on, u[i]) /\ TxOK(h, s, r, c, on, Head(q))
        /\ Pair(h, r, Head(q), u[i])
    <3>1. Pair(h, r, q[1], q[i + 1])
      BY <1>2, <2>1 DEF Paired
    <3> QED BY <1>1, <1>2, <2>1, <3>1
  <2>7. Started(t, r, u[i].look, u[i])
    BY <1>0
  <2>8. TxOK(h, t, r, d, on2, u[i])
    BY <2>2, <2>6, <2>7, StillOK
  <2> QED BY <2>2, <2>4, <2>5, <2>8
<1>5. Ordered(u)
  BY <1>4 DEF Ordered
<1>6. Paired(h, r, u)
  <2> SUFFICES ASSUME NEW j \in 1 .. Len(u), NEW i \in 1 .. j - 1
               PROVE  Pair(h, r, u[i], u[j])
    BY DEF Paired
  <2>1. i \in 1 .. Len(u) /\ i + 1 \in 1 .. (j + 1) - 1 /\ j + 1 \in 1 .. Len(q)
    BY <1>1
  <2>2. Pair(h, r, q[i + 1], q[j + 1])
    BY <1>2, <2>1 DEF Paired
  <2> QED BY <1>1, <2>1, <2>2
<1>7. QueueOK(h, t, r, d, on2, u)
  BY <1>1, <1>4, <1>5, <1>6 DEF QueueOK
<1> QED BY <1>3, <1>4, <1>7 DEF u

(* A transaction that is begun waits behind others that let it.            *)
LetsIn(h, r, c, on, q, x) ==
    /\ ~on => x.from = 0 /\ x.id = Root
    /\ x.from = 0 \/ Has(c, Prefix(x.look, x.from))
    /\ x.step = "unlink" => \A i \in 1 .. Len(q) : IsAtOrAbove(x.p, q[i].look) => x.p \in r
    /\ x.step = "rename" /\ h => \A i \in 1 .. Len(q) : q[i].step # "rename"

LEMMA BegunOK ==
    ASSUME NEW h, NEW s, NEW r, NEW c, NEW on, NEW q, QueueOK(h, s, r, c, on, q),
           \A i \in 1 .. Len(q) : q[i].step \notin Alone,
           NEW x, TxOK(h, s, r, c, on, x), LetsIn(h, r, c, on, q, x),
           x.step \in {"rmdir", "clear", "makeRoot"} => q = <<>>,
           x.step = "readdir" => \A i \in 1 .. Len(q) : q[i].step = "close"
    PROVE  /\ QueueOK(h, s, r, c, on, Append(q, x))
           /\ q \o <<x>> = Append(q, x)
<1> DEFINE u == Append(q, x)
<1>1. /\ u \in Seq(Txs) /\ Len(u) = Len(q) + 1 /\ Len(q) \in Nat
      /\ \A i \in 1 .. Len(q) : u[i] = q[i]
      /\ u[Len(q) + 1] = x
      /\ q \o <<x>> = u
      /\ \A i \in 1 .. Len(q) + 1 : i = Len(q) + 1 \/ i \in 1 .. Len(q)
  <2>1. q \in Seq(Txs) /\ x \in Txs
    BY DEF QueueOK, TxOK
  <2> QED BY <2>1, MoreFacts
<1> HIDE DEF u
<1>2. Paired(h, r, q) /\ \A i \in 1 .. Len(q) : TxOK(h, s, r, c, on, q[i])
  BY DEF QueueOK
<1>3. ASSUME NEW i \in 1 .. Len(u)
      PROVE  /\ TxOK(h, s, r, c, on, u[i])
             /\ u[i].step = "readdir" => i = Len(u) /\ \A j \in 1 .. i - 1 : u[j].step = "close"
             /\ u[i].step \in {"rmdir", "clear", "makeRoot"} => Len(u) = 1
  <2>1. CASE i \in 1 .. Len(q)
    BY <1>1, <1>2, <2>1 DEF Alone
  <2>2. CASE i = Len(q) + 1
    <3>1. u[i] = x /\ i = Len(u) /\ \A j \in 1 .. i - 1 : j \in 1 .. Len(q) /\ u[j] = q[j]
      BY <1>1, <2>2
    <3>2. q = <<>> => Len(u) = 1
      BY <1>1
    <3> QED BY <3>1, <3>2
  <2> QED BY <1>1, <2>1, <2>2
<1>4. Ordered(u)
  BY <1>3 DEF Ordered
<1>5. ASSUME NEW i \in 1 .. Len(q) PROVE Pair(h, r, q[i], x)
  <2>1. TxOK(h, s, r, c, on, q[i]) /\ Suits(s, r, c, on, q[i])
    BY <1>2 DEF TxOK
  <2>2. q[i].step = "rename" => x.from = 0 /\ x.id = Root /\ (h => x.step # "rename")
    BY <2>1 DEF Suits, LetsIn
  <2>3. x.step = "unlink" /\ IsAtOrAbove(x.p, q[i].look) => x.p \in r
    BY DEF LetsIn
  <2>4. ASSUME q[i].step = "unlink", q[i].p # <<>>, Prefix(x.look, x.from) = q[i].p
        PROVE  q[i].p \in r
    <3>1. x.look \in Paths /\ 0 \in 0 .. Len(x.look)
      <4>1. x.look \in Paths
        BY DEF TxOK, Txs
      <4> QED BY <4>1 DEF Paths
    <3>2. Prefix(x.look, 0) = <<>>
      BY <3>1, PrefixFacts
    <3>3. Has(c, q[i].p)
      BY <2>4, <3>2 DEF LetsIn
    <3> QED BY <2>1, <2>4, <3>3 DEF Suits
  <2> QED BY <2>2, <2>3, <2>4 DEF Pair
<1>6. Paired(h, r, u)
  <2> SUFFICES ASSUME NEW j \in 1 .. Len(u), NEW i \in 1 .. j - 1
               PROVE  Pair(h, r, u[i], u[j])
    BY DEF Paired
  <2>1. i \in 1 .. Len(q) /\ u[i] = q[i]
    BY <1>1
  <2>2. CASE j \in 1 .. Len(q)
    BY <1>1, <1>2, <2>1, <2>2 DEF Paired
  <2>3. CASE j = Len(q) + 1
    BY <1>1, <1>5, <2>1, <2>3
  <2> QED BY <1>1, <2>2, <2>3
<1> QED BY <1>1, <1>3, <1>4, <1>6 DEF QueueOK, u

(* A call changes the cache and the paths dropped from it before it begins *)
(* its transaction; those that wait are none the worse for it.             *)
Spares(r, c, on, q, r2, c2, on2) ==
    /\ \A i \in 1 .. Len(c2) : In(c, c2[i]) \/ c2[i].path = <<>>
    /\ c = <<>> /\ ~on => c2 = <<>> /\ ~on2
    /\ \A x \in r : \/ x \in r2
                   \/ /\ ~Has(c2, x) \/ x = <<>>
                      /\ \A i \in 1 .. Len(q) : ~IsAtOrAbove(x, q[i].look)

LEMMA SparedOK ==
    ASSUME NEW h, NEW s, NEW r, NEW c, NEW on, NEW q, QueueOK(h, s, r, c, on, q),
           \A i \in 1 .. Len(q) : q[i].step \notin Alone,
           NEW r2, NEW c2, NEW on2, Spares(r, c, on, q, r2, c2, on2)
    PROVE  QueueOK(h, s, r2, c2, on2, q)
<1>1. /\ q \in Seq(Txs) /\ Ordered(q) /\ Paired(h, r, q)
      /\ \A i \in 1 .. Len(q) : TxOK(h, s, r, c, on, q[i])
  BY DEF QueueOK
<1>2. ASSUME NEW i \in 1 .. Len(q)
      PROVE  /\ q[i].look \in Paths /\ q[i].from \in 0 .. Len(q[i].look)
             /\ IsAtOrAbove(Prefix(q[i].look, q[i].from), q[i].look)
  <2>1. q[i].look \in Paths /\ q[i].from \in 0 .. Len(q[i].look)
    BY <1>1 DEF TxOK, Txs, Suits, Started
  <2> QED BY <2>1, PrefixAbove
<1>3. ASSUME NEW i \in 1 .. Len(q) PROVE TxOK(h, s, r2, c2, on2, q[i])
  <2>1. TxOK(h, s, r, c, on, q[i]) /\ Suits(s, r, c, on, q[i])
    BY <1>1 DEF TxOK
  <2>2. Started(s, r2, q[i].look, q[i])
    BY <1>2, <2>1 DEF Suits, Started, Leads, Spares
  <2>3. ASSUME q[i].step = "unlink", q[i].p # <<>>, Has(c2, q[i].p) PROVE q[i].p \in r2
    <3>1. Has(c, q[i].p)
      BY <2>3 DEF Spares, Has, In
    <3>2. q[i].p \in r
      BY <2>1, <2>3, <3>1 DEF Suits
    <3> QED BY <2>3, <3>2 DEF Spares
  <2>4. q[i].step = "rename" => c2 = <<>> /\ ~on2
    BY <2>1 DEF Suits, Spares
  <2>5. q[i].step \notin {"rmdir", "clear", "makeRoot"}
    BY DEF Alone
  <2>6. Suits(s, r2, c2, on2, q[i])
    BY <2>2, <2>3, <2>4, <2>5 DEF Suits
  <2> QED BY <2>1, <2>6 DEF TxOK
<1>4. Paired(h, r2, q)
  <2> SUFFICES ASSUME NEW j \in 1 .. Len(q), NEW i \in 1 .. j - 1
               PROVE  Pair(h, r2, q[i], q[j])
    BY DEF Paired
  <2>1. Pair(h, r, q[i], q[j]) /\ i \in 1 .. Len(q)
    <3>1. Len(q) \in Nat
      BY <1>1
    <3> QED BY <1>1, <3>1 DEF Paired
  <2>2. IsAtOrAbove(Prefix(q[j].look, q[j].from), q[j].look)
    BY <1>2
  <2> QED BY <2>1, <2>2 DEF Pair, Spares
<1> QED BY <1>1, <1>3, <1>4 DEF QueueOK

-----------------------------------------------------------------------------
(* Room for the nodes that the calls under way may make. *)
Making(q) == {i \in 1 .. Len(q) : q[i].step \in Makers}

One(b) == IF b THEN 1 ELSE 0

LEMMA MakingIsFinite ==
    ASSUME NEW q \in Seq(Txs)
    PROVE  IsFiniteSet(Making(q)) /\ Cardinality(Making(q)) \in Nat
<1>1. Len(q) \in Nat
  OBVIOUS
<1>2. IsFiniteSet(1 .. Len(q))
  BY <1>1, FS_Interval
<1>3. Making(q) \in SUBSET (1 .. Len(q))
  BY DEF Making
<1>4. IsFiniteSet(Making(q))
  BY <1>2, <1>3, FS_Subset
<1> QED BY <1>4, FS_CardinalityType

(* One less or the same when the first has ended, *)
LEMMA MakingRest ==
    ASSUME NEW q \in Seq(Txs), q # <<>>
    PROVE  Cardinality(Making(Tail(q))) + One(Head(q).step \in Makers) <= Cardinality(Making(q))
<1> DEFINE r == Tail(q)
           S == Making(q) \ {1}
           f == [i \in Making(r) |-> i + 1]
<1>1. /\ r \in Seq(Txs) /\ Len(r) = Len(q) - 1 /\ Len(q) \in Nat \ {0}
      /\ \A i \in 1 .. Len(r) : i + 1 \in 1 .. Len(q) /\ r[i] = q[i + 1]
      /\ Head(q) = q[1] /\ 1 \in 1 .. Len(q)
  BY RestFacts
<1> HIDE DEF r
<1>2. \A i \in Making(r) : i \in Nat /\ i + 1 \in S
  <2> TAKE i \in Making(r)
  <2>1. i \in 1 .. Len(r) /\ r[i].step \in Makers
    BY DEF Making
  <2>2. i \in Nat /\ i + 1 # 1 /\ i + 1 \in 1 .. Len(q) /\ q[i + 1].step \in Makers
    BY <1>1, <2>1
  <2> QED BY <2>2 DEF Making
<1>3. f \in [Making(r) -> S]
  BY <1>2
<1>4. \A i, j \in Making(r) : f[i] = f[j] => i = j
  BY <1>2
<1> HIDE DEF f
<1>5. f \in Injection(Making(r), S)
  BY <1>3, <1>4 DEF Injection, IsInjective
<1>6. IsFiniteSet(Making(q)) /\ Cardinality(Making(q)) \in Nat
  BY MakingIsFinite
<1>7. /\ IsFiniteSet(S)
      /\ Cardinality(S) = IF 1 \in Making(q) THEN Cardinality(Making(q)) - 1
                          ELSE Cardinality(Making(q))
  BY <1>6, FS_RemoveElement
<1> HIDE DEF S
<1>8. Cardinality(Making(r)) <= Cardinality(S)
  BY <1>5, <1>7, FS_Injection
<1>9. 1 \in Making(q) <=> Head(q).step \in Makers
  BY <1>1 DEF Making
<1>10. Cardinality(Making(r)) \in Nat
  BY <1>1, MakingIsFinite
<1> QED BY <1>6, <1>7, <1>8, <1>9, <1>10 DEF One, r

(* one more or the same when one is begun. *)
LEMMA MakingMore ==
    ASSUME NEW q \in Seq(Txs), NEW x \in Txs
    PROVE  Cardinality(Making(Append(q, x))) <= Cardinality(Making(q)) + One(x.step \in Makers)
<1> DEFINE r == Append(q, x)
           n == Len(q) + 1
<1>1. /\ r \in Seq(Txs) /\ Len(r) = n /\ Len(q) \in Nat
      /\ \A i \in 1 .. Len(q) : r[i] = q[i]
      /\ r[n] = x
      /\ \A i \in 1 .. n : i = n \/ i \in 1 .. Len(q)
  BY MoreFacts
<1> HIDE DEF r, n
<1>2. IsFiniteSet(Making(q)) /\ Cardinality(Making(q)) \in Nat
  BY MakingIsFinite
<1>3. /\ IsFiniteSet(Making(q) \union {n})
      /\ Cardinality(Making(q) \union {n}) <= Cardinality(Making(q)) + 1
  <2> DEFINE S == Making(q)
  <2>1. IsFiniteSet(S) /\ Cardinality(S) \in Nat
    BY <1>2
  <2> HIDE DEF S
  <2>2. /\ IsFiniteSet(S \union {n})
        /\ Cardinality(S \union {n}) = IF n \in S THEN Cardinality(S) ELSE Cardinality(S) + 1
    BY <2>1, FS_AddElement
  <2> QED BY <2>1, <2>2 DEF S
<1>4. CASE x.step \in Makers
  <2>1. Making(r) \in SUBSET (Making(q) \union {n})
    BY <1>1 DEF Making
  <2>2. Cardinality(Making(r)) <= Cardinality(Making(q) \union {n})
    BY <1>3, <2>1, FS_Subset
  <2>3. Cardinality(Making(r)) \in Nat /\ Cardinality(Making(q) \union {n}) \in Nat
    BY <1>1, <1>3, MakingIsFinite, FS_CardinalityType
  <2> QED BY <1>2, <1>3, <1>4, <2>2, <2>3 DEF One, r
<1>5. CASE x.step \notin Makers
  <2>1. Making(r) \in SUBSET Making(q)
    BY <1>1, <1>5 DEF Making
  <2>2. Cardinality(Making(r)) <= Cardinality(Making(q))
    BY <1>2, <2>1, FS_Subset
  <2> QED BY <1>2, <1>5, <2>2 DEF One, r
<1> QED BY <1>4, <1>5

(* A call that HasRoom lets in finds room for one more.                    *)
LEMMA MakingHasRoom ==
    ASSUME NEW q \in Seq(Txs), NEW m \in Nat, NEW n \in Nat,
           m + Cardinality({i \in 1 .. Len(q) :
                    q[i].step \notin {"stat", "unlink", "rename", "close"}}) < n
    PROVE  m + Cardinality(Making(q)) + 1 <= n
<1> DEFINE S == {i \in 1 .. Len(q) : q[i].step \notin {"stat", "unlink", "rename", "close"}}
<1>1. Len(q) \in Nat
  OBVIOUS
<1>2. IsFiniteSet(1 .. Len(q)) /\ S \in SUBSET (1 .. Len(q))
  <2>1. IsFiniteSet(1 .. Len(q))
    BY <1>1, FS_Interval
  <2> QED BY <2>1
<1>3. Making(q) \in SUBSET S
  BY DEF Making, Makers, OpenSteps
<1> HIDE DEF S
<1>4. IsFiniteSet(S)
  BY <1>2, FS_Subset
<1>5. Cardinality(Making(q)) <= Cardinality(S)
  BY <1>3, <1>4, FS_Subset
<1>6. Cardinality(S) \in Nat /\ Cardinality(Making(q)) \in Nat
  BY <1>4, FS_CardinalityType, MakingIsFinite
<1>7. m + Cardinality(S) < n
  BY DEF S
<1> QED BY <1>5, <1>6, <1>7

-----------------------------------------------------------------------------
(* The store.  Names of files are not names of directories: callers keep   *)
(* to that, so what is opened to be written is no directory.               *)
FilesNamed(s) == \A x \in Paths : IsFileName(x) => NodeIn(s, x) # DirNode

Good(s) == Tidy(s) /\ FilesNamed(s)

(* The store is a whole tree, or it is cleared. *)
StoreOK(s) == s \in Stores /\ (Good(s) \/ Blank(s))

Size(s) == Cardinality(InodeIds(s))

LEMMA SizeType ==
    ASSUME NEW s, StoreOK(s)
    PROVE  IsFiniteSet(InodeIds(s)) /\ Size(s) \in Nat /\ (Blank(s) => Size(s) = 0)
<1>1. Blank(s) => InodeIds(s) = {}
  BY DEF Blank, Absent, InodeIds
<1>2. IsFiniteSet(InodeIds(s))
  BY <1>1, FS_EmptySet DEF StoreOK, Good, Tidy
<1> QED BY <1>1, <1>2, FS_CardinalityType, FS_EmptySet DEF Size

LEMMA GoodIs ==
    ASSUME NEW s, Good(s)
    PROVE  s \in Stores /\ Sound(s) /\ Wired(s) /\ Tidy(s) /\ StoreOK(s)
BY DEF Good, Tidy, Sound, Wired, StoreOK

(* In a cleared store every look fails. *)
LEMMA BlankFails ==
    ASSUME NEW s, Blank(s), NEW n \in Ids \union Errors
    PROVE  INodeError(s, n) \in Errors /\ ListingError(s, n) \in Errors
           /\ "ok" \notin Errors
<1>1. "ok" \notin Errors /\ "ENOENT" \in Errors
  BY DEF Errors
<1>2. n \notin Errors => s[n].kind # "inode"
  BY DEF Blank, Absent
<1>3. INodeError(s, n) \in Errors
  BY <1>1, <1>2 DEF INodeError
<1> QED BY <1>1, <1>3 DEF ListingError

(* What is said of a path is so still where it leads where it led, or to   *)
(* what is gone by now and the path is one of r.                           *)
LEMMA LeadsStill ==
    ASSUME NEW s, NEW t, NEW r, NEW p, NEW n \in Ids, Leads(s, r, p, n),
           FindId(s, p) \in Ids => \/ FindId(t, p) = FindId(s, p)
                                   \/ Lost(t, FindId(s, p)) /\ p \in r,
           Lost(s, n) => Lost(t, n)
    PROVE  Leads(t, r, p, n)
BY DEF Leads

LostIn(s, t, N) == \A n \in N : Lost(s, n) => Lost(t, n)

StillFound(s, t) == \A x \in Paths : FindId(s, x) \in Ids => FindId(t, x) = FindId(s, x)

(* commitNewFile *)
LEMMA CreatedKeeps ==
    ASSUME NEW s, Sound(s), NEW t, NEW p \in Paths, NEW type \in Types, CreatedAt(s, t, p, type)
    PROVE  StillFound(s, t)
<1> DEFINE d == FindId(s, dirname(p))
           f == basename(p)
<1>1. PICK i, j, data, inode :
        /\ Addable(s, d, f, i, j, data, inode)
        /\ t = Added(s, d, f, i, j, data, inode)
  BY DEF CreatedAt
<1> HIDE DEF d, f
<1>2. /\ Sound(t)
      /\ DirIds(t) = DirIds(s) \union (IF inode.type = "dir" THEN {j} ELSE {})
      /\ \A x \in DirIds(s), h \in AllNames :
           entries(t, x)[h] = IF x = d /\ h = f THEN j ELSE entries(s, x)[h]
  BY <1>1, NodeAdded
<1>3. entries(s, d)[f] = NoEntry
  BY <1>1 DEF Addable
<1>4. \A x \in DirIds(s), h \in Names :
        entries(s, x)[h] # NoEntry => x \in DirIds(t) /\ entries(t, x)[h] = entries(s, x)[h]
  BY <1>2, <1>3 DEF AllNames
<1> QED BY <1>2, <1>4, MoreEntries DEF StillFound

LEMMA CommitGood ==
    ASSUME NEW s, Good(s), NEW p \in Paths, p # <<>>, NEW type \in Types, NEW mode \in Perms,
           NEW uid \in Uids, NEW gid \in Uids, NEW data \in Listings \union Blobs,
           data = IF type = "dir" THEN Listing(NoEntries) ELSE Data(<<>>),
           NEW new, Unused(s, new),
           ListingError(s, FindId(s, dirname(p))) = "ok",
           entries(s, FindId(s, dirname(p)))[basename(p)] = NoEntry,
           type = "dir" => ~IsFileName(p),
           NEW t, t = Committed(s, FindId(s, dirname(p)), basename(p), new, data,
                                Inode(new[1], DataLen(data), type, mode, uid, gid))
    PROVE  /\ Good(t) /\ CreatedAt(s, t, p, type)
           /\ StillFound(s, t) /\ Size(t) <= Size(s) + 1
           /\ InodeIds(t) = InodeIds(s) \union {new[2]}
<1>1. Tidy(s) /\ Sound(s) /\ StoreOK(s)
  BY GoodIs
<1>2. Tidy(t) /\ CreatedAt(s, t, p, type) /\ InodeIds(t) = InodeIds(s) \union {new[2]}
      /\ new[2] \notin InodeIds(s)
  BY <1>1, CommitTidy
<1>3. StillFound(s, t)
  BY <1>1, <1>2, CreatedKeeps
<1>4. /\ NodeIn(t, p) \in IF type = "dir" THEN {DirNode} ELSE FileNodes
      /\ Only(s, t, p)
  BY <1>1, <1>2, CreatedTree
<1>5. FilesNamed(t)
  <2> SUFFICES ASSUME NEW x \in Paths, IsFileName(x) PROVE NodeIn(t, x) # DirNode
    BY DEF FilesNamed
  <2>1. NodeIn(s, x) # DirNode
    BY DEF Good, FilesNamed
  <2>2. CASE x = p
    <3>1. NodeIn(t, p) \in FileNodes
      BY <1>4, <2>2
    <3> QED BY <1>1, <2>2, <3>1, NodeKinds
  <2>3. CASE x # p
    BY <1>4, <2>1, <2>3 DEF Only
  <2> QED BY <2>2, <2>3
<1>6. Size(t) = Size(s) + 1
  <2> DEFINE S == InodeIds(s)
             j == new[2]
  <2>1. IsFiniteSet(S) /\ j \notin S /\ InodeIds(t) = S \union {j}
    BY <1>1, <1>2, SizeType
  <2> HIDE DEF S, j
  <2>2. Cardinality(S \union {j}) = Cardinality(S) + 1
    BY <2>1, FS_AddElement
  <2> QED BY <2>1, <2>2 DEF Size, S
<1>7. Size(s) \in Nat
  BY <1>1, SizeType
<1> QED BY <1>2, <1>3, <1>5, <1>6, <1>7 DEF Good

(* removeEntry *)
LEMMA TakenOutKeeps ==
    ASSUME NEW s, Sound(s), NEW t, NEW p \in Paths, TakenOutAt(s, t, p)
    PROVE  \A x \in Paths : x # p /\ FindId(s, x) \in Ids => FindId(t, x) = FindId(s, x)
<1> DEFINE d == FindId(s, dirname(p))
           f == basename(p)
           n == FindId(s, p)
<1>1. /\ p # <<>> /\ d = FindId(s, dirname(p)) /\ f = basename(p) /\ n = FindId(s, p)
      /\ f \in AllNames
      /\ n \in InodeIds(s) /\ (n \in DirIds(s) => entries(s, n) = NoEntries)
      /\ t = TakenOut(s, d, f, n)
  BY DirnameLess DEF TakenOutAt, AllNames
<1> HIDE DEF d, f, n
<1>2. d \in DirIds(s) /\ n = entries(s, d)[f] /\ n # NoEntry
  BY <1>1, SoundFind, IdsAssumption DEF InodeIds
<1>3. n # d
  BY <1>1, <1>2 DEF NoEntries, AllNames
<1>4. /\ Sound(t) /\ DirIds(t) = DirIds(s) \ {n}
      /\ \A x \in DirIds(t), h \in AllNames :
           entries(t, x)[h] = IF x = d /\ h = f THEN NoEntry ELSE entries(s, x)[h]
  BY <1>1, <1>2, <1>3, NodeRemoved
<1> DEFINE C == {p}
<1>5. SameBut(s, t, C)
  <2>1. ASSUME NEW y \in DirIds(s), NEW h \in Names, entries(s, y)[h] # NoEntry,
               ~(y = d /\ h = f)
        PROVE  y \in DirIds(t) /\ entries(t, y)[h] = entries(s, y)[h]
    <3>1. y # n
      BY <1>1, <2>1 DEF NoEntries
    <3> QED BY <1>4, <2>1, <3>1 DEF AllNames
  <2> QED BY <1>1, <2>1 DEF SameBut
<1>6. ASSUME NEW x \in Paths, x # p, FindId(s, x) \in Ids
      PROVE  FindId(t, x) = FindId(s, x)
  <2>1. ~IsAtOrAbove(p, x)
    BY <1>1, <1>6, FindAbove
  <2>2. C \subseteq Paths \ {<<>>} /\ \A c \in C : ~IsAtOrAbove(c, x)
    BY <1>1, <2>1
  <2> HIDE DEF C
  <2> QED BY <1>4, <1>5, <1>6, <2>2, FindKeptBut
<1> QED BY <1>6

LEMMA RemovalGood ==
    ASSUME NEW s, Good(s), NEW p \in Paths, NEW n, n = FindId(s, p),
           ListingError(s, FindId(s, dirname(p))) = "ok",
           entries(s, FindId(s, dirname(p)))[basename(p)] # NoEntry,
           n \in DirIds(s) => entries(s, n) = NoEntries,
           NEW t, t = EntryRemoved(s, FindId(s, dirname(p)), basename(p), n)
    PROVE  /\ Good(t) /\ TakenOutAt(s, t, p) /\ Size(t) <= Size(s)
           /\ \A x \in Paths : x # p /\ FindId(s, x) \in Ids => FindId(t, x) = FindId(s, x)
           /\ InodeIds(t) = InodeIds(s) \ {n}
<1>1. Tidy(s) /\ Sound(s) /\ StoreOK(s)
  BY GoodIs
<1>2. Tidy(t) /\ TakenOutAt(s, t, p) /\ InodeIds(t) = InodeIds(s) \ {n}
  BY <1>1, RemovalTidy
<1>3. \A x \in Paths : x # p /\ FindId(s, x) \in Ids => FindId(t, x) = FindId(s, x)
  BY <1>1, <1>2, TakenOutKeeps
<1>4. NodeIn(t, p) = NoNode /\ Only(s, t, p)
  BY <1>1, <1>2, TakenOutTree
<1>5. NoNode # DirNode
  BY DEF NoNode, DirNode
<1>6. FilesNamed(t)
  BY <1>4, <1>5 DEF FilesNamed, Only, Good
<1>7. Size(t) <= Size(s)
  BY <1>1, <1>2, SizeType, FS_Subset DEF Size
<1> QED BY <1>2, <1>3, <1>6, <1>7 DEF Good

(* rename *)
LEMMA RehungNodes ==
    ASSUME NEW s, Sound(s), NEW t, NEW p \in Paths, NEW q \in Paths, RehungAt(s, t, p, q)
    PROVE  InodeIds(t) \subseteq InodeIds(s)
<1> DEFINE d == FindId(s, dirname(p))
           e == FindId(s, dirname(q))
           f == basename(p)
           g == basename(q)
<1>1. /\ d \in DirIds(s) /\ e \in DirIds(s) /\ entries(s, d)[f] # NoEntry
      /\ f \in AllNames /\ g \in Names
      /\ t = Rehung(s, d, f, e, g)
  BY DirnameType, DirnameLess DEF RehungAt, AllNames
<1>2. PICK target :
        target = Target(s, d, f, e, g) /\ (target # NoEntry => s[target].type = "file")
  BY DEF RehungAt
<1> HIDE DEF d, e, f, g
<1>3. InodeIds(t) = InodeIds(s) \ {target}
  BY <1>1, <1>2, NodeMoved
<1> QED BY <1>3

LEMMA MoveGood ==
    ASSUME NEW s, Good(s), NEW p \in Paths, NEW q \in Paths, q # <<>>,
           p # <<>> => IsFileName(p) = IsFileName(q),
           NEW d, d = FindId(s, dirname(p)), NEW e, e = FindId(s, dirname(q)),
           ListingError(s, d) = "ok", ListingError(s, e) = "ok",
           entries(s, d)[basename(p)] # NoEntry,
           IF p = <<>> \/ dirname(q) = <<>> THEN p # dirname(q)
           ELSE ~IsAtOrAbove(p, dirname(q)),
           NEW old, old = [entries(s, d) EXCEPT ![basename(p)] = NoEntry],
           NEW new, new = IF dirname(q) = dirname(p) THEN old ELSE entries(s, e),
           NEW target, target = new[basename(q)],
           target # NoEntry => INodeError(s, target) = "ok" /\ s[target].type = "file",
           NEW t, t = EntryMoved(s, d, basename(p), e, basename(q), target, old, new)
    PROVE  Good(t) /\ RehungAt(s, t, p, q) /\ Size(t) <= Size(s)
<1>1. Tidy(s) /\ Sound(s) /\ StoreOK(s)
  BY GoodIs
<1>2. Tidy(t) /\ RehungAt(s, t, p, q) /\ InodeIds(t) \subseteq InodeIds(s)
  <2>1. /\ d = FindId(s, dirname(p)) /\ e = FindId(s, dirname(q))
        /\ target = new[basename(q)] /\ new = IF dirname(q) = dirname(p) THEN old ELSE entries(s, e)
        /\ old = [entries(s, d) EXCEPT ![basename(p)] = NoEntry]
        /\ ListingError(s, d) = "ok" /\ ListingError(s, e) = "ok" /\ entries(s, d)[basename(p)] # NoEntry
        /\ target # NoEntry => INodeError(s, target) = "ok" /\ s[target].type = "file"
        /\ t = EntryMoved(s, d, basename(p), e, basename(q), target, old, new)
        /\ p \in Paths /\ q \in Paths /\ q # <<>>
        /\ IF p = <<>> \/ dirname(q) = <<>> THEN p # dirname(q)
           ELSE ~IsAtOrAbove(p, dirname(q))
    OBVIOUS
  <2>2. Tidy(t) /\ RehungAt(s, t, p, q)
    BY ONLY <1>1, <2>1, MoveTidy
  <2>3. InodeIds(t) \subseteq InodeIds(s)
    BY <1>1, <2>2, RehungNodes
  <2> QED BY <2>2, <2>3
<1>3. p # <<>>
  BY <1>2 DEF RehungAt
<1>4. Size(t) <= Size(s)
  BY <1>1, <1>2, SizeType, FS_Subset DEF Size
<1>5. ASSUME NEW x \in Paths, IsFileName(x) PROVE NodeIn(t, x) # DirNode
  <2>1. CASE p = q
    BY <1>1, <1>2, <1>5, <2>1, RehungInPlace DEF Good, FilesNamed
  <2>2. CASE p # q
    <3>1. MovedTree(s, t, p, q)
      BY <1>1, <1>2, <2>2, RehungTree
    <3>2. CASE IsAtOrAbove(p, x)
      <4>1. NodeIn(t, x) = NoNode
        BY <3>1, <3>2 DEF MovedTree
      <4> QED BY <4>1 DEF NoNode, DirNode
    <3>3. CASE ~IsAtOrAbove(p, x) /\ ~IsAtOrAbove(q, x)
      <4>1. NodeIn(t, x) = NodeIn(s, x)
        BY <3>1, <3>3 DEF MovedTree
      <4> QED BY <1>5, <4>1 DEF Good, FilesNamed
    <3>4. CASE IsAtOrAbove(q, x)
      <4>1. PICK z \in Paths : x = q \o z
        BY <3>4, BelowIsConcat
      <4>2. NodeIn(t, x) = NodeIn(s, p \o z) /\ p \o z \in Paths
        BY <3>1, <4>1, BelowPaths DEF MovedTree
      <4>3. IsFileName(p \o z)
        <5>1. CASE z = <<>>
          <6>1. p \o z = p /\ q \o z = q
            BY <5>1, BelowPaths
          <6> QED BY <1>3, <1>5, <4>1, <6>1
        <5>2. CASE z # <<>>
          <6>1. basename(p \o z) = basename(z) /\ basename(q \o z) = basename(z)
            BY <5>2, BelowPaths
          <6> QED BY <1>5, <4>1, <6>1 DEF IsFileName
        <5> QED BY <5>1, <5>2
      <4> QED BY <4>2, <4>3 DEF Good, FilesNamed
    <3> QED BY <3>2, <3>3, <3>4
  <2> QED BY <2>1, <2>2
<1> QED BY <1>2, <1>4, <1>5 DEF Good, FilesNamed

(* _sync *)
LEMMA FileNameIsNoDir ==
    ASSUME NEW s, Good(s), NEW p \in Paths, IsFileName(p)
    PROVE  IsNoDir(s, p)
<1>1. Sound(s) /\ NodeIn(s, p) # DirNode
  BY GoodIs DEF Good, FilesNamed
<1> QED BY <1>1, NodeKinds DEF IsNoDir

LEMMA RefillGood ==
    ASSUME NEW s, Good(s), NEW p \in Paths, NEW n, n = FindId(s, p), n \in InodeIds(s),
           IsFileName(p), NEW b \in Seq(Bytes), NEW inode \in Inodes,
           inode.id = s[n].id, inode.type = "file", inode.size = Len(b),
           NEW t, t = Refilled(s, n, Data(b), inode)
    PROVE  /\ Good(t) /\ RefilledAt(s, t, p) /\ StillFound(s, t) /\ Size(t) = Size(s)
           /\ t[s[n].id] = Data(b) /\ InodeIds(t) = InodeIds(s)
<1>1. Tidy(s) /\ Sound(s) /\ IsNoDir(s, p)
  BY GoodIs, FileNameIsNoDir
<1>2. /\ Tidy(t) /\ RefilledAt(s, t, p) /\ InodeIds(t) = InodeIds(s)
      /\ t[s[n].id] = Data(b)
      /\ \A x \in Paths : FindId(s, x) \in Ids \/ FindId(t, x) \in Ids
                          => FindId(t, x) = FindId(s, x)
  BY <1>1, RefillTidy
<1>3. NodeIn(t, p) \in FileNodes /\ Only(s, t, p)
  BY <1>1, <1>2, RefilledTree
<1>4. NodeIn(t, p) # DirNode
  BY <1>1, <1>3, NodeKinds
<1>5. FilesNamed(t)
  BY <1>3, <1>4 DEF FilesNamed, Only, Good
<1> QED BY <1>2, <1>5 DEF Good, StillFound, Size

(* makeRootDirectory *)
LEMMA RootGood ==
    ASSUME NEW i \in Ids, i # Root, NEW s, Blank(s), s \in Stores, NEW t, t = rootOf(s, i)
    PROVE  t = RootOnly(i) /\ Good(t) /\ Size(t) = 1
<1>1. t = RootOnly(i)
  <2>1. DOMAIN s = Ids /\ \A k \in Ids : s[k] = Absent
    BY DEF Blank, Stores
  <2>2. t = [k \in Ids |-> IF k = Root THEN Inode(i, RootSize, "dir", 0 .. 8, 0, 0)
                           ELSE IF k = i THEN Listing(NoEntries) ELSE s[k]]
    BY <2>1 DEF rootOf
  <2> QED BY <2>1, <2>2 DEF RootOnly
<1>2. Tidy(t) /\ InodeIds(t) = {Root} /\ \A p \in Paths : p # <<>> => FindId(t, p) \notin Ids
  BY <1>1, RootOnlyTidy
<1>3. Sound(t)
  BY <1>2 DEF Tidy
<1>4. FilesNamed(t)
  <2> SUFFICES ASSUME NEW x \in Paths, IsFileName(x) PROVE NodeIn(t, x) # DirNode
    BY DEF FilesNamed
  <2>1. x # <<>>
    BY NameAssumption, AsyncAssumption DEF IsFileName, basename
  <2> QED BY <1>2, <1>3, <2>1, NodeKinds
<1>5. Size(t) = 1
  BY <1>2, FS_Singleton DEF Size
<1> QED BY <1>1, <1>2, <1>4, <1>5 DEF Good

-----------------------------------------------------------------------------
(* The inductive invariant. *)
Answers == AsyncErrors \union {"ok"}

AsyncInv ==
    /\ StoreOK(store)
    /\ ret \in Answers
    /\ raced \in SUBSET UsedPaths
    /\ CacheOK(cached, store, raced, cache, cacheOn)
    /\ QueueOK(cached, store, raced, cache, cacheOn, queue)
    /\ Size(store) + Cardinality(Making(queue)) <= MaxNodes

(* What the transaction that runs knows: it has found what its path leads  *)
(* to, or it stops at a node that is gone.                                 *)
TxRuns ==
    /\ queue # <<>>
    /\ tx \in Txs /\ tx.look \in Paths /\ tx.p \in Paths
    /\ TxOK(cached, store, raced, cache, cacheOn, tx)
    /\ tx.look = IF tx.step \in ByPath THEN tx.p ELSE dirname(tx.p)
    /\ Node \in Ids \union Errors
    /\ \/ Node = FindId(store, tx.look)
       \/ INodeError(store, Node) = "ENOENT" /\ Prefix(tx.look, tx.from) \in raced
    /\ CacheOK(cached, store, raced, Known, cacheOn)
    /\ Learned(store, cache, tx.look, Known)
    /\ ~cacheOn => Known = cache
    /\ AllStarted(store, raced, Tail(queue))

LEMMA TailFacts ==
    ASSUME AsyncInv, queue # <<>>
    PROVE  /\ tx = queue[1] /\ 1 \in 1 .. Len(queue) /\ Len(queue) \in Nat
           /\ TxOK(cached, store, raced, cache, cacheOn, tx)
           /\ Tail(queue) \in Seq(Txs)
           /\ \A i \in 1 .. Len(Tail(queue)) :
                /\ i + 1 \in 1 .. Len(queue) /\ Tail(queue)[i] = queue[i + 1]
                /\ TxOK(cached, store, raced, cache, cacheOn, Tail(queue)[i])
                /\ Pair(cached, raced, tx, Tail(queue)[i])
           /\ tx.step \in Alone => Tail(queue) = <<>>
<1> DEFINE u == Tail(queue)
<1>1. /\ queue \in Seq(Txs) /\ Ordered(queue) /\ Paired(cached, raced, queue)
      /\ \A i \in 1 .. Len(queue) : TxOK(cached, store, raced, cache, cacheOn, queue[i])
  BY DEF AsyncInv, QueueOK
<1>2. /\ u \in Seq(Txs) /\ Len(u) = Len(queue) - 1 /\ Len(queue) \in Nat \ {0}
      /\ \A i \in 1 .. Len(u) : i + 1 \in 1 .. Len(queue) /\ u[i] = queue[i + 1]
      /\ tx = queue[1] /\ 1 \in 1 .. Len(queue)
      /\ Len(queue) = 1 => u = <<>>
  BY <1>1, RestFacts DEF tx
<1> HIDE DEF u, tx
<1>3. ASSUME NEW i \in 1 .. Len(u)
      PROVE  /\ TxOK(cached, store, raced, cache, cacheOn, u[i])
             /\ Pair(cached, raced, tx, u[i])
  <2>1. 1 \in 1 .. (i + 1) - 1 /\ i + 1 \in 1 .. Len(queue)
    BY <1>2
  <2>2. Pair(cached, raced, queue[1], queue[i + 1])
    BY <1>1, <2>1 DEF Paired
  <2> QED BY <1>1, <1>2, <2>1, <2>2
<1>4. tx.step \in Alone => u = <<>>
  <2>1. tx.step \in Alone => Len(queue) = 1
    BY <1>1, <1>2 DEF Ordered, Alone
  <2> QED BY <1>2, <2>1
<1>5. TxOK(cached, store, raced, cache, cacheOn, tx) /\ Len(queue) \in Nat
  BY <1>1, <1>2
<1> QED BY <1>2, <1>3, <1>4, <1>5 DEF u

LEMMA RunFacts ==
    ASSUME AsyncInv, queue # <<>>
    PROVE  TxRuns
<1>3. TxOK(cached, store, raced, cache, cacheOn, tx)
  BY TailFacts
<1>0. AllStarted(store, raced, Tail(queue))
  BY TailFacts DEF AllStarted, TxOK, Suits
<1> HIDE DEF tx
<1>4. tx \in Txs /\ Shape(tx) /\ Started(store, raced, tx.look, tx)
  BY <1>3 DEF TxOK, Suits
<1>5. tx.look \in Paths /\ tx.p \in Paths /\ tx.id \in Ids
  BY <1>4 DEF Txs
<1>6. store \in Stores /\ CacheIs(cache) /\ Coherent(store, raced, cache)
      /\ cached \in BOOLEAN /\ cacheOn \in BOOLEAN /\ (~cached => ~cacheOn)
  BY DEF AsyncInv, StoreOK, CacheOK
<1>7. /\ Node \in Ids \union Errors
      /\ \/ Node = FindId(store, tx.look)
         \/ INodeError(store, Node) = "ENOENT" /\ Prefix(tx.look, tx.from) \in raced
  BY <1>4, <1>5, <1>6, FoundFacts, FindType DEF Node
<1>8. Learned(store, cache, tx.look, Known) /\ (~cacheOn => Known = cache)
  BY <1>4, <1>5, <1>6, RememberedFacts DEF Known
<1> HIDE DEF Known, Node
<1>9. CacheOK(cached, store, raced, Known, cacheOn)
  <2>1. CacheIs(Known)
    BY <1>8 DEF Learned
  <2>2. Coherent(store, raced, Known)
    BY <1>6, <1>8, LearnedCoherent
  <2> QED BY <1>6, <2>1, <2>2 DEF CacheOK
<1>10. tx.look = IF tx.step \in ByPath THEN tx.p ELSE dirname(tx.p)
  BY <1>4 DEF Shape
<1> QED BY <1>0, <1>3, <1>4, <1>5, <1>7, <1>8, <1>9, <1>10 DEF TxRuns

(* What a transaction leaves: the cache and the lookups that have begun    *)
(* are as good in the store after it.                                      *)
Settles(st) == Coherent(st, raced, Known) /\ AllStarted(st, raced, Tail(queue))

Passes ==
    /\ StoreOK(store') /\ ret' \in Answers /\ cached' = cached /\ raced' = raced
    /\ CacheOK(cached, store', raced, cache', cacheOn')
    /\ AllStarted(store', raced, Tail(queue))
    /\ Grown(cache, tx.look, cache') /\ (~cacheOn /\ cache = <<>> => cache' = <<>>)
    /\ cacheOn' \in BOOLEAN /\ (cacheOn' => cacheOn \/ (tx.step = "rename" /\ tx.saved))

LEMMA PassedRest ==
    ASSUME AsyncInv, queue # <<>>, Passes
    PROVE  /\ QueueOK(cached, store', raced, cache', cacheOn', Tail(queue))
           /\ tx.step \in Alone => Tail(queue) = <<>>
           /\ \A i \in 1 .. Len(Tail(queue)) :
                /\ Tail(queue)[i].step \notin {"rmdir", "clear", "makeRoot"}
                /\ tx.step # "close" => Tail(queue)[i].step # "readdir"
<1>1. QueueOK(cached, store, raced, cache, cacheOn, queue) /\ cacheOn \in BOOLEAN
  BY DEF AsyncInv, CacheOK
<1>2. /\ AllStarted(store', raced, Tail(queue))
      /\ Grown(cache, Head(queue).look, cache') /\ (~cacheOn /\ cache = <<>> => cache' = <<>>)
      /\ cacheOn' \in BOOLEAN
      /\ (cacheOn' => cacheOn \/ (Head(queue).step = "rename" /\ Head(queue).saved))
  BY DEF Passes, tx
<1> QED BY <1>1, <1>2, RestOK DEF tx

(* A transaction ends, and the others wait on; *)
LEMMA EndedInv ==
    ASSUME AsyncInv, queue # <<>>, Passes, queue' = Tail(queue),
           Size(store') <= Size(store) + One(tx.step \in Makers)
    PROVE  AsyncInv'
<1> DEFINE r == Tail(queue)
<1>1. queue \in Seq(Txs)
  BY DEF AsyncInv, QueueOK
<1>2. QueueOK(cached, store', raced, cache', cacheOn', r)
  BY PassedRest
<1>3. Cardinality(Making(r)) + One(tx.step \in Makers) <= Cardinality(Making(queue))
  BY <1>1, MakingRest DEF tx
<1>4. r \in Seq(Txs)
  BY <1>2 DEF QueueOK
<1> HIDE DEF r
<1>5. /\ Cardinality(Making(r)) \in Nat /\ Cardinality(Making(queue)) \in Nat
      /\ One(tx.step \in Makers) \in Nat /\ Size(store) \in Nat /\ Size(store') \in Nat
      /\ MaxNodes \in Nat /\ Size(store) + Cardinality(Making(queue)) <= MaxNodes
  BY <1>1, <1>4, MakingIsFinite, SizeType, AsyncAssumption DEF AsyncInv, One, Passes
<1>6. Size(store') + Cardinality(Making(r)) <= MaxNodes
  BY <1>3, <1>5
<1>7. queue' = r
  BY DEF r
<1> QED BY <1>2, <1>6, <1>7 DEF AsyncInv, Passes

(* another follows it; *)
LEMMA FollowedInv ==
    ASSUME AsyncInv, queue # <<>>, Passes,
           NEW x, TxOK(cached, store', raced, cache', cacheOn', x),
           LetsIn(cached, raced, cache', cacheOn', Tail(queue), x),
           queue' = Tail(queue) \o <<x>> \/ queue' = Append(Tail(queue), x),
           tx.step # "close", x.step # "readdir", x.step \in Alone => tx.step \in Alone,
           Size(store') + One(x.step \in Makers) <= Size(store) + One(tx.step \in Makers)
    PROVE  AsyncInv'
<1> DEFINE r == Tail(queue)
           q == Append(r, x)
<1>1. queue \in Seq(Txs)
  BY DEF AsyncInv, QueueOK
<1>2. /\ QueueOK(cached, store', raced, cache', cacheOn', r)
      /\ tx.step \in Alone => r = <<>>
      /\ \A i \in 1 .. Len(r) :
            /\ r[i].step \notin {"rmdir", "clear", "makeRoot"}
            /\ tx.step # "close" => r[i].step # "readdir"
  BY PassedRest
<1>3. Cardinality(Making(r)) + One(tx.step \in Makers) <= Cardinality(Making(queue))
  BY <1>1, MakingRest DEF tx
<1>4. r \in Seq(Txs) /\ x \in Txs
  BY <1>2 DEF QueueOK, TxOK
<1>5. /\ queue' = r \o <<x>> \/ queue' = q
      /\ LetsIn(cached, raced, cache', cacheOn', r, x)
  OBVIOUS
<1> HIDE DEF r, tx
<1>6. QueueOK(cached, store', raced, cache', cacheOn', q) /\ r \o <<x>> = q
  <2>1. \A i \in 1 .. Len(r) : r[i].step \notin Alone
    BY <1>2 DEF Alone
  <2>2. x.step \in {"rmdir", "clear", "makeRoot"} => r = <<>>
    BY <1>2 DEF Alone
  <2> QED BY <1>2, <1>5, <2>1, <2>2, BegunOK
<1>7. Cardinality(Making(q)) <= Cardinality(Making(r)) + One(x.step \in Makers)
  BY <1>4, MakingMore
<1>8. q \in Seq(Txs)
  BY <1>6 DEF QueueOK
<1>9. queue' = q
  BY <1>5, <1>6
<1> HIDE DEF q
<1>10. /\ Cardinality(Making(r)) \in Nat /\ Cardinality(Making(queue)) \in Nat
       /\ Cardinality(Making(q)) \in Nat
       /\ One(tx.step \in Makers) \in Nat /\ One(x.step \in Makers) \in Nat
       /\ Size(store) \in Nat /\ Size(store') \in Nat
       /\ MaxNodes \in Nat /\ Size(store) + Cardinality(Making(queue)) <= MaxNodes
  BY <1>1, <1>4, <1>8, MakingIsFinite, SizeType, AsyncAssumption DEF AsyncInv, One, Passes
<1>11. Size(store') + Cardinality(Making(q)) <= MaxNodes
  BY <1>3, <1>7, <1>10
<1> QED BY <1>6, <1>9, <1>11 DEF AsyncInv, Passes

(* a call is made. *)
LEMMA CalledInv ==
    ASSUME AsyncInv, MayCall,
           store' = store, ret' = ret, cached' = cached, raced' \in SUBSET UsedPaths,
           CacheOK(cached, store, raced', cache', cacheOn'),
           Spares(raced, cache, cacheOn, queue, raced', cache', cacheOn'),
           NEW x, TxOK(cached, store, raced', cache', cacheOn', x),
           LetsIn(cached, raced', cache', cacheOn', queue, x), queue' = Append(queue, x),
           x.step \in {"rmdir", "clear", "makeRoot"} => Steps = {},
           x.step = "readdir" => Steps \subseteq {"close"},
           x.step \in Makers => HasRoom
    PROVE  AsyncInv'
<1> DEFINE q == Append(queue, x)
<1>1. queue \in Seq(Txs) /\ QueueOK(cached, store, raced, cache, cacheOn, queue)
  BY DEF AsyncInv, QueueOK
<1>2. \A i \in 1 .. Len(queue) : queue[i].step \in Steps
  BY DEF Steps
<1>3. Steps = {} => queue = <<>>
  BY <1>1, <1>2
<1>5. \A i \in 1 .. Len(queue) : queue[i].step \notin Alone
  BY <1>2 DEF MayCall, Alone
<1>6. QueueOK(cached, store, raced', cache', cacheOn', queue)
  BY <1>1, <1>5, SparedOK
<1>7. QueueOK(cached, store, raced', cache', cacheOn', q)
  <2>1. x.step \in {"rmdir", "clear", "makeRoot"} => queue = <<>>
    BY <1>3
  <2>2. x.step = "readdir" => \A i \in 1 .. Len(queue) : queue[i].step = "close"
    BY <1>2
  <2> QED BY <1>5, <1>6, <2>1, <2>2, BegunOK
<1>8. q \in Seq(Txs) /\ x \in Txs
  BY <1>7 DEF QueueOK, TxOK
<1>9. Cardinality(Making(q)) <= Cardinality(Making(queue)) + One(x.step \in Makers)
  BY <1>1, <1>8, MakingMore
<1>10. /\ Size(store) \in Nat /\ MaxNodes \in Nat
       /\ Size(store) + Cardinality(Making(queue)) <= MaxNodes
       /\ StoreOK(store)
  BY SizeType, AsyncAssumption DEF AsyncInv
<1>11. x.step \in Makers => Size(store) + Cardinality(Making(queue)) + 1 <= MaxNodes
  <2> SUFFICES ASSUME x.step \in Makers
               PROVE  Size(store) + Cardinality(Making(queue)) + 1 <= MaxNodes
    OBVIOUS
  <2>1. Size(store) + Cardinality({i \in 1 .. Len(queue) :
              queue[i].step \notin {"stat", "unlink", "rename", "close"}}) < MaxNodes
    BY DEF HasRoom, Size
  <2> QED BY <1>1, <1>10, <2>1, MakingHasRoom
<1>12. Cardinality(Making(queue)) \in Nat /\ Cardinality(Making(q)) \in Nat
  BY <1>1, <1>8, MakingIsFinite
<1> HIDE DEF q
<1>13. Size(store) + Cardinality(Making(q)) <= MaxNodes
  BY <1>9, <1>10, <1>11, <1>12 DEF One
<1>14. queue' = q
  BY DEF q
<1> QED BY <1>7, <1>13, <1>14 DEF AsyncInv

(* A transaction that is begun takes what the cache has for its lookup.    *)
Begun(y, b) == [y EXCEPT !.from = b.from, !.id = b.id]

LEMMA BegunTx ==
    ASSUME NEW h, NEW s, NEW r, NEW c, NEW on, CacheOK(h, s, r, c, on),
           NEW y \in Txs, Shape(y), y.saved => h,
           y.step \notin {"clear", "makeRoot"}, y.step = "rmdir" => EmptyAt(s, y.p),
           y.step \in {"unlink", "rmdir"} /\ y.p # <<>> /\ Has(c, y.p) => y.p \in r,
           y.step = "rename" => c = <<>> /\ ~on,
           NEW b, b = Begin(on, c, y.look),
           NEW x, x = Begun(y, b)
    PROVE  /\ TxOK(h, s, r, b.cache, on, x) /\ CacheOK(h, s, r, b.cache, on)
           /\ x.step = y.step /\ x.p = y.p
           /\ \A i \in 1 .. Len(b.cache) : In(c, b.cache[i]) \/ b.cache[i].path = <<>>
           /\ ~on => b.cache = c
           /\ ~on => x.from = 0 /\ x.id = Root
           /\ x.from = 0 \/ Has(b.cache, Prefix(x.look, x.from))
<1>1. /\ CacheIs(c) /\ Coherent(s, r, c) /\ h \in BOOLEAN /\ on \in BOOLEAN
      /\ (~h => ~on) /\ y.look \in Paths
  BY DEF CacheOK, Txs
<1>2. /\ Started(s, r, y.look, b) /\ b.id \in Ids /\ b.from \in Nat
      /\ CacheIs(b.cache) /\ Coherent(s, r, b.cache)
      /\ \A i \in 1 .. Len(b.cache) : In(c, b.cache[i]) \/ b.cache[i].path = <<>>
      /\ b.from = 0 \/ Has(b.cache, Prefix(y.look, b.from))
      /\ ~on => b.from = 0 /\ b.id = Root /\ b.cache = c
  BY <1>1, BeginFacts
<1>3. /\ x \in Txs /\ x.from = b.from /\ x.id = b.id
      /\ x.step = y.step /\ x.p = y.p /\ x.look = y.look /\ x.q = y.q /\ x.saved = y.saved
  BY <1>2 DEF Txs, Begun
<1>4. Started(s, r, x.look, x)
  BY <1>2, <1>3 DEF Started
<1>5. Shape(x)
  BY <1>3 DEF Shape
<1>6. x.step \in {"unlink", "rmdir"} /\ x.p # <<>> /\ Has(b.cache, x.p) => x.p \in r
  <2> SUFFICES ASSUME x.step \in {"unlink", "rmdir"}, x.p # <<>>, Has(b.cache, x.p)
               PROVE  x.p \in r
    OBVIOUS
  <2>1. PICK i \in 1 .. Len(b.cache) : b.cache[i].path = x.p
    BY DEF Has
  <2>2. PICK j \in 1 .. Len(c) : c[j] = b.cache[i]
    BY <1>2, <2>1 DEF In
  <2> QED BY <1>3, <2>1, <2>2 DEF Has
<1>8. x.step = "rename" => b.cache = <<>> /\ ~on
  BY <1>2, <1>3
<1>9. Suits(s, r, b.cache, on, x)
  BY <1>3, <1>4, <1>6, <1>8 DEF Suits
<1>10. TxOK(h, s, r, b.cache, on, x)
  BY <1>1, <1>2, <1>3, <1>5, <1>9 DEF TxOK
<1>11. CacheOK(h, s, r, b.cache, on)
  BY <1>1, <1>2 DEF CacheOK
<1> QED BY <1>2, <1>3, <1>10, <1>11

(* The ways a transaction ends.  It ends the call, *)
LEMMA EndsInv ==
    ASSUME AsyncInv, queue # <<>>, NEW st, StoreOK(st), NEW answer \in Answers,
           Ends(st, answer), Settles(st),
           Size(st) <= Size(store) + One(tx.step \in Makers)
    PROVE  AsyncInv'
<1>1. /\ CacheOK(cached, store, raced, Known, cacheOn) /\ (~cacheOn => Known = cache)
      /\ tx.look \in Paths /\ Learned(store, cache, tx.look, Known)
  BY RunFacts DEF TxRuns
<1>2. CacheOK(cached, st, raced, Known, cacheOn) /\ AllStarted(st, raced, Tail(queue))
  BY <1>1 DEF CacheOK, Settles
<1>3. /\ store' = st /\ ret' = answer /\ cache' = Known /\ queue' = Tail(queue)
      /\ cached' = cached /\ cacheOn' = cacheOn /\ raced' = raced
  BY DEF Ends
<1>4. Grown(cache, tx.look, Known)
  BY <1>1, LearnedGrown
<1> HIDE DEF Known, tx
<1>5. Passes
  BY <1>1, <1>2, <1>3, <1>4 DEF Passes, CacheOK
<1> QED BY <1>3, <1>5, EndedInv

LEMMA StaysSettled ==
    ASSUME AsyncInv, queue # <<>>
    PROVE  Settles(store) /\ StoreOK(store) /\ Size(store) \in Nat
<1>1. Settles(store)
  BY RunFacts DEF TxRuns, CacheOK, Settles
<1> QED BY <1>1, SizeType DEF AsyncInv

LEMMA FailsInv ==
    ASSUME AsyncInv, queue # <<>>, NEW e \in Answers, Fails(e)
    PROVE  AsyncInv'
<1>1. Settles(store) /\ StoreOK(store) /\ Size(store) \in Nat
  BY StaysSettled
<1>3. Ends(store, e)
  BY DEF Fails
<1>4. Size(store) <= Size(store) + One(tx.step \in Makers)
  BY <1>1 DEF One
<1> QED BY <1>1, <1>3, <1>4, EndsInv

(* There is no cache to keep during a rename, and whoever waits behind it  *)
(* starts from the root.                                                   *)
LEMMA ReturnedInv ==
    ASSUME AsyncInv, queue # <<>>, tx.step = "rename", NEW st, StoreOK(st), NEW answer \in Answers,
           Returned(st, answer), Size(st) <= Size(store)
    PROVE  AsyncInv'
<1>1. TxRuns
  BY RunFacts
<1>2. /\ cache = <<>> /\ ~cacheOn /\ (tx.saved => cached) /\ tx.saved \in BOOLEAN
      /\ cached \in BOOLEAN /\ cacheOn \in BOOLEAN
  <2>1. TxOK(cached, store, raced, cache, cacheOn, tx) /\ cached \in BOOLEAN
        /\ cacheOn \in BOOLEAN
    BY <1>1 DEF TxRuns, CacheOK
  <2> QED BY <2>1 DEF TxOK, Suits, Txs
<1>3. Known = <<>>
  BY <1>2 DEF Known, Remembered
<1>4. CacheIs(Known)
  BY <1>1 DEF TxRuns, CacheOK
<1>5. Coherent(st, raced, <<>>) /\ Grown(cache, tx.look, <<>>)
  BY DEF Coherent, Grown
<1>6. /\ store' = st /\ ret' = answer /\ cache' = Known /\ queue' = Tail(queue)
      /\ cached' = cached /\ cacheOn' = (cacheOn \/ tx.saved) /\ raced' = raced
  BY DEF Returned
<1>7. CacheOK(cached, st, raced, cache', cacheOn')
  BY <1>2, <1>3, <1>4, <1>5, <1>6 DEF CacheOK
<1>8. Size(st) \in Nat /\ Size(store) \in Nat
  BY SizeType DEF AsyncInv
<1>9. Size(st) <= Size(store) + One(tx.step \in Makers)
  BY <1>8 DEF One
<1>10. AllStarted(st, raced, Tail(queue))
  <2> DEFINE u == Tail(queue)
  <2>1. \A i \in 1 .. Len(u) : u[i] \in Txs /\ u[i].from = 0 /\ u[i].id = Root
    BY TailFacts DEF Pair, TxOK
  <2> HIDE DEF u
  <2> SUFFICES ASSUME NEW i \in 1 .. Len(u) PROVE Started(st, raced, u[i].look, u[i])
    BY DEF AllStarted, u
  <2>2. u[i].look \in Paths /\ u[i].from = 0 /\ u[i].id = Root
    BY <2>1 DEF Txs
  <2>3. Len(u[i].look) \in Nat
    BY <2>2 DEF Paths
  <2>4. Prefix(u[i].look, 0) = <<>>
    BY <2>2, <2>3, PrefixFacts
  <2> QED BY <2>2, <2>3, <2>4, FindRoot DEF Started, Leads
<1>11. Passes
  BY <1>2, <1>3, <1>5, <1>6, <1>7, <1>10 DEF Passes
<1> QED BY <1>6, <1>9, <1>11, EndedInv

(* or goes on with another transaction. *)
LEMMA GoingInv ==
    ASSUME AsyncInv, queue # <<>>, NEW st, StoreOK(st), Settles(st),
           NEW y \in Txs, Shape(y), y.saved => cached,
           y.step \in OpenSteps \union {"close"}, tx.step \in OpenSteps,
           NEW b, b = Begin(cacheOn, Known, y.look),
           NEW x, x = Begun(y, b), store' = st, cache' = b.cache,
           queue' = Tail(queue) \o <<x>> \/ queue' = Append(Tail(queue), x),
           cached' = cached, cacheOn' = cacheOn, raced' = raced, ret' \in Answers,
           Size(st) + One(y.step \in Makers) <= Size(store) + 1
    PROVE  AsyncInv'
<1>1. /\ CacheOK(cached, store, raced, Known, cacheOn) /\ (~cacheOn => Known = cache)
      /\ tx.look \in Paths /\ Learned(store, cache, tx.look, Known)
  BY RunFacts DEF TxRuns
<1>2. Grown(cache, tx.look, Known)
  BY <1>1, LearnedGrown
<1>3. CacheOK(cached, st, raced, Known, cacheOn) /\ AllStarted(st, raced, Tail(queue))
  BY <1>1 DEF CacheOK, Settles
<1>4. y.step \notin {"makeRoot", "rmdir", "clear", "unlink", "rename"}
  BY DEF OpenSteps
<1>5. tx.step # "close" /\ tx.step \notin Alone /\ tx.step \in Makers
  BY DEF OpenSteps, Alone, Makers
<1> HIDE DEF Known
<1>6. /\ TxOK(cached, st, raced, b.cache, cacheOn, x) /\ CacheOK(cached, st, raced, b.cache, cacheOn)
      /\ x.step = y.step /\ x.p = y.p
      /\ \A i \in 1 .. Len(b.cache) : In(Known, b.cache[i]) \/ b.cache[i].path = <<>>
      /\ ~cacheOn => b.cache = Known
      /\ ~cacheOn => x.from = 0 /\ x.id = Root
      /\ x.from = 0 \/ Has(b.cache, Prefix(x.look, x.from))
  <2>1. /\ y.step \notin {"clear", "makeRoot"}
        /\ y.step = "rmdir" => EmptyAt(st, y.p)
        /\ y.step \in {"unlink", "rmdir"} /\ y.p # <<>> /\ Has(Known, y.p) => y.p \in raced
        /\ y.step = "rename" => Known = <<>> /\ ~cacheOn
    BY <1>4
  <2> QED BY <1>3, <2>1, BegunTx
<1>7. LetsIn(cached, raced, b.cache, cacheOn, Tail(queue), x)
  BY <1>4, <1>6 DEF LetsIn
<1>8. Grown(cache, tx.look, b.cache)
  <2> SUFFICES ASSUME NEW i \in 1 .. Len(b.cache)
               PROVE  In(cache, b.cache[i]) \/ IsAtOrAbove(b.cache[i].path, tx.look)
    BY DEF Grown
  <2>1. CASE In(Known, b.cache[i])
    BY <1>2, <2>1 DEF Grown, In
  <2>2. CASE b.cache[i].path = <<>>
    BY <1>1, <2>2, RootAbove
  <2> QED BY <1>6, <2>1, <2>2
<1>9. Passes
  BY <1>1, <1>3, <1>6, <1>8 DEF Passes, CacheOK
<1>10. x.step # "readdir" /\ x.step \notin Alone
  BY <1>6 DEF OpenSteps, Alone
<1>11. Size(store') + One(x.step \in Makers) <= Size(store) + One(tx.step \in Makers)
  BY <1>5, <1>6 DEF One
<1> HIDE DEF tx
<1> QED BY <1>5, <1>6, <1>7, <1>9, <1>10, <1>11, FollowedInv

LEMMA GoesOnInv ==
    ASSUME AsyncInv, queue # <<>>, tx.step \in OpenSteps,
           NEW y \in Txs, Shape(y), y.step \in OpenSteps, y.saved => cached,
           GoesOn(store, y)
    PROVE  AsyncInv'
<1> DEFINE b == Begin(cacheOn, Known, y.look)
           x == Begun(y, b)
<1>1. Settles(store) /\ StoreOK(store) /\ Size(store) \in Nat /\ ret \in Answers
  BY StaysSettled DEF AsyncInv
<1>2. /\ store' = store /\ cache' = b.cache /\ queue' = Tail(queue) \o <<x>>
      /\ cached' = cached /\ cacheOn' = cacheOn /\ ret' = ret /\ raced' = raced
  BY DEF GoesOn, Begun
<1>3. b = Begin(cacheOn, Known, y.look) /\ x = Begun(y, b)
  OBVIOUS
<1> HIDE DEF b, x, Known, tx
<1>4. y.step \in OpenSteps \union {"close"}
  OBVIOUS
<1>5. Size(store) + One(y.step \in Makers) <= Size(store) + 1
  BY <1>1 DEF One
<1> QED BY <1>1, <1>2, <1>3, <1>4, <1>5, GoingInv

(* Steps of open.  What was not there may be made; *)
LEMMA AnswerFacts ==
    /\ Errors \subseteq Answers /\ "ok" \in Answers /\ "EIO" \in Answers
    /\ {"ENOENT", "ENOTDIR", "EACCES", "EEXIST", "EISDIR", "ENOTEMPTY", "EBUSY", "EPERM",
        "Error"} \subseteq Answers
BY DEF Answers, AsyncErrors, Errors

(* The next step of an open, with the stats of what it has opened. *)
Stepped(t, step, stats) ==
    [t EXCEPT !.step = step, !.look = IF step \in ByPath THEN t.p ELSE dirname(t.p),
              !.stats = stats]

LEMMA ToStepInv ==
    ASSUME AsyncInv, queue # <<>>, tx.step \in OpenSteps,
           NEW step \in OpenSteps, NEW stats \in Stats, NEW y,
           y = Stepped(tx, step, stats), GoesOn(store, y)
    PROVE  AsyncInv'
<1> DEFINE look == IF step \in ByPath THEN tx.p ELSE dirname(tx.p)
<1>1. tx \in Txs /\ Shape(tx) /\ (tx.saved => cached)
  BY RunFacts DEF TxRuns, TxOK
<1> DEFINE t == tx
<1>2. t \in Txs /\ Shape(t) /\ (t.saved => cached) /\ t.step \in OpenSteps
      /\ y = [t EXCEPT !.step = step, !.look = look, !.stats = stats]
      /\ look = IF step \in ByPath THEN t.p ELSE dirname(t.p)
  BY <1>1 DEF Stepped
<1> HIDE DEF t, look
<1>3. step \in StepNames /\ look \in Paths
  BY <1>2, DirnameType DEF StepNames, Txs
<1>4. y \in Txs /\ y.step = step /\ y.look = look /\ y.p = t.p /\ y.saved = t.saved
  BY <1>2, <1>3 DEF Txs
<1>5. IsFileName(t.p)
  BY <1>2 DEF Shape
<1>6. Shape(y)
  BY <1>2, <1>4, <1>5 DEF Shape, OpenSteps
<1> QED BY <1>2, <1>4, <1>6, GoesOnInv

LEMMA NotFoundInv ==
    ASSUME AsyncInv, queue # <<>>, tx.step \in OpenSteps, NotFound
    PROVE  AsyncInv'
<1>1. CASE Fails("ENOENT")
  BY <1>1, FailsInv, AnswerFacts
<1> DEFINE y == [tx EXCEPT !.step = "parentStat", !.look = dirname(tx.p)]
<1>2. CASE GoesOn(store, y)
  <2>1. tx \in Txs /\ tx.stats \in Stats
    BY RunFacts DEF TxRuns, Txs
  <2>2. "parentStat" \in OpenSteps /\ "parentStat" \notin ByPath
    BY DEF OpenSteps, ByPath
  <2>3. y = Stepped(tx, "parentStat", tx.stats)
    <3> DEFINE t == tx
    <3>1. t \in Txs
      BY <2>1
    <3> HIDE DEF t
    <3>2. [t EXCEPT !.step = "parentStat", !.look = dirname(t.p)]
            = [t EXCEPT !.step = "parentStat", !.look = dirname(t.p), !.stats = t.stats]
      BY <3>1 DEF Txs
    <3> QED BY <3>2, <2>2 DEF t, Stepped
  <2> HIDE DEF y
  <2> QED BY <1>2, <2>1, <2>2, <2>3, ToStepInv
<1> QED BY <1>1, <1>2 DEF NotFound

(* or what is open is changed and closed. *)
LEMMA BufferType ==
    ASSUME NEW b \in Seq(Bytes), NEW want \in Wants
    PROVE  Buffer(b, want) \in Seq(Bytes)
<1>1. want.data \in Seq(Bytes) /\ want.len \in Nat
  BY DEF Wants
<1>2. Overlay(b, 0, want.data) \in Seq(Bytes) /\ Overlay(b, Len(b), want.data) \in Seq(Bytes)
  BY <1>1, OverlayType
<1>3. [i \in 1 .. want.len |-> IF i <= Len(b) THEN b[i] ELSE 0] \in Seq(Bytes)
  BY <1>1, ByteAssumption
<1> QED BY <1>2, <1>3 DEF Buffer

(* A transaction as a call begins it. *)
Asked(step, p, look, b, q, flag, mode, want, saved, cred) ==
    [step |-> step, p |-> p, look |-> look, from |-> b.from, id |-> b.id,
     q |-> q, flag |-> flag, mode |-> mode, want |-> want, buf |-> <<>>,
     stats |-> [mode |-> {}, uid |-> 0], saved |-> saved, cred |-> cred]

LEMMA AskedTx ==
    ASSUME NEW step \in StepNames, NEW p \in Paths, NEW look \in Paths,
           NEW b, b.from \in Nat, b.id \in Ids, NEW q \in Paths, NEW flag \in Flags,
           NEW mode \in Perms, NEW want \in Wants, NEW saved \in BOOLEAN, NEW cred \in Creds,
           NEW x, x = Asked(step, p, look, b, q, flag, mode, want, saved, cred)
    PROVE  /\ x \in Txs /\ x.step = step /\ x.p = p /\ x.look = look
           /\ x.from = b.from /\ x.id = b.id
           /\ x.q = q /\ x.saved = saved
<1> DEFINE s == [mode |-> {}, uid |-> 0]
           e == <<>>
<1>1. s \in Stats
  BY UidAssumption DEF Stats, Perms
<1>2. e \in Seq(Bytes)
  OBVIOUS
<1>3. x = [step |-> step, p |-> p, look |-> look, from |-> b.from, id |-> b.id,
           q |-> q, flag |-> flag, mode |-> mode, want |-> want, buf |-> e,
           stats |-> s, saved |-> saved, cred |-> cred]
  BY DEF Asked
<1> HIDE DEF s, e
<1>4. x \in Txs
  BY <1>1, <1>2, <1>3 DEF Txs
<1>5. x.step = step /\ x.p = p /\ x.look = look /\ x.saved = saved /\ x.q = q
      /\ x.from = b.from /\ x.id = b.id
  BY <1>3
<1> QED BY <1>4, <1>5

AskedBy(t, cred) == [t EXCEPT !.cred = cred]

LEMMA AskedIs ==
    ASSUME NEW step, NEW p, NEW look, NEW b, NEW cred
    PROVE  AskedBy(Tx(step, p, look, b), cred)
              = Asked(step, p, look, b, <<>>, "r", {}, ToRead, FALSE, cred)
<1> DEFINE s == [mode |-> {}, uid |-> 0]
           w == ToRead
           o == CHOOSE u \in Users : TRUE
           y == [step |-> step, p |-> p, look |-> look, from |-> b.from, id |-> b.id,
                 q |-> <<>>, flag |-> "r", mode |-> {}, want |-> w, buf |-> <<>>,
                 stats |-> s, saved |-> FALSE, cred |-> o]
<1>1. Tx(step, p, look, b) = y
  BY DEF Tx
<1>2. Asked(step, p, look, b, <<>>, "r", {}, w, FALSE, cred)
      = [step |-> step, p |-> p, look |-> look, from |-> b.from, id |-> b.id,
         q |-> <<>>, flag |-> "r", mode |-> {}, want |-> w, buf |-> <<>>,
         stats |-> s, saved |-> FALSE, cred |-> cred]
  BY DEF Asked
<1> DEFINE no == FALSE
           e == <<>>
           z == [step |-> step, p |-> p, look |-> look, from |-> b.from, id |-> b.id,
                 q |-> e, flag |-> "r", mode |-> {}, want |-> w, buf |-> e,
                 stats |-> s, saved |-> no, cred |-> o]
<1> HIDE DEF s, w, o, no, e
<1>3. [z EXCEPT !.cred = cred]
      = [step |-> step, p |-> p, look |-> look, from |-> b.from, id |-> b.id,
         q |-> e, flag |-> "r", mode |-> {}, want |-> w, buf |-> e,
         stats |-> s, saved |-> no, cred |-> cred]
  OBVIOUS
<1>4. y = z
  BY DEF no, e
<1>5. Asked(step, p, look, b, <<>>, "r", {}, w, FALSE, cred)
      = [step |-> step, p |-> p, look |-> look, from |-> b.from, id |-> b.id,
         q |-> e, flag |-> "r", mode |-> {}, want |-> w, buf |-> e,
         stats |-> s, saved |-> no, cred |-> cred]
  BY <1>2 DEF no, e
<1> HIDE DEF y, z
<1> QED BY <1>1, <1>3, <1>4, <1>5 DEF w, AskedBy

LEMMA AskedTypes ==
    /\ ToRead \in Wants /\ "r" \in Flags /\ {} \in Perms /\ <<>> \in Paths
    /\ TRUE \in BOOLEAN /\ FALSE \in BOOLEAN
<1>1. ToRead \in Wants
  BY DEF ToRead, Wants
<1>2. "r" \in Flags
  BY DEF Flags
<1>3. {} \in Perms
  BY DEF Perms
<1>4. <<>> \in Paths
  BY DEF Paths
<1> QED BY <1>1, <1>2, <1>3, <1>4

LEMMA UseInv ==
    ASSUME AsyncInv, queue # <<>>, tx.step \in OpenSteps, NEW st, StoreOK(st),
           Settles(st), Size(st) <= Size(store) + 1,
           NEW stats \in Stats, NEW b \in Seq(Bytes), Use(st, stats, b)
    PROVE  AsyncInv'
<1> DEFINE t == tx
           k == Known
           bytes == IF isWriteable(t.flag) THEN Buffer(b, t.want) ELSE b
           start == Begin(cacheOn, k, t.p)
           o == CHOOSE u \in Users : TRUE
           a == Tx("close", t.p, t.p, start)
           y == [a EXCEPT !.buf = bytes, !.stats = stats]
           x == Begun(y, start)
<1>1. /\ t \in Txs /\ Shape(t) /\ (t.saved => cached) /\ t.step \in OpenSteps
      /\ StoreOK(store) /\ Size(store) \in Nat
  <2>1. tx \in Txs /\ Shape(tx) /\ (tx.saved => cached)
    BY RunFacts DEF TxRuns, TxOK
  <2>2. StoreOK(store) /\ Size(store) \in Nat
    BY SizeType DEF AsyncInv
  <2> QED BY <2>1, <2>2
<1>3. IF t.want.do = "read" THEN Ends(st, "ok")
      ELSE /\ store' = st /\ cache' = start.cache
           /\ queue' = Append(Tail(queue), y)
           /\ ret' = IF isWriteable(t.flag) THEN "ok" ELSE "EPERM"
           /\ UNCHANGED <<cached, cacheOn, raced>>
  BY DEF Use
<1>4. tx.step \in Makers /\ tx.step # "close" /\ tx.step \notin Alone
  BY DEF OpenSteps, Makers, Alone
<1>5. Size(st) <= Size(store) + One(tx.step \in Makers)
  BY <1>4 DEF One
<1>6. CASE t.want.do = "read"
  <2>1. Ends(st, "ok")
    BY <1>3, <1>6
  <2> HIDE DEF t, k, bytes, start, y, x
  <2> QED BY <1>5, <2>1, EndsInv, AnswerFacts
<1>7. CASE t.want.do # "read"
  <2>1. /\ store' = st /\ cache' = start.cache
        /\ queue' = Append(Tail(queue), y)
        /\ ret' \in {"ok", "EPERM"}
        /\ cached' = cached /\ cacheOn' = cacheOn /\ raced' = raced
    BY <1>3, <1>7
  <2>2. bytes \in Seq(Bytes)
    <3>1. t.want \in Wants
      <4> HIDE DEF t
      <4> QED BY <1>1 DEF Txs
    <3>2. Buffer(b, t.want) \in Seq(Bytes)
      <4> HIDE DEF t
      <4> QED BY <3>1, BufferType
    <3> QED BY <3>2
  <2>13. CacheOK(cached, store, raced, k, cacheOn)
    BY RunFacts DEF TxRuns
  <2> HIDE DEF t, k, bytes, x
  <2>3. IsFileName(t.p) /\ t.p \in Paths
    BY <1>1 DEF Shape, Txs
  <2>14. start.from \in Nat /\ start.id \in Ids
    BY <2>3, <2>13, BeginFacts DEF CacheOK
  <2>15. o \in Creds
    BY AsyncAssumption
  <2> HIDE DEF start, o
  <2>16. /\ a \in Txs /\ a.step = "close" /\ a.look = t.p /\ a.p = t.p /\ a.saved = FALSE
         /\ a.from = start.from /\ a.id = start.id
    <3> DEFINE no == FALSE
    <3>1. a = Asked("close", t.p, t.p, start, <<>>, "r", {}, ToRead, FALSE, o)
      BY DEF Tx, Asked, o
    <3>2. "close" \in StepNames /\ no \in BOOLEAN /\ no = FALSE
      BY DEF StepNames, ByPath
    <3>3. a = Asked("close", t.p, t.p, start, <<>>, "r", {}, ToRead, no, o)
      BY <3>1
    <3> HIDE DEF a, no
    <3> QED BY <2>3, <2>14, <2>15, <3>2, <3>3, AskedTypes, AskedTx
  <2> HIDE DEF a
  <2>4. /\ y \in Txs /\ y.step = "close" /\ y.look = t.p /\ y.p = t.p /\ y.saved = FALSE
        /\ y.from = start.from /\ y.id = start.id
    BY <2>2, <2>16 DEF Txs
  <2> HIDE DEF y
  <2>5. Shape(y)
    BY <2>3, <2>4 DEF Shape, ByPath, OpenSteps
  <2>6. start = Begin(cacheOn, Known, y.look) /\ x = Begun(y, start)
    <3>1. start = Begin(cacheOn, Known, y.look)
      BY <2>4 DEF start, k
    <3> QED BY <3>1 DEF x
  <2>17. x = y
    <3>1. [y EXCEPT !.from = y.from, !.id = y.id] = y
      BY <2>4 DEF Txs
    <3> QED BY <2>4, <3>1 DEF x, Begun
  <2>7. y.step \in OpenSteps \union {"close"} /\ y.step \notin Makers /\ (y.saved => cached)
    BY <1>1, <2>4 DEF OpenSteps, Makers
  <2>10. Size(st) \in Nat
    BY SizeType
  <2>11. Size(st) + One(y.step \in Makers) <= Size(store) + 1
    BY <2>7, <2>10 DEF One
  <2>12. ret' \in Answers
    BY <2>1, AnswerFacts
  <2>18. queue' = Append(Tail(queue), x)
    BY <2>1, <2>17
  <2> HIDE DEF tx
  <2> QED BY <2>1, <2>4, <2>5, <2>6, <2>7, <2>11, <2>12, <2>18, GoingInv
<1> QED BY <1>6, <1>7

-----------------------------------------------------------------------------
(* Every step of every call keeps the invariant. *)
LEMMA NodeErrors ==
    ASSUME AsyncInv, queue # <<>>
    PROVE  /\ INodeError(store, Node) \in Answers /\ ListingError(store, Node) \in Answers
           /\ StatError(Node, tx.cred) \in Answers
           /\ INodeError(store, Node) = "ok" => Good(store) /\ Node \in InodeIds(store)
           /\ ListingError(store, Node) = "ok" => Good(store) /\ Node \in DirIds(store)
           /\ StatError(Node, tx.cred) = "ok" => Good(store) /\ Node \in InodeIds(store)
           /\ \/ INodeError(store, Node) = "ok" \/ ListingError(store, Node) = "ok"
              \/ StatError(Node, tx.cred) = "ok"
              => Node = FindId(store, tx.look)
<1>0. Node = FindId(store, tx.look) \/ INodeError(store, Node) = "ENOENT"
  BY RunFacts DEF TxRuns
<1>1. store \in Stores /\ (Good(store) \/ Blank(store)) /\ Node \in Ids \union Errors
  BY RunFacts DEF AsyncInv, StoreOK, TxRuns
<1> DEFINE n == Node
           s == store
<1>2. s \in Stores /\ (Good(s) \/ Blank(s)) /\ n \in Ids \union Errors
  BY <1>1
<1> HIDE DEF n, s
<1>3. INodeError(s, n) \in Answers /\ ListingError(s, n) \in Answers
  BY <1>2, INodeFacts, ListingFacts, AnswerFacts
<1>4. Blank(s) => INodeError(s, n) # "ok" /\ ListingError(s, n) # "ok"
  BY <1>2, BlankFails
<1>5. Good(s) => /\ INodeError(s, n) = "ok" => n \in InodeIds(s)
                 /\ ListingError(s, n) = "ok" => n \in DirIds(s)
  BY <1>2, GoodIs, SoundReads
<1>6. /\ INodeError(store, Node) \in Answers /\ ListingError(store, Node) \in Answers
      /\ INodeError(store, Node) = "ok" => Good(store) /\ Node \in InodeIds(store)
      /\ ListingError(store, Node) = "ok" => Good(store) /\ Node \in DirIds(store)
  BY <1>2, <1>3, <1>4, <1>5 DEF n, s
<1>7. StatError(Node, tx.cred) \in {INodeError(store, Node), "EACCES", "ok"}
      /\ (StatError(Node, tx.cred) = "ok" => INodeError(store, Node) = "ok")
  BY DEF StatError
<1>8. StatError(Node, tx.cred) \in Answers
  BY <1>6, <1>7, AnswerFacts
<1>9. ListingError(store, Node) = "ok" => INodeError(store, Node) = "ok"
  BY DEF ListingError
<1> QED BY <1>0, <1>6, <1>7, <1>8, <1>9

LEMMA StatInv ==
    ASSUME AsyncInv, queue # <<>>, Stat
    PROVE  AsyncInv'
BY NodeErrors, FailsInv DEF Stat

(* commitNewFile *)
LEMMA InUseType ==
    ASSUME AsyncInv
    PROVE  InUse \subseteq Ids
<1>1. \A i \in 1 .. Len(cache) : cache[i].id \in Ids
  <2>1. cache \in Seq(CacheEntries)
    BY DEF AsyncInv, CacheOK, CacheIs
  <2>2. \A i \in 1 .. Len(cache) : cache[i] \in CacheEntries
    BY <2>1
  <2> QED BY <2>2 DEF CacheEntries
<1>2. \A i \in 1 .. Len(queue) : queue[i].id \in Ids
  <2>1. queue \in Seq(Txs)
    BY DEF AsyncInv, QueueOK
  <2>2. \A i \in 1 .. Len(queue) : queue[i] \in Txs
    BY <2>1
  <2> QED BY <2>2 DEF Txs
<1> QED BY <1>1, <1>2 DEF InUse, Used

LEMMA NewIdsUnused ==
    ASSUME AsyncInv, NEW new \in NewIds
    PROVE  Unused(store, new)
<1>1. InUse \subseteq Ids
  BY InUseType
<1>2. \A S \in SUBSET Ids : randomUUID(S) \subseteq Ids \ S
  BY AsyncAssumption
<1>3. PICK i \in randomUUID(InUse) : \E j \in randomUUID(InUse \union {i}) : new = <<i, j>>
  BY DEF NewIds
<1>4. i \in Ids \ InUse
  BY <1>1, <1>2, <1>3
<1>5. PICK j \in randomUUID(InUse \union {i}) : new = <<i, j>>
  BY <1>3
<1>6. j \in Ids \ (InUse \union {i})
  <2>1. (InUse \union {i}) \in SUBSET Ids
    BY <1>1, <1>4
  <2> QED BY <1>2, <1>5, <2>1
<1>7. Used(store) \subseteq InUse
  BY DEF InUse
<1> QED BY <1>4, <1>5, <1>6, <1>7 DEF Unused

LEMMA NewFileErrors ==
    ASSUME AsyncInv, queue # <<>>
    PROVE  /\ NewFileError \in Answers
           /\ NewFileError = "ok" =>
                /\ ListingError(store, Node) = "ok" /\ tx.p # <<>>
                /\ entries(store, Node)[basename(tx.p)] = NoEntry
<1>1. NewFileError \in {ListingError(store, Node), "EACCES", "EEXIST", "ok"}
  BY DEF NewFileError
<1>2. NewFileError \in Answers
  BY <1>1, NodeErrors, AnswerFacts
<1>3. NewFileError = "ok" =>
                /\ ListingError(store, Node) = "ok" /\ tx.p # <<>>
                /\ entries(store, Node)[basename(tx.p)] = NoEntry
  BY DEF NewFileError
<1> QED BY <1>2, <1>3

(* What the cache and the lookups that wait hold on to. *)
Held == {cache[i].id : i \in 1 .. Len(cache)} \union {queue[i].id : i \in 1 .. Len(queue)}

LEMMA HeldLeads ==
    ASSUME AsyncInv, queue # <<>>, NEW st, LostIn(store, st, Held),
           NEW p \in Paths, NEW n \in Held, Leads(store, raced, p, n),
           FindId(store, p) \in Ids => \/ FindId(st, p) = FindId(store, p)
                                       \/ Lost(st, FindId(store, p)) /\ p \in raced
    PROVE  Leads(st, raced, p, n)
<1>1. Held \subseteq Ids
  BY InUseType DEF Held, InUse
<1> QED BY <1>1, LeadsStill DEF LostIn

LEMMA SettlesIf ==
    ASSUME AsyncInv, queue # <<>>, NEW st, LostIn(store, st, Held),
           \A x \in Paths : FindId(store, x) \in Ids =>
                \/ FindId(st, x) = FindId(store, x)
                \/ /\ tx.step \in {"unlink", "rmdir"} /\ x = tx.p /\ x # <<>>
                   /\ Lost(st, FindId(store, x))
    PROVE  Settles(st)
<1>1. TxRuns
  BY RunFacts
<1>2. /\ tx.p \in Paths /\ tx.look \in Paths /\ Learned(store, cache, tx.look, Known)
      /\ Coherent(store, raced, cache)
      /\ tx.look = IF tx.step \in ByPath THEN tx.p ELSE dirname(tx.p)
  BY <1>1 DEF TxRuns, AsyncInv, CacheOK
<1>3. ASSUME NEW c \in CacheEntries, In(cache, c) PROVE Leads(st, raced, c.path, c.id)
  <2>1. PICK i \in 1 .. Len(cache) : cache[i] = c
    BY <1>3 DEF In
  <2>2. c.path \in Paths /\ c.id \in Held /\ Leads(store, raced, c.path, c.id)
    BY <1>2, <2>1 DEF CacheEntries, Held, Coherent
  <2>3. tx.step \in {"unlink", "rmdir"} /\ c.path = tx.p /\ c.path # <<>> => c.path \in raced
    BY <1>1, <2>1 DEF TxRuns, TxOK, Suits, Has
  <2> QED BY <2>2, <2>3, HeldLeads
<1>4. ASSUME NEW c \in CacheEntries, New(store, tx.look, c) PROVE Leads(st, raced, c.path, c.id)
  <2>1. /\ c.path \in Paths /\ c.id \in Ids /\ FindId(store, c.path) = c.id
        /\ \E k \in 0 .. Len(tx.look) : c.path = Prefix(tx.look, k)
    BY <1>4 DEF CacheEntries, New
  <2>2. ASSUME tx.step \in {"unlink", "rmdir"}, c.path = tx.p, c.path # <<>> PROVE FALSE
    <3>1. PICK k \in 0 .. Len(tx.look) : c.path = Prefix(tx.look, k)
      BY <2>1
    <3>2. Len(tx.look) = Len(tx.p) - 1 /\ tx.look \in Paths /\ Len(tx.p) \in Nat
      BY <1>2, <2>2, DirnameLess DEF ByPath
    <3>3. Len(c.path) = k
      <4> DEFINE l == tx.look
      <4>1. l \in Paths /\ k \in 0 .. Len(l) /\ c.path = Prefix(l, k)
        BY <3>1, <3>2
      <4> HIDE DEF l
      <4>2. Len(Prefix(l, k)) = k
        BY <4>1, PrefixFacts
      <4> QED BY <4>1, <4>2
    <3> QED BY <2>2, <3>2, <3>3
  <2>3. FindId(st, c.path) = c.id
    BY <2>1, <2>2
  <2> QED BY <2>3 DEF Leads
<1>5. Coherent(st, raced, Known)
  <2> DEFINE k == Known
  <2>1. CacheIs(k) /\ \A i \in 1 .. Len(k) : In(cache, k[i]) \/ New(store, tx.look, k[i])
    BY <1>2 DEF Learned
  <2> HIDE DEF k
  <2>2. \A i \in 1 .. Len(k) : k[i] \in CacheEntries
    BY <2>1 DEF CacheIs
  <2>3. Coherent(st, raced, k)
    BY <1>3, <1>4, <2>1, <2>2 DEF Coherent
  <2> QED BY <2>3 DEF k
<1>6. AllStarted(st, raced, Tail(queue))
  <2> SUFFICES ASSUME NEW i \in 1 .. Len(Tail(queue))
               PROVE  Started(st, raced, Tail(queue)[i].look, Tail(queue)[i])
    BY DEF AllStarted
  <2> DEFINE t == Tail(queue)[i]
             x == Prefix(t.look, t.from)
  <2>1. /\ TxOK(cached, store, raced, cache, cacheOn, t) /\ Pair(cached, raced, tx, t)
        /\ i + 1 \in 1 .. Len(queue) /\ t = queue[i + 1] /\ tx.step \notin Alone
    <3>1. tx.step \in Alone => Tail(queue) = <<>>
      BY TailFacts
    <3>3. Tail(queue) # <<>>
      <4> DEFINE u == Tail(queue)
      <4>1. i \in 1 .. Len(u)
        OBVIOUS
      <4> HIDE DEF u
      <4>2. u # <<>>
        BY <4>1
      <4> QED BY <4>2 DEF u
    <3> QED BY <3>1, <3>3, TailFacts
  <2> HIDE DEF t
  <2>2. /\ t.look \in Paths /\ t.from \in 0 .. Len(t.look) /\ Leads(store, raced, x, t.id)
        /\ t.id \in Held
    BY <2>1 DEF TxOK, Suits, Started, Txs, Held
  <2>3. x \in Paths
    BY <2>2, PrefixFacts
  <2>4. tx.step \in {"unlink", "rmdir"} /\ x = tx.p /\ x # <<>> => x \in raced
    BY <2>1 DEF Pair, Alone
  <2> HIDE DEF x
  <2>5. Leads(st, raced, x, t.id)
    BY <2>2, <2>3, <2>4, HeldLeads
  <2> QED BY <2>2, <2>5 DEF Started, x, t
<1> QED BY <1>5, <1>6 DEF Settles

(* What is gone stays gone where no node is made that is held on to.       *)
LEMMA LostStays ==
    ASSUME AsyncInv, NEW st, InodeIds(st) \intersect Held \subseteq InodeIds(store)
    PROVE  LostIn(store, st, Held)
<1>1. Held \subseteq Ids
  BY InUseType DEF Held, InUse
<1> QED BY <1>1 DEF LostIn, Lost, InodeIds

LEMMA NewNotHeld ==
    ASSUME AsyncInv, NEW new \in NewIds
    PROVE  new[2] \notin Held
<1>1. InUse \subseteq Ids /\ Held \subseteq InUse
  BY InUseType DEF Held, InUse
<1>2. \A S \in SUBSET Ids : randomUUID(S) \subseteq Ids \ S
  BY AsyncAssumption
<1>3. PICK i \in randomUUID(InUse) : \E j \in randomUUID(InUse \union {i}) : new = <<i, j>>
  BY DEF NewIds
<1>4. i \in Ids
  BY <1>1, <1>2, <1>3
<1>5. PICK j \in randomUUID(InUse \union {i}) : new = <<i, j>>
  BY <1>3
<1>6. j \in Ids \ (InUse \union {i})
  <2>1. (InUse \union {i}) \in SUBSET Ids
    BY <1>1, <1>4
  <2> QED BY <1>2, <1>5, <2>1
<1> QED BY <1>1, <1>5, <1>6

LEMMA CommitFacts ==
    ASSUME AsyncInv, queue # <<>>, NewFileError = "ok", NEW new \in NewIds, NEW type \in Types,
           tx.step = IF type = "dir" THEN "mkdir" ELSE "create",
           NEW data, data = IF type = "dir" THEN Listing(NoEntries) ELSE Data(<<>>),
           NEW st, st = commitNewFile(type, data, new)
    PROVE  /\ StoreOK(st) /\ Good(st) /\ Good(store) /\ CreatedAt(store, st, tx.p, type)
           /\ Settles(st) /\ Size(st) <= Size(store) + 1
<1> DEFINE p == tx.p
           u == tx.cred.uid
           g == tx.cred.gid
           m == tx.mode
<1>1. /\ tx \in Txs /\ Shape(tx) /\ p \in Paths
      /\ Node = FindId(store, IF tx.step \in ByPath THEN p ELSE dirname(p))
  <2>1. ListingError(store, Node) = "ok"
    BY NewFileErrors
  <2>2. Node = FindId(store, tx.look)
    BY <2>1, NodeErrors
  <2> QED BY <2>2, RunFacts DEF TxRuns, TxOK
<1>2. m \in Perms /\ u \in Uids /\ g \in Uids
  BY <1>1 DEF Txs, Creds
<1>3. type = "dir" => ~IsFileName(p)
  BY <1>1 DEF Shape
<1>4. /\ ListingError(store, Node) = "ok" /\ p # <<>> /\ Good(store)
      /\ entries(store, Node)[basename(p)] = NoEntry
  BY NewFileErrors, NodeErrors
<1>5. Node = FindId(store, dirname(p))
  BY <1>1 DEF ByPath
<1>6. Unused(store, new)
  BY NewIdsUnused
<1>7. data \in Listings \union Blobs
  BY DataType
<1>8. st = Committed(store, Node, basename(p), new, data, Inode(new[1], DataLen(data), type, m, u, g))
  BY DEF commitNewFile, Committed
<1> HIDE DEF p, u, g, m, Node
<1> DEFINE i == Inode(new[1], DataLen(data), type, m, u, g)
<1>9. Good(st) /\ CreatedAt(store, st, p, type) /\ StillFound(store, st) /\ Size(st) <= Size(store) + 1
      /\ InodeIds(st) = InodeIds(store) \union {new[2]}
  BY <1>1, <1>2, <1>3, <1>4, <1>5, <1>6, <1>7, <1>8, CommitGood
<1>10. Settles(st)
  <2>1. new[2] \notin Held
    BY NewNotHeld
  <2>2. LostIn(store, st, Held)
    BY <1>9, <2>1, LostStays
  <2> QED BY <1>9, <2>2, SettlesIf DEF StillFound
<1>11. StoreOK(st)
  BY <1>9, GoodIs
<1> QED BY <1>4, <1>9, <1>10, <1>11 DEF p

LEMMA MkdirInv ==
    ASSUME AsyncInv, queue # <<>>, Mkdir
    PROVE  AsyncInv'
<1>1. CASE NewFileError # "ok"
  <2>1. Fails(NewFileError)
    BY <1>1 DEF Mkdir
  <2> QED BY <2>1, NewFileErrors, FailsInv
<1>2. CASE NewFileError = "ok"
  <2>1. tx.step = "mkdir"
    BY DEF Mkdir
  <2>2. PICK new \in NewIds : Ends(commitNewFile("dir", Listing(NoEntries), new), "ok")
    BY <1>2 DEF Mkdir
  <2> DEFINE st == commitNewFile("dir", Listing(NoEntries), new)
  <2>3. "dir" \in Types
    BY DEF Types
  <2>4. StoreOK(st) /\ Settles(st) /\ Size(st) <= Size(store) + 1
    <3> DEFINE data == Listing(NoEntries)
               type == "dir"
    <3>1. /\ data = IF type = "dir" THEN Listing(NoEntries) ELSE Data(<<>>)
          /\ tx.step = IF type = "dir" THEN "mkdir" ELSE "create"
          /\ st = commitNewFile(type, data, new) /\ type \in Types
      BY <2>1, <2>3
    <3> HIDE DEF data, type, st
    <3> QED BY <1>2, <3>1, CommitFacts
  <2> HIDE DEF st
  <2>5. One(tx.step \in Makers) = 1
    BY <2>1 DEF One, Makers
  <2> QED BY <2>2, <2>4, <2>5, EndsInv, AnswerFacts DEF st
<1> QED BY <1>1, <1>2

(* removeEntry *)
LEMMA RemoveErrors ==
    ASSUME AsyncInv, queue # <<>>, NEW isDir \in BOOLEAN
    PROVE  /\ RemoveError(isDir) \in Answers
           /\ RemoveError(isDir) = "ok" =>
                LET n == entries(store, Node)[basename(tx.p)]
                IN  /\ ListingError(store, Node) = "ok" /\ n # NoEntry
                    /\ INodeError(store, n) = "ok"
                    /\ ~isDir => store[n].type # "dir"
<1> DEFINE n == entries(store, Node)[basename(tx.p)]
<1>1. /\ ListingError(store, Node) # "ok" => RemoveError(isDir) = ListingError(store, Node)
      /\ ListingError(store, Node) = "ok" /\ n = NoEntry => RemoveError(isDir) = "ENOENT"
      /\ ListingError(store, Node) = "ok" /\ n # NoEntry =>
            RemoveError(isDir) \in {INodeError(store, n), "EACCES", "EISDIR", "ENOTDIR", "ok"}
  BY DEF RemoveError
<1>2. RemoveError(isDir) = "ok" =>
            /\ ListingError(store, Node) = "ok" /\ n # NoEntry /\ INodeError(store, n) = "ok"
            /\ ~isDir => store[n].type # "dir"
  BY DEF RemoveError
<1>3. RemoveError(isDir) \in Answers
  <2>1. CASE ListingError(store, Node) = "ok" /\ n # NoEntry
    <3>1. tx.p \in Paths /\ Node \in Ids \union Errors
      BY RunFacts DEF TxRuns
    <3>2. entries(store, Node) \in Entries
      <4>1. store \in Stores
        BY DEF AsyncInv, StoreOK
      <4> HIDE DEF n, Node
      <4> QED BY <2>1, <3>1, <4>1, ListingFacts
    <3>3. basename(tx.p) \in Names \union {NoName}
      BY <3>1, DirnameType
    <3>4. n \in Ids
      BY <2>1, <3>2, <3>3 DEF Entries
    <3> HIDE DEF n
    <3>5. INodeError(store, n) \in Answers
      BY <3>4, INodeFacts, AnswerFacts DEF AsyncInv, StoreOK
    <3>6. ListingError(store, Node) \in Answers
      BY NodeErrors
    <3> QED BY <1>1, <3>5, <3>6, AnswerFacts
  <2>2. CASE ~(ListingError(store, Node) = "ok" /\ n # NoEntry)
    <3>1. ListingError(store, Node) \in Answers
      BY NodeErrors
    <3> QED BY <1>1, <2>2, <3>1, AnswerFacts
  <2> QED BY <2>1, <2>2
<1> QED BY <1>2, <1>3

LEMMA RemovedFacts ==
    ASSUME AsyncInv, queue # <<>>, NEW isDir \in BOOLEAN,
           tx.step = IF isDir THEN "rmdir" ELSE "unlink",
           RemoveError(isDir) = "ok"
    PROVE  /\ StoreOK(Removed) /\ Good(store) /\ TakenOutAt(store, Removed, tx.p)
           /\ Settles(Removed) /\ Size(Removed) <= Size(store)
<1> DEFINE p == tx.p
           n == entries(store, Node)[basename(p)]
           st == Removed
<1>1. /\ p \in Paths /\ Node = FindId(store, dirname(p))
      /\ isDir => EmptyAt(store, p)
  <2>1. /\ tx.p \in Paths /\ Node = FindId(store, tx.look)
        /\ tx.look = IF tx.step \in ByPath THEN tx.p ELSE dirname(tx.p)
        /\ tx.step = "rmdir" => EmptyAt(store, tx.p)
    <3>1. ListingError(store, Node) = "ok"
      BY RemoveErrors
    <3>2. Node = FindId(store, tx.look)
      BY <3>1, NodeErrors
    <3> QED BY <3>2, RunFacts DEF TxRuns, TxOK, Suits
  <2>2. tx.look = dirname(tx.p)
    BY <2>1 DEF ByPath
  <2> QED BY <2>1, <2>2
<1>2. /\ ListingError(store, Node) = "ok" /\ n # NoEntry /\ INodeError(store, n) = "ok"
      /\ ~isDir => store[n].type # "dir"
  BY RemoveErrors
<1>3. Good(store) /\ Sound(store)
  BY <1>2, NodeErrors, GoodIs
<1>4. st = EntryRemoved(store, Node, basename(p), n)
  BY DEF Removed, EntryRemoved, Gone, Deleted
<1> HIDE DEF p, Node, st, n
<1>6. p # <<>> /\ n = FindId(store, p)
  BY <1>1, <1>2, <1>3, EntryIsFound DEF n
<1>7. n \in DirIds(store) => entries(store, n) = NoEntries
  BY <1>1, <1>2, <1>6 DEF EmptyAt, DirIds
<1>8. /\ Good(st) /\ TakenOutAt(store, st, p) /\ Size(st) <= Size(store)
      /\ \A x \in Paths : x # p /\ FindId(store, x) \in Ids => FindId(st, x) = FindId(store, x)
      /\ InodeIds(st) = InodeIds(store) \ {n}
  <2>1. ListingError(store, FindId(store, dirname(p))) = "ok"
        /\ entries(store, FindId(store, dirname(p)))[basename(p)] # NoEntry
        /\ st = EntryRemoved(store, FindId(store, dirname(p)), basename(p), n)
    BY <1>1, <1>2, <1>4 DEF n
  <2> QED BY <1>1, <1>3, <1>6, <1>7, <2>1, RemovalGood
<1>9. StoreOK(st)
  BY <1>8, GoodIs
<1>10. Settles(st)
  <2>1. LostIn(store, st, Held)
    BY <1>8, LostStays
  <2>2. FindId(store, p) \in Ids => Lost(st, FindId(store, p))
    BY <1>6, <1>8 DEF Lost, InodeIds
  <2>3. tx.step \in {"unlink", "rmdir"}
    OBVIOUS
  <2>4. \A x \in Paths : FindId(store, x) \in Ids =>
                \/ FindId(st, x) = FindId(store, x)
                \/ /\ tx.step \in {"unlink", "rmdir"} /\ x = tx.p /\ x # <<>>
                   /\ Lost(st, FindId(store, x))
    BY <1>6, <1>8, <2>2, <2>3 DEF p
  <2> QED BY <2>1, <2>4, SettlesIf
<1> QED BY <1>3, <1>8, <1>9, <1>10 DEF p, st

LEMMA removeEntryInv ==
    ASSUME AsyncInv, queue # <<>>, NEW isDir \in BOOLEAN,
           tx.step = IF isDir THEN "rmdir" ELSE "unlink", removeEntry(isDir)
    PROVE  AsyncInv'
<1>1. CASE RemoveError(isDir) # "ok"
  <2>1. Fails(RemoveError(isDir)) /\ RemoveError(isDir) \in Answers
    BY <1>1, RemoveErrors DEF removeEntry
  <2> HIDE DEF RemoveError
  <2> QED BY <2>1, FailsInv
<1>2. CASE RemoveError(isDir) = "ok"
  <2>1. Ends(Removed, "ok")
    BY <1>2 DEF removeEntry
  <2>2. StoreOK(Removed) /\ Settles(Removed) /\ Size(Removed) <= Size(store)
    BY <1>2, RemovedFacts
  <2>3. Size(Removed) \in Nat /\ Size(store) \in Nat
    BY <2>2, SizeType DEF AsyncInv
  <2>4. Size(Removed) <= Size(store) + One(tx.step \in Makers)
    BY <2>2, <2>3 DEF One
  <2> QED BY <2>1, <2>2, <2>4, EndsInv, AnswerFacts
<1> QED BY <1>1, <1>2

LEMMA UnlinkInv ==
    ASSUME AsyncInv, queue # <<>>, Unlink \/ Rmdir
    PROVE  AsyncInv'
<1>1. CASE Unlink
  <2> DEFINE isDir == FALSE
  <2>1. isDir \in BOOLEAN /\ tx.step = (IF isDir THEN "rmdir" ELSE "unlink") /\ removeEntry(isDir)
    BY <1>1 DEF Unlink
  <2> HIDE DEF isDir
  <2> QED BY <2>1, removeEntryInv
<1>2. CASE Rmdir
  <2> DEFINE isDir == TRUE
  <2>1. isDir \in BOOLEAN /\ tx.step = (IF isDir THEN "rmdir" ELSE "unlink") /\ removeEntry(isDir)
    BY <1>2 DEF Rmdir
  <2> HIDE DEF isDir
  <2> QED BY <2>1, removeEntryInv
<1> QED BY <1>1, <1>2

(* rmdir: the directory was empty when it was read, and nothing comes in   *)
(* between.                                                                *)
LEMMA DroppedFacts ==
    ASSUME NEW h, NEW s, NEW r, NEW c, NEW on, CacheOK(h, s, r, c, on),
           NEW p, NEW d, d = lruRemove(c, p)
    PROVE  /\ CacheOK(h, s, r, d, on) /\ ~Has(d, p)
           /\ \A i \in 1 .. Len(d) : In(c, d[i])
           /\ c = <<>> => d = <<>>
<1>1. CacheIs(c) /\ Coherent(s, r, c) /\ h \in BOOLEAN /\ on \in BOOLEAN
      /\ (~h => ~on)
  BY DEF CacheOK
<1>2. /\ CacheIs(d)
      /\ \A i \in 1 .. Len(d) : In(c, d[i]) /\ d[i].path # p
      /\ Len(d) <= Len(c)
  BY <1>1, RemoveFacts
<1>3. ~Has(d, p)
  BY <1>2 DEF Has
<1>4. Coherent(s, r, d)
  BY <1>1, <1>2 DEF Coherent, In
<1>5. c = <<>> => d = <<>>
  <2> SUFFICES ASSUME c = <<>> PROVE d = <<>>
    OBVIOUS
  <2>1. Len(d) = 0 /\ d \in Seq(CacheEntries)
    BY <1>1, <1>2 DEF CacheIs
  <2> QED BY <2>1
<1> QED BY <1>1, <1>2, <1>3, <1>4, <1>5 DEF CacheOK

LEMMA ReadDirInv ==
    ASSUME AsyncInv, queue # <<>>, ReadDir
    PROVE  AsyncInv'
<1> DEFINE e == IF StatError(Node, tx.cred) # "ok" THEN StatError(Node, tx.cred)
                ELSE ListingError(store, Node)
<1>1. e \in Answers
  BY NodeErrors
<1>2. CASE e # "ok"
  <2>1. Fails(e)
    BY <1>2 DEF ReadDir
  <2> QED BY <1>1, <2>1, FailsInv
<1>3. CASE e = "ok" /\ entries(store, Node) # NoEntries
  <2>1. Fails("ENOTEMPTY")
    BY <1>3 DEF ReadDir
  <2> QED BY <2>1, FailsInv, AnswerFacts
<1>4. CASE e = "ok" /\ entries(store, Node) = NoEntries
  <2> DEFINE p == tx.p
             c == lruRemove(Known, p)
             b == Begin(cacheOn, c, dirname(p))
             cr == tx.cred
             no == FALSE
             x == Asked("rmdir", p, dirname(p), b, <<>>, "r", {}, ToRead, no, cr)
  <2>1. /\ store' = store /\ cache' = b.cache /\ queue' = Tail(queue) \o <<x>>
        /\ cached' = cached /\ cacheOn' = cacheOn /\ ret' = ret /\ raced' = raced
        /\ tx.step = "readdir"
    <3>1. DirEntry(p, cr) /\ tx.step = "readdir"
      BY <1>4 DEF ReadDir
    <3>2. [Tx("rmdir", p, dirname(p), b) EXCEPT !.cred = cr] = x
      <4> HIDE DEF p, b, cr, x
      <4>1. AskedBy(Tx("rmdir", p, dirname(p), b), cr) = x
        BY AskedIs DEF x, no
      <4> QED BY <4>1 DEF AskedBy
    <3>3. /\ store' = store /\ cache' = b.cache
          /\ queue' = Tail(queue) \o <<[Tx("rmdir", p, dirname(p), b) EXCEPT !.cred = cr]>>
          /\ cached' = cached /\ cacheOn' = cacheOn /\ ret' = ret /\ raced' = raced
      BY <3>1 DEF DirEntry
    <3> HIDE DEF p, b, cr, x
    <3> QED BY <3>1, <3>2, <3>3
  <2>2. /\ tx \in Txs /\ p \in Paths /\ tx.look \in Paths
        /\ tx.look = IF tx.step \in ByPath THEN p ELSE dirname(p)
        /\ CacheOK(cached, store, raced, Known, cacheOn)
        /\ Learned(store, cache, tx.look, Known) /\ (~cacheOn => Known = cache)
    BY RunFacts DEF TxRuns
  <2>3. Node = FindId(store, p) /\ cr \in Creds
    <3>1. Node = FindId(store, tx.look)
      BY <1>4, NodeErrors
    <3> QED BY <2>1, <2>2, <3>1 DEF ByPath, Txs
  <2>4. EmptyAt(store, p)
    BY <1>4, <2>3 DEF EmptyAt
  <2>5. CacheOK(cached, store, raced, c, cacheOn) /\ ~Has(c, p)
        /\ (\A i \in 1 .. Len(c) : In(Known, c[i])) /\ (Known = <<>> => c = <<>>)
    <3> DEFINE k == Known
    <3>1. CacheOK(cached, store, raced, k, cacheOn) /\ c = lruRemove(k, p)
      BY <2>2
    <3> HIDE DEF k, c
    <3>2. /\ CacheOK(cached, store, raced, c, cacheOn) /\ ~Has(c, p)
          /\ (\A i \in 1 .. Len(c) : In(k, c[i])) /\ (k = <<>> => c = <<>>)
      BY <3>1, DroppedFacts
    <3> QED BY <3>2 DEF k
  <2>6. b = Begin(cacheOn, c, dirname(p)) 
        /\ x = Asked("rmdir", p, dirname(p), b, <<>>, "r", {}, ToRead, no, cr)
        /\ dirname(p) \in Paths /\ "rmdir" \in StepNames
        /\ no \in BOOLEAN /\ no = FALSE
    BY <2>2, DirnameType DEF StepNames, Alone
  <2>0. Grown(cache, tx.look, Known)
    BY <2>2, LearnedGrown
  <2> HIDE DEF p, c, b, cr, x, no, Known
  <2>7. b.from \in Nat /\ b.id \in Ids
    BY <2>5, <2>6, BeginFacts DEF CacheOK
  <2>8. /\ x \in Txs /\ x.step = "rmdir" /\ x.p = p /\ x.look = dirname(p) /\ ~x.saved
        /\ x = Begun(x, b)
    <3>1. /\ x \in Txs /\ x.step = "rmdir" /\ x.p = p /\ x.look = dirname(p) /\ x.saved = FALSE
          /\ x.from = b.from /\ x.id = b.id
      BY ONLY <2>2, <2>3, <2>6, <2>7, AskedTypes, AskedTx
    <3>2. [x EXCEPT !.from = x.from, !.id = x.id] = x
      BY <3>1 DEF Txs
    <3> QED BY <3>1, <3>2 DEF Begun
  <2>9. Shape(x)
    BY <2>8 DEF Shape, ByPath, OpenSteps
  <2>10. /\ TxOK(cached, store, raced, b.cache, cacheOn, x)
         /\ CacheOK(cached, store, raced, b.cache, cacheOn)
         /\ \A i \in 1 .. Len(b.cache) : In(c, b.cache[i]) \/ b.cache[i].path = <<>>
         /\ ~cacheOn => b.cache = c
         /\ ~cacheOn => x.from = 0 /\ x.id = Root
         /\ x.from = 0 \/ Has(b.cache, Prefix(x.look, x.from))
    <3>1. b = Begin(cacheOn, c, x.look)
      BY <2>6, <2>8
    <3>2. /\ x.step \notin {"clear", "makeRoot"} /\ x.step # "rename"
          /\ x.step = "rmdir" => EmptyAt(store, x.p)
          /\ x.step \in {"unlink", "rmdir"} /\ x.p # <<>> /\ Has(c, x.p) => x.p \in raced
          /\ x.saved => cached
      BY <2>4, <2>5, <2>8
    <3> QED BY <2>5, <2>8, <2>9, <3>1, <3>2, BegunTx
  <2>11. /\ StoreOK(store) /\ ret \in Answers /\ Size(store) \in Nat
         /\ AllStarted(store, raced, Tail(queue))
         /\ tx.step \in Alone /\ tx.step # "close" /\ x.step # "readdir"
         /\ One(x.step \in Makers) = 0 /\ One(tx.step \in Makers) = 0
    <3>1. StoreOK(store) /\ ret \in Answers /\ Size(store) \in Nat
          /\ AllStarted(store, raced, Tail(queue))
      BY StaysSettled DEF AsyncInv, Settles
    <3>2. tx.step \in Alone /\ tx.step \notin Makers /\ x.step \notin Makers
      BY <2>1, <2>8 DEF Alone, Makers, OpenSteps
    <3> QED BY <2>1, <2>8, <3>1, <3>2 DEF One
  <2>12. Size(store) + One(x.step \in Makers) <= Size(store) + One(tx.step \in Makers)
    BY <2>11
  <2>13. Grown(cache, tx.look, b.cache)
    <3> SUFFICES ASSUME NEW i \in 1 .. Len(b.cache)
                 PROVE  In(cache, b.cache[i]) \/ IsAtOrAbove(b.cache[i].path, tx.look)
      BY DEF Grown
    <3>1. CASE In(c, b.cache[i])
      <4>1. PICK j \in 1 .. Len(c) : c[j] = b.cache[i]
        BY <3>1 DEF In
      <4>2. In(Known, b.cache[i])
        BY <2>5, <4>1
      <4> QED BY <2>0, <4>2 DEF Grown, In
    <3>2. CASE b.cache[i].path = <<>>
      BY <2>2, <3>2, RootAbove
    <3> QED BY <2>10, <3>1, <3>2
  <2>14. Passes
    BY <2>1, <2>2, <2>5, <2>10, <2>11, <2>13 DEF Passes, CacheOK
  <2>15. LetsIn(cached, raced, cache', cacheOn', Tail(queue), x)
    BY <2>1, <2>8, <2>10 DEF LetsIn
  <2> QED BY <2>1, <2>10, <2>11, <2>12, <2>14, <2>15, FollowedInv
<1> QED BY <1>2, <1>3, <1>4

(* rename *)
LEMMA NewParent ==
    ASSUME AsyncInv, queue # <<>>, tx.step = "rename",
           NEW d, d = IF dirname(tx.q) = dirname(tx.p) THEN Node
                      ELSE FoundId(store, dirname(tx.q), Begin(cacheOn, Known, dirname(tx.q)))
    PROVE  /\ tx.p \in Paths /\ tx.q \in Paths /\ tx.q # <<>>
           /\ tx.p # <<>> => IsFileName(tx.p) = IsFileName(tx.q)
           /\ Node \in Ids \union Errors /\ d \in Ids \union Errors
           /\ ListingError(store, Node) = "ok" =>
                 Node = FindId(store, dirname(tx.p)) /\ d = FindId(store, dirname(tx.q))
<1> DEFINE t == tx
           n == Node
           k == Known
           ok == ListingError(store, n) = "ok"
<1>1. /\ t \in Txs /\ t.look = IF t.step \in ByPath THEN t.p ELSE dirname(t.p)
      /\ Shape(t) /\ n \in Ids \union Errors /\ (ok => n = FindId(store, t.look))
      /\ CacheIs(k) /\ Coherent(store, raced, k) /\ cacheOn \in BOOLEAN
      /\ Suits(store, raced, cache, cacheOn, t) /\ store \in Stores
  BY RunFacts, NodeErrors DEF TxRuns, TxOK, CacheOK, AsyncInv, StoreOK
<1>2. t.step = "rename"
  OBVIOUS
<1>3. d = IF dirname(t.q) = dirname(t.p) THEN n
          ELSE FoundId(store, dirname(t.q), Begin(cacheOn, k, dirname(t.q)))
  OBVIOUS
<1> SUFFICES /\ t.p \in Paths /\ t.q \in Paths /\ t.q # <<>>
             /\ t.p # <<>> => IsFileName(t.p) = IsFileName(t.q)
             /\ d \in Ids \union Errors
             /\ ok => n = FindId(store, dirname(t.p)) /\ d = FindId(store, dirname(t.q))
  BY <1>1
<1> HIDE DEF t, n, k, ok
<1>4. t.p \in Paths /\ t.q \in Paths
  BY <1>1 DEF Txs
<1>5. t.q # <<>> /\ (t.p # <<>> => IsFileName(t.p) = IsFileName(t.q))
  BY <1>1, <1>2 DEF Shape
<1>6. ok => n = FindId(store, dirname(t.p))
  BY <1>1, <1>2 DEF ByPath
<1>7. dirname(t.q) \in Paths
  BY <1>4, DirnameType
<1> DEFINE x == dirname(t.q)
           b == Begin(cacheOn, k, x)
<1>8. b = Begin(cacheOn, k, x) /\ x = dirname(t.q)
  OBVIOUS
<1> HIDE DEF b, x
<1>9. b.from = 0 /\ b.id = Root
  BY <1>1, <1>2, <1>7, <1>8, BeginFacts DEF Suits
<1>10. FoundId(store, x, b) = FindId(store, x)
  <2>1. Len(x) \in Nat /\ Prefix(x, 0) = <<>> /\ Prefix(x, Len(x)) = x
    <3>1. Len(x) \in Nat
      BY <1>7, <1>8 DEF Paths
    <3> QED BY <1>7, <1>8, <3>1, PrefixFacts
  <2>2. FindId(store, Prefix(x, b.from)) = b.id
    BY <1>9, <2>1, FindRoot
  <2>3. \A i \in b.from .. Len(x) : Found(store, x, b)[i] = FindId(store, Prefix(x, i))
    BY <1>7, <1>8, <1>9, <2>1, <2>2, FoundRight
  <2> QED BY <1>9, <2>1, <2>3 DEF FoundId
<1>11. FindId(store, x) \in Ids \union Errors
  BY <1>1, <1>7, <1>8, FindType
<1> QED BY <1>1, <1>3, <1>4, <1>5, <1>6, <1>8, <1>10, <1>11

LEMMA MovedInv ==
    ASSUME AsyncInv, queue # <<>>, tx.step = "rename", NEW d, NEW e, d = Node,
           tx.p \in Paths, tx.q \in Paths, tx.q # <<>>,
           tx.p # <<>> => IsFileName(tx.p) = IsFileName(tx.q),
           d = FindId(store, dirname(tx.p)), e = FindId(store, dirname(tx.q)),
           ListingError(store, d) = "ok", ListingError(store, e) = "ok",
           entries(store, d)[basename(tx.p)] # NoEntry,
           ~IsInsideItself(tx.p, dirname(tx.q)), Moved(d, e)
    PROVE  /\ AsyncInv'
           /\ \/ store' = store /\ ret' # "ok"
              \/ RehungAt(store, store', tx.p, tx.q) /\ ret' = "ok"
<1> DEFINE p == tx.p
           q == tx.q
           old == [entries(store, d) EXCEPT ![basename(p)] = NoEntry]
           new == IF dirname(q) = dirname(p) THEN old ELSE entries(store, e)
           target == new[basename(q)]
           cleared == IF target = NoEntry THEN store ELSE Deleted(store, target)
           st == [cleared EXCEPT
                    ![store[d].id] = Listing(old),
                    ![store[e].id] =
                        Listing([new EXCEPT ![basename(q)] = entries(store, d)[basename(p)]])]
           bad == INodeError(store, target)
<1>1. /\ bad # "ok" /\ target # NoEntry => Returned(store, bad)
      /\ target # NoEntry /\ bad = "ok" /\ store[target].type # "file" => Returned(store, "EPERM")
      /\ (target # NoEntry => bad = "ok" /\ store[target].type = "file") => Returned(st, "ok")
  BY DEF Moved, NewListing
<1>2. /\ p \in Paths /\ q \in Paths /\ q # <<>>
      /\ p # <<>> => IsFileName(p) = IsFileName(q)
      /\ d = FindId(store, dirname(p)) /\ e = FindId(store, dirname(q))
  OBVIOUS
<1>3. Good(store) /\ Sound(store) /\ StoreOK(store)
  BY NodeErrors, GoodIs
<1>4. st = EntryMoved(store, d, basename(p), e, basename(q), target, old, new)
  BY DEF EntryMoved, Cleared, Gone, Deleted, NewListing
<1>5. IF p = <<>> \/ dirname(q) = <<>> THEN p # dirname(q) ELSE ~IsAtOrAbove(p, dirname(q))
  BY DEF IsInsideItself
<1>6. /\ p = tx.p /\ q = tx.q /\ new = (IF dirname(q) = dirname(p) THEN old ELSE entries(store, e))
      /\ old = [entries(store, d) EXCEPT ![basename(p)] = NoEntry]
      /\ target = new[basename(q)] /\ bad = INodeError(store, target)
      /\ entries(store, d)[basename(p)] # NoEntry
  OBVIOUS
<1> HIDE DEF p, q, old, new, target, cleared, st, bad
<1>7. Size(store) \in Nat
  BY <1>3, SizeType
<1>8. CASE target # NoEntry => bad = "ok" /\ store[target].type = "file"
  <2>1. Good(st) /\ RehungAt(store, st, p, q) /\ Size(st) <= Size(store)
    BY ONLY <1>2, <1>3, <1>4, <1>5, <1>6, <1>8, MoveGood,
            ListingError(store, d) = "ok", ListingError(store, e) = "ok"
  <2>2. StoreOK(st) /\ Returned(st, "ok") /\ "ok" \in Answers
    BY <1>1, <1>8, <2>1, GoodIs, AnswerFacts
  <2>3. AsyncInv'
    BY <2>1, <2>2, ReturnedInv
  <2>4. store' = st /\ ret' = "ok"
    BY <2>2 DEF Returned
  <2> QED BY <1>6, <2>1, <2>3, <2>4
<1>9. CASE target # NoEntry /\ bad = "ok" /\ store[target].type # "file"
  <2>1. Returned(store, "EPERM") /\ "EPERM" \in Answers
    BY <1>1, <1>9, AnswerFacts
  <2>2. AsyncInv'
    BY <1>3, <1>7, <2>1, ReturnedInv
  <2> QED BY <2>1, <2>2 DEF Returned
<1>10. CASE target # NoEntry /\ bad # "ok"
  <2>1. new \in Entries /\ basename(q) \in Names
    <3>1. d \in DirIds(store) /\ e \in DirIds(store) /\ d \in Ids /\ e \in Ids
      <4>1. d \in Ids \union Errors /\ e \in Ids \union Errors
        <5>1. store \in Stores /\ dirname(p) \in Paths /\ dirname(q) \in Paths
          BY <1>2, <1>3, DirnameType DEF StoreOK
        <5> QED BY <1>2, <5>1, FindType
      <4>2. d \in DirIds(store) /\ e \in DirIds(store)
        BY <1>3, <4>1, SoundReads
      <4> QED BY <4>2 DEF DirIds, InodeIds
    <3>2. entries(store, d) \in Entries /\ entries(store, e) \in Entries
      BY <1>3, <3>1, ListingFacts DEF StoreOK
    <3>3. old \in Entries
      BY <1>6, <3>2 DEF Entries
    <3> QED BY <1>2, <1>6, <3>2, <3>3, DirnameLess
  <2>2. target \in Ids
    BY <1>6, <1>10, <2>1 DEF Entries
  <2>3. bad \in Answers
    BY <1>3, <1>6, <2>2, INodeFacts, AnswerFacts DEF StoreOK
  <2>4. Returned(store, bad)
    BY <1>1, <1>10
  <2>5. AsyncInv'
    BY <1>3, <1>7, <2>3, <2>4, ReturnedInv
  <2> QED BY <1>10, <2>4, <2>5 DEF Returned
<1> QED BY <1>8, <1>9, <1>10

LEMMA RenameInv ==
    ASSUME AsyncInv, queue # <<>>, Rename
    PROVE  /\ AsyncInv'
           /\ \/ store' = store /\ ret' # "ok"
              \/ RehungAt(store, store', tx.p, tx.q) /\ ret' = "ok"
<1> DEFINE n == Node
           d == IF dirname(tx.q) = dirname(tx.p) THEN n
                ELSE FoundId(store, dirname(tx.q), Begin(cacheOn, Known, dirname(tx.q)))
<1>1. /\ tx.step = "rename"
      /\ IF ListingError(store, n) # "ok" THEN Returned(store, ListingError(store, n))
         ELSE IF ~Access(store, n, W_OK, tx.cred) THEN Returned(store, "EACCES")
         ELSE IF entries(store, n)[basename(tx.p)] = NoEntry THEN Returned(store, "ENOENT")
         ELSE IF IsInsideItself(tx.p, dirname(tx.q)) THEN Returned(store, "EBUSY")
         ELSE IF ListingError(store, d) # "ok"
         THEN Returned(store, ListingError(store, d))
         ELSE Moved(n, d)
  BY DEF Rename
<1>2. /\ tx.p \in Paths /\ tx.q \in Paths /\ tx.q # <<>>
      /\ tx.p # <<>> => IsFileName(tx.p) = IsFileName(tx.q)
      /\ n \in Ids \union Errors /\ d \in Ids \union Errors
      /\ ListingError(store, n) = "ok" =>
            n = FindId(store, dirname(tx.p)) /\ d = FindId(store, dirname(tx.q))
  BY <1>1, NewParent
<1>3. n = Node
  OBVIOUS
<1> HIDE DEF n, d
<1>4. StoreOK(store) /\ Size(store) \in Nat /\ store \in Stores
  BY SizeType DEF AsyncInv, StoreOK
<1>5. ListingError(store, n) \in Answers /\ ListingError(store, d) \in Answers
  <2>2. ListingError(store, d) \in Answers
    BY <1>2, <1>4, ListingFacts, AnswerFacts
  <2> QED BY <1>3, <2>2, NodeErrors
<1> DEFINE inside == IsInsideItself(tx.p, dirname(tx.q))
           may == Access(store, n, W_OK, tx.cred)
           has == entries(store, n)[basename(tx.p)] # NoEntry
<1>6. CASE /\ ListingError(store, n) = "ok" /\ ListingError(store, d) = "ok"
           /\ may /\ has /\ ~inside
  <2>1. Moved(n, d)
    BY <1>1, <1>6
  <2> QED BY <1>1, <1>2, <1>3, <1>6, <2>1, MovedInv
<1>7. CASE ~(/\ ListingError(store, n) = "ok" /\ ListingError(store, d) = "ok"
             /\ may /\ has /\ ~inside)
  <2>1. \E x \in Answers : x # "ok" /\ Returned(store, x)
    <3> HIDE DEF inside, may
    <3>1. \/ Returned(store, ListingError(store, n)) /\ ListingError(store, n) # "ok"
          \/ Returned(store, ListingError(store, d)) /\ ListingError(store, d) # "ok"
          \/ Returned(store, "EACCES") \/ Returned(store, "ENOENT") \/ Returned(store, "EBUSY")
      BY <1>1, <1>7 DEF inside, may
    <3> QED BY <1>5, <3>1, AnswerFacts
  <2>2. PICK x \in Answers : x # "ok" /\ Returned(store, x)
    BY <2>1
  <2>3. AsyncInv'
    BY <1>1, <1>4, <2>2, ReturnedInv
  <2> QED BY <2>2, <2>3 DEF Returned
<1> QED BY <1>6, <1>7

(* open *)
LEMMA OpenStatInv ==
    ASSUME AsyncInv, queue # <<>>, OpenStat
    PROVE  AsyncInv'
<1> DEFINE t == tx
           y == [t EXCEPT !.step = "openFile"]
<1>1. t.step = "openStat" /\ (NotFound \/ GoesOn(store, y))
  BY DEF OpenStat
<1>2. t \in Txs /\ t.look = IF t.step \in ByPath THEN t.p ELSE dirname(t.p)
  BY RunFacts DEF TxRuns
<1>3. t.step \in OpenSteps
  BY <1>1 DEF OpenSteps
<1>4. CASE NotFound
  BY <1>3, <1>4, NotFoundInv
<1>5. CASE GoesOn(store, y)
  <2> HIDE DEF t
  <2>1. t.look = t.p /\ t.stats \in Stats
    BY <1>1, <1>2 DEF ByPath, Txs
  <2>2. y = [t EXCEPT !.step = "openFile", !.look = t.p, !.stats = t.stats]
    BY <1>2, <2>1 DEF Txs
  <2>3. "openFile" \in OpenSteps /\ "openFile" \in ByPath
    BY DEF OpenSteps, ByPath
  <2>4. y = Stepped(t, "openFile", t.stats)
    BY <2>2, <2>3 DEF Stepped
  <2> HIDE DEF y
  <2> QED BY <1>3, <1>5, <2>1, <2>3, <2>4, ToStepInv DEF t
<1> QED BY <1>1, <1>4, <1>5

LEMMA ParentStatInv ==
    ASSUME AsyncInv, queue # <<>>, ParentStat
    PROVE  AsyncInv'
<1> DEFINE t == tx
           y == [t EXCEPT !.step = "create"]
           e == StatError(Node, tx.cred)
<1>1. t.step = "parentStat" /\ (Fails(e) \/ Fails("ENOTDIR") \/ GoesOn(store, y))
  BY DEF ParentStat
<1>2. t \in Txs /\ t.look = IF t.step \in ByPath THEN t.p ELSE dirname(t.p)
  BY RunFacts DEF TxRuns
<1>3. t.step \in OpenSteps
  BY <1>1 DEF OpenSteps
<1>4. CASE Fails(e) \/ Fails("ENOTDIR")
  BY <1>4, NodeErrors, FailsInv, AnswerFacts
<1>5. CASE GoesOn(store, y)
  <2> HIDE DEF t
  <2>1. t.look = dirname(t.p) /\ t.stats \in Stats
    BY <1>1, <1>2 DEF ByPath, Txs
  <2>2. y = [t EXCEPT !.step = "create", !.look = dirname(t.p), !.stats = t.stats]
    BY <1>2, <2>1 DEF Txs
  <2>3. "create" \in OpenSteps /\ "create" \notin ByPath
    BY DEF OpenSteps, ByPath
  <2>4. y = Stepped(t, "create", t.stats)
    BY <2>2, <2>3 DEF Stepped
  <2> HIDE DEF y
  <2> QED BY <1>3, <1>5, <2>1, <2>3, <2>4, ToStepInv DEF t
<1> QED BY <1>1, <1>4, <1>5

LEMMA OpenFileInv ==
    ASSUME AsyncInv, queue # <<>>, OpenFile
    PROVE  AsyncInv'
<1> DEFINE t == tx
           n == Node
           y == [t EXCEPT !.step = "truncated", !.stats = StatsOf(store[n])]
           bytes == Text(store[store[n].id])
<1>1. /\ t.step = "openFile"
      /\ \/ NotFound
         \/ Fails(OpenError)
         \/ OpenError = "ok" /\ GoesOn(store, y)
         \/ OpenError = "ok" /\ Use(store, StatsOf(store[n]), bytes)
  BY DEF OpenFile
<1>2. t \in Txs /\ t.look = IF t.step \in ByPath THEN t.p ELSE dirname(t.p)
  BY RunFacts DEF TxRuns
<1>3. t.step \in OpenSteps /\ tx.step \in OpenSteps
  BY <1>1 DEF OpenSteps
<1>4. OpenError \in Answers
  <2>1. OpenError \in {INodeError(store, Node), "EACCES", "ENOENT", "Error", "ok"}
    BY DEF OpenError
  <2> QED BY <2>1, NodeErrors, AnswerFacts
<1>5. OpenError = "ok" => Good(store) /\ n \in InodeIds(store)
  <2>1. OpenError = "ok" => INodeError(store, Node) = "ok"
    BY DEF OpenError
  <2> QED BY <2>1, NodeErrors
<1>6. OpenError = "ok" => StatsOf(store[n]) \in Stats /\ bytes \in Seq(Bytes)
  <2> HIDE DEF n, OpenError
  <2> SUFFICES ASSUME OpenError = "ok" PROVE StatsOf(store[n]) \in Stats /\ bytes \in Seq(Bytes)
    OBVIOUS
  <2>1. store \in Stores /\ store[n] \in Inodes /\ store[n].id \in Ids
    BY <1>5, GoodIs, DataTypes
  <2>2. bytes \in Seq(Bytes)
    <3>1. store[store[n].id] \in Values
      BY <2>1 DEF Stores, Values
    <3> QED BY <3>1, TextType
  <2>3. StatsOf(store[n]) \in Stats
    BY <2>1 DEF StatsOf, Stats, Inodes
  <2> QED BY <2>2, <2>3
<1>7. CASE NotFound \/ Fails(OpenError)
  BY <1>3, <1>4, <1>7, NotFoundInv, FailsInv
<1>8. CASE OpenError = "ok" /\ GoesOn(store, y)
  <2> HIDE DEF t, n, bytes, OpenError
  <2>1. t.look = t.p
    BY <1>1, <1>2 DEF ByPath
  <2> DEFINE stats == StatsOf(store[n])
  <2>2. stats \in Stats
    BY <1>6, <1>8
  <2> HIDE DEF stats
  <2>3. y = [t EXCEPT !.step = "truncated", !.look = t.p, !.stats = stats]
    BY <1>2, <2>1 DEF Txs, stats
  <2>4. "truncated" \in OpenSteps /\ "truncated" \in ByPath
    BY DEF OpenSteps, ByPath
  <2>5. y = Stepped(t, "truncated", stats)
    BY <2>3, <2>4 DEF Stepped
  <2> HIDE DEF y
  <2> QED BY <1>3, <1>8, <2>2, <2>4, <2>5, ToStepInv DEF t
<1>9. CASE OpenError = "ok" /\ Use(store, StatsOf(store[n]), bytes)
  <2> DEFINE stats == StatsOf(store[n])
  <2>1. stats \in Stats /\ bytes \in Seq(Bytes) /\ Use(store, stats, bytes)
    BY <1>6, <1>9
  <2> HIDE DEF stats, bytes, n, t
  <2>2. StoreOK(store) /\ Size(store) \in Nat
    BY SizeType DEF AsyncInv
  <2>3. Settles(store)
    BY StaysSettled
  <2>4. Size(store) <= Size(store) + 1
    BY <2>2
  <2> QED BY <1>3, <2>1, <2>2, <2>3, <2>4, UseInv
<1> QED BY <1>1, <1>7, <1>8, <1>9

LEMMA CreateInv ==
    ASSUME AsyncInv, queue # <<>>, Create
    PROVE  AsyncInv'
<1>1. tx.step = "create" /\ tx.step \in OpenSteps
  BY DEF Create, OpenSteps
<1>2. CASE NewFileError # "ok"
  BY <1>2, NewFileErrors, FailsInv DEF Create
<1>3. CASE NewFileError = "ok"
  <2> DEFINE data == Data(<<>>)
             b == <<>>
             stats == [mode |-> tx.mode, uid |-> tx.cred.uid]
  <2>1. PICK new \in NewIds : Use(commitNewFile("file", data, new), stats, b)
    BY <1>3 DEF Create
  <2> DEFINE st == commitNewFile("file", data, new)
  <2>2. stats \in Stats
    <3> DEFINE t == tx
    <3>1. t \in Txs
      BY RunFacts DEF TxRuns
    <3> HIDE DEF t
    <3>2. t.mode \in Perms /\ t.cred \in Creds
      BY <3>1 DEF Txs
    <3>3. t.cred.uid \in Uids
      BY <3>2 DEF Creds
    <3>4. [mode |-> t.mode, uid |-> t.cred.uid] \in Stats
      BY <3>2, <3>3 DEF Stats
    <3> QED BY <3>4 DEF t
  <2>3. b \in Seq(Bytes)
    OBVIOUS
  <2>4. "file" \in Types /\ data = Data(<<>>) /\ st = commitNewFile("file", data, new)
    BY DEF Types
  <2>5. Use(st, stats, b)
    BY <2>1
  <2> HIDE DEF data, st, stats, b
  <2>6. StoreOK(st) /\ Settles(st) /\ Size(st) <= Size(store) + 1
    BY <1>1, <1>3, <2>4, CommitFacts
  <2> QED BY <1>1, <2>2, <2>3, <2>5, <2>6, UseInv
<1> QED BY <1>2, <1>3

(* _sync *)
LEMMA StoredFacts ==
    ASSUME AsyncInv, queue # <<>>, tx.step \in {"truncated", "close"},
           INodeError(store, Node) = "ok", NEW b \in Seq(Bytes)
    PROVE  /\ StoreOK(Stored(b)) /\ Good(store) /\ RefilledAt(store, Stored(b), tx.p)
           /\ Settles(Stored(b)) /\ Size(Stored(b)) = Size(store)
           /\ tx.p \in Paths /\ Node = FindId(store, tx.p)
           /\ Stored(b)[store[Node].id] = Data(b) /\ Stored(b)[Node].size = Len(b)
           /\ \A k \in Ids \ {Node, store[Node].id} : Stored(b)[k] = store[k]
<1> DEFINE t == tx
           n == Node
           s == store
           r == Stored(b)
<1>1. t \in Txs /\ Shape(t) /\ n = FindId(s, t.look)
  BY RunFacts, NodeErrors DEF TxRuns, TxOK
<1>2. t.step \in {"truncated", "close"}
  OBVIOUS
<1>3. Good(s) /\ n \in InodeIds(s)
  BY NodeErrors
<1>4. r = [s EXCEPT ![s[n].id] = Data(b),
                    ![n] = Restat(s[n], Len(b), t.stats)]
  BY DEF Stored
<1>5. StillFound(s, r) /\ InodeIds(r) = InodeIds(s) => Settles(r)
  <2> SUFFICES ASSUME StillFound(s, r), InodeIds(r) = InodeIds(s) PROVE Settles(r)
    OBVIOUS
  <2> HIDE DEF r, s, t, n
  <2>1. LostIn(s, r, Held)
    BY LostStays DEF s
  <2> QED BY <2>1, SettlesIf DEF StillFound, s
<1> SUFFICES /\ StoreOK(r) /\ RefilledAt(s, r, t.p)
             /\ StillFound(s, r) /\ InodeIds(r) = InodeIds(s) /\ Size(r) = Size(s)
             /\ t.p \in Paths /\ n = FindId(s, t.p)
             /\ r[s[n].id] = Data(b) /\ r[n].size = Len(b)
             /\ \A k \in Ids \ {n, s[n].id} : r[k] = s[k]
  BY <1>3, <1>5
<1> HIDE DEF t, n, s, r
<1> DEFINE i == Restat(s[n], Len(b), t.stats)
<1>6. /\ t.p \in Paths /\ IsFileName(t.p) /\ n = FindId(s, t.p)
      /\ t.stats.mode \in Perms /\ t.stats.uid \in Uids
  <2>1. t.p \in Paths /\ t.stats \in Stats
    BY <1>1 DEF Txs
  <2>2. IsFileName(t.p) /\ t.look = t.p
    BY <1>1, <1>2 DEF Shape, OpenSteps, ByPath
  <2>3. t.stats.mode \in Perms /\ t.stats.uid \in Uids
    BY <2>1 DEF Stats
  <2> QED BY <1>1, <2>1, <2>2, <2>3
<1>7. /\ s \in Stores /\ Wired(s) /\ s[n] \in Inodes /\ n \in Ids /\ s[n].id \in Ids
      /\ s[n].id # n
  BY <1>3, GoodIs, DataTypes
<1>8. s[n].type = "file"
  <2>1. n \notin DirIds(s)
    BY <1>3, <1>6, FileNameIsNoDir DEF IsNoDir
  <2>2. s[n].type \in Types
    BY <1>7 DEF Inodes
  <2> QED BY <1>3, <2>1, <2>2 DEF DirIds, Types
<1>9. i \in Inodes /\ i.id = s[n].id /\ i.type = "file" /\ i.size = Len(b)
  <2> DEFINE o == s[n]
  <2>1. o \in Inodes /\ o.type = "file" /\ i = Restat(o, Len(b), t.stats) /\ Len(b) \in Nat
    BY <1>7, <1>8
  <2> HIDE DEF o, i
  <2>2. i \in Inodes /\ i.id = o.id /\ i.type = "file" /\ i.size = Len(b)
    BY <1>6, <2>1 DEF Inodes, Restat
  <2> QED BY <2>2 DEF o
<1>10. r = Refilled(s, n, Data(b), i)
  BY <1>4 DEF Refilled
<1> HIDE DEF i
<1>11. /\ Good(r) /\ RefilledAt(s, r, t.p) /\ StillFound(s, r) /\ Size(r) = Size(s)
       /\ r[s[n].id] = Data(b) /\ InodeIds(r) = InodeIds(s)
  BY <1>3, <1>6, <1>9, <1>10, RefillGood
<1>12. StoreOK(r)
  BY <1>11, GoodIs
<1>13. r[n].size = Len(b) /\ \A k \in Ids \ {n, s[n].id} : r[k] = s[k]
  <2>1. DOMAIN s = Ids
    BY <1>7 DEF Stores
  <2> QED BY <1>7, <1>9, <1>10, <2>1 DEF Refilled
<1> QED BY <1>6, <1>11, <1>12, <1>13

LEMMA TruncatedInv ==
    ASSUME AsyncInv, queue # <<>>, Truncated
    PROVE  AsyncInv'
<1>1. tx.step = "truncated" /\ tx.step \in OpenSteps
  BY DEF Truncated, OpenSteps
<1>2. CASE INodeError(store, Node) # "ok"
  <2>1. NotFound
    BY <1>2 DEF Truncated
  <2> QED BY <1>1, <2>1, NotFoundInv
<1>3. CASE INodeError(store, Node) = "ok"
  <2> DEFINE b == <<>>
             st == Stored(b)
  <2>1. Use(st, tx.stats, b) /\ b \in Seq(Bytes)
    BY <1>3 DEF Truncated
  <2>2. tx.stats \in Stats
    <3> DEFINE t == tx
    <3>1. t \in Txs
      BY RunFacts DEF TxRuns
    <3> HIDE DEF t
    <3>2. t.stats \in Stats
      BY <3>1 DEF Txs
    <3> QED BY <3>2 DEF t
  <2> HIDE DEF b
  <2>3. StoreOK(st) /\ Settles(st) /\ Size(st) = Size(store)
    BY <1>1, <1>3, <2>1, StoredFacts
  <2> HIDE DEF st
  <2>4. Size(st) \in Nat
    BY <2>3, SizeType
  <2>5. Size(st) <= Size(store) + 1
    BY <2>3, <2>4
  <2> QED BY <1>1, <2>1, <2>2, <2>3, <2>5, UseInv
<1> QED BY <1>2, <1>3

LEMMA CloseInv ==
    ASSUME AsyncInv, queue # <<>>, Close
    PROVE  AsyncInv'
<1>1. tx.step = "close"
  BY DEF Close
<1>2. CASE INodeError(store, Node) # "ok"
  <2>1. Fails(INodeError(store, Node))
    BY <1>2 DEF Close
  <2> QED BY <2>1, NodeErrors, FailsInv
<1>3. CASE INodeError(store, Node) = "ok"
  <2> DEFINE b == tx.buf
             st == Stored(b)
  <2>1. Ends(st, "ok")
    BY <1>3 DEF Close
  <2>2. b \in Seq(Bytes)
    <3> DEFINE t == tx
    <3>1. t \in Txs
      BY RunFacts DEF TxRuns
    <3> HIDE DEF t
    <3>2. t.buf \in Seq(Bytes)
      BY <3>1 DEF Txs
    <3> QED BY <3>2 DEF t
  <2> HIDE DEF b
  <2>3. StoreOK(st) /\ Settles(st) /\ Size(st) = Size(store)
    BY <1>1, <1>3, <2>2, StoredFacts
  <2> HIDE DEF st
  <2>4. Size(st) \in Nat
    BY <2>3, SizeType
  <2>5. Size(st) <= Size(store) + One(tx.step \in Makers)
    BY <2>3, <2>4 DEF One
  <2> QED BY <2>1, <2>3, <2>5, EndsInv, AnswerFacts
<1> QED BY <1>2, <1>3

(* empty: the cache has nothing, and the root is not looked up. *)
LEMMA ClearInv ==
    ASSUME AsyncInv, queue # <<>>, Clear
    PROVE  AsyncInv'
<1> DEFINE t == tx
           x == [t EXCEPT !.step = "makeRoot"]
           s == [k \in Ids |-> Absent]
<1>1. /\ t.step = "clear" /\ tx.step = "clear" /\ store' = s /\ queue' = Append(Tail(queue), x)
      /\ cached' = cached /\ cacheOn' = cacheOn /\ cache' = cache /\ ret' = ret /\ raced' = raced
  BY DEF Clear
<1>2. /\ t \in Txs /\ Shape(t) /\ TxOK(cached, store, raced, cache, cacheOn, t)
      /\ Suits(store, raced, cache, cacheOn, t) /\ (t.saved => cached)
      /\ CacheOK(cached, store, raced, cache, cacheOn) /\ ret \in Answers
      /\ Size(store) \in Nat
  BY RunFacts, SizeType DEF TxRuns, TxOK, AsyncInv
<1>3. Tail(queue) = <<>>
  BY <1>1, TailFacts DEF Alone
<1> HIDE DEF t, s
<1>4. s \in Stores /\ Blank(s) /\ \A n \in Ids : Lost(s, n)
  BY DEF s, Stores, Blank, Lost, Absent
<1>5. StoreOK(s) /\ Size(s) = 0
  BY <1>4, SizeType DEF StoreOK
<1>6. x \in Txs /\ x.step = "makeRoot" /\ x.p = t.p /\ x.look = t.look /\ x.from = t.from
      /\ x.id = t.id /\ x.saved = t.saved /\ t.id \in Ids
  BY <1>2 DEF Txs, StepNames, Alone
<1> HIDE DEF x
<1>7. t.p = <<>> /\ t.look = <<>> /\ cache = <<>>
  BY <1>1, <1>2, DirnameType DEF Shape, Suits, ByPath, dirname
<1>8. Started(s, raced, x.look, x)
  <2> DEFINE e == t.look
             p == Prefix(e, t.from)
  <2>1. t.from \in 0 .. Len(e) /\ Leads(store, raced, p, t.id)
    BY <1>2 DEF Suits, Started
  <2>2. p = <<>>
    <3>1. Len(e) = 0
      BY <1>7
    <3>2. t.from = 0
      BY <2>1, <3>1
    <3> QED BY <1>7, <3>2 DEF Prefix
  <2> HIDE DEF e, p
  <2>3. Leads(s, raced, p, t.id)
    BY <1>4, <1>6, <2>1, <2>2, FindRoot DEF Leads
  <2> QED BY <1>6, <2>1, <2>3 DEF Started, e, p
<1>9. Shape(x)
  BY <1>1, <1>2, <1>6, <1>7 DEF Shape, ByPath, OpenSteps
<1>10. Suits(s, raced, cache, cacheOn, x)
  BY <1>4, <1>6, <1>7, <1>8 DEF Suits
<1>11. TxOK(cached, s, raced, cache, cacheOn, x)
  BY <1>2, <1>6, <1>9, <1>10 DEF TxOK
<1> DEFINE c == cache
<1>12. Len(c) = 0 /\ c = cache
  BY <1>7
<1> HIDE DEF c
<1>13. CacheOK(cached, s, raced, c, cacheOn) /\ Grown(c, t.look, c)
  BY <1>2, <1>12 DEF CacheOK, Coherent, Grown
<1>14. tx.step # "close" /\ x.step # "readdir" /\ tx.step \in Alone
       /\ x.step \notin Makers /\ tx.step \notin Makers
  BY <1>1, <1>6 DEF Alone, Makers, OpenSteps
<1>15. Size(s) + One(x.step \in Makers) <= Size(store) + One(tx.step \in Makers)
  BY <1>2, <1>5, <1>14 DEF One
<1>16. AllStarted(s, raced, Tail(queue))
  <2> DEFINE e == <<>>
  <2>1. Len(e) = 0 /\ Tail(queue) = e
    BY <1>3
  <2> HIDE DEF e
  <2>2. AllStarted(s, raced, e)
    BY <2>1 DEF AllStarted
  <2> QED BY <2>1, <2>2
<1>17. Passes
  BY <1>1, <1>2, <1>5, <1>7, <1>12, <1>13, <1>16 DEF Passes, CacheOK, t
<1>18. LetsIn(cached, raced, cache', cacheOn', Tail(queue), x)
  <2>1. x.from = 0 /\ x.id = Root
    BY <1>1, <1>2, <1>6 DEF Shape
  <2> QED BY <1>6, <2>1 DEF LetsIn
<1> QED BY <1>1, <1>6, <1>11, <1>14, <1>15, <1>17, <1>18, FollowedInv

LEMMA makeRootInv ==
    ASSUME AsyncInv, queue # <<>>, makeRootDirectory
    PROVE  AsyncInv'
<1>1. CASE store[Root] # Absent
  <2>1. Fails("ok")
    BY <1>1 DEF makeRootDirectory, Fails
  <2> QED BY <2>1, FailsInv, AnswerFacts
<1>2. CASE store[Root] = Absent
  <2>1. PICK i \in randomUUID(InUse \union {Root}) : Ends(rootOf(store, i), "ok")
    BY <1>2 DEF makeRootDirectory
  <2>2. i \in Ids /\ i # Root
    <3>1. InUse \union {Root} \in SUBSET Ids
      BY InUseType, IdsAssumption
    <3> HIDE DEF InUse
    <3> QED BY <2>1, <3>1, AsyncAssumption
  <2>3. Blank(store) /\ store \in Stores /\ tx.step = "makeRoot"
    BY RunFacts DEF TxRuns, TxOK, Suits, makeRootDirectory, AsyncInv, StoreOK
  <2> DEFINE r == rootOf(store, i)
             c == Known
             look == tx.look
  <2>4. CacheOK(cached, store, raced, c, cacheOn) /\ Learned(store, cache, look, c)
        /\ (~cacheOn => c = cache) /\ tx.look = look /\ look \in Paths
        /\ cache = <<>> /\ look = <<>>
    BY <2>3, RunFacts, DirnameType DEF TxRuns, TxOK, Suits, Shape, ByPath, dirname
  <2>5. /\ store' = r /\ ret' = "ok" /\ cache' = c /\ queue' = Tail(queue)
        /\ cached' = cached /\ cacheOn' = cacheOn /\ raced' = raced
    BY <2>1 DEF Ends
  <2>6. r = rootOf(store, i)
    OBVIOUS
  <2>7. Tail(queue) = <<>>
    BY <2>3, TailFacts DEF Alone
  <2> HIDE DEF r, c, look
  <2>8. Good(r) /\ Size(r) = 1 /\ StoreOK(r)
    BY <2>2, <2>3, <2>6, RootGood, GoodIs
  <2>9. Coherent(r, raced, c)
    <3> SUFFICES ASSUME NEW k \in 1 .. Len(c) PROVE Leads(r, raced, c[k].path, c[k].id)
      BY DEF Coherent
    <3> DEFINE e == cache
    <3>1. Len(e) = 0 /\ e = cache
      BY <2>4
    <3> HIDE DEF e
    <3>2. ~In(e, c[k])
      BY <3>1 DEF In
    <3>3. New(store, look, c[k])
      BY <2>4, <3>1, <3>2 DEF Learned
    <3>4. c[k].path = <<>> /\ FindId(store, c[k].path) = c[k].id
      <4>1. PICK j \in 0 .. Len(look) : c[k].path = Prefix(look, j)
        BY <3>3 DEF New
      <4>2. IsAtOrAbove(c[k].path, look) /\ c[k].path \in Paths
        BY <2>4, <4>1, PrefixAbove, PrefixFacts
      <4> QED BY <2>4, <3>3, <4>2, RootAbove DEF New
    <3> QED BY <3>4, FindRoot DEF Leads
  <2>10. AllStarted(r, raced, Tail(queue)) /\ Cardinality(Making(Tail(queue))) = 0
    <3> DEFINE e == <<>>
    <3>1. Len(e) = 0 /\ Tail(queue) = e
      BY <2>7
    <3> HIDE DEF e
    <3>2. Making(e) = {}
      BY <3>1 DEF Making
    <3>3. AllStarted(r, raced, e)
      BY <3>1 DEF AllStarted
    <3> QED BY <3>1, <3>2, <3>3, FS_EmptySet
  <2>11. Grown(cache, tx.look, c)
    BY <2>4, LearnedGrown
  <2>12. Passes
    BY <2>4, <2>5, <2>8, <2>9, <2>10, <2>11, AnswerFacts DEF Passes, CacheOK
  <2>13. QueueOK(cached, store', raced, cache', cacheOn', Tail(queue))
    BY <2>12, PassedRest
  <2>14. Size(r) + 0 <= MaxNodes
    BY <2>8, AsyncAssumption
  <2> QED BY <2>5, <2>8, <2>10, <2>12, <2>13, <2>14 DEF AsyncInv, Passes
<1> QED BY <1>1, <1>2

(* A request may be rejected. *)
LEMMA RejectsInv ==
    ASSUME AsyncInv, queue # <<>>, Rejects
    PROVE  AsyncInv'
<1>1. CASE tx.step = "rename" /\ Returned(store, "EIO")
  <2>1. StoreOK(store) /\ Size(store) \in Nat
    BY SizeType DEF AsyncInv
  <2>2. Size(store) <= Size(store)
    BY <2>1
  <2> QED BY <1>1, <2>1, <2>2, ReturnedInv, AnswerFacts
<1>2. CASE Fails("EIO")
  BY <1>2, FailsInv, AnswerFacts
<1>3. CASE tx.step \in OpenSteps /\ NotFound
  BY <1>3, NotFoundInv
<1> QED BY <1>1, <1>2, <1>3 DEF Rejects, OpenSteps

LEMMA RunInv ==
    ASSUME AsyncInv, Run
    PROVE  AsyncInv'
<1>1. queue # <<>>
  BY DEF Run
<1>2. CASE Stat \/ Mkdir \/ Unlink \/ ReadDir \/ Rmdir \/ Rename
  BY <1>1, <1>2, StatInv, MkdirInv, UnlinkInv, ReadDirInv, RenameInv
<1>3. CASE OpenStat \/ OpenFile \/ ParentStat \/ Create \/ Truncated \/ Close
  BY <1>1, <1>3, OpenStatInv, OpenFileInv, ParentStatInv, CreateInv, TruncatedInv, CloseInv
<1>4. CASE Clear \/ makeRootDirectory \/ Rejects
  BY <1>1, <1>4, ClearInv, makeRootInv, RejectsInv
<1> QED BY <1>2, <1>3, <1>4 DEF Run

-----------------------------------------------------------------------------
(* Calls. *)
LEMMA CallsInv ==
    ASSUME AsyncInv, NEW y \in Txs, Shape(y), y.saved => cached,
           NEW r, r \in SUBSET UsedPaths, NEW c, NEW on, CacheOK(cached, store, r, c, on),
           Spares(raced, cache, cacheOn, queue, r, c, on),
           y.step \notin {"makeRoot", "rmdir", "clear"},
           y.step = "unlink" => /\ y.p # <<>> /\ Has(c, y.p) => y.p \in r
                                /\ Waiting(y.p) => y.p \in r,
           y.step = "rename" => c = <<>> /\ ~on /\ (cached => "rename" \notin Steps),
           y.step = "readdir" => Steps \subseteq {"close"},
           y.step \in Makers => HasRoom,
           Calls(y, c, on, r)
    PROVE  AsyncInv'
<1> DEFINE b == Begin(on, c, y.look)
           x == Begun(y, b)
<1>1. /\ MayCall /\ cache' = b.cache /\ cacheOn' = on /\ queue' = Append(queue, x)
      /\ store' = store /\ cached' = cached /\ ret' = ret /\ raced' = r
  BY DEF Calls, Begun
<1>2. b = Begin(on, c, y.look) /\ x = Begun(y, b)
  OBVIOUS
<1> HIDE DEF b, x
<1>3. /\ TxOK(cached, store, r, b.cache, on, x) /\ CacheOK(cached, store, r, b.cache, on)
      /\ x.step = y.step /\ x.p = y.p
      /\ \A i \in 1 .. Len(b.cache) : In(c, b.cache[i]) \/ b.cache[i].path = <<>>
      /\ ~on => b.cache = c
      /\ ~on => x.from = 0 /\ x.id = Root
      /\ x.from = 0 \/ Has(b.cache, Prefix(x.look, x.from))
  <2>1. /\ y.step \notin {"clear", "makeRoot"}
        /\ y.step = "rmdir" => EmptyAt(store, y.p)
        /\ y.step \in {"unlink", "rmdir"} /\ y.p # <<>> /\ Has(c, y.p) => y.p \in r
        /\ y.step = "rename" => c = <<>> /\ ~on
    OBVIOUS
  <2> QED BY <1>2, <2>1, BegunTx
<1>4. Spares(raced, cache, cacheOn, queue, r, b.cache, on)
  <2>1. ASSUME NEW i \in 1 .. Len(b.cache)
        PROVE  In(cache, b.cache[i]) \/ b.cache[i].path = <<>>
    <3>1. CASE In(c, b.cache[i])
      <4>1. PICK j \in 1 .. Len(c) : c[j] = b.cache[i]
        BY <3>1 DEF In
      <4>2. In(cache, c[j]) \/ c[j].path = <<>>
        BY <4>1 DEF Spares
      <4> QED BY <4>1, <4>2
    <3> QED BY <1>3, <3>1
  <2>2. cache = <<>> /\ ~cacheOn => b.cache = <<>> /\ ~on
    BY <1>3 DEF Spares
  <2>3. ASSUME NEW z \in raced, z \notin r
        PROVE  /\ ~Has(b.cache, z) \/ z = <<>>
               /\ \A i \in 1 .. Len(queue) : ~IsAtOrAbove(z, queue[i].look)
    <3>1. /\ ~Has(c, z) \/ z = <<>>
          /\ \A i \in 1 .. Len(queue) : ~IsAtOrAbove(z, queue[i].look)
      BY <2>3 DEF Spares
    <3>2. Has(b.cache, z) => Has(c, z) \/ z = <<>>
      BY <1>3 DEF Has, In
    <3> QED BY <3>1, <3>2
  <2> QED BY <2>1, <2>2, <2>3 DEF Spares
<1>5. /\ x.step \in {"rmdir", "clear", "makeRoot"} => Steps = {}
      /\ x.step = "readdir" => Steps \subseteq {"close"}
      /\ x.step \in Makers => HasRoom
  BY <1>3
<1>6. LetsIn(cached, r, b.cache, on, queue, x)
  <2>1. x.step = "unlink" => \A i \in 1 .. Len(queue) : IsAtOrAbove(x.p, queue[i].look) => x.p \in r
    BY <1>3 DEF Waiting
  <2>2. x.step = "rename" /\ cached => \A i \in 1 .. Len(queue) : queue[i].step # "rename"
    BY <1>3 DEF Steps
  <2> QED BY <1>3, <2>1, <2>2 DEF LetsIn
<1> QED BY <1>1, <1>3, <1>4, <1>5, <1>6, CalledInv

(* A cache is as good without the paths it does not have. *)
LEMMA StillCoherent ==
    ASSUME NEW h, NEW s, NEW r, NEW c, NEW on, CacheOK(h, s, r, c, on),
           NEW r2, \A x \in r : x \in r2 \/ ~Has(c, x)
    PROVE  CacheOK(h, s, r2, c, on)
<1>1. \A i \in 1 .. Len(c) : Has(c, c[i].path)
  BY DEF Has
<1> QED BY <1>1 DEF CacheOK, Coherent, Leads

(* What is called is a transaction. *)
LEMMA FreshTx ==
    ASSUME AsyncInv, NEW step \in StepNames, NEW p \in Paths, NEW look \in Paths, NEW cred \in Creds,
           NEW x, x = Fresh(step, p, look, cred)
    PROVE  /\ x \in Txs /\ x.step = step /\ x.p = p /\ x.look = look /\ ~x.saved
           /\ x.from = 0 /\ x.id = Root
<1> DEFINE off == FALSE
           b == Begin(off, cache, look)
<1>1. b = Begin(off, cache, look) /\ off \in BOOLEAN /\ ~off
  OBVIOUS
<1>2. x = AskedBy(Tx(step, p, look, b), cred)
  BY DEF Fresh, AskedBy
<1> HIDE DEF b
<1>3. x = Asked(step, p, look, b, <<>>, "r", {}, ToRead, off, cred)
  BY <1>2, AskedIs
<1> HIDE DEF off
<1>4. CacheIs(cache) /\ Coherent(store, raced, cache)
  BY DEF AsyncInv, CacheOK
<1>5. b.from \in Nat /\ b.id \in Ids /\ b.from = 0 /\ b.id = Root
  BY <1>1, <1>4, BeginFacts
<1>6. x \in Txs /\ x.step = step /\ x.p = p /\ x.look = look /\ x.saved = off
      /\ x.from = b.from /\ x.id = b.id
  BY ONLY <1>1, <1>3, <1>5, AskedTypes, AskedTx, step \in StepNames, p \in Paths,
          look \in Paths, cred \in Creds
<1> QED BY <1>1, <1>5, <1>6

LEMMA NowOK ==
    ASSUME AsyncInv
    PROVE  /\ CacheOK(cached, store, raced, cache, cacheOn)
           /\ Spares(raced, cache, cacheOn, queue, raced, cache, cacheOn)
           /\ raced \in SUBSET UsedPaths
           /\ \A r : CacheOK(cached, store, r, <<>>, FALSE)
<1>1. CacheOK(cached, store, raced, cache, cacheOn) /\ raced \in SUBSET UsedPaths
  BY DEF AsyncInv
<1>2. Spares(raced, cache, cacheOn, queue, raced, cache, cacheOn)
  BY DEF Spares, In
<1> DEFINE e == <<>>
<1>3. e \in Seq(CacheEntries) /\ Len(e) = 0 /\ e = <<>>
  OBVIOUS
<1> HIDE DEF e
<1>4. \A r : CacheIs(e) /\ Coherent(store, r, e)
  BY <1>3, AsyncAssumption DEF CacheIs, Coherent
<1> DEFINE off == FALSE
<1>5. cached \in BOOLEAN /\ off \in BOOLEAN /\ ~off
  BY <1>1 DEF CacheOK
<1> HIDE DEF off
<1>6. \A r : CacheOK(cached, store, r, e, off)
  BY <1>4, <1>5 DEF CacheOK
<1> QED BY <1>1, <1>2, <1>3, <1>6 DEF off

LEMMA CallStatInv ==
    ASSUME AsyncInv, NEW p \in UsedPaths, NEW cred \in Users,
           CallStat(p, cred) \/ CallRmdir(p, cred)
    PROVE  AsyncInv'
<1>1. p \in Paths /\ cred \in Creds
  BY AsyncAssumption
<1>2. CASE CallStat(p, cred)
  <2> DEFINE x == Fresh("stat", p, p, cred)
  <2>1. Calls(x, cache, cacheOn, raced) /\ "stat" \in StepNames
    BY <1>2 DEF CallStat, StepNames, ByPath
  <2>2. x = Fresh("stat", p, p, cred)
    OBVIOUS
  <2> HIDE DEF x
  <2>3. x \in Txs /\ x.step = "stat" /\ x.p = p /\ x.look = p /\ ~x.saved
    BY <1>1, <2>1, <2>2, FreshTx
  <2>4. Shape(x)
    BY <2>3 DEF Shape, ByPath, OpenSteps
  <2>5. x.step \notin Makers
    BY <2>3 DEF Makers, OpenSteps
  <2> QED BY <2>1, <2>3, <2>4, <2>5, NowOK, CallsInv
<1>3. CASE CallRmdir(p, cred)
  <2> DEFINE x == Fresh("readdir", p, p, cred)
  <2>1. Calls(x, cache, cacheOn, raced) /\ "readdir" \in StepNames /\ Steps \subseteq {"close"}
    BY <1>3 DEF CallRmdir, StepNames, ByPath
  <2>2. x = Fresh("readdir", p, p, cred)
    OBVIOUS
  <2> HIDE DEF x
  <2>3. x \in Txs /\ x.step = "readdir" /\ x.p = p /\ x.look = p /\ ~x.saved
    BY <1>1, <2>1, <2>2, FreshTx
  <2>4. Shape(x)
    BY <2>3 DEF Shape, ByPath, OpenSteps
  <2>5. x.step \notin Makers
    BY <2>3 DEF Makers, OpenSteps
  <2> QED BY <2>1, <2>3, <2>4, <2>5, NowOK, CallsInv
<1> QED BY <1>2, <1>3

(* A path that no lookup waits for is dropped for good. *)
LEMMA WaitingFacts ==
    ASSUME NEW p, NEW i \in 1 .. Len(queue), ~Waiting(p)
    PROVE  ~IsAtOrAbove(p, queue[i].look)
BY DEF Waiting

LEMMA CallUnlinkInv ==
    ASSUME AsyncInv, NEW p \in UsedPaths, NEW cred \in Users, CallUnlink(p, cred)
    PROVE  AsyncInv'
<1> DEFINE x == Fresh("unlink", p, dirname(p), cred)
           c == lruRemove(cache, p)
           r == Dropped({p})
<1>1. p \in Paths /\ cred \in Creds /\ dirname(p) \in Paths
  BY AsyncAssumption, DirnameType
<1>2. Calls(x, c, cacheOn, r) /\ "unlink" \in StepNames
  BY DEF CallUnlink, StepNames
<1>3. x = Fresh("unlink", p, dirname(p), cred) /\ c = lruRemove(cache, p)
      /\ r = {z \in raced \union {p} : z \in {p} => Waiting(z)}
  BY DEF Dropped
<1> HIDE DEF x, c, r
<1>4. x \in Txs /\ x.step = "unlink" /\ x.p = p /\ x.look = dirname(p) /\ ~x.saved
  BY <1>1, <1>2, <1>3, FreshTx
<1>5. Shape(x)
  BY <1>4 DEF Shape, ByPath, OpenSteps
<1>6. x.step \notin Makers
  BY <1>4 DEF Makers, OpenSteps
<1>7. /\ CacheOK(cached, store, raced, c, cacheOn) /\ ~Has(c, p)
      /\ (\A i \in 1 .. Len(c) : In(cache, c[i])) /\ (cache = <<>> => c = <<>>)
  BY <1>3, NowOK, DroppedFacts
<1>8. r \in SUBSET UsedPaths /\ (Waiting(p) => p \in r)
      /\ \A z \in raced : z \in r \/ (z = p /\ ~Waiting(p))
  BY <1>3, NowOK
<1>9. CacheOK(cached, store, r, c, cacheOn)
  BY <1>7, <1>8, StillCoherent
<1>10. Spares(raced, cache, cacheOn, queue, r, c, cacheOn)
  BY <1>7, <1>8, WaitingFacts DEF Spares
<1> QED BY <1>2, <1>4, <1>5, <1>6, <1>7, <1>8, <1>9, <1>10, CallsInv

LEMMA CallEmptyInv ==
    ASSUME AsyncInv, NEW cred \in Users, CallEmpty(cred)
    PROVE  AsyncInv'
<1> DEFINE e == <<>>
           x == Fresh("clear", e, e, cred)
<1>1. e \in Paths /\ cred \in Creds /\ dirname(e) = e /\ e = <<>> /\ Len(e) = 0
      /\ Prefix(e, 0) = e
  BY AsyncAssumption, AskedTypes DEF dirname, Prefix
<1>2. /\ "clear" \in StepNames /\ MayCall /\ queue = e /\ cache' = e /\ raced' = {}
      /\ queue' = <<x>> /\ store' = store /\ cached' = cached /\ cacheOn' = cacheOn /\ ret' = ret
  BY DEF CallEmpty, StepNames, Alone
<1>3. x = Fresh("clear", e, e, cred)
  OBVIOUS
<1> HIDE DEF x
<1>4. x \in Txs /\ x.step = "clear" /\ x.p = e /\ x.look = e /\ ~x.saved
      /\ x.from = 0 /\ x.id = Root
  BY <1>1, <1>2, <1>3, FreshTx
<1>5. queue' = Append(queue, x) /\ Steps = {}
  BY <1>2 DEF Steps
<1> HIDE DEF e
<1>6. Shape(x)
  BY <1>1, <1>4 DEF Shape, ByPath, OpenSteps
<1>7. x.step \notin Makers
  BY <1>4 DEF Makers, OpenSteps
<1> DEFINE none == {}
<1>8. none \in SUBSET UsedPaths /\ none = {}
  OBVIOUS
<1> HIDE DEF none
<1>9. CacheOK(cached, store, none, e, cacheOn)
  <2>1. cached \in BOOLEAN /\ cacheOn \in BOOLEAN /\ (~cached => ~cacheOn)
    BY NowOK DEF CacheOK
  <2>2. CacheIs(e) /\ Coherent(store, none, e)
    BY <1>1, NowOK DEF CacheOK
  <2> QED BY <2>1, <2>2 DEF CacheOK
<1>10. Started(store, none, x.look, x)
  <2>1. Leads(store, none, Prefix(x.look, x.from), x.id)
    BY <1>1, <1>4, FindRoot DEF Leads
  <2> QED BY <1>1, <1>4, <2>1 DEF Started
<1>11. Suits(store, none, e, cacheOn, x)
  BY <1>1, <1>4, <1>10 DEF Suits
<1>12. TxOK(cached, store, none, e, cacheOn, x)
  BY <1>4, <1>6, <1>11 DEF TxOK
<1>13. Len(queue) = 0
  BY <1>1, <1>2
<1>14. LetsIn(cached, none, e, cacheOn, queue, x)
  BY <1>4, <1>13 DEF LetsIn
<1>15. Spares(raced, cache, cacheOn, queue, none, e, cacheOn)
  <2>1. ~ \E z : Has(e, z)
    BY <1>1 DEF Has
  <2> QED BY <1>1, <1>13, <2>1 DEF Spares
<1> QED BY <1>2, <1>4, <1>5, <1>7, <1>8, <1>9, <1>12, <1>14, <1>15, CalledInv

(* A call asks for more than the path. *)
WithMode(t, mode) == [t EXCEPT !.mode = mode]

WithTarget(t, q, saved) == [t EXCEPT !.q = q, !.saved = saved]

WithFlag(t, flag, mode, want) == [t EXCEPT !.flag = flag, !.mode = mode, !.want = want]

LEMMA WithModeType ==
    ASSUME NEW t \in Txs, NEW mode \in Perms, NEW x, x = WithMode(t, mode)
    PROVE  x \in Txs /\ x.step = t.step /\ x.p = t.p /\ x.look = t.look /\ x.saved = t.saved
BY DEF Txs, WithMode

LEMMA WithFlagType ==
    ASSUME NEW t \in Txs, NEW flag \in Flags, NEW mode \in Perms, NEW want \in Wants,
           NEW x, x = WithFlag(t, flag, mode, want)
    PROVE  x \in Txs /\ x.step = t.step /\ x.p = t.p /\ x.look = t.look /\ x.saved = t.saved
BY DEF Txs, WithFlag

LEMMA CallMkdirInv ==
    ASSUME AsyncInv, NEW p \in UsedPaths, NEW mode \in Modes, NEW cred \in Users,
           CallMkdir(p, mode, cred)
    PROVE  AsyncInv'
<1> DEFINE y == Fresh("mkdir", p, dirname(p), cred)
           x == WithMode(y, mode)
<1>1. p \in Paths /\ cred \in Creds /\ dirname(p) \in Paths /\ mode \in Perms
  BY AsyncAssumption, DirnameType
<1>2. Calls(x, cache, cacheOn, raced) /\ "mkdir" \in StepNames /\ HasRoom /\ ~IsFileName(p)
  BY DEF CallMkdir, StepNames, WithMode
<1>3. y = Fresh("mkdir", p, dirname(p), cred) /\ x = WithMode(y, mode)
  OBVIOUS
<1> HIDE DEF x, y
<1>4. y \in Txs /\ y.step = "mkdir" /\ y.p = p /\ y.look = dirname(p) /\ ~y.saved
  BY <1>1, <1>2, <1>3, FreshTx
<1>5. x \in Txs /\ x.step = "mkdir" /\ x.p = p /\ x.look = dirname(p) /\ ~x.saved
  BY <1>1, <1>3, <1>4, WithModeType
<1>6. Shape(x)
  BY <1>2, <1>5 DEF Shape, ByPath, OpenSteps
<1> QED BY <1>2, <1>5, <1>6, NowOK, CallsInv

LEMMA CallRenameInv ==
    ASSUME AsyncInv, NEW p \in UsedPaths, NEW q \in UsedPaths, NEW cred \in Users,
           CallRename(p, q, cred)
    PROVE  AsyncInv'
<1> DEFINE y == Fresh("rename", p, dirname(p), cred)
           kept == cacheOn
           x == WithTarget(y, q, kept)
           e == <<>>
           off == FALSE
           r == Dropped(raced)
<1>1. /\ p \in Paths /\ cred \in Creds /\ dirname(p) \in Paths /\ q \in Paths
      /\ off \in BOOLEAN /\ ~off /\ e = <<>>
  BY AsyncAssumption, DirnameType
<1>2. /\ Calls(x, e, off, r) /\ "rename" \in StepNames
      /\ cached => "rename" \notin Steps
      /\ q # <<>> /\ (p # <<>> => IsFileName(p) = IsFileName(q))
  BY DEF CallRename, StepNames, WithTarget
<1>3. y = Fresh("rename", p, dirname(p), cred) /\ x = WithTarget(y, q, kept)
  OBVIOUS
<1>11. r = {z \in raced : Waiting(z)} /\ Len(e) = 0
  BY DEF Dropped
<1>12. CacheOK(cached, store, r, e, off)
  BY NowOK
<1> HIDE DEF x, y, e, off, kept, r
<1>4. y \in Txs /\ y.step = "rename" /\ y.p = p /\ y.look = dirname(p) /\ ~y.saved
  BY <1>1, <1>2, <1>3, FreshTx
<1>5. kept \in BOOLEAN /\ (kept => cached)
  BY <1>1, NowOK DEF CacheOK, kept
<1>6. x \in Txs /\ x.step = "rename" /\ x.p = p /\ x.look = dirname(p) /\ x.q = q
      /\ (x.saved => kept)
  BY <1>1, <1>3, <1>4, <1>5 DEF WithTarget, Txs
<1>7. Shape(x)
  BY <1>2, <1>6 DEF Shape, ByPath, OpenSteps
<1>8. x.step \notin Makers
  BY <1>6 DEF Makers, OpenSteps
<1>9. Spares(raced, cache, cacheOn, queue, r, e, off)
  <2>1. \A z \in raced : z \in r \/ ~Waiting(z)
    BY <1>11
  <2>2. \A z : ~Has(e, z)
    BY <1>11 DEF Has
  <2>3. \A i \in 1 .. Len(e) : In(cache, e[i])
    BY <1>11
  <2> QED BY <1>1, <2>1, <2>2, <2>3, WaitingFacts DEF Spares
<1>10. r \in SUBSET UsedPaths
  BY <1>11, NowOK
<1> QED BY <1>1, <1>2, <1>12, <1>5, <1>6, <1>7, <1>8, <1>9, <1>10, CallsInv

LEMMA CallOpenInv ==
    ASSUME AsyncInv, NEW p \in UsedPaths, NEW flag \in Flags, NEW mode \in Modes,
           NEW want \in Wants, NEW cred \in Users, CallOpen(p, flag, mode, want, cred)
    PROVE  AsyncInv'
<1> DEFINE y == Fresh("openStat", p, p, cred)
           x == WithFlag(y, flag, mode, want)
<1>1. p \in Paths /\ cred \in Creds /\ mode \in Perms
  BY AsyncAssumption
<1>2. Calls(x, cache, cacheOn, raced) /\ "openStat" \in StepNames /\ HasRoom /\ IsFileName(p)
  BY DEF CallOpen, StepNames, ByPath, WithFlag
<1>3. y = Fresh("openStat", p, p, cred) /\ x = WithFlag(y, flag, mode, want)
  OBVIOUS
<1> HIDE DEF x, y
<1>4. y \in Txs /\ y.step = "openStat" /\ y.p = p /\ y.look = p /\ ~y.saved
  BY <1>1, <1>2, <1>3, FreshTx
<1>5. x \in Txs /\ x.step = "openStat" /\ x.p = p /\ x.look = p /\ ~x.saved
  BY <1>1, <1>3, <1>4, WithFlagType
<1>6. Shape(x)
  BY <1>2, <1>5 DEF Shape, ByPath, OpenSteps
<1> QED BY <1>2, <1>5, <1>6, NowOK, CallsInv

LEMMA CallInv ==
    ASSUME AsyncInv, Call
    PROVE  AsyncInv'
<1>1. PICK p \in UsedPaths, cred \in Users :
         \/ CallStat(p, cred)
         \/ CallUnlink(p, cred)
         \/ CallRmdir(p, cred)
         \/ CallEmpty(cred)
         \/ \E q \in UsedPaths : CallRename(p, q, cred)
         \/ \E mode \in Modes :
               \/ CallMkdir(p, mode, cred)
               \/ \E flag \in WriteFlags, x \in Bytes :
                     \/ isTruncating(flag) /\ CallOpen(p, flag, mode, ToWrite(<<x>>), cred)
                     \/ isAppendable(flag) /\ CallOpen(p, flag, mode, ToAppend(<<x>>), cred)
               \/ \E len \in 0 .. MaxLen : CallOpen(p, "r+", mode, ToTruncate(len), cred)
               \/ CallOpen(p, "r", mode, ToRead, cred)
  BY DEF Call
<1>2. CASE CallStat(p, cred) \/ CallUnlink(p, cred) \/ CallRmdir(p, cred) \/ CallEmpty(cred)
  BY <1>2, CallStatInv, CallUnlinkInv, CallEmptyInv
<1>3. CASE \E q \in UsedPaths : CallRename(p, q, cred)
  BY <1>3, CallRenameInv
<1>4. ASSUME NEW mode \in Modes, CallMkdir(p, mode, cred)
      PROVE  AsyncInv'
  BY <1>4, CallMkdirInv
<1>5. ASSUME NEW mode \in Modes, NEW flag \in WriteFlags, NEW x \in Bytes,
             \/ CallOpen(p, flag, mode, ToWrite(<<x>>), cred)
             \/ CallOpen(p, flag, mode, ToAppend(<<x>>), cred)
      PROVE  AsyncInv'
  <2>1. ToWrite(<<x>>) \in Wants /\ ToAppend(<<x>>) \in Wants
    BY DEF ToWrite, ToAppend, Wants
  <2>2. flag \in Flags
    BY AsyncAssumption
  <2> QED BY <1>5, <2>1, <2>2, CallOpenInv
<1>6. ASSUME NEW mode \in Modes, NEW len \in 0 .. MaxLen, CallOpen(p, "r+", mode, ToTruncate(len), cred)
      PROVE  AsyncInv'
  <2>1. ToTruncate(len) \in Wants /\ "r+" \in Flags
    BY AsyncAssumption DEF ToTruncate, Wants, Flags
  <2> QED BY <1>6, <2>1, CallOpenInv
<1>7. ASSUME NEW mode \in Modes, CallOpen(p, "r", mode, ToRead, cred)
      PROVE  AsyncInv'
  BY <1>7, AskedTypes, CallOpenInv
<1> QED BY <1>1, <1>2, <1>3, <1>4, <1>5, <1>6, <1>7

LEMMA InitInv ==
    ASSUME Init
    PROVE  AsyncInv
<1> DEFINE e == [k \in Ids |-> Absent]
<1>1. PICK i \in randomUUID({Root}) : store = rootOf(e, i)
  BY DEF Init
<1>2. i \in Ids /\ i # Root
  BY AsyncAssumption, IdsAssumption
<1>3. e \in Stores /\ Blank(e)
  BY DEF Stores, Blank
<1> HIDE DEF e
<1>4. Good(store) /\ Size(store) = 1
  BY <1>1, <1>2, <1>3, RootGood
<1>5. raced = {} /\ cache = <<>> /\ queue = <<>> /\ ret = "ok" /\ cached \in BOOLEAN /\ cacheOn = cached
  BY DEF Init
<1>6. CacheOK(cached, store, raced, cache, cacheOn)
  <2> DEFINE c == <<>>
  <2>1. c \in Seq(CacheEntries) /\ Len(c) = 0 /\ c = cache
    BY <1>5
  <2> HIDE DEF c
  <2>2. CacheIs(c) /\ Coherent(store, raced, c)
    BY <2>1, AsyncAssumption DEF CacheIs, Coherent
  <2> QED BY <1>5, <2>1, <2>2 DEF CacheOK
<1>7. QueueOK(cached, store, raced, cache, cacheOn, queue)
  <2> DEFINE q == <<>>
  <2>1. q \in Seq(Txs) /\ Len(q) = 0 /\ q = queue
    BY <1>5
  <2> HIDE DEF q
  <2> QED BY <2>1 DEF QueueOK, Ordered, Paired
<1>8. Cardinality(Making(<<>>)) = 0
  <2>1. Making(<<>>) = {}
    BY DEF Making
  <2> QED BY <2>1, FS_EmptySet
<1>9. Size(store) + Cardinality(Making(queue)) <= MaxNodes
  BY <1>4, <1>5, <1>8, AsyncAssumption
<1>10. StoreOK(store)
  BY <1>4, GoodIs
<1> QED BY <1>5, <1>6, <1>7, <1>9, <1>10, AnswerFacts DEF AsyncInv

LEMMA StutterInv ==
    ASSUME AsyncInv, UNCHANGED vars
    PROVE  AsyncInv'
<1>1. /\ store' = store /\ cached' = cached /\ cacheOn' = cacheOn /\ cache' = cache
      /\ queue' = queue /\ ret' = ret /\ raced' = raced
  BY DEF vars
<1> QED BY <1>1 DEF AsyncInv

(* The invariant holds of every reachable state, whatever calls overlap.   *)
THEOREM AsyncInvariant == Spec => []AsyncInv
<1>1. AsyncInv /\ [Next]_vars => AsyncInv'
  BY CallInv, RunInv, StutterInv DEF Next
<1> QED BY <1>1, InitInv, PTL DEF Spec

-----------------------------------------------------------------------------
(* The types of the variables; in particular the cache keeps within its    *)
(* limit and has no path twice (AsyncTypeOK of the runs).                  *)
THEOREM AsyncTypeCorrect == Spec => []AsyncTypeOK
<1>1. AsyncInv => AsyncTypeOK
  <2> SUFFICES ASSUME AsyncInv PROVE AsyncTypeOK
    OBVIOUS
  <2>1. /\ store \in Stores /\ ret \in AsyncErrors \union {"ok"} /\ CacheIs(cache)
        /\ cached \in BOOLEAN /\ cacheOn \in BOOLEAN /\ queue \in Seq(Txs)
        /\ raced \in SUBSET UsedPaths
    BY DEF AsyncInv, StoreOK, Answers, CacheOK, QueueOK
  <2>2. \A i \in 1 .. Len(cache) : cache[i] \in CacheEntries
    BY <2>1 DEF CacheIs
  <2>3. \A i \in 1 .. Len(cache) : cache[i].path \in Paths /\ cache[i].id \in Ids
    BY <2>2 DEF CacheEntries
  <2>4. \A i \in 1 .. Len(queue) : queue[i] \in Txs
    BY <2>1
  <2>5. \A i \in 1 .. Len(queue) :
           queue[i].id \in Ids /\ queue[i].stats \in Stats /\ queue[i].buf \in Seq(Bytes)
    BY <2>4 DEF Txs
  <2> QED BY <2>1, <2>3, <2>5 DEF AsyncTypeOK, CacheIs
<1> QED BY <1>1, AsyncInvariant, PTL

(* What the cache says is so whatever calls are under way, although a      *)
(* lookup that began with an entry goes on, and puts what it found into    *)
(* the cache, when other transactions have run: nothing is read, written   *)
(* or removed through an entry that leads elsewhere by now.  The exception *)
(* is named: of a path that was dropped to be unlinked while a lookup was  *)
(* waiting for it, an entry of a node that is gone may be left             *)
(* (CacheCoherent of the runs).                                            *)
THEOREM CacheStaysCoherent == Spec => []CacheCoherent
<1>1. AsyncInv => CacheCoherent
  BY DEF AsyncInv, CacheOK, Coherent, Leads, Lost, InodeIds, CacheCoherent
<1> QED BY <1>1, AsyncInvariant, PTL

(* A tidy store of no more nodes than allowed leaks nothing. *)
LEMMA GoodLeaksNothing ==
    ASSUME Good(store), Size(store) <= MaxNodes
    PROVE  NoLeak
<1>1. TreePaths = PathsBelow(MaxNodes) /\ MaxNodes \in Nat \ {0}
  BY AsyncAssumption DEF TreePaths, PathsBelow
<1>2. Fits(store, MaxNodes)
  BY DEF Good, Size, Fits
<1> QED BY <1>1, <1>2, NothingOutOfReach DEF NoLeak

(* The tree is whole whatever transactions of other calls come between     *)
(* those of a call, and whichever of them the store rejects: no entry      *)
(* leads to nothing, nothing is left that no path leads to, and a file has *)
(* the size of its data (GraphSound of the runs).                          *)
THEOREM AsyncKeepsTheGraph == Spec => []GraphSound
<1>1. AsyncInv => GraphSound
  <2> SUFFICES ASSUME AsyncInv PROVE NoDangling /\ NoLeak /\ SizeExact
    BY DEF GraphSound
  <2>1. Size(store) <= MaxNodes
    <3>1. Size(store) \in Nat /\ queue \in Seq(Txs)
      BY SizeType DEF AsyncInv, QueueOK
    <3>2. Cardinality(Making(queue)) \in Nat
      BY <3>1, MakingIsFinite
    <3> QED BY <3>1, <3>2, AsyncAssumption DEF AsyncInv
  <2>2. CASE Good(store)
    <3>1. NoDanglingIn(store) /\ Exact(store)
      BY <2>2, SoundMeans DEF Good, Tidy
    <3> QED BY <2>1, <2>2, <3>1, GoodLeaksNothing DEF NoDangling, SizeExact, Exact, ExactAt
  <2>3. CASE Blank(store)
    <3>1. Used(store) = {} /\ InodeIds(store) = {}
      BY <2>3 DEF Blank, Used, InodeIds, Absent
    <3> QED BY <3>1 DEF NoDangling, NoLeak, SizeExact
  <2> QED BY <2>2, <2>3 DEF AsyncInv, StoreOK
<1> QED BY <1>1, AsyncInvariant, PTL

(* What was written is stored by the transaction of the close that nobody  *)
(* awaits, whatever other calls were made and run in the meantime: where   *)
(* its path leads to a file, that file has the bytes and their length and  *)
(* no other key of the store has changed.  The exceptions are named: the   *)
(* store rejected the transaction, or the path or one above it was         *)
(* unlinked while a lookup was waiting for it, and then nothing is stored  *)
(* (CloseStores of the runs).                                              *)
THEOREM ClosingStores == Spec => CloseStores
<1> DEFINE P == Run /\ tx.step = "close" /\ ret' # "EIO" =>
                  LET n == FindId(store, tx.p)
                  IN  n \in InodeIds(store) =>
                         \/ /\ store'[store[n].id] = Data(tx.buf)
                            /\ store'[n].size = Len(tx.buf)
                            /\ \A k \in Ids \ {n, store[n].id} : store'[k] = store[k]
                         \/ store' = store /\ \E r \in raced : IsAtOrAbove(r, tx.p)
<1>1. AsyncInv /\ [Next]_vars => [P]_vars
  <2> DEFINE n == FindId(store, tx.p)
  <2> SUFFICES ASSUME AsyncInv, Run, tx.step = "close", ret' # "EIO", n \in InodeIds(store)
               PROVE  \/ /\ store'[store[n].id] = Data(tx.buf)
                         /\ store'[n].size = Len(tx.buf)
                         /\ \A k \in Ids \ {n, store[n].id} : store'[k] = store[k]
                      \/ store' = store /\ \E r \in raced : IsAtOrAbove(r, tx.p)
    OBVIOUS
  <2>1. queue # <<>> /\ (Close \/ Rejects)
    BY DEF Run, Stat, Mkdir, Unlink, ReadDir, Rmdir, Rename, OpenStat, OpenFile, ParentStat,
           Create, Truncated, Clear, makeRootDirectory
  <2>2. Close
    BY <2>1 DEF Rejects, Fails, Ends
  <2>3. /\ tx.look = tx.p /\ tx.p \in Paths /\ tx.buf \in Seq(Bytes)
        /\ \/ Node = FindId(store, tx.look)
           \/ INodeError(store, Node) = "ENOENT" /\ Prefix(tx.look, tx.from) \in raced
        /\ tx.from \in 0 .. Len(tx.look)
    <3> DEFINE t == tx
    <3>1. /\ t \in Txs /\ t.look = (IF t.step \in ByPath THEN t.p ELSE dirname(t.p))
          /\ \/ Node = FindId(store, t.look)
             \/ INodeError(store, Node) = "ENOENT" /\ Prefix(t.look, t.from) \in raced
          /\ t.from \in 0 .. Len(t.look)
      BY <2>1, RunFacts DEF TxRuns, TxOK, Suits, Started
    <3>2. t.step = "close"
      OBVIOUS
    <3> HIDE DEF t, Node
    <3>3. t.look = t.p /\ t.p \in Paths /\ t.buf \in Seq(Bytes)
      BY <3>1, <3>2 DEF ByPath, Txs
    <3> QED BY <3>1, <3>3 DEF t
  <2>4. CASE INodeError(store, Node) = "ok"
    <3>1. store' = Stored(tx.buf)
      BY <2>2, <2>4 DEF Close, Ends
    <3>2. /\ Node = n
          /\ Stored(tx.buf)[store[Node].id] = Data(tx.buf)
          /\ Stored(tx.buf)[Node].size = Len(tx.buf)
          /\ \A k \in Ids \ {Node, store[Node].id} : Stored(tx.buf)[k] = store[k]
      BY <2>1, <2>3, <2>4, StoredFacts
    <3> QED BY <3>1, <3>2
  <2>5. CASE INodeError(store, Node) # "ok"
    <3>1. store' = store
      BY <2>2, <2>5 DEF Close, Fails, Ends
    <3>2. Node # n
      <4>1. n \in Ids /\ store[n].kind = "inode"
        BY DEF InodeIds
      <4> HIDE DEF n, Node
      <4> QED BY <2>5, <4>1, IdsAssumption DEF INodeError
    <3>3. Prefix(tx.p, tx.from) \in raced
      BY <2>3, <3>2
    <3>4. IsAtOrAbove(Prefix(tx.p, tx.from), tx.p)
      BY <2>3, PrefixAbove
    <3> QED BY <3>1, <3>3, <3>4
  <2> QED BY <2>4, <2>5
<1> QED BY <1>1, AsyncInvariant, PTL DEF Spec, CloseStores

-----------------------------------------------------------------------------
(* The tree that users see: a cleared store has its root too, which is     *)
(* made before anybody asks.                                               *)
TreeOf(s) == [p \in TreePaths |-> IF p = <<>> THEN DirNode ELSE NodeIn(s, p)]

BareTree == [p \in TreePaths |-> IF p = <<>> THEN DirNode ELSE NoNode]

LEMMA TreeMeaning ==
    /\ [p \in TreePaths |-> NodeAt(p)] = TreeOf(store)
    /\ [p \in TreePaths |-> NodeAt(p)]' = TreeOf(store')
    /\ Tree!None = NoNode /\ Tree!Dir = DirNode /\ Tree!Files = FileNodes
    /\ Tree!Bare = BareTree
<1>1. Tree!None = NoNode /\ Tree!Dir = DirNode /\ Tree!Files = FileNodes
  BY DEF Tree!None, NoNode, Tree!Dir, DirNode, Tree!Files, FileNodes
<1>2. [p \in TreePaths |-> NodeAt(p)] = TreeOf(store)
  BY DEF TreeOf, NodeIn, NodeAt, DirNode
<1>3. [p \in TreePaths |-> NodeAt(p)]' = TreeOf(store')
  BY DEF TreeOf, NodeIn, NodeAt, DirNode
<1>4. Tree!Bare = BareTree
  BY <1>1 DEF Tree!Bare, BareTree
<1> QED BY <1>1, <1>2, <1>3, <1>4

LEMMA TreePathsAre ==
    /\ MaxNodes \in Nat \ {0} /\ TreePaths = PathsBelow(MaxNodes)
    /\ TreePaths \subseteq Paths /\ <<>> \in TreePaths
    /\ \A p \in TreePaths : p # <<>> => dirname(p) \in TreePaths
<1>1. MaxNodes \in Nat \ {0} /\ TreePaths = PathsBelow(MaxNodes)
  BY AsyncAssumption DEF TreePaths, PathsBelow
<1> QED BY <1>1, PathsBelowAre

(* No path but the root's leads anywhere in a cleared store.               *)
LEMMA BlankIsBare ==
    ASSUME NEW s \in Stores, Blank(s)
    PROVE  /\ \A x \in Paths : x # <<>> => NodeIn(s, x) = NoNode
           /\ TreeOf(s) = BareTree
<1>1. ASSUME NEW x \in Paths, x # <<>> PROVE NodeIn(s, x) = NoNode
  <2>1. FindId(s, dirname(x)) \in Ids \union Errors
    BY <1>1, DirnameLess, FindType
  <2>2. FindId(s, x) = Child(s, FindId(s, dirname(x)), basename(x))
    BY <1>1, FindStep
  <2>3. FindId(s, x) \in Errors
    BY <2>1, <2>2, BlankFails DEF Child
  <2> QED BY <2>3, IdsAssumption DEF NodeIn, NoNode
<1> QED BY <1>1, TreePathsAre DEF TreeOf, BareTree

LEMMA RootIsBare ==
    ASSUME NEW i \in Ids, i # Root
    PROVE  TreeOf(RootOnly(i)) = BareTree
<1> DEFINE t == RootOnly(i)
<1>1. Tidy(t) /\ \A x \in Paths : x # <<>> => FindId(t, x) \notin Ids
  BY RootOnlyTidy
<1>2. Sound(t)
  BY <1>1 DEF Tidy
<1> HIDE DEF t
<1>3. \A x \in Paths : x # <<>> => NodeIn(t, x) = NoNode
  BY <1>1, <1>2, NodeKinds
<1>4. TreeOf(t) = BareTree
  BY <1>3, TreePathsAre DEF TreeOf, BareTree
<1> QED BY <1>4 DEF t

(* A store in which a path leads somewhere is a whole tree within bounds.  *)
Bounded(s) == StoreOK(s) /\ Size(s) <= MaxNodes

LEMMA BoundedStore ==
    ASSUME NEW s, StoreOK(s), NEW q \in Seq(Txs), Size(s) + Cardinality(Making(q)) <= MaxNodes
    PROVE  Bounded(s)
<1>1. Size(s) \in Nat /\ Cardinality(Making(q)) \in Nat
  BY SizeType, MakingIsFinite
<1>2. Size(s) <= MaxNodes
  BY <1>1, AsyncAssumption
<1> QED BY <1>2 DEF Bounded

LEMMA SomewhereFits ==
    ASSUME NEW s, Bounded(s), NEW p \in Paths, p # <<>>, NodeIn(s, p) # NoNode
    PROVE  Sound(s) /\ Fits(s, MaxNodes) /\ p \in TreePaths
<1>1. Good(s)
  BY BlankIsBare DEF Bounded, StoreOK
<1>2. Sound(s) /\ Fits(s, MaxNodes)
  BY <1>1, GoodIs DEF Bounded, Fits, Size
<1>3. p \in TreePaths
  BY <1>2, NodesFit, TreePathsAre
<1> QED BY <1>2, <1>3

LEMMA OneNode ==
    ASSUME NEW s, NEW t, NEW p \in TreePaths, p # <<>>, Only(s, t, p)
    PROVE  /\ TreeOf(t) = [TreeOf(s) EXCEPT ![p] = NodeIn(t, p)]
           /\ TreeOf(t)[p] = NodeIn(t, p) /\ TreeOf(s)[p] = NodeIn(s, p)
           /\ NodeIn(s, dirname(p)) = DirNode => TreeOf(s)[Tree!Parent(p)] = DirNode
<1>1. TreeOf(t) = [TreeOf(s) EXCEPT ![p] = NodeIn(t, p)]
  BY TreePathsAre DEF TreeOf, Only
<1>2. TreeOf(t)[p] = NodeIn(t, p) /\ TreeOf(s)[p] = NodeIn(s, p)
  BY DEF TreeOf
<1>3. Tree!Parent(p) = dirname(p) /\ dirname(p) \in TreePaths
  BY TreePathsAre DEF Tree!Parent, dirname
<1>4. NodeIn(s, dirname(p)) = DirNode => TreeOf(s)[Tree!Parent(p)] = DirNode
  BY <1>3 DEF TreeOf
<1> QED BY <1>1, <1>2, <1>4

(* What the transactions do to the store is a step of the tree.            *)
LEMMA DirMadeStep ==
    ASSUME Bounded(store'), NEW p \in Paths, DirMade(store, store', p)
    PROVE  Tree!MakeDir(p)
<1>1. p # <<>> /\ NodeIn(store', p) # NoNode
  BY DEF DirMade, DirNode, NoNode
<1>2. p \in TreePaths
  BY <1>1, SomewhereFits
<1> QED BY <1>1, <1>2, OneNode, TreeMeaning DEF DirMade, Tree!MakeDir, Tree!HasPlace

LEMMA FileSetStep ==
    ASSUME Bounded(store'), NEW p \in Paths, FileSet(store, store', p)
    PROVE  Tree!SetFile(p)
<1>1. p # <<>> /\ NodeIn(store', p) # NoNode
  BY DEF FileSet, FileNodes, NoNode
<1>2. p \in TreePaths
  BY <1>1, SomewhereFits
<1> QED BY <1>1, <1>2, OneNode, TreeMeaning DEF FileSet, Tree!SetFile, Tree!HasPlace

LEMMA NodeGoneStep ==
    ASSUME Bounded(store), NEW p \in Paths, NodeGone(store, store', p)
    PROVE  Tree!Remove(p)
<1>1. p # <<>> /\ p \in TreePaths
  BY SomewhereFits DEF NodeGone
<1>2. \A x \in TreePaths : Tree!Within(x, p) /\ x # p => TreeOf(store)[x] = NoNode
  <2> SUFFICES ASSUME NEW x \in TreePaths, Tree!Within(x, p), x # p
               PROVE  TreeOf(store)[x] = NoNode
    OBVIOUS
  <2>1. x \in Paths /\ IsAtOrAbove(p, x)
    BY TreePathsAre DEF Tree!Within, IsAtOrAbove
  <2>2. x # <<>>
    BY <2>1, AboveParent
  <2> QED BY <2>1, <2>2 DEF NodeGone, TreeOf
<1> QED BY <1>1, <1>2, OneNode, TreeMeaning DEF NodeGone, Tree!Remove

LEMMA SameTreeStep ==
    ASSUME \A x \in Paths : NodeIn(store', x) = NodeIn(store, x)
    PROVE  Tree!Refuse
<1>1. TreeOf(store') = TreeOf(store)
  BY TreePathsAre DEF TreeOf
<1> QED BY <1>1, TreeMeaning DEF Tree!Refuse

LEMMA MovedStep ==
    ASSUME Bounded(store), Bounded(store'), NEW p \in Paths, NEW q \in Paths,
           MovedTree(store, store', p, q)
    PROVE  Tree!Move(p, q)
<1> DEFINE s == store
           t == store'
<1>1. /\ p # <<>> /\ q # <<>>
      /\ NodeIn(s, p) # NoNode /\ NodeIn(s, dirname(q)) = DirNode /\ NodeIn(s, q) # DirNode
      /\ ~IsAtOrAbove(p, q)
  BY DEF MovedTree
<1>2. NodeIn(t, q) # NoNode
  <2>1. NodeIn(t, q \o <<>>) = NodeIn(s, p \o <<>>) /\ <<>> \in Paths
    BY PathsBelowAre, TreePathsAre DEF MovedTree
  <2>2. q \o <<>> = q /\ p \o <<>> = p
    BY <2>1, BelowPaths
  <2> QED BY <1>1, <2>1, <2>2
<1>3. Fits(s, MaxNodes) /\ Fits(t, MaxNodes)
  BY <1>1, <1>2, SomewhereFits
<1>4. /\ p \in TreePaths /\ q \in TreePaths
      /\ \A x \in TreePaths :
           NodeIn(t, x) = IF IsAtOrAbove(p, x) THEN NoNode
                          ELSE IF ~IsAtOrAbove(q, x) THEN NodeIn(s, x)
                          ELSE LET y == p \o SubSeq(x, Len(q) + 1, Len(x))
                               IN  IF y \in TreePaths THEN NodeIn(s, y) ELSE NoNode
  BY <1>3, MovedNodes, TreePathsAre
<1>5. \A x \in TreePaths : IsAtOrAbove(q, x) =>
         x # <<>> /\ p \o SubSeq(x, Len(q) + 1, Len(x)) # <<>>
  <2> SUFFICES ASSUME NEW x \in TreePaths, IsAtOrAbove(q, x)
               PROVE  x # <<>> /\ p \o SubSeq(x, Len(q) + 1, Len(x)) # <<>>
    OBVIOUS
  <2>1. x \in Paths
    BY TreePathsAre
  <2>2. SubSeq(x, Len(q) + 1, Len(x)) \in Paths
    BY <2>1, BelowIsConcat
  <2>3. x # <<>>
    BY <1>1, <2>1, AboveParent
  <2>4. p \o SubSeq(x, Len(q) + 1, Len(x)) # <<>>
    <3> DEFINE z == SubSeq(x, Len(q) + 1, Len(x))
               y == p \o z
    <3>1. Len(y) = Len(p) + Len(z) /\ Len(z) \in Nat /\ Len(p) \in Nat /\ Len(p) # 0
      BY <1>1, <2>2, BelowPaths DEF Paths
    <3>2. Len(<<>>) = 0
      OBVIOUS
    <3> HIDE DEF y, z
    <3>3. y # <<>>
      BY <3>1, <3>2
    <3> QED BY <3>3 DEF y, z
  <2> QED BY <2>3, <2>4
<1>6. ~IsAtOrAbove(p, <<>>)
  BY <1>1, AboveParent, PathsBelowAre, TreePathsAre
<1>7. TreeOf(t) = [x \in TreePaths |->
                     IF Tree!Within(x, p) THEN NoNode
                     ELSE IF ~Tree!Within(x, q) THEN TreeOf(s)[x]
                     ELSE LET y == p \o SubSeq(x, Len(q) + 1, Len(x))
                          IN  IF y \in TreePaths THEN TreeOf(s)[y] ELSE NoNode]
  BY <1>4, <1>5, <1>6 DEF TreeOf, Tree!Within, IsAtOrAbove
<1>8. /\ TreeOf(s)[p] # NoNode /\ TreeOf(s)[q] # DirNode /\ ~Tree!Within(q, p)
      /\ TreeOf(s)[Tree!Parent(q)] = DirNode
  BY <1>1, <1>4, TreePathsAre DEF TreeOf, Tree!Within, IsAtOrAbove, Tree!Parent, dirname
<1> QED BY <1>1, <1>7, <1>8, TreeMeaning DEF Tree!Move, Tree!HasPlace

-----------------------------------------------------------------------------
(* What a transaction does to the queue: it leaves it, and may be followed *)
(* by another one; and to the store.                                       *)
Advances ==
    \/ queue' = Tail(queue)
    \/ \E x : queue' = Append(Tail(queue), x) \/ queue' = Tail(queue) \o <<x>>

LEMMA AdvancingIsNoCall ==
    ASSUME AsyncInv, queue # <<>>, Advances
    PROVE  ~(Len(queue') > Len(queue))
<1>1. Tail(queue) \in Seq(Txs) /\ Len(Tail(queue)) = Len(queue) - 1 /\ Len(queue) \in Nat
  BY RestFacts DEF AsyncInv, QueueOK
<1>2. ASSUME NEW x
      PROVE  Len(Append(Tail(queue), x)) = Len(queue) /\ Len(Tail(queue) \o <<x>>) = Len(queue)
  <2>1. Tail(queue) \in Seq(Txs \union {x}) /\ x \in Txs \union {x}
    BY <1>1
  <2> DEFINE r == Tail(queue)
             X == Txs \union {x}
  <2>2. r \in Seq(X) /\ x \in X
    BY <2>1
  <2>3. Len(r) = Len(queue) - 1 /\ Len(queue) \in Nat
    BY <1>1
  <2> HIDE DEF r, X
  <2>4. Len(Append(r, x)) = Len(r) + 1 /\ r \o <<x>> = Append(r, x)
    BY <2>2, MoreFacts
  <2>5. Len(Append(r, x)) = Len(queue) /\ Len(r \o <<x>>) = Len(queue)
    BY <2>3, <2>4
  <2> QED BY <2>5 DEF r
<1>3. CASE queue' = Tail(queue)
  BY <1>1, <1>3
<1>4. CASE \E x : queue' = Append(Tail(queue), x) \/ queue' = Tail(queue) \o <<x>>
  <2>1. Len(queue') = Len(queue)
    BY <1>2, <1>4
  <2> QED BY <1>1, <2>1
<1> QED BY <1>3, <1>4 DEF Advances

LEMMA EndsSo ==
    ASSUME NEW st, NEW e, Ends(st, e) \/ Returned(st, e)
    PROVE  store' = st /\ ret' = e /\ Advances
BY DEF Ends, Returned, Advances

LEMMA FailsSo ==
    ASSUME NEW e, Fails(e)
    PROVE  store' = store /\ ret' = e /\ Advances
BY EndsSo DEF Fails

LEMMA GoesOnSo ==
    ASSUME NEW st, NEW next, GoesOn(st, next)
    PROVE  store' = st /\ Advances
BY DEF GoesOn, Advances

LEMMA NotFoundSo ==
    ASSUME NotFound
    PROVE  store' = store /\ Advances
BY FailsSo, GoesOnSo DEF NotFound

LEMMA UseSo ==
    ASSUME NEW st, NEW stats, NEW b, Use(st, stats, b)
    PROVE  store' = st /\ Advances
<1>1. CASE tx.want.do = "read"
  <2>1. Ends(st, "ok")
    BY <1>1 DEF Use
  <2> QED BY <2>1, EndsSo
<1>2. CASE tx.want.do # "read"
  BY <1>2 DEF Use, Advances
<1> QED BY <1>1, <1>2

LEMMA RejectsSo ==
    ASSUME Rejects
    PROVE  /\ store' = store /\ Advances
           /\ tx.step \in {"mkdir", "unlink", "rmdir", "rename"} => ret' # "ok"
<1>1. CASE NotFound /\ tx.step \notin {"mkdir", "unlink", "rmdir", "rename"}
  BY <1>1, NotFoundSo
<1>2. CASE Returned(store, "EIO") \/ Fails("EIO")
  <2>1. store' = store /\ Advances /\ ret' = "EIO"
    BY <1>2, EndsSo, FailsSo
  <2> QED BY <2>1
<1> QED BY <1>1, <1>2 DEF Rejects

LEMMA MkdirDoes ==
    ASSUME AsyncInv, queue # <<>>, Mkdir
    PROVE  /\ Advances
           /\ \/ store' = store /\ ret' # "ok"
              \/ CreatedAt(store, store', tx.p, "dir") /\ ret' = "ok"
<1>1. CASE NewFileError # "ok"
  <2>1. Fails(NewFileError)
    BY <1>1 DEF Mkdir
  <2> QED BY <1>1, <2>1, FailsSo
<1>2. CASE NewFileError = "ok"
  <2> DEFINE data == Listing(NoEntries)
             type == "dir"
  <2>1. PICK new \in NewIds : Ends(commitNewFile(type, data, new), "ok")
    BY <1>2 DEF Mkdir
  <2> DEFINE st == commitNewFile(type, data, new)
  <2>2. /\ data = IF type = "dir" THEN Listing(NoEntries) ELSE Data(<<>>)
        /\ tx.step = IF type = "dir" THEN "mkdir" ELSE "create"
        /\ st = commitNewFile(type, data, new) /\ type \in Types
    BY DEF Mkdir, Types
  <2>3. store' = st /\ ret' = "ok" /\ Advances
    BY <2>1, EndsSo
  <2>4. type = "dir"
    OBVIOUS
  <2> HIDE DEF data, type, st
  <2>5. CreatedAt(store, st, tx.p, type)
    BY <1>2, <2>2, CommitFacts
  <2> QED BY <2>3, <2>4, <2>5
<1> QED BY <1>1, <1>2

LEMMA removeEntryDoes ==
    ASSUME AsyncInv, queue # <<>>, Unlink \/ Rmdir
    PROVE  /\ Advances
           /\ \/ store' = store /\ ret' # "ok"
              \/ TakenOutAt(store, store', tx.p) /\ ret' = "ok"
<1>1. PICK isDir \in BOOLEAN :
         tx.step = (IF isDir THEN "rmdir" ELSE "unlink") /\ removeEntry(isDir)
  BY Zenon DEF Unlink, Rmdir
<1>2. CASE RemoveError(isDir) # "ok"
  <2>1. Fails(RemoveError(isDir))
    BY <1>1, <1>2 DEF removeEntry
  <2> HIDE DEF RemoveError
  <2> QED BY <1>2, <2>1, FailsSo
<1>3. CASE RemoveError(isDir) = "ok"
  <2>1. Ends(Removed, "ok")
    BY <1>1, <1>3 DEF removeEntry
  <2>2. TakenOutAt(store, Removed, tx.p)
    BY <1>1, <1>3, RemovedFacts
  <2>3. store' = Removed /\ ret' = "ok" /\ Advances
    BY <2>1, EndsSo
  <2> QED BY <2>2, <2>3
<1> QED BY <1>2, <1>3

LEMMA RenameAdvances ==
    ASSUME Rename
    PROVE  Advances
<1>1. ASSUME NEW st, NEW e, Returned(st, e) PROVE Advances
  BY <1>1, EndsSo
<1>2. ASSUME NEW d, NEW e, Moved(d, e) PROVE Advances
  BY <1>1, <1>2 DEF Moved
<1> QED BY <1>1, <1>2 DEF Rename

LEMMA CreateDoes ==
    ASSUME AsyncInv, queue # <<>>, Create
    PROVE  Advances /\ (store' = store \/ CreatedAt(store, store', tx.p, "file"))
<1>1. CASE NewFileError # "ok"
  <2>1. Fails(NewFileError)
    BY <1>1 DEF Create
  <2> QED BY <2>1, FailsSo
<1>2. CASE NewFileError = "ok"
  <2> DEFINE data == Data(<<>>)
             type == "file"
  <2>1. PICK new \in NewIds, stats \in {[mode |-> tx.mode, uid |-> tx.cred.uid]} :
            Use(commitNewFile(type, data, new), stats, <<>>)
    BY <1>2 DEF Create
  <2> DEFINE st == commitNewFile(type, data, new)
  <2>2. /\ data = IF type = "dir" THEN Listing(NoEntries) ELSE Data(<<>>)
        /\ tx.step = IF type = "dir" THEN "mkdir" ELSE "create"
        /\ st = commitNewFile(type, data, new) /\ type \in Types
    BY DEF Create, Types
  <2>3. store' = st /\ Advances
    BY <2>1, UseSo
  <2>4. type = "file"
    OBVIOUS
  <2> HIDE DEF data, type, st
  <2>5. CreatedAt(store, st, tx.p, type)
    BY <1>2, <2>2, CommitFacts
  <2> QED BY <2>3, <2>4, <2>5
<1> QED BY <1>1, <1>2

LEMMA StoringDoes ==
    ASSUME AsyncInv, queue # <<>>, Truncated \/ Close
    PROVE  Advances /\ (store' = store \/ RefilledAt(store, store', tx.p))
<1>1. CASE NotFound \/ Fails(INodeError(store, Node))
  <2> DEFINE e == INodeError(store, Node)
  <2> HIDE DEF e
  <2>1. NotFound \/ Fails(e)
    BY <1>1 DEF e
  <2> QED BY <2>1, NotFoundSo, FailsSo
<1>2. ASSUME INodeError(store, Node) = "ok", NEW b \in Seq(Bytes), store' = Stored(b)
      PROVE  RefilledAt(store, store', tx.p)
  <2>1. tx.step \in {"truncated", "close"}
    BY DEF Truncated, Close
  <2> QED BY <1>2, <2>1, StoredFacts
<1>3. CASE INodeError(store, Node) = "ok" /\ Truncated
  <2>1. Use(Stored(<<>>), tx.stats, <<>>)
    BY <1>3 DEF Truncated
  <2>2. store' = Stored(<<>>) /\ Advances
    BY <2>1, UseSo
  <2>3. <<>> \in Seq(Bytes)
    OBVIOUS
  <2> QED BY <1>2, <1>3, <2>2, <2>3
<1>4. CASE INodeError(store, Node) = "ok" /\ Close
  <2> DEFINE b == tx.buf
  <2>1. Ends(Stored(b), "ok")
    BY <1>4 DEF Close
  <2>2. b \in Seq(Bytes)
    <3> DEFINE t == tx
    <3>1. t \in Txs
      BY RunFacts DEF TxRuns
    <3> HIDE DEF t
    <3>2. t.buf \in Seq(Bytes)
      BY <3>1 DEF Txs
    <3> QED BY <3>2 DEF t
  <2>3. store' = Stored(b) /\ Advances
    BY <2>1, EndsSo
  <2> QED BY <1>2, <1>4, <2>2, <2>3
<1>5. INodeError(store, Node) # "ok" => NotFound \/ Fails(INodeError(store, Node))
  BY DEF Truncated, Close
<1> QED BY <1>1, <1>3, <1>4, <1>5

LEMMA ClearDoes ==
    ASSUME Clear
    PROVE  Advances /\ Blank(store')
BY DEF Clear, Advances, Blank

LEMMA makeRootDoes ==
    ASSUME AsyncInv, queue # <<>>, makeRootDirectory
    PROVE  /\ Advances
           /\ \/ store' = store
              \/ Blank(store) /\ store \in Stores
                 /\ \E i \in Ids \ {Root} : store' = RootOnly(i)
<1>1. CASE store[Root] # Absent
  <2>1. Ends(store, "ok")
    BY <1>1 DEF makeRootDirectory
  <2> QED BY <2>1, EndsSo
<1>2. CASE store[Root] = Absent
  <2>1. PICK i \in randomUUID(InUse \union {Root}) : Ends(rootOf(store, i), "ok")
    BY <1>2 DEF makeRootDirectory
  <2>2. i \in Ids /\ i # Root
    <3>1. InUse \union {Root} \in SUBSET Ids
      BY InUseType, IdsAssumption
    <3> HIDE DEF InUse
    <3> QED BY <2>1, <3>1, AsyncAssumption
  <2>3. Blank(store) /\ store \in Stores
    BY RunFacts DEF TxRuns, TxOK, Suits, makeRootDirectory, AsyncInv, StoreOK
  <2>4. store' = rootOf(store, i) /\ Advances
    BY <2>1, EndsSo
  <2>5. rootOf(store, i) = RootOnly(i)
    BY <2>2, <2>3, RootGood
  <2> QED BY <2>2, <2>3, <2>4, <2>5
<1> QED BY <1>1, <1>2

(* The steps that only look. *)
Looks == {"stat", "readdir", "openStat", "openFile", "parentStat"}

LEMMA LookingDoes ==
    ASSUME Stat \/ ReadDir \/ OpenStat \/ OpenFile \/ ParentStat
    PROVE  store' = store /\ Advances
<1>1. ASSUME NEW e, Fails(e) PROVE store' = store /\ Advances
  BY <1>1, FailsSo
<1>2. ASSUME NEW next, GoesOn(store, next) PROVE store' = store /\ Advances
  BY <1>2, GoesOnSo
<1>3. CASE Stat
  BY <1>1, <1>3 DEF Stat
<1>4. CASE ReadDir
  <2>1. ASSUME NEW p, NEW cred, DirEntry(p, cred) PROVE store' = store /\ Advances
    BY <2>1 DEF DirEntry, Advances
  <2> QED BY <1>1, <1>4, <2>1 DEF ReadDir
<1>5. CASE OpenStat
  BY <1>2, <1>5, NotFoundSo DEF OpenStat
<1>6. CASE OpenFile
  BY <1>1, <1>2, <1>6, NotFoundSo, UseSo DEF OpenFile
<1>7. CASE ParentStat
  BY <1>1, <1>2, <1>7 DEF ParentStat
<1> QED BY <1>3, <1>4, <1>5, <1>6, <1>7

-----------------------------------------------------------------------------
(* Each transaction as a step of the tree.                                 *)
LEMMA CreatedStep ==
    ASSUME Bounded(store), Bounded(store'), NEW p \in Paths, NEW type \in Types,
           CreatedAt(store, store', p, type)
    PROVE  IF type = "dir" THEN Tree!MakeDir(p) ELSE Tree!SetFile(p)
<1>1. Sound(store)
  <2>1. FindId(store, dirname(p)) \in DirIds(store)
    BY DEF CreatedAt, Addable
  <2>2. ~Blank(store)
    BY <2>1 DEF DirIds, InodeIds, Blank, Absent
  <2> QED BY <2>2, GoodIs DEF Bounded, StoreOK
<1>2. /\ p # <<>> /\ NodeIn(store, dirname(p)) = DirNode /\ NodeIn(store, p) = NoNode
      /\ NodeIn(store', p) \in IF type = "dir" THEN {DirNode} ELSE FileNodes
      /\ Only(store, store', p)
  BY <1>1, CreatedTree
<1>3. CASE type = "dir"
  BY <1>2, <1>3, DirMadeStep DEF DirMade
<1>4. CASE type # "dir"
  <2>1. NoNode # DirNode
    BY DEF NoNode, DirNode
  <2> QED BY <1>2, <1>4, <2>1, FileSetStep DEF FileSet
<1> QED BY <1>3, <1>4

LEMMA TakenOutStep ==
    ASSUME Bounded(store), NEW p \in Paths, TakenOutAt(store, store', p)
    PROVE  Tree!Remove(p)
<1>1. ~Blank(store)
  BY DEF TakenOutAt, InodeIds, Blank, Absent
<1>2. Sound(store)
  BY <1>1, GoodIs DEF Bounded, StoreOK
<1>3. NodeGone(store, store', p)
  BY <1>2, TakenOutTree DEF NodeGone
<1> QED BY <1>3, NodeGoneStep

LEMMA RefilledStep ==
    ASSUME Bounded(store), Bounded(store'), NEW p \in Paths, RefilledAt(store, store', p)
    PROVE  Tree!SetFile(p)
<1>1. ~Blank(store)
  BY DEF RefilledAt, InodeIds, Blank, Absent
<1>2. Sound(store)
  BY <1>1, GoodIs DEF Bounded, StoreOK
<1>3. FileSet(store, store', p)
  BY <1>2, RefilledTree DEF FileSet, FileNodes, DirNode
<1> QED BY <1>3, FileSetStep

LEMMA RehungStep ==
    ASSUME Bounded(store), Bounded(store'), NEW p \in Paths, NEW q \in Paths,
           RehungAt(store, store', p, q)
    PROVE  IF p # q THEN Tree!Move(p, q) ELSE Tree!Refuse
<1>1. ~Blank(store)
  BY DEF RehungAt, DirIds, InodeIds, Blank, Absent
<1>2. Sound(store)
  BY <1>1, GoodIs DEF Bounded, StoreOK
<1>3. CASE p # q
  BY <1>2, <1>3, RehungTree, MovedStep
<1>4. CASE p = q
  BY <1>2, <1>4, RehungInPlace, SameTreeStep
<1> QED BY <1>3, <1>4

LEMMA RunTreeStep ==
    ASSUME AsyncInv, Run
    PROVE  TreeStep
<1> DEFINE t == tx
<1>1. queue # <<>> /\ AsyncInv'
  BY RunInv DEF Run
<1>2. Bounded(store) /\ Bounded(store')
  <2>1. /\ StoreOK(store) /\ queue \in Seq(Txs)
        /\ Size(store) + Cardinality(Making(queue)) <= MaxNodes
    BY DEF AsyncInv, QueueOK
  <2>2. /\ StoreOK(store') /\ queue' \in Seq(Txs)
        /\ Size(store') + Cardinality(Making(queue')) <= MaxNodes
    BY <1>1 DEF AsyncInv, QueueOK
  <2> QED BY <2>1, <2>2, BoundedStore
<1>3. t \in Txs /\ t.p \in Paths /\ t.q \in Paths
  <2>1. t \in Txs
    BY <1>1, RunFacts DEF TxRuns
  <2> HIDE DEF t
  <2> QED BY <2>1 DEF Txs
<1>4. store' = store => UNCHANGED store
  OBVIOUS
<1>5. Advances => ~(Len(queue') > Len(queue))
  BY <1>1, AdvancingIsNoCall
<1>6. ASSUME Rejects \/ Stat \/ ReadDir \/ OpenStat \/ OpenFile \/ ParentStat
      PROVE  /\ Advances /\ UNCHANGED store
             /\ t.step \in {"mkdir", "unlink", "rmdir", "rename"} => ret' # "ok"
  <2>1. CASE Rejects
    BY <1>4, <2>1, RejectsSo
  <2>2. CASE Stat \/ ReadDir \/ OpenStat \/ OpenFile \/ ParentStat
    <3>1. t.step \notin {"mkdir", "unlink", "rmdir", "rename"}
      BY <2>2 DEF Stat, ReadDir, OpenStat, OpenFile, ParentStat
    <3> QED BY <1>4, <2>2, <3>1, LookingDoes
  <2> QED BY <1>6, <2>1, <2>2
<1>7. CASE Mkdir
  <2>1. t.step = "mkdir"
    BY <1>7 DEF Mkdir
  <2>2. Advances /\ IF ret' = "ok" THEN Tree!MakeDir(t.p) ELSE UNCHANGED store
    <3> DEFINE type == "dir"
    <3>1. \/ store' = store /\ ret' # "ok"
          \/ CreatedAt(store, store', t.p, type) /\ ret' = "ok"
      BY <1>1, <1>7, MkdirDoes
    <3>2. Advances
      BY <1>1, <1>7, MkdirDoes
    <3>3. type \in Types /\ type = "dir"
      BY DEF Types
    <3> HIDE DEF type, t
    <3> QED BY <1>2, <1>3, <1>4, <3>1, <3>2, <3>3, CreatedStep
  <2> QED BY <1>1, <1>5, <2>1, <2>2 DEF TreeStep
<1>8. CASE Unlink \/ Rmdir
  <2>1. t.step \in {"unlink", "rmdir"}
    BY <1>8 DEF Unlink, Rmdir
  <2>2. /\ Advances
        /\ \/ store' = store /\ ret' # "ok"
           \/ TakenOutAt(store, store', t.p) /\ ret' = "ok"
    BY <1>1, <1>8, removeEntryDoes
  <2> HIDE DEF t
  <2>3. IF ret' = "ok" THEN Tree!Remove(t.p) ELSE UNCHANGED store
    BY <1>2, <1>3, <1>4, <2>2, TakenOutStep
  <2> QED BY <1>1, <1>5, <2>1, <2>2, <2>3 DEF TreeStep, t
<1>9. CASE Rename
  <2>1. t.step = "rename"
    BY <1>9 DEF Rename
  <2>2. \/ store' = store /\ ret' # "ok"
        \/ RehungAt(store, store', t.p, t.q) /\ ret' = "ok"
    BY <1>1, <1>9, RenameInv
  <2>3. Advances
    BY <1>9, RenameAdvances
  <2> HIDE DEF t
  <2>4. IF ret' # "ok" THEN UNCHANGED store
        ELSE IF t.p # t.q THEN Tree!Move(t.p, t.q) ELSE Tree!Refuse
    BY <1>2, <1>3, <1>4, <2>2, RehungStep
  <2> QED BY <1>1, <1>5, <2>1, <2>3, <2>4 DEF TreeStep, t
<1>10. CASE Create
  <2>1. t.step = "create"
    BY <1>10 DEF Create
  <2>2. Advances /\ (UNCHANGED store \/ Tree!SetFile(t.p))
    <3> DEFINE type == "file"
    <3>1. store' = store \/ CreatedAt(store, store', t.p, type)
      BY <1>1, <1>10, CreateDoes
    <3>2. Advances
      BY <1>1, <1>10, CreateDoes
    <3>3. type \in Types /\ type # "dir"
      BY DEF Types
    <3> HIDE DEF type, t
    <3> QED BY <1>2, <1>3, <1>4, <3>1, <3>2, <3>3, CreatedStep
  <2> QED BY <1>1, <1>5, <2>1, <2>2 DEF TreeStep
<1>11. CASE Truncated \/ Close
  <2>1. t.step \in {"truncated", "close"}
    BY <1>11 DEF Truncated, Close
  <2>2. Advances /\ (store' = store \/ RefilledAt(store, store', t.p))
    BY <1>1, <1>11, StoringDoes
  <2> HIDE DEF t
  <2>3. UNCHANGED store \/ Tree!SetFile(t.p)
    BY <1>2, <1>3, <1>4, <2>2, RefilledStep
  <2> QED BY <1>1, <1>5, <2>1, <2>2, <2>3 DEF TreeStep, t
<1>12. CASE Clear
  <2>1. t.step = "clear"
    BY <1>12 DEF Clear
  <2>2. Advances /\ Blank(store') /\ store' \in Stores
    BY <1>2, <1>12, ClearDoes DEF Bounded, StoreOK
  <2>3. Tree!Clear
    BY <2>2, BlankIsBare, TreeMeaning DEF Tree!Clear
  <2> QED BY <1>1, <1>5, <2>1, <2>2, <2>3 DEF TreeStep
<1>13. CASE makeRootDirectory
  <2>1. t.step = "makeRoot"
    BY <1>13 DEF makeRootDirectory
  <2>2. /\ Advances
        /\ \/ store' = store
           \/ Blank(store) /\ store \in Stores /\ \E i \in Ids \ {Root} : store' = RootOnly(i)
    BY <1>1, <1>13, makeRootDoes
  <2>3. ASSUME Blank(store), store \in Stores, NEW i \in Ids \ {Root}, store' = RootOnly(i)
        PROVE  Tree!Refuse
    BY <2>3, BlankIsBare, RootIsBare, TreeMeaning DEF Tree!Refuse
  <2>4. Tree!Refuse
    BY <2>2, <2>3, SameTreeStep
  <2> QED BY <1>1, <1>5, <2>1, <2>2, <2>4 DEF TreeStep
<1>14. CASE Rejects \/ Stat \/ ReadDir \/ OpenStat \/ OpenFile \/ ParentStat
  <2>1. /\ Advances /\ UNCHANGED store
        /\ t.step \in {"mkdir", "unlink", "rmdir", "rename"} => ret' # "ok"
    BY <1>6, <1>14
  <2>2. t.step \in StepNames
    <3>1. t \in Txs
      BY <1>3
    <3> HIDE DEF t
    <3> QED BY <3>1 DEF Txs
  <2>3. Tree!Refuse
    BY <2>1, SameTreeStep
  <2> HIDE DEF t
  <2> QED BY <1>1, <1>5, <2>1, <2>2, <2>3 DEF TreeStep, t
<1> QED BY <1>7, <1>8, <1>9, <1>10, <1>11, <1>12, <1>13, <1>14 DEF Run

LEMMA CallTreeStep ==
    ASSUME AsyncInv, Call
    PROVE  TreeStep
<1> DEFINE Asks == store' = store /\ \E x : queue' = Append(queue, x)
<1>1. ASSUME NEW y, NEW c, NEW on, NEW r, Calls(y, c, on, r) PROVE Asks
  BY <1>1 DEF Calls
<1> HIDE DEF Asks
<1>2. ASSUME NEW p, NEW cred,
             CallStat(p, cred) \/ CallUnlink(p, cred) \/ CallRmdir(p, cred) \/ CallEmpty(cred)
      PROVE  Asks
  <2>1. CASE CallEmpty(cred)
    <3>1. store' = store /\ queue = <<>> /\ queue' = <<Fresh("clear", <<>>, <<>>, cred)>>
      BY <2>1 DEF CallEmpty
    <3>2. <<Fresh("clear", <<>>, <<>>, cred)>> = Append(<<>>, Fresh("clear", <<>>, <<>>, cred))
      OBVIOUS
    <3> QED BY <3>1, <3>2 DEF Asks
  <2> QED BY <1>1, <1>2, <2>1 DEF CallStat, CallUnlink, CallRmdir
<1>3. ASSUME NEW p, NEW mode, NEW cred, CallMkdir(p, mode, cred) PROVE Asks
  BY <1>1, <1>3 DEF CallMkdir
<1>4. ASSUME NEW p, NEW q, NEW cred, CallRename(p, q, cred) PROVE Asks
  BY <1>1, <1>4 DEF CallRename
<1>5. ASSUME NEW p, NEW flag, NEW mode, NEW want, NEW cred, CallOpen(p, flag, mode, want, cred)
      PROVE  Asks
  BY <1>1, <1>5 DEF CallOpen
<1>6. Asks
  BY <1>2, <1>3, <1>4, <1>5 DEF Call
<1>7. queue \in Seq(Txs)
  BY DEF AsyncInv, QueueOK
<1>8. Len(queue') > Len(queue)
  BY <1>6, <1>7 DEF Asks
<1>9. UNCHANGED store
  BY <1>6 DEF Asks
<1> QED BY <1>8, <1>9 DEF TreeStep

(* To its users the file system is a directory tree although its calls     *)
(* take several transactions with those of other calls between them: each  *)
(* transaction makes the one change its call is for, if and only if the    *)
(* call answers that it was done (TreeSteps of the runs).                  *)
THEOREM TransactionsChangeATree == Spec => TreeSteps
<1>1. AsyncInv /\ [Next]_vars => [TreeStep]_vars
  BY RunTreeStep, CallTreeStep DEF Next
<1> QED BY <1>1, AsyncInvariant, PTL DEF Spec, TreeSteps
=============================================================================
