----------------------------- MODULE MCAsyncKVFS ----------------------------
(* AsyncKVFS for TLC; ids as in MCSyncKVFS, the first that is not used.    *)
EXTENDS AsyncKVFS

CONSTANTS k0, k1, k2, k3, k4, k5, k6, k7, nd, ne, nf

MCIds == {k0, k1, k2, k3, k4, k5, k6, k7}

Order == <<k1, k2, k3, k4, k5, k6, k7>>

FirstUnused(S) ==
    LET i == CHOOSE j \in 1 .. Len(Order) + 1 :
                /\ j <= Len(Order) => Order[j] \in Ids \ S
                /\ \A l \in 1 .. j - 1 : Order[l] \notin Ids \ S
    IN  IF i > Len(Order) THEN {} ELSE {Order[i]}

MCNames     == {nd, ne, nf}
MCPaths     == {<<nd>>, <<ne>>, <<nf>>, <<nd, nf>>}
MCFileNames == {nf}
RootUser    == {[uid |-> 0, gid |-> 0, euid |-> 0, egid |-> 0]}
Mode644     == {{2, 5, 7, 8}}

(* States that differ only in which ids their nodes got, or in the last    *)
(* answer, which the properties read of the step that gives it, are one.   *)
(* A node is known by the path that leads to it; one that is gone has none *)
(* and its id is not given again.  (Two directories can change their names *)
(* for each other's, so nothing is ever found but below MCPlaces.)         *)
MCPlaces == MCPaths \union {<<>>, <<ne, nf>>}

MCView ==
    LET at      == [p \in MCPlaces |-> FindId(store, p)]
        home(n) == {p \in MCPlaces : at[p] = n}
        seen(n) == IF n \in InodeIds(store) THEN <<[store[n] EXCEPT !.id = Root], Text(store[store[n].id])>>
                   ELSE <<>>
    IN  <<[p \in MCPlaces |-> seen(at[p])], Cardinality(Used(store)), cached, cacheOn,
          [i \in DOMAIN cache |-> <<cache[i].path, home(cache[i].id)>>],
          [i \in DOMAIN queue |-> [queue[i] EXCEPT !.id = home(@)]], raced>>
=============================================================================
