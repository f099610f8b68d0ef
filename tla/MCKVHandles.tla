----------------------------- MODULE MCKVHandles ----------------------------
(* KVHandles for TLC; ids as in MCSyncKVFS, which always gives the first   *)
(* that is not used.                                                       *)
EXTENDS KVHandles, TLC

CONSTANTS k0, k1, k2, k3, k4, k5, na, nb

MCIds == {k0, k1, k2, k3, k4, k5}

Order == <<k1, k2, k3, k4, k5>>

FirstUnused(S) ==
    LET i == CHOOSE j \in 1 .. Len(Order) + 1 :
                /\ j <= Len(Order) => Order[j] \in Ids \ S
                /\ \A l \in 1 .. j - 1 : Order[l] \notin Ids \ S
    IN  IF i > Len(Order) THEN {} ELSE {Order[i]}

(* Names are only compared with each other. *)
MCNames     == {na, nb}
Interchange == Permutations(MCNames)

MCBytes    == {0, 1}
MCContents == {<<1>>}
RootUser   == {[uid |-> 0, gid |-> 0, euid |-> 0, egid |-> 0]}
Mode644    == {{2, 5, 7, 8}}

(* The last answer, which no property reads, does not make a state new.    *)
MCView == <<store, fdMap, nextFd, shared>>
=============================================================================
