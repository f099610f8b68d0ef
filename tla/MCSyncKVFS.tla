----------------------------- MODULE MCSyncKVFS -----------------------------
(* SyncKVFS for TLC.  Which unused id the generator gives makes no         *)
(* difference (the ids are only compared), so it always gives the first.   *)
EXTENDS SyncKVFS, TLC

CONSTANTS k0, k1, k2, k3, k4, k5, k6, k7, k8, k9

MCIds == {k0, k1, k2, k3, k4, k5, k6, k7, k8, k9}

Order == <<k1, k2, k3, k4, k5, k6, k7, k8, k9>>

FirstUnused(S) ==
    LET i == CHOOSE j \in 1 .. Len(Order) + 1 :
                /\ j <= Len(Order) => Order[j] \in Ids \ S
                /\ \A l \in 1 .. j - 1 : Order[l] \notin Ids \ S
    IN  IF i > Len(Order) THEN {} ELSE {Order[i]}

MCBytes    == {0, 1}
MCContents == {<<>>, <<1>>}
OneByte    == {<<1>>}
RootUser   == {[uid |-> 0, gid |-> 0, euid |-> 0, egid |-> 0]}
Mode644    == {{2, 5, 7, 8}}

(* 0o600 and 0o666. *)
TwoModes == {{7, 8}, {1, 2, 4, 5, 7, 8}}

(* Root, and root that has lowered its effective ids. *)
TwoUsers == {[uid |-> 0, gid |-> 0, euid |-> u, egid |-> u] : u \in {0, 1}}

(* Names are only compared. *)
Interchange == Permutations(Names)
=============================================================================
