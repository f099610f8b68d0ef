------------------------------ MODULE FileTree ------------------------------
(***************************************************************************)
(* What a file system promises its users: a tree of directories and files, *)
(* and calls that each make one change to it or none.                      *)
(***************************************************************************)
EXTENDS Sequences, Naturals

CONSTANTS
    TreePaths,  \* the paths, sequences of names, the root's is <<>>
    Bytes       \* values of a byte

VARIABLE tree   \* what is at each path

None  == [kind |-> "none"]
Dir   == [kind |-> "dir"]
Files == [kind : {"file"}, val : Seq(Bytes)]

Parent(p) == SubSeq(p, 1, Len(p) - 1)

(* q is p or lies below it. *)
Within(q, p) == Len(p) <= Len(q) /\ SubSeq(q, 1, Len(p)) = p

(* A tree that only has its root. *)
Bare == [p \in TreePaths |-> IF p = <<>> THEN Dir ELSE None]

Init == tree = Bare

(* A node can only come into being in a directory. *)
HasPlace(p) == p # <<>> /\ tree[Parent(p)] = Dir

MakeDir(p) ==
    /\ HasPlace(p)
    /\ tree[p] = None
    /\ tree' = [tree EXCEPT ![p] = Dir]

(* A file gets new contents; it is created if it does not exist. *)
SetFile(p) ==
    /\ HasPlace(p)
    /\ tree[p] # Dir
    /\ tree'[p] \in Files
    /\ tree' = [tree EXCEPT ![p] = tree'[p]]

(* A file or an empty directory goes. *)
Remove(p) ==
    /\ p # <<>>
    /\ tree[p] # None
    /\ \A q \in TreePaths : Within(q, p) /\ q # p => tree[q] = None
    /\ tree' = [tree EXCEPT ![p] = None]

(* The node at p goes to q with all that is below it; only a file can be   *)
(* replaced, and a directory cannot move into itself.                      *)
Move(p, q) ==
    LET t == tree
    IN  /\ p # <<>>
        /\ t[p] # None
        /\ HasPlace(q)
        /\ t[q] # Dir
        /\ ~Within(q, p)
        /\ tree' = [x \in TreePaths |->
                      IF Within(x, p) THEN None
                      ELSE IF ~Within(x, q) THEN t[x]
                      ELSE LET y == p \o SubSeq(x, Len(q) + 1, Len(x))
                           IN  IF y \in TreePaths THEN t[y] ELSE None]

Clear == tree' = Bare

(* A call that fails, or asks for what is already so, changes nothing.     *)
Refuse == UNCHANGED tree

Next ==
    \/ Refuse
    \/ \E p \in TreePaths : MakeDir(p) \/ SetFile(p) \/ Remove(p)
    \/ \E p, q \in TreePaths : Move(p, q)
    \/ Clear

Spec == Init /\ [][Next]_tree
=============================================================================
