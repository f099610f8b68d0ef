------------------------------- MODULE Volume -------------------------------
(***************************************************************************)
(* A synchronous key-value file system as the calls above it see it, used  *)
(* by root: what it does to its tree of directories and files, and what it *)
(* answers.  It gets a path as a string and goes from directory to         *)
(* directory with dirname and basename; a string that does not lead to "/" *)
(* that way is not found.                                                  *)
(***************************************************************************)
EXTENDS Paths

CONSTANTS
    Names,     \* names of entries, strings without a slash
    MaxDepth,  \* length of the longest path
    Bytes      \* values of a byte

ASSUME VolumeAssumption ==
    /\ \A f \in Names : f \in Seq(STRING) /\ Segments(f) = <<f>> /\ f \notin {<<>>, Here, DotDot}
    /\ MaxDepth \in Nat /\ {"0", "{", "}"} \subseteq Bytes

Ways == UNION {[1 .. n -> Names] : n \in 0 .. MaxDepth}

None    == [kind |-> "none"]
Dir     == [kind |-> "dir"]
File(b) == [kind |-> "file", val |-> b]

Trees == [Ways -> {None, Dir} \union [kind : {"file"}, val : Seq(Bytes)]]

Bare == [p \in Ways |-> IF p = <<>> THEN Dir ELSE None]

Parent(p) == SubSeq(p, 1, Len(p) - 1)

IsFile(n) == n.kind = "file"

Children(t, p) == {f \in Names : Append(p, f) \in Ways /\ t[Append(p, f)] # None}

(* An answer: the tree after the call, "ok" or the error, the path in the  *)
(* error, and what is returned, bytes or names.                            *)
Answer(t, ans, at, bytes, list) ==
    [t |-> t, ans |-> ans, at |-> at, bytes |-> bytes, list |-> list]

Done(t)        == Answer(t, "ok", <<>>, <<>>, {})
Throws(t, ans, at) == Answer(t, ans, at, <<>>, {})

-----------------------------------------------------------------------------
(* _findINode: dirname on the way up from the string, until the root is    *)
(* reached or what is above is the string itself; the names on the way.    *)
Climb(w) ==
    LET Higher(chain) ==
            IF chain[1] \in {Root, dirname(chain[1])} THEN chain
            ELSE <<dirname(chain[1])>> \o chain
        up[n \in 0 .. Len(w)] == IF n = 0 THEN <<w>> ELSE Higher(up[n - 1])
    IN  up[Len(w)]

(* A path as a file system gets it: the string, whether it leads to the    *)
(* root and the way from there; and the path of the directory it is in.    *)
Located(w) ==
    LET By(chain) ==
            [str |-> w, rooted |-> chain[1] = Root,
             way |-> [i \in 1 .. Len(chain) - 1 |-> basename(chain[i + 1])]]
    IN  By(Climb(w))

Above(x) ==
    [x EXCEPT !.str = dirname(@), !.way = IF @ = <<>> THEN @ ELSE Parent(@)]

(* What finding the node of a path throws: a name that is missing, or a    *)
(* file on the way.                                                        *)
Find(t, x) ==
    LET p      == x.way
        failed == CHOOSE i \in 1 .. Len(p) :
                     t[SubSeq(p, 1, i)] = None /\ t[SubSeq(p, 1, i - 1)] # None
        above  == SubSeq(p, 1, failed - 1)
    IN  IF ~x.rooted THEN Throws(t, "EIO", x.str)
        ELSE IF t[p] # None THEN Done(t)
        ELSE IF IsFile(t[above]) THEN Throws(t, "ENOTDIR", StringOf(above))
        ELSE Throws(t, "ENOENT", StringOf(SubSeq(p, 1, failed)))

Fails(a) == a.ans # "ok"

Unless(a, b) == IF Fails(a) THEN a ELSE b

Listing(t, x) ==
    Unless(Find(t, x),
        IF t[x.way] # Dir THEN Throws(t, "ENOTDIR", x.str)
        ELSE Answer(t, "ok", <<>>, <<>>, Children(t, x.way)))

(* commitNewFile and removeEntry. *)
Added(t, x, node) ==
    Unless(Listing(t, Above(x)),
        IF t[x.way] # None THEN Throws(t, "EEXIST", x.str)
        ELSE Done([t EXCEPT ![x.way] = node]))

removeEntry(t, x, isDir) ==
    Unless(Listing(t, Above(x)),
        IF x.way = <<>> \/ t[x.way] = None THEN Throws(t, "ENOENT", x.str)
        ELSE IF ~isDir /\ t[x.way] = Dir THEN Throws(t, "EISDIR", x.str)
        ELSE IF isDir /\ t[x.way] # Dir THEN Throws(t, "ENOTDIR", x.str)
        ELSE Done([t EXCEPT ![x.way] = None]))

Rmdir(t, x) ==
    Unless(Listing(t, x),
        IF Children(t, x.way) # {} THEN Throws(t, "ENOTEMPTY", x.str)
        ELSE removeEntry(t, x, TRUE))

(* ReadFile.  The listing of an empty directory is read like a file,       *)
(* '{}' being as long as its inode says; any other is not, nor the root's. *)
ReadFile(t, x) ==
    IF Fails(Find(t, x)) THEN Throws(t, "ENOENT", x.str)
    ELSE IF IsFile(t[x.way]) THEN Answer(t, "ok", <<>>, t[x.way].val, {})
    ELSE IF x.way # <<>> /\ Children(t, x.way) = {} THEN Answer(t, "ok", <<>>, <<"{", "}">>, {})
    ELSE Throws(t, "Error", <<>>)

(* openSync of a file that is not there, and with each of the flags that   *)
(* writeFile, appendFile and truncate open a file with.                    *)
Created(t, x) ==
    Unless(Find(t, Above(x)),
        IF t[Above(x).way] # Dir THEN Throws(t, "ENOTDIR", dirname(x.str))
        ELSE Added(t, x, File(<<>>)))

Opened(t, x, flag) ==
    IF Fails(Find(t, x)) THEN IF flag = "r+" THEN Throws(t, "ENOENT", x.str) ELSE Created(t, x)
    ELSE IF flag = "w" THEN Unless(removeEntry(t, x, FALSE), Done([t EXCEPT ![x.way] = File(<<>>)]))
    ELSE Done(t)

(* What the open file holds when it has been written to, at its start with *)
(* flag w and its end with flag a, or cut to the length of arg with r+.    *)
Buffer(bytes, flag, arg) ==
    IF flag = "r+" THEN [i \in 1 .. Len(arg) |-> IF i <= Len(bytes) THEN bytes[i] ELSE "0"]
    ELSE bytes \o arg

(* Its close, which writes it back to what its path leads to by then: what *)
(* was a directory is a file from then on.                                 *)
syncSync(t, x, bytes) ==
    Unless(Find(t, x),
        Done([p \in Ways |-> IF p = x.way THEN File(bytes)
                             ELSE IF IsPrefix(x.way, p) THEN None ELSE t[p]]))

(* writeFile, appendFile and truncate. *)
Rewritten(t, x, flag, arg) ==
    LET Closed(o) ==
            IF Fails(o) THEN o ELSE syncSync(o.t, x, Buffer(o.t[x.way].val, flag, arg))
    IN  Closed(Opened(t, x, flag))
=============================================================================
