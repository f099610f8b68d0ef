------------------------------- MODULE Access -------------------------------
(***************************************************************************)
(* Permission checks (Stats.hasAccess) and what a FileFlag asks for.  A    *)
(* mode is the set of its bit numbers: 8..6 are rwx of the owner, 5..3 of  *)
(* the group, 2..0 of the others, so 0o644 is {2, 5, 7, 8}; an access      *)
(* request is a set of bits too, R_OK is {2} and W_OK is {1}.              *)
(***************************************************************************)
EXTENDS Naturals

ModeBits == 0 .. 11

Perms == SUBSET ModeBits

R_OK == {2}
W_OK == {1}

(* The four bits of a mode from bit s up, as the code masks and shifts.    *)
Nibble(mode, s) == {b \in 0 .. 3 : b + s \in mode}

(* Stats.hasAccess: root always passes; otherwise the bits that are asked  *)
(* for and missing in all of the owner's, group's and others' nibbles are  *)
(* none.  A class the user is not in counts as missing every bit below 4,  *)
(* and the nibbles start at bits 8, 4 and 0.                               *)
hasAccess(request, mode, uid, gid, cred) ==
    \/ cred.euid = 0
    \/ cred.egid = 0
    \/ LET u == IF cred.euid = uid THEN request \ Nibble(mode, 8) ELSE 0 .. 3
           g == IF cred.egid = gid THEN request \ Nibble(mode, 4) ELSE 0 .. 3
           w == request \ Nibble(mode, 0)
       IN  u \intersect g \intersect w = {}

-----------------------------------------------------------------------------
(* FileFlag: the twelve valid flags and what each one means.               *)
Flags == {"r", "r+", "rs", "rs+", "w", "wx", "w+", "wx+", "a", "ax", "a+", "ax+"}

isReadable(flag)   == flag \in {"r", "r+", "rs", "rs+", "w+", "wx+", "a+", "ax+"}
isWriteable(flag)  == flag \notin {"r", "rs"}
isTruncating(flag) == flag \in {"w", "wx", "w+", "wx+"}
isAppendable(flag) == flag \in {"a", "ax", "a+", "ax+"}
isExclusive(flag)  == flag \in {"wx", "wx+", "ax", "ax+"}

getMode(flag) ==
    (IF isReadable(flag) THEN R_OK ELSE {}) \union (IF isWriteable(flag) THEN W_OK ELSE {})

pathExistsAction(flag) ==
    IF isExclusive(flag) THEN "THROW_EXCEPTION"
    ELSE IF isTruncating(flag) THEN "TRUNCATE_FILE" ELSE "NOP"

pathNotExistsAction(flag) ==
    IF isWriteable(flag) /\ flag # "r+" THEN "CREATE_FILE" ELSE "THROW_EXCEPTION"
=============================================================================
