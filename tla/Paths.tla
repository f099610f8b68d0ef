-------------------------------- MODULE Paths -------------------------------
(***************************************************************************)
(* The path functions (Node's POSIX ones) on strings, a string being the   *)
(* sequence of its characters.  Where the code goes through a string       *)
(* character by character only to find where a segment ends, the segments  *)
(* are taken at once; what it computes from lengths and positions is kept. *)
(***************************************************************************)
EXTENDS Integers, SequencesExt

Sep == "/"
Dot == "."

Root    == <<Sep>>   \* "/", which is also the working directory
Here    == <<Dot>>
DotDot  == <<Dot, Dot>>

At(s, i)    == s[i + 1]                   \* s[i], s.at(i)
Slice(s, i) == SubSeq(s, i + 1, Len(s))   \* s.slice(i)

LastIndexOf(s, c) ==
    LET is == {i \in 1 .. Len(s) : s[i] = c} IN IF is = {} THEN -1 ELSE Max(is) - 1

(* The segments between the slashes of a string, empty ones too. *)
Segments(s) ==
    LET ends == SelectSeq([i \in 1 .. Len(s) + 1 |-> i],
                          LAMBDA i : i > Len(s) \/ s[i] = Sep)
    IN  [n \in 1 .. Len(ends) |->
            SubSeq(s, IF n = 1 THEN 1 ELSE ends[n - 1] + 1, ends[n] - 1)]

-----------------------------------------------------------------------------
(* normalizeString.  What it has made of the segments so far, and the      *)
(* length of the last one of them.                                         *)
EndsInDots(acc) == Len(acc.res) >= 2 /\ acc.last = 2 /\ IsSuffix(DotDot, acc.res)

(* A '..' takes the last segment away; where there is none, it stays if    *)
(* the path may lead above where it starts.                                *)
Up(acc, allowAboveRoot) ==
    LET slash == LastIndexOf(acc.res, Sep)
        cut   == SubSeq(acc.res, 1, slash)
    IN  IF ~EndsInDots(acc) /\ Len(acc.res) > 2 /\ slash # -1
        THEN [res |-> cut, last |-> Len(cut) - 1 - LastIndexOf(cut, Sep)]
        ELSE IF ~EndsInDots(acc) /\ acc.res # <<>> THEN [res |-> <<>>, last |-> 0]
        ELSE IF ~allowAboveRoot THEN acc
        ELSE [res |-> acc.res \o (IF acc.res # <<>> THEN Root ELSE <<>>) \o DotDot, last |-> 2]

normalizeString(path, allowAboveRoot) ==
    LET Add(acc, seg) ==
            IF seg \in {<<>>, Here} THEN acc
            ELSE IF seg = DotDot THEN Up(acc, allowAboveRoot)
            ELSE [res  |-> acc.res \o (IF acc.res # <<>> THEN Root ELSE <<>>) \o seg,
                  last |-> Len(seg)]
    IN  FoldLeft(Add, [res |-> <<>>, last |-> 0], Segments(path)).res

isAbsolute(path) == path # <<>> /\ path[1] = Sep

(* resolve, of one or more strings: from the last that is absolute on; the *)
(* working directory comes before them all.                                *)
resolve(args) ==
    LET all   == <<Root>> \o args
        first == Max({i \in 1 .. Len(all) : isAbsolute(all[i])})
        Join(s, arg) == IF arg = <<>> THEN s ELSE s \o arg \o Root
    IN  Root \o normalizeString(FoldLeft(Join, <<>>, SubSeq(all, first, Len(all))), FALSE)

normalize(path) ==
    LET norm     == normalizeString(path, ~isAbsolute(path))
        trailing == IF path[Len(path)] = Sep THEN Root ELSE <<>>
    IN  IF path = <<>> THEN Here
        ELSE IF norm = <<>> THEN IF isAbsolute(path) THEN Root ELSE Here \o trailing
        ELSE (IF isAbsolute(path) THEN Root ELSE <<>>) \o norm \o trailing

join(args) ==
    LET Join(s, arg) == IF arg = <<>> THEN s ELSE IF s = <<>> THEN arg ELSE s \o Root \o arg
    IN  normalize(FoldLeft(Join, <<>>, args))

(* How far two strings agree. *)
Agreed(f, t) ==
    CHOOSE n \in 0 .. Len(f) :
        /\ n <= Len(t) /\ SubSeq(f, 1, n) = SubSeq(t, 1, n)
        /\ n < Len(f) /\ n < Len(t) => At(f, n) # At(t, n)

(* The last slash where they do, which is i bytes far; or the end of the   *)
(* one that is a directory above the other.                                *)
LastCommonSep(f, t, i) ==
    IF i = Len(t) /\ Len(f) > i /\ At(f, i) = Sep THEN i
    ELSE IF i = Len(t) /\ Len(f) > i /\ i = 0 THEN 0
    ELSE LastIndexOf(SubSeq(f, 1, i), Sep)

(* A '..' for every segment of f after sep, and then the rest of t.        *)
UpAndDown(f, t, sep) ==
    LET ups       == {n \in sep + 1 .. Len(f) : n = Len(f) \/ At(f, n) = Sep}
        Out(n, s) == s \o (IF s = <<>> THEN DotDot ELSE Root \o DotDot)
    IN  FoldSet(Out, <<>>, ups) \o (IF sep = -1 THEN Root \o t ELSE Slice(t, sep))

(* Of two absolute paths without their first slash. *)
Between(f, t, i) ==
    IF f = t THEN <<>>
    ELSE IF i = Len(f) /\ Len(t) > i /\ At(t, i) = Sep THEN Slice(t, i + 1)
    ELSE IF i = Len(f) /\ Len(t) > i /\ i = 0 THEN t
    ELSE UpAndDown(f, t, LastCommonSep(f, t, i))

relative(from, to) ==
    LET Trimmed(p)   == Slice(resolve(<<p>>), 1)
        Relate(f, t) == Between(f, t, Agreed(f, t))
    IN  Relate(Trimmed(from), Trimmed(to))

-----------------------------------------------------------------------------
(* The end of the last segment, slashes after it left aside, and the last  *)
(* slash before it.                                                        *)
EndOf(path) ==
    LET is == {i \in 1 .. Len(path) : path[i] # Sep} IN IF is = {} THEN 0 ELSE Max(is)

dirname(path) ==
    LET end   == LastIndexOf(SubSeq(path, 1, EndOf(path)), Sep)
        first == IF isAbsolute(path) THEN Root ELSE Here
    IN  IF path = <<>> THEN Here
        ELSE IF end <= 0 THEN first
        ELSE IF isAbsolute(path) /\ end = 1 THEN <<Sep, Sep>>
        ELSE SubSeq(path, 1, end)

basename(path) ==
    LET end == EndOf(path)
    IN  SubSeq(path, LastIndexOf(SubSeq(path, 1, end), Sep) + 2, end)

-----------------------------------------------------------------------------
(* What the functions are to compute, in terms of the names on the way     *)
(* from the root: '' and '.' stay where they are, '..' goes up, and the    *)
(* root is above itself.                                                   *)
Way(s) ==
    LET Step(way, seg) ==
            IF seg \in {<<>>, Here} THEN way
            ELSE IF seg = DotDot THEN SubSeq(way, 1, Len(way) - 1)
            ELSE Append(way, seg)
    IN  FoldLeft(Step, <<>>, Segments(s))

StringOf(way) ==
    IF way = <<>> THEN Root ELSE FoldLeft(LAMBDA s, seg : s \o Root \o seg, <<>>, way)
=============================================================================
