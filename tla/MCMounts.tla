------------------------------- MODULE MCMounts -----------------------------
(* Mounts for TLC: two key-value file systems, another file system that    *)
(* initialize finds not to be available, and an adapter that shows the     *)
(* folder /a of the first.  The name aa begins with the name a.            *)
EXTENDS Mounts

a  == <<"a">>
aa == <<"a", "a">>

MCNames   == {a, aa}
MCWrapped == [x \in {"folder"} |-> "main"]
MCFolder  == [x \in {"folder"} |-> Root \o a]
MCData    == {<<"x">>}

(* The adapter at /a, where it gets the calls on /aa while nothing is      *)
(* mounted there; what is mounted at /aa, readdir of /a takes for an entry.*)
MCMountCalls == {[point |-> a \o Root, fs |-> "folder"]}

MCMappings ==
    {<<[point |-> Root, fs |-> "side"], [point |-> Root \o aa, fs |-> "main"]>>,
     <<[point |-> Root \o aa, fs |-> "main"], [point |-> Root, fs |-> "lost"]>>}

(* /aa, /a, /a/a and the root, written in several ways; the promise API is *)
(* called with one of them, and with none.                                 *)
MCInputs ==
    {<<"/", "a", "a">>, <<"a">>, <<"/", ".", "/", "a", "/", "/", "a">>,
     <<"a", "/", ".", ".">>}

MCAsyncInputs == {<<"/", "a", "a", "/", ".", ".", "/", "a">>, <<>>}

(* The file in the directory onto a name in the root, the directory or     *)
(* file above it onto that name, that onto itself, and back.               *)
MCSyncRenames ==
    {<<<<"a", "/", "a">>, <<"/", "a", "a">>>>, <<<<"a">>, <<"/", "a", "a">>>>,
     <<<<"a", "a">>, <<"/", "a", "a">>>>, <<<<"a", "a">>, <<"a", "/", "a">>>>}

MCRenames     == {<<<<"a">>, <<"/", "a", "a">>>>}

(* The last answer, which the properties read only of the state after a    *)
(* step, does not make a state new.                                        *)
MCView == <<mounts, ready, trees, pending>>
=============================================================================
