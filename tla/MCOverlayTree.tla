---------------------------- MODULE MCOverlayTree ---------------------------
(* OverlayTree for TLC: seven paths of up to three names, and two read-only  *)
(* trees, one with a file in a directory in a directory and one with a     *)
(* file beside an empty directory.                                         *)
EXTENDS OverlayTree

CONSTANTS na, nb

MCPaths == {<<>>, <<na>>, <<nb>>, <<na, na>>, <<na, nb>>, <<nb, na>>, <<na, na, na>>}

Deep == [p \in MCPaths |->
            IF p \in {<<>>, <<na>>, <<na, na>>} THEN Dir
            ELSE IF p \in {<<na, na, na>>, <<na, nb>>} THEN File(<<1>>) ELSE None]

Flat == [p \in MCPaths |->
            IF p \in {<<>>, <<na>>, <<nb>>} THEN Dir
            ELSE IF p \in {<<nb, na>>, <<na, na>>} THEN File(<<>>) ELSE None]

MCReadables == {Deep, Flat}
MCBytes     == {1}
MCContents  == {<<>>, <<1>>}
=============================================================================
