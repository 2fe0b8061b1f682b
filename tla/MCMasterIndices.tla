--------------------------- MODULE MCMasterIndices ---------------------------
(* A master with indices on directories whose names are prefixes of each   *)
(* other, in the order of the strings: "-" < "/" < letters.                *)
EXTENDS MasterIndices, TLC

CONSTANTS n, t1, t2

Strings == <<"/", "/a", "/a-b", "/a/", "/a/b">>
MCPath == {Strings[i] : i \in 1 .. 5}
MCName == {n}
MCOrder == [p \in MCPath |-> CHOOSE i \in 1 .. 5 : Strings[i] = p]
MCCleanup == [p \in MCPath |-> IF p = "/a/" THEN "/a" ELSE p]
MCStartsWith ==
    {<<p, p>> : p \in MCPath} \cup ({"/"} \X MCPath)
    \cup ({"/a"} \X (MCPath \ {"/"})) \cup {<<"/a/", "/a/b">>}
MCPartials ==
    [p \in MCPath |-> IF p = "/a/b" THEN <<"/a/b", "/a">>
                      ELSE IF p = "/a/" THEN <<"/a/", "/a">> ELSE <<p>>]
MCBelow ==
    {<<p, p>> : p \in MCPath} \cup ({"/"} \X MCPath)
    \cup ({"/a", "/a/"} \X {"/a", "/a/", "/a/b"})

MCIndexPath == {<<"/a", n>>, <<"/a/b", n>>}
MCRequest == {<<"/a/", n>>, <<"/a/b", n>>}
MCRemovable == {<<"/a/", n>>}
MCPartitioned == {<<"/a", n>>}
MCSep == {0, 1}

Symmetry == Permutations(Thread)
=============================================================================
