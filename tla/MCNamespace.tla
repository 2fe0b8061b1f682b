---------------------------- MODULE MCNamespace -----------------------------
(* A root and two paths below it whose hashes share their first 16 bits.    *)
EXTENDS Namespace

CONSTANTS root, a, b

MCPath == {root, a, b}
MCFilePath == {a, b}
MCDirPath == {root, a}
MCParent == [c \in {a, b} |-> root]
MCKeyOrder == [p \in MCPath |-> CASE p = root -> 0 [] p = a -> 1 [] p = b -> 2]
MCHashPrefix == [p \in MCPath |-> IF p = root THEN 1 ELSE 2]
=============================================================================
