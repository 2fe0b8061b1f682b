-------------------------- MODULE MCNamespaceTree ---------------------------
(* A root and one path below it, which is a file or a directory by turns.   *)
EXTENDS Namespace

CONSTANTS root, a

MCPath == {root, a}
MCParent == [c \in {a} |-> root]
MCKeyOrder == [p \in MCPath |-> IF p = root THEN 0 ELSE 1]
MCHashPrefix == [p \in MCPath |-> 1]
=============================================================================
