------------------------------ MODULE MCClient ------------------------------
(* A directory below the root and a file below it.                          *)
EXTENDS Client

CONSTANTS root, d, f

MCPath == {root, d, f}
MCParent == [p \in {d, f} |-> IF p = d THEN root ELSE d]
=============================================================================
