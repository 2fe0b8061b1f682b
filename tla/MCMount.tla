------------------------------- MODULE MCMount -------------------------------
(* One path, two descriptors: the second open takes the number the first   *)
(* has just given back.                                                    *)
EXTENDS Mount, TLC

CONSTANTS p, t1, t2
Symmetry == Permutations(Thread)
=============================================================================
