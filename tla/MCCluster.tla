------------------------------ MODULE MCCluster ------------------------------
(* Up to four positions for masters, with hash values so narrow that the    *)
(* middle of a range overflows.                                             *)
EXTENDS Cluster

CONSTANTS m0, m1, x, c
MCFirstPosition == {7}
MCMaxPositions == [k \in Kind |-> IF k = "master" THEN 4 ELSE 1]

\* The hypothesis of the theorems about joins and routes holds here.
ASSUME FewPositions
=============================================================================
