------------------------ MODULE MCRangeIndexWrapper -------------------------
(* One index of an index server, with two RPC threads and the flusher.      *)
EXTENDS RangeIndexWrapper, TLC

CONSTANTS t1, t2, r1, r2

Symmetry == Permutations({t1, t2}) \cup Permutations({r1, r2})
=============================================================================
