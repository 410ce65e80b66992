------------------------- MODULE MCLionPredLocks -------------------------
(* Keys 1..N; the directory begins as one leaf.                           *)
EXTENDS LionPredLocks, TLC
CONSTANTS l1, l2, l3, t1, t2, N

MCKeys == 1..N
MCLeaves == {l1, l2, l3}
MCRoots == {t1, t2}
BlockSymmetry == Permutations({l2, l3}) \cup Permutations(MCRoots)
=============================================================================
