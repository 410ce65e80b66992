----------------------------- MODULE MCLionRing -----------------------------
(* Blocks that outnumber the limits. *)
EXTENDS LionRing, TLC

BlockSymmetry == Permutations(ReadBlocks)
=============================================================================
