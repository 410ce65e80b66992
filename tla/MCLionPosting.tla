--------------------------- MODULE MCLionPosting ---------------------------
(* Four TIDs on three heap blocks, two of them in one container.           *)
EXTENDS LionPosting, TLC

CONSTANTS b1, b2, b3, b4

MCTids == 1..4
MCBlockOf == [t \in MCTids |-> <<1, 2, 2, 3>>[t]]
MCPages == {b1, b2, b3, b4}

PageSymmetry == Permutations(MCPages)
=============================================================================
