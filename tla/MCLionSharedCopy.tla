-------------------------- MODULE MCLionSharedCopy --------------------------
(* Two processes; a heap of three or four container keys, which may grow. *)
EXTENDS LionSharedCopy
CONSTANTS p1, p2, LastKey

MCKeys == 0 .. LastKey
=============================================================================
