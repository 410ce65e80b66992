-------------------------- MODULE MCLionStructures --------------------------
(* Two structures that share nothing, a run of either: the posting tree of   *)
(* a key, and the ring of a read stream.                                     *)
EXTENDS MCLionPosting, MCLionRing

VARIABLE structure

StructuresInit == structure \in {"tree", "ring"} /\ PostingInit /\ Init

StructuresNext ==
  \/ structure = "tree" /\ SoundNext /\ UNCHANGED <<vars, structure>>
  \/ structure = "ring" /\ Next /\ UNCHANGED <<postingVars, structure>>

StructuresSpec ==
  StructuresInit /\ [][StructuresNext]_<<postingVars, vars, structure>>
=============================================================================
