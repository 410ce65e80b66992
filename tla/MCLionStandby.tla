--------------------------- MODULE MCLionStandby ---------------------------
(* Rows 1..N, one heap block each: a TID is its own container key.  The     *)
(* counts run on the primary, or on a standby of it.  A count that rechecks *)
(* all, or reads a part of its set, and the standby's, which read all of    *)
(* it, meet fewer insertions, fewest without the resource manager.          *)
EXTENDS LionStandby, TLC
CONSTANTS b1, b2, b3, N, FewBirths

MCTids == 1..N
MCBlockOf == [t \in MCTids |-> t]
MCPages == {b1, b2, b3}
PageSymmetry == Permutations(MCPages)

Primary == walmode = "none"
MCInit == StandbyInit \/ (Init /\ walmode = "none" /\ visits = <<>> /\ redo = "none")
MCNext == \/ /\ Primary /\ Next /\ UNCHANGED walVars
             /\ births' <= FewBirths \/ \A r \in Readers :
                  from'[r] = 0 /\ mode'[r] # "recheck"
          \/ /\ ~Primary /\ StandbyNext
             /\ births' <= (IF Rmgr THEN FewBirths ELSE FewBirths - 1)
             /\ \A r \in Readers : from'[r] = 0
MCSpec == MCInit /\ [][MCNext]_standbyVars
=============================================================================
