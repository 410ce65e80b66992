---------------------------- MODULE MCLionCount ----------------------------
(* Rows 1..N, one heap block each: a TID is its own container key.  A       *)
(* behaviour begins with nothing, or with row 1 on the one leaf that an      *)
(* insertion spilled the set to before it failed, so that the next insertion *)
(* pushes that leaf down, under VACUUM's walk too.                           *)
EXTENDS LionCount, TLC
CONSTANTS b1, b2, b3, N

MCTids == 1..N
MCBlockOf == [t \in MCTids |-> t]
MCPages == {b1, b2, b3}
PageSymmetry == Permutations(MCPages)

Spilled ==
  /\ form = "chain" /\ inl = {} /\ head = b1 /\ tail = b1
  /\ kind = [p \in Pages |-> IF p = b1 THEN "leaf" ELSE "new"]
  /\ owner = [p \in Pages |-> IF p = b1 THEN b1 ELSE NoPage]
  /\ items = [p \in Pages |-> IF p = b1 THEN {1} ELSE {}]
  /\ right = [p \in Pages |-> NoPage]
  /\ flagged = [p \in Pages |-> FALSE]
  /\ down = [p \in Pages |-> <<>>]
  /\ stamp = [p \in Pages |-> {}]
  /\ ins = NoTid /\ held = NoPage
  /\ row = [t \in Tids |-> IF t = 1 THEN "live" ELSE "unused"]
  /\ births = 1

LiveInit == Init \/ (RestInit /\ Spilled)
LiveSpec == LiveInit /\ [][Next]_vars /\ Fairness
=============================================================================
