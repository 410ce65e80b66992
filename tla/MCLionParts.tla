---------------------------- MODULE MCLionParts ----------------------------
(* Four parts of answering a query that share nothing, a run of any of      *)
(* them: the hash of a ring, whose keys wrap around its end; the stream over *)
(* a list with room for several rests, which looks ahead further than a rest *)
(* lasts; the count of an expression; the visibility cache.                  *)
EXTENDS LionRingHash, LionReadList, MCLionMerge, LionVisCache

CONSTANTS A, B     \* two partitions

MCRels == {A, B}
MCXids == 1 .. 3
MCLps == 1 .. 3
MCBusy == {<<A, 0>>}

VARIABLE part

\* what begins in several ways does so in one where it is not the part run
PartsInit ==
  /\ part \in {"hash", "list", "merge", "cache"}
  /\ part # "merge" => setup = CHOOSE s \in Setups : TRUE
  /\ MergeInit /\ ListInit /\ Init /\ VisInit
  /\ part # "hash" => home = [b \in Blocks |-> 0]
  \* the partition that is written to has the rows
  /\ heap[<<A, 0>>][1] # Unused
  \* the blocks are any blocks: numbered in the order of their homes
  /\ \A b, c \in Blocks : b < c => home[b] <= home[c]

\* a bound: block 1, which nothing writes to, is rechecked where it has a row
\* and as long as line pointer 3 of block 0 is free
SecondBlock == 1 \in todo => relid = A /\ heap[<<A, 0>>][3] = Unused

PartsNext ==
  \/ part = "hash" /\ Next /\ UNCHANGED <<listVars, mergeVars, visVars, part>>
  \/ part = "list" /\ ListNext /\ UNCHANGED <<vars, mergeVars, visVars, part>>
  \/ part = "merge" /\ MergeNext /\ UNCHANGED <<vars, listVars, visVars, part>>
  \/ /\ part = "cache" /\ VisNext /\ SecondBlock'
     /\ UNCHANGED <<vars, listVars, mergeVars, part>>

PartsSpec == PartsInit /\ [][PartsNext]_<<vars, listVars, mergeVars, visVars, part>>
=============================================================================
