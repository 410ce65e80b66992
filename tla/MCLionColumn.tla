---------------------------- MODULE MCLionColumn ----------------------------
(* Two models of one column of the directory that share nothing, a run of   *)
(* either: the predicate locks of its keys, and its summaries.              *)
EXTENDS MCLionPredLocks, MCLionSummary

VARIABLE model

\* what begins in several ways does so in one where it is not the model run
ColumnInit == /\ model \in {"locks", "summaries"}
              /\ model = "locks" => limit = Empty.limit
              /\ Init /\ SumInit

ColumnNext ==
  \/ model = "locks" /\ Next /\ UNCHANGED <<sumVars, model>>
  \/ model = "summaries" /\ SumNext /\ UNCHANGED <<vars, model>>

ColumnSpec == ColumnInit /\ [][ColumnNext]_<<vars, sumVars, model>>
=============================================================================
