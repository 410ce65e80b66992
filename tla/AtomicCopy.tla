----------------------------- MODULE AtomicCopy -----------------------------
(***************************************************************************)
(* What a shared copy promises the participants of a parallel plan: one    *)
(* copy of the filters' intersection a run, which all of them read, with   *)
(* every key the query's snapshot selects, in ascending order, once        *)
(* (DESIGN.md section 27, "One copy per query").                           *)
(***************************************************************************)
EXTENDS Naturals, Sequences

CONSTANTS Keys,          \* container keys
          Participants,
          NoCopy         \* not made, or not read, yet

VARIABLES selected,  \* keys with rows the snapshot selects
          copy,      \* the copy's keys, in the order it is read
          reads      \* participant -> the copy it reads

cvars == <<selected, copy, reads>>

Ascending(s) == \A i, j \in 1..Len(s) : i < j => s[i] < s[j]
Has(s, S) == \A k \in S : \E i \in 1..Len(s) : s[i] = k

CInit ==
  /\ selected \in SUBSET Keys
  /\ copy = NoCopy
  /\ reads = [p \in Participants |-> NoCopy]

Make ==
  /\ copy = NoCopy
  /\ copy' # NoCopy
  /\ Ascending(copy')
  /\ Has(copy', selected)
  /\ UNCHANGED <<selected, reads>>

Read(p) ==
  /\ copy # NoCopy
  /\ reads[p] = NoCopy
  /\ reads' = [reads EXCEPT ![p] = copy]
  /\ UNCHANGED <<selected, copy>>

\* the plan is run again, with other parameters
Rescan ==
  /\ selected' \in SUBSET Keys
  /\ copy' = NoCopy
  /\ reads' = [p \in Participants |-> NoCopy]

CNext == Make \/ Rescan \/ \E p \in Participants : Read(p)

CSpec == CInit /\ [][CNext]_cvars
=============================================================================
