---------------------------- MODULE AtomicCount ----------------------------
(***************************************************************************)
(* What a count of one key promises a session: the number of rows its      *)
(* snapshot saw at the one moment it was taken, whatever other sessions    *)
(* and VACUUM do until it returns (DESIGN.md section 9).                   *)
(***************************************************************************)
EXTENDS Naturals, FiniteSets

CONSTANTS Rows,      \* the rows there may be
          Sessions,  \* the sessions that count
          Parts      \* the parts of the rows a count may be asked for

VARIABLES visible,   \* the rows a snapshot taken now sees
          asked,     \* session -> the rows it is to count
          status,    \* session -> "idle", "asked" or "answered"
          answer     \* session -> what it was told

avars == <<visible, asked, status, answer>>

AInit ==
  /\ visible \in SUBSET Rows
  /\ asked = [s \in Sessions |-> {}]
  /\ status = [s \in Sessions |-> "idle"]
  /\ answer = [s \in Sessions |-> 0]

\* a row is committed, or deleted
Write ==
  /\ \E t \in Rows : visible' \in {visible \cup {t}, visible \ {t}}
  /\ UNCHANGED <<asked, status, answer>>

Ask(s) ==
  /\ status[s] = "idle"
  /\ status' = [status EXCEPT ![s] = "asked"]
  /\ \E part \in Parts : asked' = [asked EXCEPT ![s] = visible \cap part]
  /\ UNCHANGED <<visible, answer>>

Answer(s) ==
  /\ status[s] = "asked"
  /\ status' = [status EXCEPT ![s] = "answered"]
  /\ answer' = [answer EXCEPT ![s] = Cardinality(asked[s])]
  /\ UNCHANGED <<visible, asked>>

\* a count is over, or was cancelled
Forget(s) ==
  /\ status[s] # "idle"
  /\ status' = [status EXCEPT ![s] = "idle"]
  /\ asked' = [asked EXCEPT ![s] = {}]
  /\ answer' = [answer EXCEPT ![s] = 0]
  /\ UNCHANGED visible

ANext == Write \/ \E s \in Sessions : Ask(s) \/ Answer(s) \/ Forget(s)

ASpec == AInit /\ [][ANext]_avars
=============================================================================
