----------------------------- MODULE AtomicDir -----------------------------
(***************************************************************************)
(* What the entry directory promises its sessions: a set of entries, one   *)
(* per key, that a lookup reads at one moment, that an insert only ever    *)
(* adds its own key to, and that only VACUUM takes entries from - those it *)
(* found empty and nobody has put a row into since (DESIGN.md section 21). *)
(***************************************************************************)
CONSTANTS Keys,      \* the keys entries may have
          Sessions,  \* the sessions that use the directory
          NoCall     \* a session that is not using it

VARIABLES dir,       \* the entries there are
          empty,     \* those VACUUM has found without rows
          call,      \* session -> its [op, key], or NoCall
          found      \* session -> what its last lookup answered

avars == <<dir, empty, call, found>>

AInit ==
  /\ dir \in SUBSET Keys
  /\ empty = {}
  /\ call = [s \in Sessions |-> NoCall]
  /\ found = [s \in Sessions |-> "none"]

Ask(s) ==
  /\ call[s] = NoCall
  /\ call'[s] \in [op : {"find", "insert"}, key : Keys]
  /\ call' = [call EXCEPT ![s] = call'[s]]
  /\ found' = [found EXCEPT ![s] = "none"]
  /\ UNCHANGED <<dir, empty>>

Find(s) ==
  /\ call[s] # NoCall /\ call[s].op = "find"
  /\ found' = [found EXCEPT ![s] = IF call[s].key \in dir THEN "there"
                                      ELSE "absent"]
  /\ call' = [call EXCEPT ![s] = NoCall]
  /\ UNCHANGED <<dir, empty>>

\* find or create: either way the key has an entry with a row in it
Create(s) ==
  /\ call[s] # NoCall /\ call[s].op = "insert"
  /\ dir' = dir \cup {call[s].key}
  /\ empty' = empty \ {call[s].key}
  /\ call' = [call EXCEPT ![s] = NoCall]
  /\ UNCHANGED found

Abandon(s) ==
  /\ call[s] # NoCall
  /\ call' = [call EXCEPT ![s] = NoCall]
  /\ UNCHANGED <<dir, empty, found>>

Collect ==
  /\ empty' \in SUBSET dir
  /\ UNCHANGED <<dir, call, found>>

\* some of them: the others have moved to another leaf since
Delete ==
  /\ \E gone \in SUBSET empty : dir' = dir \ gone
  /\ empty' = {}
  /\ UNCHANGED <<call, found>>

ANext == \/ \E s \in Sessions : Ask(s) \/ Find(s) \/ Create(s) \/ Abandon(s)
         \/ Collect \/ Delete

ASpec == AInit /\ [][ANext]_avars
=============================================================================
