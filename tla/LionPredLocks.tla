--------------------------- MODULE LionPredLocks ---------------------------
(***************************************************************************)
(* SERIALIZABLE reads of a lion index (lion_reader.c): the page a reader   *)
(* predicate-locks for every key and gap it reads, the page an insert      *)
(* checks, and the splits, spills, deletions and freed leaves that move a  *)
(* key from one to another.                                                *)
(*                                                                         *)
(* The directory is its chain of leaves: which keys each of them owns and  *)
(* its right link; that a descent ends on the owner of its key is LionDir's *)
(* matter.  A key's set is absent, INLINE on its leaf or a CHAIN of its     *)
(* own root.  Whoever changes a leaf holds it EXCLUSIVE, and whoever reads *)
(* it SHARE, so a step is what happens under one such lock; a walk is at   *)
(* one leaf a step with nothing held between.  Space, the parents' levels  *)
(* and the TIDs are abstracted: a leaf may be full, a payload may be too   *)
(* long and a set may be empty at any time.                                *)
(*                                                                         *)
(* The predicate-lock manager is external: a lock is taken on a page and   *)
(* stays until its transaction is over, PredicateLockPageSplit() and       *)
(* PredicateLockPageCombine() give the holders of one page another.        *)
(***************************************************************************)
EXTENDS Naturals, FiniteSets

CONSTANTS Keys,      \* the keys of a column, in order
          Leaves,    \* blocks directory leaves may be made of
          First,     \* the leaf an empty directory has
          Roots,     \* blocks posting trees may get for roots
          NoBlock,   \* InvalidBlockNumber
          Readers    \* SERIALIZABLE transactions that read

ASSUME KeysAssumption == Keys \subseteq Nat /\ IsFiniteSet(Keys)
ASSUME BlocksAssumption == /\ First \in Leaves
                           /\ Leaves \cap Roots = {}
                           /\ NoBlock \notin Leaves \cup Roots

VARIABLES owned,    \* leaf -> the keys it owns
          right,    \* leaf -> its right link
          state,    \* leaf -> "free", "live", "halfdead" or "deleted"
          form,     \* key -> "absent", "inline" or "chain"
          root,     \* key -> root of its CHAIN
          given,    \* roots ever taken: root blocks are not recycled
          locks,    \* reader -> the pages it holds a predicate lock on
          read,     \* reader -> the keys it has read, or read as absent
          want,     \* reader -> the keys of the walk it is in
          at,       \* reader -> the leaf its walk goes to next
          landing   \* reader -> whether the walk is looking for its first entry

treeVars == <<owned, right, state, form, root, given>>
walkVars == <<want, at, landing>>
vars == <<treeVars, locks, read, walkVars>>

Live(p) == state[p] = "live"
LeafOf(k) == CHOOSE p \in Leaves : Live(p) /\ k \in owned[p]
-----------------------------------------------------------------------------
(* Predicate locks *)

\* the page that stands for the entry of k, read on leaf p
\* (lion_reader_lock_entry(), lion_reader_lock_absent())
Stands(k, p) == IF form[k] = "chain" THEN root[k] ELSE p

\* lion_reader_lock_leaf(): the leaf, and the root of every CHAIN entry on it
LeafLocks(p) == {p} \cup {Stands(k, p) : k \in owned[p]}

\* Not the code: an insert always checks its leaf
TargetLeaf(k) == LeafOf(k)

\* lion_writer_check(): the page an insert of k checks
Target(k) == Stands(k, LeafOf(k))

\* lion_predlock_copy() and lion_predlock_move(): whoever has page a has b
Holders(a) == {r \in Readers : a \in locks[r]}
WithCopy(a, b) ==
  [r \in Readers |-> IF r \in Holders(a) THEN locks[r] \cup {b} ELSE locks[r]]
-----------------------------------------------------------------------------
(* Readers *)

\* a transaction that has not read yet.  It reads once here: what one read
\* locks stands for it whatever else the transaction reads
Fresh(r) == read[r] = {} /\ want[r] = {}

\* lion_posting_set_locate() and the like: a key looked up on its leaf
Lookup(r, k) ==
  /\ Fresh(r)
  /\ locks' = [locks EXCEPT ![r] = @ \cup {Stands(k, LeafOf(k))}]
  /\ read' = [read EXCEPT ![r] = @ \cup {k}]
  /\ UNCHANGED <<treeVars, walkVars>>

\* a walk of the keys from lo to hi begins with the descent for lo
WalkBegin(r, lo, hi) ==
  /\ Fresh(r)
  /\ lo <= hi
  /\ want' = [want EXCEPT ![r] = {k \in Keys : lo <= k /\ k <= hi}]
  /\ at' = [at EXCEPT ![r] = LeafOf(lo)]
  /\ landing' = [landing EXCEPT ![r] = TRUE]
  /\ UNCHANGED <<treeVars, locks, read>>

\* entries of leaf p at or past the walk's lower bound, and past its upper one
EntriesFrom(r, p) ==
  {k \in owned[p] : form[k] # "absent" /\ \E j \in want[r] : k >= j}
EntriesPast(r, p) ==
  {k \in owned[p] : form[k] # "absent" /\ \A j \in want[r] : k > j}

\* Not the code: only the leaf the walk starts on is locked
LandUnlocked(r) ==
  /\ at[r] # NoBlock
  /\ landing[r]
  /\ LET p == at[r]
         found == EntriesFrom(r, p) # {}
     IN /\ read' = [read EXCEPT ![r] = IF found THEN @ ELSE @ \cup (want[r] \cap owned[p])]
        /\ at' = [at EXCEPT ![r] = IF found THEN p ELSE right[p]]
        /\ landing' = [landing EXCEPT ![r] = ~found /\ right[p] # NoBlock]
  /\ UNCHANGED <<treeVars, locks, want>>

\* lion_range_landing(): right from the leaf of the lower bound to the first
\* entry at or past it, each leaf locked, and the gap on it read as one
Land(r) ==
  /\ at[r] # NoBlock
  /\ landing[r]
  /\ LET p == at[r]
         found == EntriesFrom(r, p) # {}
     IN /\ locks' = [locks EXCEPT ![r] = @ \cup {p}]
        /\ read' = [read EXCEPT ![r] = IF found THEN @ ELSE @ \cup (want[r] \cap owned[p])]
        /\ at' = [at EXCEPT ![r] = IF found THEN p ELSE right[p]]
        /\ landing' = [landing EXCEPT ![r] = ~found /\ right[p] # NoBlock]
  /\ UNCHANGED <<treeVars, want>>

\* lion_walk_next(), lion_entry_scan_fill(): the next leaf is copied, and
\* locked with its CHAINs; the first entry past the range ends the walk
WalkLeaf(r) ==
  /\ at[r] # NoBlock
  /\ ~landing[r]
  /\ LET p == at[r]
     IN /\ locks' = [locks EXCEPT ![r] = @ \cup LeafLocks(p)]
        /\ read' = [read EXCEPT ![r] = @ \cup (want[r] \cap owned[p])]
        /\ at' = [at EXCEPT ![r] = IF EntriesPast(r, p) # {} THEN NoBlock ELSE right[p]]
  /\ UNCHANGED <<treeVars, want, landing>>

\* the transaction is over, and nothing conflicts with it any more
Finish(r) ==
  /\ locks' = [locks EXCEPT ![r] = {}]
  /\ read' = [read EXCEPT ![r] = {}]
  /\ want' = [want EXCEPT ![r] = {}]
  /\ at' = [at EXCEPT ![r] = NoBlock]
  /\ landing' = [landing EXCEPT ![r] = FALSE]
  /\ UNCHANGED treeVars
-----------------------------------------------------------------------------
(* Writers *)

\* lion_insert_one(): the check of Target(k), before anything changes, then
\* the entry
Insert(k) ==
  /\ form' = [form EXCEPT ![k] = IF @ = "absent" THEN "inline" ELSE @]
  /\ UNCHANGED <<owned, right, state, root, given, locks, read, walkVars>>

\* lion_entry_spill_pos(): the INLINE set of k moves to a tree of its own, for
\* an insert or because it grew when VACUUM filtered it
Spill(k, b) ==
  /\ form[k] = "inline"
  /\ b \in Roots \ given
  /\ form' = [form EXCEPT ![k] = "chain"]
  /\ root' = [root EXCEPT ![k] = b]
  /\ given' = given \cup {b}
  /\ locks' = WithCopy(LeafOf(k), b)
  /\ UNCHANGED <<owned, right, state, read, walkVars>>

\* Not the code: a deleted leaf is handed out at once
RecyclableAtOnce(p) == state[p] \in {"free", "deleted"}

\* lion_alloc_page(): a free leaf no walk can hold a link to any more
Recyclable(p) ==
  \/ state[p] = "free"
  \/ state[p] = "deleted" /\ \A r \in Readers : at[r] = NoBlock

\* Not the code: the new sibling starts with no predicate locks
SplitLeafBare(p, q, upper) ==
  /\ Recyclable(q)
  /\ owned' = [owned EXCEPT ![p] = @ \ upper, ![q] = upper]
  /\ right' = [right EXCEPT ![p] = q, ![q] = right[p]]
  /\ state' = [state EXCEPT ![q] = "live"]
  /\ UNCHANGED locks

\* lion_dir_split(): the upper keys of p go to a new right sibling q
SplitLeaf(p, q, upper) ==
  /\ Recyclable(q)
  /\ owned' = [owned EXCEPT ![p] = @ \ upper, ![q] = upper]
  /\ right' = [right EXCEPT ![p] = q, ![q] = right[p]]
  /\ state' = [state EXCEPT ![q] = "live"]
  /\ locks' = WithCopy(p, q)

\* an insert that splits its leaf: the new entry, or the grown one, is placed
\* in the split's own record
InsertSplit(k, q) ==
  /\ \E cut, low \in owned[LeafOf(k)] :
       /\ low < cut
       /\ SplitLeaf(LeafOf(k), q, {j \in owned[LeafOf(k)] : j >= cut})
  /\ form' = [form EXCEPT ![k] = IF @ = "absent" THEN "inline" ELSE @]
  /\ UNCHANGED <<root, given, read, walkVars>>
-----------------------------------------------------------------------------
(* VACUUM *)

\* Not the code: the root's locks go with it
DeleteEntryUnmoved(k) ==
  /\ form[k] # "absent"
  /\ form' = [form EXCEPT ![k] = "absent"]
  /\ root' = [root EXCEPT ![k] = NoBlock]
  /\ UNCHANGED <<owned, right, state, given, locks, read, walkVars>>

\* lion_vacuum_delete_entries(): an entry whose set is empty
DeleteEntry(k) ==
  /\ form[k] # "absent"
  /\ form' = [form EXCEPT ![k] = "absent"]
  /\ root' = [root EXCEPT ![k] = NoBlock]
  /\ locks' = IF form[k] = "chain" THEN WithCopy(root[k], LeafOf(k)) ELSE locks
  /\ UNCHANGED <<owned, right, state, given, read, walkVars>>

\* Not the code: the sibling takes the range over and no lock
MarkHalfDeadUnmoved(p) ==
  /\ Live(p)
  /\ right[p] \in Leaves \ {p}
  /\ Live(right[p])
  /\ \A k \in owned[p] : form[k] = "absent"
  /\ owned' = [owned EXCEPT ![p] = {}, ![right[p]] = @ \cup owned[p]]
  /\ state' = [state EXCEPT ![p] = "halfdead"]
  /\ UNCHANGED <<right, form, root, given, locks, read, walkVars>>

\* lion_dirdel_mark_halfdead(): an empty leaf's range goes to its right
\* sibling, with its locks
MarkHalfDead(p) ==
  /\ Live(p)
  /\ right[p] \in Leaves \ {p}
  /\ Live(right[p])
  /\ \A k \in owned[p] : form[k] = "absent"
  /\ owned' = [owned EXCEPT ![p] = {}, ![right[p]] = @ \cup owned[p]]
  /\ state' = [state EXCEPT ![p] = "halfdead"]
  /\ locks' = WithCopy(p, right[p])
  /\ UNCHANGED <<right, form, root, given, read, walkVars>>

\* lion_dirdel_unlink_halfdead(): the chain passes it by
Unlink(p) ==
  /\ state[p] = "halfdead"
  /\ state' = [state EXCEPT ![p] = "deleted"]
  /\ right' = [q \in Leaves |->
                 IF right[q] = p /\ state[q] \in {"live", "halfdead"} THEN right[p]
                 ELSE right[q]]
  /\ UNCHANGED <<owned, form, root, given, locks, read, walkVars>>
-----------------------------------------------------------------------------
Init ==
  /\ owned = [p \in Leaves |-> IF p = First THEN Keys ELSE {}]
  /\ right = [p \in Leaves |-> NoBlock]
  /\ state = [p \in Leaves |-> IF p = First THEN "live" ELSE "free"]
  /\ form = [k \in Keys |-> "absent"]
  /\ root = [k \in Keys |-> NoBlock]
  /\ given = {}
  /\ locks = [r \in Readers |-> {}]
  /\ read = [r \in Readers |-> {}]
  /\ want = [r \in Readers |-> {}]
  /\ at = [r \in Readers |-> NoBlock]
  /\ landing = [r \in Readers |-> FALSE]

ReaderStep(r) ==
  \/ \E k \in Keys : Lookup(r, k)
  \/ \E lo, hi \in Keys : WalkBegin(r, lo, hi)
  \/ Land(r)
  \/ WalkLeaf(r)
  \/ Finish(r)

WriterStep(k) ==
  \/ Insert(k)
  \/ \E b \in Roots : Spill(k, b)
  \/ \E q \in Leaves : InsertSplit(k, q)

VacuumStep ==
  \/ \E k \in Keys : DeleteEntry(k)
  \/ \E p \in Leaves : MarkHalfDead(p) \/ Unlink(p)

Next ==
  \/ \E r \in Readers : ReaderStep(r)
  \/ \E k \in Keys : WriterStep(k)
  \/ VacuumStep

Spec == Init /\ [][Next]_vars
-----------------------------------------------------------------------------
TypeOK ==
  /\ owned \in [Leaves -> SUBSET Keys]
  /\ right \in [Leaves -> Leaves \cup {NoBlock}]
  /\ state \in [Leaves -> {"free", "live", "halfdead", "deleted"}]
  /\ form \in [Keys -> {"absent", "inline", "chain"}]
  /\ root \in [Keys -> Roots \cup {NoBlock}]
  /\ \A k \in Keys : (form[k] = "chain") = (root[k] # NoBlock)
  /\ given \subseteq Roots
  /\ locks \in [Readers -> SUBSET (Leaves \cup Roots)]
  /\ read \in [Readers -> SUBSET Keys]
  /\ want \in [Readers -> SUBSET Keys]
  /\ at \in [Readers -> Leaves \cup {NoBlock}]
  /\ landing \in [Readers -> BOOLEAN]

\* The page an insert of a key checks is one every SERIALIZABLE reader of that
\* key, or of the gap it goes into, has a predicate lock on, through splits,
\* spills, deleted entries and freed leaves in any order (lion_reader.c,
\* DESIGN.md section 9).
LocksFollowKeys ==
  \A r \in Readers : \A k \in read[r] : Target(k) \in locks[r]

\* A walk passes every key of its range, although leaves split, are emptied and
\* leave the chain between two of its steps: its locks stand for the whole range.
WalkCoversRange ==
  \A r \in Readers : at[r] = NoBlock => want[r] \subseteq read[r]
=============================================================================
