------------------------- MODULE LionPredLocksProof -------------------------
(***************************************************************************)
(* Proof that the page an insert of a key checks carries the predicate     *)
(* lock of everybody who read that key or its gap, for every number of     *)
(* keys, leaves and readers.  The step every case comes down to: a key has *)
(* one live leaf that owns it, so who moves the key off that page, or off  *)
(* the root of its tree, knows which page's locks to copy, and where to.   *)
(*                                                                         *)
(* And that a walk of a range reads every key of it: what it has not read  *)
(* is ahead of the leaf it stands on, also when that leaf has left the     *)
(* chain since.                                                            *)
(***************************************************************************)
EXTENDS LionPredLocks, TLAPS

\* every key is on one leaf, and only live leaves own keys
Owners ==
  /\ \A k \in Keys : \E p \in Leaves : k \in owned[p]
  /\ \A p, q \in Leaves : \A k \in Keys : k \in owned[p] /\ k \in owned[q] => p = q
  /\ \A p \in Leaves : owned[p] # {} => Live(p)

Inv == TypeOK /\ Owners /\ LocksFollowKeys

\* The leaf of a key is the leaf that owns it.
LEMMA LeafOfKey ==
  ASSUME Owners, NEW k \in Keys
  PROVE  /\ LeafOf(k) \in Leaves
         /\ Live(LeafOf(k))
         /\ k \in owned[LeafOf(k)]
         /\ \A p \in Leaves : k \in owned[p] => p = LeafOf(k)
<1>1. PICK p \in Leaves : k \in owned[p]  BY DEF Owners
<1>2. Live(p)  BY <1>1 DEF Owners
<1>3. LeafOf(k) \in Leaves /\ Live(LeafOf(k)) /\ k \in owned[LeafOf(k)]
  BY <1>1, <1>2 DEF LeafOf
<1> QED  BY <1>3 DEF Owners

\* The same for the next state.
LEMMA LeafOfKeyNext ==
  ASSUME Owners', NEW k \in Keys, NEW p \in Leaves, k \in owned'[p]
  PROVE  LeafOf(k)' = p
<1>1. Live(p)'  BY DEF Owners
<1>2. \A q \in Leaves : Live(q)' /\ k \in owned'[q] => q = p  BY DEF Owners
<1> QED  BY <1>1, <1>2 DEF LeafOf

\* WithCopy(a, b) keeps every lock, and gives b to whoever holds a.
LEMMA CopyKeeps ==
  ASSUME TypeOK, NEW a, NEW b \in Leaves \cup Roots, NEW r \in Readers,
         locks' = WithCopy(a, b)
  PROVE  /\ locks[r] \subseteq locks'[r]
         /\ a \in locks[r] => b \in locks'[r]
BY DEF WithCopy, Holders, TypeOK

\* Locks stay in their type whichever page they are copied from.
LEMMA CopyType ==
  ASSUME TypeOK, NEW a, NEW b \in Leaves \cup Roots, locks' = WithCopy(a, b)
  PROVE  locks' \in [Readers -> SUBSET (Leaves \cup Roots)]
BY DEF WithCopy, Holders, TypeOK

\* The page of a key is a page.
LEMMA TargetType ==
  ASSUME TypeOK, Owners, NEW k \in Keys
  PROVE  Target(k) \in Leaves \cup Roots
BY LeafOfKey, BlocksAssumption DEF Target, Stands, TypeOK
-----------------------------------------------------------------------------
\* Readers leave the tree alone.
LEMMA SameTree ==
  ASSUME Owners, UNCHANGED treeVars
  PROVE  Owners' /\ \A k \in Keys : Target(k)' = Target(k)
BY DEF Owners, Live, treeVars, Target, Stands, LeafOf

\* A lookup locks the page it reads the key from.
LEMMA LookupStep ==
  ASSUME Inv, NEW r \in Readers, NEW k \in Keys, Lookup(r, k)
  PROVE  Inv'
<1>1. Owners' /\ \A j \in Keys : Target(j)' = Target(j)
  BY SameTree DEF Inv, Lookup
<1>2. TypeOK'
  BY TargetType DEF Inv, TypeOK, Lookup, Fresh, treeVars, walkVars, Target
<1>3. LocksFollowKeys'
  BY <1>1 DEF Inv, TypeOK, LocksFollowKeys, Lookup, Target
<1> QED  BY <1>1, <1>2, <1>3 DEF Inv

\* A walk that begins locks nothing and has read nothing.
LEMMA WalkBeginStep ==
  ASSUME Inv, NEW r \in Readers, NEW lo \in Keys, NEW hi \in Keys, WalkBegin(r, lo, hi)
  PROVE  Inv'
<1>1. Owners' /\ \A j \in Keys : Target(j)' = Target(j)
  BY SameTree DEF Inv, WalkBegin
<1>2. TypeOK'
  BY LeafOfKey DEF Inv, TypeOK, WalkBegin, Fresh, treeVars
<1>3. LocksFollowKeys'
  BY <1>1 DEF Inv, TypeOK, LocksFollowKeys, WalkBegin
<1> QED  BY <1>1, <1>2, <1>3 DEF Inv

\* The landing walk locks the leaf, and every key of the gap there is absent.
LEMMA LandStep ==
  ASSUME Inv, NEW r \in Readers, Land(r)
  PROVE  Inv'
<1> DEFINE p == at[r]
<1> DEFINE found == EntriesFrom(r, p) # {}
<1>0. p \in Leaves  BY DEF Inv, TypeOK, Land
<1>1. Owners' /\ \A j \in Keys : Target(j)' = Target(j)
  BY SameTree DEF Inv, Land
<1>2. TypeOK'
  <2>1. locks' \in [Readers -> SUBSET (Leaves \cup Roots)]
    BY <1>0 DEF Inv, TypeOK, Land
  <2>2. read' \in [Readers -> SUBSET Keys]
    BY <1>0 DEF Inv, TypeOK, Land
  <2>3. at' \in [Readers -> Leaves \cup {NoBlock}]
    BY <1>0 DEF Inv, TypeOK, Land
  <2>4. landing' \in [Readers -> BOOLEAN]
    BY <1>0 DEF Inv, TypeOK, Land
  <2> QED  BY <2>1, <2>2, <2>3, <2>4 DEF Inv, TypeOK, Land, treeVars
<1>3. ASSUME NEW k \in want[r] \cap owned[p], ~found
      PROVE  Target(k) = p
  <2>1. k \in Keys /\ k >= k  BY KeysAssumption DEF Inv, TypeOK
  <2>2. form[k] = "absent"  BY <1>3, <2>1 DEF EntriesFrom
  <2>3. LeafOf(k) = p  BY <1>0, <1>3, <2>1, LeafOfKey DEF Inv
  <2> QED  BY <2>2, <2>3 DEF Target, Stands
<1>4. /\ locks' = [locks EXCEPT ![r] = @ \cup {p}]
      /\ read' = [read EXCEPT ![r] = IF found THEN @ ELSE @ \cup (want[r] \cap owned[p])]
  BY DEF Land
<1>5. LocksFollowKeys'
  <2> SUFFICES ASSUME NEW s \in Readers, NEW k \in read'[s]
               PROVE  Target(k)' \in locks'[s]
    BY DEF LocksFollowKeys
  <2>1. k \in Keys  BY <1>2 DEF TypeOK
  <2>2. locks[s] \subseteq locks'[s]  BY <1>4 DEF Inv, TypeOK
  <2>3. CASE k \in read[s]
    BY <1>1, <2>1, <2>2, <2>3 DEF Inv, LocksFollowKeys
  <2>4. CASE k \notin read[s]
    <3>1. s = r /\ ~found /\ k \in want[r] \cap owned[p]
      BY <1>4, <2>4 DEF Inv, TypeOK
    <3>2. p \in locks'[s]  BY <1>4, <3>1 DEF Inv, TypeOK
    <3> QED  BY <1>1, <1>3, <2>1, <3>1, <3>2
  <2> QED  BY <2>3, <2>4
<1> QED  BY <1>1, <1>2, <1>5 DEF Inv

\* A walk's leaf is locked with the root of every CHAIN entry on it.
LEMMA WalkLeafStep ==
  ASSUME Inv, NEW r \in Readers, WalkLeaf(r)
  PROVE  Inv'
<1> DEFINE p == at[r]
<1>0. p \in Leaves  BY DEF Inv, TypeOK, WalkLeaf
<1>1. Owners' /\ \A j \in Keys : Target(j)' = Target(j)
  BY SameTree DEF Inv, WalkLeaf
<1>2. ASSUME NEW k \in owned[p]
      PROVE  k \in Keys /\ Target(k) = Stands(k, p) /\ Target(k) \in LeafLocks(p)
  <2>1. k \in Keys  BY <1>0, <1>2 DEF Inv, TypeOK
  <2>2. LeafOf(k) = p  BY <1>0, <1>2, <2>1, LeafOfKey DEF Inv
  <2> QED  BY <1>2, <2>1, <2>2 DEF Target, LeafLocks
<1>3. LeafLocks(p) \subseteq Leaves \cup Roots
  BY <1>0, <1>2, TargetType DEF Inv, LeafLocks
<1>4. TypeOK'
  <2>1. locks' \in [Readers -> SUBSET (Leaves \cup Roots)]
    BY <1>3 DEF Inv, TypeOK, WalkLeaf
  <2>2. read' \in [Readers -> SUBSET Keys]
    BY <1>0 DEF Inv, TypeOK, WalkLeaf
  <2>3. at' \in [Readers -> Leaves \cup {NoBlock}]
    BY <1>0 DEF Inv, TypeOK, WalkLeaf
  <2> QED  BY <2>1, <2>2, <2>3 DEF Inv, TypeOK, WalkLeaf, treeVars
<1>5. LocksFollowKeys'
  <2> SUFFICES ASSUME NEW s \in Readers, NEW k \in read'[s]
               PROVE  Target(k)' \in locks'[s]
    BY DEF LocksFollowKeys
  <2>1. k \in Keys  BY <1>4 DEF TypeOK
  <2>2. locks[s] \subseteq locks'[s]  BY DEF Inv, TypeOK, WalkLeaf
  <2>3. CASE k \in read[s]
    BY <1>1, <2>1, <2>2, <2>3 DEF Inv, LocksFollowKeys
  <2>4. CASE k \notin read[s]
    <3>1. s = r /\ k \in owned[p]
      BY <2>4 DEF Inv, TypeOK, WalkLeaf
    <3>2. LeafLocks(p) \subseteq locks'[s]  BY <3>1 DEF Inv, TypeOK, WalkLeaf
    <3> QED  BY <1>1, <1>2, <2>1, <3>1, <3>2
  <2> QED  BY <2>3, <2>4
<1> QED  BY <1>1, <1>4, <1>5 DEF Inv

\* A transaction that is over has read nothing and holds no lock.
LEMMA FinishStep ==
  ASSUME Inv, NEW r \in Readers, Finish(r)
  PROVE  Inv'
<1>1. Owners' /\ \A j \in Keys : Target(j)' = Target(j)
  BY SameTree DEF Inv, Finish
<1>2. TypeOK'
  BY DEF Inv, TypeOK, Finish, treeVars
<1>3. LocksFollowKeys'
  <2> SUFFICES ASSUME NEW s \in Readers, NEW k \in read'[s]
               PROVE  Target(k)' \in locks'[s]
    BY DEF LocksFollowKeys
  <2>1. s # r /\ read'[s] = read[s] /\ locks'[s] = locks[s]
    BY DEF Inv, TypeOK, Finish
  <2>2. k \in Keys  BY <2>1 DEF Inv, TypeOK
  <2> QED  BY <1>1, <2>1, <2>2 DEF Inv, LocksFollowKeys
<1> QED  BY <1>1, <1>2, <1>3 DEF Inv
-----------------------------------------------------------------------------
\* Who changes the tree reads nothing: locks follow the keys if they follow each.
LEMMA FollowEach ==
  ASSUME Inv, UNCHANGED read,
         \A r \in Readers : \A k \in Keys : Target(k) \in locks[r] => Target(k)' \in locks'[r]
  PROVE  LocksFollowKeys'
BY DEF Inv, TypeOK, LocksFollowKeys

\* An entry that appears is on the leaf the gap it was inserted into was.
LEMMA InsertStep ==
  ASSUME Inv, NEW k \in Keys, Insert(k)
  PROVE  Inv'
<1>1. Owners' /\ \A j \in Keys : LeafOf(j)' = LeafOf(j)
  BY DEF Inv, Owners, Live, Insert, LeafOf
<1>2. TypeOK'
  BY DEF Inv, TypeOK, Insert, walkVars
<1>3. \A j \in Keys : Target(j)' = Target(j)
  BY <1>1 DEF Target, Stands, Insert, Inv, TypeOK
<1>4. LocksFollowKeys'
  BY <1>3, FollowEach DEF Insert
<1> QED  BY <1>1, <1>2, <1>4 DEF Inv

\* A spill copies the leaf's locks to the new root.
LEMMA SpillStep ==
  ASSUME Inv, NEW k \in Keys, NEW b \in Roots, Spill(k, b)
  PROVE  Inv'
<1>1. Owners' /\ \A j \in Keys : LeafOf(j)' = LeafOf(j)
  BY DEF Inv, Owners, Live, Spill, LeafOf
<1>2. locks' = WithCopy(LeafOf(k), b) /\ b # NoBlock
  BY BlocksAssumption DEF Spill
<1>3. TypeOK'
  <2>1. locks' \in [Readers -> SUBSET (Leaves \cup Roots)]
    BY <1>2, CopyType DEF Inv
  <2> QED  BY <1>2, <2>1 DEF Inv, TypeOK, Spill, walkVars
<1>4. Target(k) = LeafOf(k) /\ Target(k)' = b
  BY DEF Target, Stands, Spill, Inv, TypeOK
<1>5. \A j \in Keys \ {k} : Target(j)' = Target(j)
  BY <1>1 DEF Target, Stands, Spill, Inv, TypeOK
<1>6. \A r \in Readers : \A j \in Keys : Target(j) \in locks[r] => Target(j)' \in locks'[r]
  BY <1>2, <1>4, <1>5, CopyKeeps DEF Inv
<1>7. LocksFollowKeys'
  BY <1>6, FollowEach DEF Spill
<1> QED  BY <1>1, <1>3, <1>7 DEF Inv

\* A leaf that can be handed out owns nothing, so it is not the leaf that splits.
LEMMA SplitOwners ==
  ASSUME Inv, NEW k \in Keys, NEW q \in Leaves, NEW upper \in SUBSET owned[LeafOf(k)],
         SplitLeaf(LeafOf(k), q, upper)
  PROVE  /\ Owners'
         /\ \A j \in Keys : \/ LeafOf(j)' = LeafOf(j)
                            \/ LeafOf(j) = LeafOf(k) /\ LeafOf(j)' = q
<1> DEFINE p == LeafOf(k)
<1>1. p \in Leaves /\ Live(p)  BY LeafOfKey DEF Inv
<1>2. ~Live(q) /\ owned[q] = {} /\ q # p
  BY <1>1 DEF Inv, Owners, SplitLeaf, Recyclable, Live
<1>3. /\ owned' = [owned EXCEPT ![p] = @ \ upper, ![q] = upper]
      /\ state' = [state EXCEPT ![q] = "live"]
  BY DEF SplitLeaf
<1>4. /\ owned'[p] = owned[p] \ upper
      /\ owned'[q] = upper
      /\ \A x \in Leaves \ {p, q} : owned'[x] = owned[x]
      /\ \A x \in Leaves : (x = q \/ Live(x)) = Live(x)'
  BY <1>1, <1>2, <1>3 DEF Inv, TypeOK, Live
<1>5. Owners'
  <2>1. ASSUME NEW j \in Keys  PROVE  \E x \in Leaves : j \in owned'[x]
    <3>1. PICK x \in Leaves : j \in owned[x]  BY DEF Inv, Owners
    <3> QED  BY <1>1, <1>2, <1>4, <3>1
  <2>2. ASSUME NEW x \in Leaves, NEW y \in Leaves, NEW j \in Keys,
               j \in owned'[x], j \in owned'[y]
        PROVE  x = y
    <3>1. \A z \in Leaves : j \in owned'[z] => IF z = q THEN j \in owned[p] /\ j \in upper
                                                        ELSE j \in owned[z]
      BY <1>1, <1>4
    <3>2. \A z, w \in Leaves : j \in owned[z] /\ j \in owned[w] => z = w
      BY DEF Inv, Owners
    <3> QED  BY <1>1, <1>2, <1>4, <2>2, <3>1, <3>2
  <2>3. ASSUME NEW x \in Leaves, owned'[x] # {}  PROVE  Live(x)'
    BY <1>1, <1>4, <2>3 DEF Inv, Owners
  <2> QED  BY <2>1, <2>2, <2>3 DEF Owners, Live
<1>6. ASSUME NEW j \in Keys
      PROVE  LeafOf(j)' = LeafOf(j) \/ (LeafOf(j) = p /\ LeafOf(j)' = q)
  <2>1. LeafOf(j) \in Leaves /\ j \in owned[LeafOf(j)]  BY LeafOfKey DEF Inv
  <2>2. CASE j \in upper
    <3>1. LeafOf(j) = p  BY <1>1, <2>2, LeafOfKey DEF Inv
    <3>2. LeafOf(j)' = q  BY <1>4, <1>5, <2>2, LeafOfKeyNext
    <3> QED  BY <3>1, <3>2
  <2>3. CASE j \notin upper
    <3>1. j \in owned'[LeafOf(j)]  BY <1>2, <1>4, <2>1, <2>3
    <3> QED  BY <1>5, <2>1, <3>1, LeafOfKeyNext
  <2> QED  BY <2>2, <2>3
<1> QED  BY <1>5, <1>6

\* A split copies the leaf's locks to the new sibling.
LEMMA InsertSplitStep ==
  ASSUME Inv, NEW k \in Keys, NEW q \in Leaves, InsertSplit(k, q)
  PROVE  Inv'
<1> DEFINE p == LeafOf(k)
<1>1. PICK upper \in SUBSET owned[p] : SplitLeaf(p, q, upper)
  BY DEF InsertSplit
<1>2. /\ Owners'
      /\ \A j \in Keys : LeafOf(j)' = LeafOf(j) \/ (LeafOf(j) = p /\ LeafOf(j)' = q)
  BY <1>1, SplitOwners
<1>3. locks' = WithCopy(p, q) /\ p \in Leaves
  BY <1>1, LeafOfKey DEF SplitLeaf, Inv
<1>4. TypeOK'
  <2>1. locks' \in [Readers -> SUBSET (Leaves \cup Roots)]
    BY <1>3, CopyType DEF Inv
  <2>2. owned' \in [Leaves -> SUBSET Keys] /\ right' \in [Leaves -> Leaves \cup {NoBlock}]
    BY <1>1, <1>3 DEF SplitLeaf, Inv, TypeOK
  <2>3. state' \in [Leaves -> {"free", "live", "halfdead", "deleted"}]
    BY <1>1 DEF SplitLeaf, Inv, TypeOK
  <2> QED  BY <2>1, <2>2, <2>3 DEF Inv, TypeOK, InsertSplit, walkVars
<1>5. ASSUME NEW j \in Keys
      PROVE  Target(j)' = Target(j) \/ (Target(j) = p /\ Target(j)' = q)
  BY <1>2 DEF Target, Stands, InsertSplit, Inv, TypeOK
<1>6. \A r \in Readers : \A j \in Keys : Target(j) \in locks[r] => Target(j)' \in locks'[r]
  BY <1>3, <1>5, CopyKeeps DEF Inv
<1>7. LocksFollowKeys'
  BY <1>6, FollowEach DEF InsertSplit
<1> QED  BY <1>2, <1>4, <1>7 DEF Inv
-----------------------------------------------------------------------------
\* A deleted entry's locks go from its root to the leaf the gap is on.
LEMMA DeleteEntryStep ==
  ASSUME Inv, NEW k \in Keys, DeleteEntry(k)
  PROVE  Inv'
<1>1. Owners' /\ \A j \in Keys : LeafOf(j)' = LeafOf(j)
  BY DEF Inv, Owners, Live, DeleteEntry, LeafOf
<1>2. LeafOf(k) \in Leaves  BY LeafOfKey DEF Inv
<1>3. \A j \in Keys \ {k} : Target(j)' = Target(j)
  BY <1>1 DEF Target, Stands, DeleteEntry, Inv, TypeOK
<1>4. Target(k)' = LeafOf(k)
  BY <1>1 DEF Target, Stands, DeleteEntry, Inv, TypeOK
<1>5. CASE form[k] = "chain"
  <2>1. locks' = WithCopy(root[k], LeafOf(k)) /\ Target(k) = root[k]
    BY <1>5 DEF DeleteEntry, Target, Stands
  <2>2. \A r \in Readers : \A j \in Keys : Target(j) \in locks[r] => Target(j)' \in locks'[r]
    BY <1>2, <1>3, <1>4, <2>1, CopyKeeps DEF Inv
  <2>3. LocksFollowKeys'
    BY <2>2, FollowEach DEF DeleteEntry
  <2>4. locks' \in [Readers -> SUBSET (Leaves \cup Roots)]
    BY <1>2, <2>1, CopyType DEF Inv
  <2>5. TypeOK'
    BY <2>4 DEF Inv, TypeOK, DeleteEntry, walkVars
  <2> QED  BY <1>1, <2>3, <2>5 DEF Inv
<1>6. CASE form[k] # "chain"
  <2>1. locks' = locks /\ Target(k) = LeafOf(k)
    BY <1>6 DEF DeleteEntry, Target, Stands
  <2>2. LocksFollowKeys'
    BY <1>3, <1>4, <2>1, FollowEach DEF DeleteEntry
  <2>3. TypeOK'
    BY <2>1 DEF Inv, TypeOK, DeleteEntry, walkVars
  <2> QED  BY <1>1, <2>2, <2>3 DEF Inv
<1> QED  BY <1>5, <1>6

\* A leaf that leaves the tree has only gaps: they, and its locks, go to its sibling.
LEMMA MarkHalfDeadStep ==
  ASSUME Inv, NEW p \in Leaves, MarkHalfDead(p)
  PROVE  Inv'
<1> DEFINE q == right[p]
<1>1. q \in Leaves /\ q # p /\ Live(p) /\ Live(q)
  BY DEF MarkHalfDead
<1>2. /\ owned' = [owned EXCEPT ![p] = {}, ![q] = @ \cup owned[p]]
      /\ state' = [state EXCEPT ![p] = "halfdead"]
      /\ locks' = WithCopy(p, q)
  BY DEF MarkHalfDead
<1>3. /\ owned'[p] = {}
      /\ owned'[q] = owned[q] \cup owned[p]
      /\ \A x \in Leaves \ {p, q} : owned'[x] = owned[x]
      /\ \A x \in Leaves \ {p} : Live(x)' = Live(x)
  BY <1>1, <1>2 DEF Inv, TypeOK, Live
<1>4. Owners'
  <2>1. ASSUME NEW j \in Keys  PROVE  \E x \in Leaves : j \in owned'[x]
    <3>1. PICK x \in Leaves : j \in owned[x]  BY DEF Inv, Owners
    <3> QED  BY <1>1, <1>3, <3>1
  <2>2. ASSUME NEW x \in Leaves, NEW y \in Leaves, NEW j \in Keys,
               j \in owned'[x], j \in owned'[y]
        PROVE  x = y
    <3>1. \A z \in Leaves : j \in owned'[z] => z # p /\ (j \in owned[z] \/ (z = q /\ j \in owned[p]))
      BY <1>1, <1>3
    <3>2. \A z, w \in Leaves : j \in owned[z] /\ j \in owned[w] => z = w
      BY DEF Inv, Owners
    <3> QED  BY <1>1, <2>2, <3>1, <3>2
  <2>3. ASSUME NEW x \in Leaves, owned'[x] # {}  PROVE  Live(x)'
    BY <1>1, <1>3, <2>3 DEF Inv, Owners
  <2> QED  BY <2>1, <2>2, <2>3 DEF Owners, Live
<1>5. ASSUME NEW j \in Keys
      PROVE  \/ Target(j)' = Target(j)
             \/ Target(j) = p /\ Target(j)' = q
  <2>1. LeafOf(j) \in Leaves /\ j \in owned[LeafOf(j)]  BY LeafOfKey DEF Inv
  <2>2. CASE LeafOf(j) = p
    <3>1. form[j] = "absent"  BY <2>1, <2>2 DEF MarkHalfDead
    <3>2. LeafOf(j)' = q  BY <1>1, <1>3, <1>4, <2>1, <2>2, LeafOfKeyNext
    <3> QED  BY <2>2, <3>1, <3>2 DEF Target, Stands, MarkHalfDead
  <2>3. CASE LeafOf(j) # p
    <3>1. j \in owned'[LeafOf(j)]  BY <1>1, <1>3, <2>1, <2>3
    <3>2. LeafOf(j)' = LeafOf(j)  BY <1>4, <2>1, <3>1, LeafOfKeyNext
    <3> QED  BY <3>2 DEF Target, Stands, MarkHalfDead
  <2> QED  BY <2>2, <2>3
<1>6. \A r \in Readers : \A j \in Keys : Target(j) \in locks[r] => Target(j)' \in locks'[r]
  BY <1>1, <1>2, <1>5, CopyKeeps DEF Inv
<1>7. LocksFollowKeys'
  BY <1>6, FollowEach DEF MarkHalfDead
<1>8. TypeOK'
  <2>1. locks' \in [Readers -> SUBSET (Leaves \cup Roots)]
    BY <1>1, <1>2, CopyType DEF Inv
  <2>2. owned' \in [Leaves -> SUBSET Keys]
    BY <1>1, <1>2 DEF Inv, TypeOK
  <2> QED  BY <1>2, <2>1, <2>2 DEF Inv, TypeOK, MarkHalfDead, walkVars
<1> QED  BY <1>4, <1>7, <1>8 DEF Inv

\* The chain passes an empty leaf by: no key moves.
LEMMA UnlinkStep ==
  ASSUME Inv, NEW p \in Leaves, Unlink(p)
  PROVE  Inv'
<1>1. Owners' /\ \A j \in Keys : Target(j)' = Target(j)
  <2>1. owned' = owned /\ form' = form /\ root' = root  BY DEF Unlink
  <2>2. \A x \in Leaves : Live(x)' = Live(x)  BY DEF Unlink, Live, Inv, TypeOK
  <2>3. Owners'  BY <2>1, <2>2 DEF Inv, Owners, Live
  <2>4. ASSUME NEW j \in Keys  PROVE  LeafOf(j)' = LeafOf(j)
    BY <2>1, <2>3, LeafOfKey, LeafOfKeyNext DEF Inv
  <2> QED  BY <2>1, <2>3, <2>4 DEF Target, Stands
<1>2. TypeOK'
  BY DEF Inv, TypeOK, Unlink, walkVars
<1>3. LocksFollowKeys'
  BY <1>1, FollowEach DEF Unlink
<1> QED  BY <1>1, <1>2, <1>3 DEF Inv
-----------------------------------------------------------------------------
\* The empty directory: one leaf owns every key, and nobody has read.
LEMMA InitInv == Init => Inv
<1> SUFFICES ASSUME Init PROVE Inv  OBVIOUS
<1>1. TypeOK  BY BlocksAssumption DEF Init, TypeOK
<1>2. Owners  BY BlocksAssumption DEF Init, Owners, Live
<1>3. LocksFollowKeys  BY DEF Init, LocksFollowKeys
<1> QED  BY <1>1, <1>2, <1>3 DEF Inv

\* Every step keeps the invariant.
LEMMA NextInv == Inv /\ [Next]_vars => Inv'
<1> SUFFICES ASSUME Inv, [Next]_vars PROVE Inv'  OBVIOUS
<1>1. CASE UNCHANGED vars
  BY <1>1 DEF vars, treeVars, walkVars, Inv, TypeOK, Owners, Live, LocksFollowKeys, Target,
              Stands, LeafOf
<1>2. ASSUME NEW r \in Readers, ReaderStep(r)  PROVE  Inv'
  BY <1>2, LookupStep, WalkBeginStep, LandStep, WalkLeafStep, FinishStep DEF ReaderStep
<1>3. ASSUME NEW k \in Keys, WriterStep(k)  PROVE  Inv'
  BY <1>3, InsertStep, SpillStep, InsertSplitStep DEF WriterStep
<1>4. CASE VacuumStep
  BY <1>4, DeleteEntryStep, MarkHalfDeadStep, UnlinkStep DEF VacuumStep
<1> QED  BY <1>1, <1>2, <1>3, <1>4 DEF Next

\* The invariant holds in every state of every behaviour.
THEOREM PredLocksInvariant == Spec => []Inv
<1> QED  BY InitInv, NextInv, PTL DEF Spec

\* Every variable keeps its type: a lock is on a page of the index.
THEOREM PredLocksType == Spec => []TypeOK
<1>1. Inv => TypeOK  BY DEF Inv
<1> QED  BY <1>1, PredLocksInvariant, PTL

\* Whatever splits, spills, deletions of entries and freed leaves come between,
\* the page an insert checks is locked by every reader of the key or of its gap.
THEOREM PredLocksFollow == Spec => []LocksFollowKeys
<1>1. Inv => LocksFollowKeys  BY DEF Inv
<1> QED  BY <1>1, PredLocksInvariant, PTL
-----------------------------------------------------------------------------
(* Walks.  A leaf of the chain is given the first key it owns or, half-dead, *)
(* owned; a leaf that left the chain keeps what it had.  Then from every     *)
(* leaf a walk may stand on, the keys from its first one on are there or to  *)
(* the right: what a walk has not read is ahead of it.                       *)

InChain(p) == state[p] \in {"live", "halfdead"}

\* the leaves of the chain, each before the keys of the next
Chained(first) ==
  \A p \in Leaves : InChain(p) =>
    /\ Live(p) /\ Keys # {} => owned[p] # {}
    /\ \A k \in owned[p] : first[p] <= k
    /\ right[p] # NoBlock =>
         /\ InChain(right[p])
         /\ first[p] <= first[right[p]]
         /\ \A k \in owned[p] : k < first[right[p]]
         /\ \A q \in Leaves : InChain(q) /\ right[q] = right[p] => q = p

\* what leads on from the leaves of V stays in V, and passes every key
Passes(first, V) ==
  \A p \in V :
    /\ state[p] # "free"
    /\ right[p] # NoBlock => right[p] \in V
    /\ \A k \in Keys : first[p] <= k =>
         k \in owned[p] \/ (right[p] # NoBlock /\ first[right[p]] <= k)

\* a walk is on a leaf of V, and what it has still to read is not behind it
Ahead(first, V) ==
  \A r \in Readers :
    IF at[r] = NoBlock THEN want[r] \subseteq read[r]
    ELSE at[r] \in V /\ \A k \in want[r] \ read[r] : first[at[r]] <= k

Walk(first, V) ==
  /\ first \in [Leaves -> Nat]
  /\ V \subseteq Leaves
  /\ \A p \in Leaves : InChain(p) => p \in V
  /\ Chained(first)
  /\ Passes(first, V)
  /\ Ahead(first, V)

WalkInv == \E first, V : Walk(first, V)

\* The chain is all that matters when nobody walks: leaves that left it may go.
LEMMA ChainPasses ==
  ASSUME TypeOK, NEW first, NEW V, Walk(first, V)
  PROVE  Passes(first, {p \in Leaves : InChain(p)})
BY DEF TypeOK, Walk, Chained, Passes, InChain

\* A change of what walks do not look at keeps them where they are.
LEMMA SameChain ==
  ASSUME NEW first, NEW V, Walk(first, V), UNCHANGED <<owned, right, state>>
  PROVE  Ahead(first, V)' => WalkInv'
<1> SUFFICES ASSUME Ahead(first, V)' PROVE Walk(first, V)'
  BY DEF WalkInv
<1>1. Chained(first)'  BY DEF Walk, Chained, InChain, Live
<1>2. Passes(first, V)'  BY DEF Walk, Passes
<1> QED  BY <1>1, <1>2 DEF Walk, InChain

\* Whoever writes leaves the walks where they are.
LEMMA EntryWalk ==
  ASSUME WalkInv, UNCHANGED <<owned, right, state, read, walkVars>>
  PROVE  WalkInv'
<1>1. PICK first, V : Walk(first, V)  BY DEF WalkInv
<1>2. Ahead(first, V)'  BY <1>1 DEF Walk, Ahead, walkVars
<1> QED  BY <1>1, <1>2, SameChain

\* A reader's step keeps the others' walks.
LEMMA ReaderWalk ==
  ASSUME Inv, WalkInv, NEW r \in Readers, ReaderStep(r)
  PROVE  WalkInv'
<1>1. PICK first, V : Walk(first, V)  BY DEF WalkInv
<1>2. UNCHANGED <<owned, right, state>>
  BY DEF ReaderStep, Lookup, WalkBegin, Land, WalkLeaf, Finish, treeVars
<1>3. \A s \in Readers \ {r} :
        want'[s] = want[s] /\ read'[s] = read[s] /\ at'[s] = at[s]
  BY DEF ReaderStep, Lookup, WalkBegin, Land, WalkLeaf, Finish, walkVars, Inv, TypeOK
<1> DEFINE Good == IF at'[r] = NoBlock THEN want'[r] \subseteq read'[r]
                   ELSE /\ at'[r] \in V
                        /\ \A k \in want'[r] \ read'[r] : first[at'[r]] <= k
<1>4. SUFFICES Good
  <2>1. Good => Ahead(first, V)'  BY <1>1, <1>3 DEF Walk, Ahead
  <2> QED  BY <1>1, <1>2, <1>4, <2>1, SameChain
<1>5. CASE \E k \in Keys : Lookup(r, k)
  BY <1>1, <1>5 DEF Lookup, Fresh, walkVars, Walk, Ahead, Inv, TypeOK
<1>6. ASSUME NEW lo \in Keys, NEW hi \in Keys, WalkBegin(r, lo, hi)
      PROVE  Good
  <2> DEFINE p == LeafOf(lo)
  <2>1. p \in Leaves /\ Live(p) /\ lo \in owned[p]  BY LeafOfKey DEF Inv
  <2>2. p \in V /\ first[p] <= lo /\ first[p] \in Nat /\ p # NoBlock
    BY <1>1, <2>1, BlocksAssumption DEF Walk, Chained, InChain, Live
  <2>3. at'[r] = p /\ want'[r] = {k \in Keys : lo <= k /\ k <= hi}
    BY <1>6 DEF WalkBegin, Inv, TypeOK
  <2>4. ASSUME NEW k \in want'[r]  PROVE  first[p] <= k
    <3>1. k \in Nat /\ lo \in Nat /\ lo <= k  BY <2>3, <2>4, KeysAssumption
    <3> QED  BY <2>2, <3>1
  <2> QED  BY <2>2, <2>3, <2>4
<1>7. ASSUME Land(r) \/ WalkLeaf(r)  PROVE  Good
  <2> DEFINE p == at[r]
  <2>1. /\ p # NoBlock /\ p \in V /\ p \in Leaves
        /\ \A k \in want[r] \ read[r] : first[p] <= k
        /\ want' = want /\ want[r] \subseteq Keys
    BY <1>1, <1>7 DEF Land, WalkLeaf, Walk, Ahead, Inv, TypeOK
  <2>2. CASE UNCHANGED <<at[r], read[r]>>
    BY <2>1, <2>2
  <2>3. CASE at'[r] = right[p] /\ read'[r] = read[r] \cup (want[r] \cap owned[p])
    <3>1. \A k \in want'[r] \ read'[r] : right[p] # NoBlock /\ first[right[p]] <= k
      BY <1>1, <2>1, <2>3 DEF Walk, Passes
    <3>2. right[p] # NoBlock => right[p] \in V
      BY <1>1, <2>1 DEF Walk, Passes
    <3> QED  BY <2>3, <3>1, <3>2
  <2>4. CASE /\ EntriesPast(r, p) # {} /\ at'[r] = NoBlock
             /\ read'[r] = read[r] \cup (want[r] \cap owned[p])
    <3>1. PICK j \in owned[p] : \A k \in want[r] : j > k
      BY <2>4 DEF EntriesPast
    <3>2. Live(p) /\ InChain(p) /\ j \in Keys
      BY <2>1, <3>1 DEF Inv, Owners, Live, InChain, TypeOK
    <3>3. ASSUME NEW k \in want[r] \ read[r]  PROVE  k \in owned[p]
      <4>1. CASE right[p] # NoBlock /\ first[right[p]] <= k
        <5>1. j < first[right[p]] /\ j > k
          BY <1>1, <2>1, <3>1, <3>2, <3>3, <4>1 DEF Walk, Chained
        <5>2. right[p] \in Leaves /\ first[right[p]] \in Nat /\ k \in Nat /\ j \in Nat
          BY <1>1, <2>1, <3>2, <3>3, <4>1, KeysAssumption DEF Walk, Inv, TypeOK
        <5> QED  BY <4>1, <5>1, <5>2
      <4> QED  BY <1>1, <2>1, <3>3, <4>1 DEF Walk, Passes
    <3> QED  BY <2>1, <2>4, <3>3
  <2> QED
    BY <1>7, <2>2, <2>3, <2>4 DEF Land, WalkLeaf, Inv, TypeOK
<1>8. CASE Finish(r)
  BY <1>8 DEF Finish, Inv, TypeOK
<1> QED  BY <1>5, <1>6, <1>7, <1>8 DEF ReaderStep
\* A split: the new sibling begins with the key the leaf was cut at.
LEMMA SplitWalk ==
  ASSUME Inv, WalkInv, NEW k \in Keys, NEW q \in Leaves, InsertSplit(k, q)
  PROVE  WalkInv'
<1> DEFINE p == LeafOf(k)
<1>1. PICK first, V : Walk(first, V)  BY DEF WalkInv
<1>2. PICK cut \in owned[p], low \in owned[p] :
        low < cut /\ SplitLeaf(p, q, {j \in owned[p] : j >= cut})
  BY DEF InsertSplit
<1> DEFINE upper == {j \in owned[p] : j >= cut}
<1>3. p \in Leaves /\ Live(p) /\ InChain(p) /\ p # NoBlock /\ q # NoBlock
  BY LeafOfKey, BlocksAssumption DEF Inv, InChain, Live
<1>4. ~InChain(q) /\ owned[q] = {} /\ q # p
  BY <1>2, <1>3 DEF Inv, Owners, SplitLeaf, Recyclable, InChain, Live
<1>5. owned[p] \subseteq Keys /\ \A x \in Leaves : owned[x] \subseteq Nat
  BY <1>3, KeysAssumption DEF Inv, TypeOK
\* the leaves walks may stand on, but for q
<1>6. \E W : /\ Walk(first, W) /\ q \notin W
  <2>1. CASE state[q] = "free"
    BY <1>1, <2>1 DEF Walk, Passes
  <2>2. CASE state[q] # "free"
    <3>1. \A r \in Readers : at[r] = NoBlock
      BY <1>2, <2>2 DEF SplitLeaf, Recyclable
    <3>2. Ahead(first, {x \in Leaves : InChain(x)})
      BY <1>1, <3>1 DEF Walk, Ahead
    <3>3. Walk(first, {x \in Leaves : InChain(x)})
      BY <1>1, <3>2, ChainPasses DEF Inv, Walk
    <3> QED  BY <1>4, <3>3
  <2> QED  BY <2>1, <2>2
<1>7. PICK W : Walk(first, W) /\ q \notin W  BY <1>6
<1> DEFINE begin == [first EXCEPT ![q] = cut]
<1>8. /\ begin[q] = cut /\ cut \in Nat /\ low \in Nat /\ begin \in [Leaves -> Nat]
      /\ \A x \in Leaves \ {q} : begin[x] = first[x]
      /\ \A x \in Leaves : first[x] \in Nat
  BY <1>2, <1>3, <1>5, <1>7 DEF Walk
<1>9. /\ owned'[p] = owned[p] \ upper /\ owned'[q] = upper
      /\ \A x \in Leaves \ {p, q} : owned'[x] = owned[x]
      /\ right'[p] = q /\ right'[q] = right[p]
      /\ \A x \in Leaves \ {p, q} : right'[x] = right[x]
      /\ state'[q] = "live" /\ \A x \in Leaves \ {q} : state'[x] = state[x]
  BY <1>2, <1>3, <1>4 DEF SplitLeaf, Inv, TypeOK
<1>10. \A x \in Leaves : right[x] \in Leaves \cup {NoBlock}
  BY DEF Inv, TypeOK
<1> HIDE DEF p, begin, upper
<1>11. /\ first[p] <= cut
       /\ right[p] # NoBlock => right[p] # q /\ cut < first[right[p]]
  BY <1>2, <1>3, <1>4, <1>7 DEF Walk, Chained, p
<1>12. \A j \in upper : j \in owned[p] /\ j >= cut
  BY DEF upper
<1>13. \A j \in owned[p] \ upper : j < cut
  BY <1>2, <1>3, <1>5, <1>8 DEF upper
<1>14. cut \in upper /\ low \in owned[p] \ upper
  BY <1>2, <1>5, <1>8 DEF upper, p
<1>15. \A x \in Leaves : InChain(x)' = (InChain(x) \/ x = q)
  BY <1>3, <1>4, <1>9 DEF InChain
<1>16. \A x, y \in Leaves :
         InChain(x) /\ InChain(y) /\ right[x] # NoBlock /\ right[y] = right[x] => y = x
  BY <1>7 DEF Walk, Chained
<1>17. \A x \in Leaves : InChain(x) /\ right[x] # NoBlock =>
         InChain(right[x]) /\ right[x] # q
  BY <1>4, <1>7 DEF Walk, Chained
\* no two leaves of the chain lead to the same
<1>18. ASSUME NEW x \in Leaves, NEW y \in Leaves, InChain(x)', InChain(y)',
              right'[x] # NoBlock, right'[y] = right'[x]
       PROVE  y = x
  <2>1. \A z \in Leaves \ {q} : InChain(z)' => InChain(z)
    BY <1>15
  <2>2. CASE x = q
    BY <1>3, <1>9, <1>10, <1>16, <1>17, <1>18, <2>1, <2>2
  <2>3. CASE y = q
    BY <1>3, <1>9, <1>10, <1>16, <1>17, <1>18, <2>1, <2>3
  <2>4. CASE x # q /\ y # q
    BY <1>3, <1>9, <1>10, <1>16, <1>17, <1>18, <2>1, <2>4
  <2> QED  BY <2>2, <2>3, <2>4
<1>19. ASSUME NEW x \in Leaves, InChain(x)'
       PROVE  /\ Live(x)' /\ Keys # {} => owned'[x] # {}
              /\ \A j \in owned'[x] : begin[x] <= j
              /\ right'[x] # NoBlock =>
                   /\ InChain(right[x])'
                   /\ begin[x] <= begin[right'[x]]
                   /\ \A j \in owned'[x] : j < begin[right'[x]]
  <2>1. CASE x = q
    <3>1. right[p] # NoBlock =>
            /\ right[p] \in Leaves \ {q} /\ InChain(right[p])
            /\ cut < first[right[p]] /\ \A j \in owned[p] : j < first[right[p]]
      BY <1>3, <1>7, <1>10, <1>11 DEF Walk, Chained
    <3>2. Live(q)' /\ owned'[q] # {}  BY <1>9, <1>14 DEF Live
    <3>3. \A j \in owned'[q] : begin[q] <= j
      BY <1>5, <1>8, <1>9, <1>12
    <3>4. \A j \in owned'[q] : right[p] # NoBlock => j < begin[right[p]]
      BY <1>8, <1>9, <1>12, <3>1
    <3>5. right[p] # NoBlock => begin[q] <= begin[right[p]] /\ InChain(right[q])'
      BY <1>8, <1>9, <1>15, <3>1 DEF InChain
    <3> QED  BY <1>9, <2>1, <3>2, <3>3, <3>4, <3>5
  <2>2. CASE x = p
    <3>1. \A j \in owned[p] : first[p] <= j
      BY <1>3, <1>7 DEF Walk, Chained
    <3> QED  BY <1>3, <1>4, <1>8, <1>9, <1>11, <1>13, <1>14, <1>15, <2>2, <3>1
  <2>3. CASE x # q /\ x # p
    <3>1. /\ InChain(x)
          /\ Live(x)' = Live(x) /\ owned'[x] = owned[x] /\ right'[x] = right[x]
          /\ begin[x] = first[x]
      BY <1>8, <1>9, <1>15, <1>19, <2>3 DEF Live
    <3>2. /\ Live(x) /\ Keys # {} => owned[x] # {}
          /\ \A j \in owned[x] : first[x] <= j
          /\ right[x] # NoBlock =>
               /\ InChain(right[x]) /\ right[x] \in Leaves \ {q}
               /\ first[x] <= first[right[x]]
               /\ \A j \in owned[x] : j < first[right[x]]
      BY <1>7, <1>10, <1>17, <3>1 DEF Walk, Chained
    <3> QED  BY <1>8, <1>15, <3>1, <3>2
  <2> QED  BY <2>1, <2>2, <2>3
<1>20. Chained(begin)'
  BY <1>18, <1>19 DEF Chained
\* from the leaf that splits and from its sibling, every key is still ahead
<1>21. Passes(begin, W \cup {q})'
  <2>1. ASSUME NEW x \in W \ {p}
        PROVE  /\ state'[x] # "free"
               /\ right'[x] # NoBlock => right'[x] \in W
               /\ \A j \in Keys : begin[x] <= j =>
                    j \in owned'[x] \/ (right'[x] # NoBlock /\ begin[right'[x]] <= j)
    <3>1. x \in Leaves \ {p, q}  BY <1>7, <2>1 DEF Walk
    <3>2. /\ state[x] # "free"
          /\ right[x] # NoBlock => right[x] \in W /\ right[x] \in Leaves \ {q}
          /\ \A j \in Keys : first[x] <= j =>
               j \in owned[x] \/ (right[x] # NoBlock /\ first[right[x]] <= j)
      BY <1>7, <2>1 DEF Walk, Passes
    <3> QED  BY <1>8, <1>9, <3>1, <3>2
  <2>2. /\ right[p] # NoBlock => right[p] \in W /\ right[p] \in Leaves \ {q}
        /\ \A j \in Keys : first[p] <= j =>
             j \in owned[p] \/ (right[p] # NoBlock /\ first[right[p]] <= j)
    BY <1>3, <1>7 DEF Walk, Passes
  <2>3. ASSUME NEW j \in Keys, first[p] <= j
        PROVE  j \in owned'[p] \/ cut <= j
    <3>1. j \in Nat  BY <2>3, KeysAssumption
    <3>2. right[p] # NoBlock => cut < first[right[p]] /\ first[right[p]] \in Nat
      BY <1>8, <1>11, <2>2
    <3> QED  BY <1>8, <1>9, <1>12, <2>2, <2>3, <3>1, <3>2
  <2>4. ASSUME NEW j \in Keys, cut <= j
        PROVE  j \in owned'[q] \/ (right[p] # NoBlock /\ begin[right[p]] <= j)
    <3>1. j \in Nat /\ first[p] \in Nat  BY <1>3, <1>8, <2>4, KeysAssumption
    <3>2. first[p] <= j  BY <1>8, <1>11, <2>4, <3>1
    <3>3. j \in owned[p] => j \in upper
      BY <2>4, <3>1, <1>8 DEF upper
    <3> QED  BY <1>8, <1>9, <2>2, <2>4, <3>2, <3>3
  <2>5. state'[p] # "free" /\ state'[q] # "free"
    BY <1>3, <1>4, <1>9 DEF InChain
  <2>6. p \in W  BY <1>3, <1>7 DEF Walk
  <2> QED  BY <1>3, <1>4, <1>8, <1>9, <2>1, <2>2, <2>3, <2>4, <2>5, <2>6 DEF Passes
<1>22. Ahead(begin, W \cup {q})'
  <2>1. want' = want /\ read' = read /\ at' = at
    BY DEF InsertSplit, walkVars
  <2>2. \A x \in W : begin[x] = first[x]
    BY <1>7, <1>8 DEF Walk
  <2> QED  BY <1>7, <2>1, <2>2 DEF Walk, Ahead
<1>23. Walk(begin, W \cup {q})'
  BY <1>7, <1>8, <1>15, <1>20, <1>21, <1>22 DEF Walk
<1> QED  BY <1>23 DEF WalkInv

\* A leaf VACUUM empties: its sibling begins where it began.
LEMMA HalfDeadWalk ==
  ASSUME Inv, WalkInv, NEW p \in Leaves, MarkHalfDead(p)
  PROVE  WalkInv'
<1>0. PICK q \in Leaves \ {p} : q = right[p] /\ Live(q)
  BY DEF MarkHalfDead
<1>1. q \in Leaves /\ q # p /\ Live(p) /\ Live(q) /\ InChain(p) /\ InChain(q) /\ q # NoBlock
  BY <1>0, BlocksAssumption DEF MarkHalfDead, InChain, Live
<1>2. PICK first, V : Walk(first, V)  BY DEF WalkInv
<1> DEFINE begin == [first EXCEPT ![q] = first[p]]
<1>3. /\ begin[q] = first[p] /\ begin \in [Leaves -> Nat]
      /\ \A x \in Leaves \ {q} : begin[x] = first[x]
      /\ \A x \in Leaves : first[x] \in Nat
  BY <1>1, <1>2 DEF Walk
<1>4. /\ owned'[p] = {} /\ owned'[q] = owned[q] \cup owned[p]
      /\ \A x \in Leaves \ {p, q} : owned'[x] = owned[x]
      /\ right' = right
      /\ state'[p] = "halfdead" /\ \A x \in Leaves \ {p} : state'[x] = state[x]
  BY <1>0, <1>1 DEF MarkHalfDead, Inv, TypeOK
<1>5. /\ \A x \in Leaves : right[x] \in Leaves \cup {NoBlock}
      /\ \A x \in Leaves : owned[x] \subseteq Nat /\ owned[x] \subseteq Keys
      /\ Keys \subseteq Nat
  BY KeysAssumption DEF Inv, TypeOK
<1> HIDE DEF begin
<1>6. \A x \in Leaves : InChain(x)' = InChain(x)
  BY <1>1, <1>4 DEF InChain
<1>7. /\ first[p] <= first[q]
      /\ \A j \in owned[p] : first[p] <= j /\ j < first[q]
      /\ \A x \in Leaves : InChain(x) /\ right[x] = q => x = p
  BY <1>0, <1>1, <1>2 DEF Walk, Chained
<1>8. Chained(begin)'
  <2>1. ASSUME NEW x \in Leaves, InChain(x)
        PROVE  /\ Live(x)' /\ Keys # {} => owned'[x] # {}
               /\ \A j \in owned'[x] : begin[x] <= j
               /\ right[x] # NoBlock =>
                    /\ InChain(right[x])
                    /\ begin[x] <= begin[right[x]]
                    /\ \A j \in owned'[x] : j < begin[right[x]]
    <3>0. /\ Live(x) /\ Keys # {} => owned[x] # {}
          /\ \A j \in owned[x] : first[x] <= j
          /\ right[x] # NoBlock =>
               /\ InChain(right[x]) /\ right[x] \in Leaves
               /\ first[x] <= first[right[x]]
               /\ \A j \in owned[x] : j < first[right[x]]
      BY <1>2, <1>5, <2>1 DEF Walk, Chained
    <3>1. CASE x = p
      BY <1>0, <1>1, <1>3, <1>4, <3>0, <3>1 DEF Live
    <3>2. CASE x = q
      <4>1. Keys # {} => owned[q] # {}  BY <1>1, <3>0, <3>2
      <4>2. \A j \in owned'[q] : begin[q] <= j
        BY <1>1, <1>3, <1>4, <1>5, <1>7, <3>0, <3>2
      <4>3. CASE right[q] # NoBlock /\ right[q] # q
        <5>1. first[p] <= first[right[q]] /\ begin[right[q]] = first[right[q]]
          BY <1>1, <1>3, <1>7, <3>0, <3>2, <4>3
        <5>2. \A j \in owned[p] \cup owned[q] : j < first[right[q]]
          BY <1>1, <1>3, <1>5, <1>7, <3>0, <3>2, <4>3
        <5> QED  BY <1>3, <1>4, <3>0, <3>2, <4>1, <4>2, <4>3, <5>1, <5>2
      \* it does not lead to itself: its keys are before the next one's
      <4>4. CASE right[q] = q
        <5>1. owned[q] = {}
          <6>1. \A j \in owned[q] : first[q] <= j /\ j < first[q]
            BY <1>1, <3>0, <3>2, <4>4
          <6> QED  BY <1>1, <1>3, <1>5, <6>1
        <5>2. owned'[q] = {}
          BY <1>1, <1>4, <1>5, <4>1, <5>1
        <5> QED  BY <1>1, <1>3, <3>0, <3>2, <4>1, <4>4, <5>1, <5>2
      <4>5. CASE right[q] = NoBlock
        BY <1>4, <3>2, <4>1, <4>2, <4>5
      <4> QED  BY <4>3, <4>4, <4>5
    <3>3. CASE x \notin {p, q}
      <4>1. right[x] # q  BY <1>7, <2>1, <3>3
      <4> QED  BY <1>3, <1>4, <3>0, <3>3, <4>1 DEF Live
    <3> QED  BY <3>1, <3>2, <3>3
  <2>2. \A x, y \in Leaves :
          InChain(x) /\ InChain(y) /\ right[x] # NoBlock /\ right[y] = right[x] => y = x
    BY <1>2 DEF Walk, Chained
  <2> QED  BY <1>4, <1>5, <1>6, <2>1, <2>2 DEF Chained
<1>9. Passes(begin, V)'
  <2> SUFFICES ASSUME NEW x \in V
               PROVE  /\ state'[x] # "free"
                      /\ right[x] # NoBlock => right[x] \in V
                      /\ \A j \in Keys : begin[x] <= j =>
                           j \in owned'[x] \/ (right[x] # NoBlock /\ begin[right[x]] <= j)
    BY <1>4 DEF Passes
  <2>1. \A z \in V : /\ z \in Leaves /\ state[z] # "free"
                     /\ right[z] # NoBlock => right[z] \in V
                     /\ \A j \in Keys : first[z] <= j =>
                          j \in owned[z] \/ (right[z] # NoBlock /\ first[right[z]] <= j)
    BY <1>2 DEF Walk, Passes
  <2>2. p \in V /\ q \in V  BY <1>1, <1>2 DEF Walk
  \* what is ahead of a leaf is ahead of the earlier beginning
  <2>3. \A z \in Leaves : \A j \in Keys : first[z] <= j => begin[z] <= j
    <3>1. ASSUME NEW z \in Leaves, NEW j \in Keys, first[z] <= j  PROVE  begin[z] <= j
      <4>1. j \in Nat  BY <1>5
      <4> QED  BY <1>1, <1>3, <1>7, <3>1, <4>1
    <3> QED  BY <3>1
  <2>4. state'[x] # "free"  BY <1>4, <2>1
  <2>5. ASSUME NEW j \in Keys, begin[x] <= j
        PROVE  j \in owned'[x] \/ (right[x] # NoBlock /\ begin[right[x]] <= j)
    <3>1. CASE x = p
      BY <1>0, <1>1, <1>3, <2>5, <3>1
    <3>2. CASE x = q
      <4>1. first[p] <= j  BY <1>3, <2>5, <3>2
      <4>2. j \in owned[p] \/ first[q] <= j
        BY <1>0, <2>1, <2>2, <4>1
      <4>3. first[q] <= j => j \in owned[q] \/ (right[q] # NoBlock /\ begin[right[q]] <= j)
        BY <1>5, <2>1, <2>2, <2>3
      <4> QED  BY <1>4, <3>2, <4>2, <4>3
    <3>3. CASE x \notin {p, q}
      <4>1. first[x] <= j /\ owned'[x] = owned[x]
        BY <1>3, <1>4, <2>1, <2>5, <3>3
      <4> QED  BY <1>5, <2>1, <2>3, <4>1
    <3> QED  BY <3>1, <3>2, <3>3
  <2> QED  BY <2>1, <2>4, <2>5
<1>10. Ahead(begin, V)'
  <2>1. want' = want /\ read' = read /\ at' = at
    BY DEF MarkHalfDead, walkVars
  <2>2. \A r \in Readers : want[r] \subseteq Nat /\ V \subseteq Leaves
    BY <1>2, <1>5 DEF Inv, TypeOK, Walk
  <2>3. \A x \in Leaves : \A j \in Nat : first[x] <= j => begin[x] <= j
    <3>1. ASSUME NEW x \in Leaves, NEW j \in Nat, first[x] <= j  PROVE  begin[x] <= j
      BY <1>1, <1>3, <1>7, <3>1
    <3> QED  BY <3>1
  <2> QED  BY <1>2, <2>1, <2>2, <2>3 DEF Walk, Ahead
<1>11. Walk(begin, V)'
  BY <1>2, <1>3, <1>6, <1>8, <1>9, <1>10 DEF Walk
<1> QED  BY <1>11 DEF WalkInv

\* A leaf leaves the chain: the one before it leads to the one after it, and
\* a walk that stands on it still gets there.
LEMMA UnlinkWalk ==
  ASSUME Inv, WalkInv, NEW p \in Leaves, Unlink(p)
  PROVE  WalkInv'
<1>1. PICK first, V : Walk(first, V)  BY DEF WalkInv
<1>2. /\ state[p] = "halfdead" /\ InChain(p) /\ p \in V /\ p # NoBlock /\ owned[p] = {}
  BY <1>1, BlocksAssumption DEF Unlink, InChain, Walk, Inv, Owners, Live
<1>3. /\ owned' = owned
      /\ state'[p] = "deleted" /\ \A x \in Leaves \ {p} : state'[x] = state[x]
      /\ \A x \in Leaves : right'[x] = IF right[x] = p /\ InChain(x) THEN right[p]
                                       ELSE right[x]
  BY DEF Unlink, Inv, TypeOK, InChain
<1>4. \A x \in Leaves : InChain(x)' = (InChain(x) /\ x # p)
  BY <1>2, <1>3 DEF InChain
<1>5. /\ \A x \in Leaves : right[x] \in Leaves \cup {NoBlock}
      /\ \A x \in Leaves : owned[x] \subseteq Nat /\ owned[x] \subseteq Keys
      /\ Keys \subseteq Nat /\ \A x \in Leaves : first[x] \in Nat
  BY <1>1, KeysAssumption DEF Inv, TypeOK, Walk
<1>6. ASSUME NEW x \in Leaves, InChain(x)
      PROVE  /\ Live(x) /\ Keys # {} => owned[x] # {}
             /\ \A j \in owned[x] : first[x] <= j
             /\ right[x] # NoBlock =>
                  /\ InChain(right[x]) /\ right[x] \in Leaves
                  /\ first[x] <= first[right[x]]
                  /\ \A j \in owned[x] : j < first[right[x]]
                  /\ \A y \in Leaves : InChain(y) /\ right[y] = right[x] => y = x
  BY <1>1, <1>5, <1>6 DEF Walk, Chained
<1>7. Chained(first)'
  <2> SUFFICES ASSUME NEW x \in Leaves, InChain(x), x # p
               PROVE  /\ Live(x)' /\ Keys # {} => owned[x] # {}
                      /\ \A j \in owned[x] : first[x] <= j
                      /\ right'[x] # NoBlock =>
                           /\ InChain(right'[x]) /\ right'[x] # p
                           /\ first[x] <= first[right'[x]]
                           /\ \A j \in owned[x] : j < first[right'[x]]
                           /\ \A y \in Leaves :
                                InChain(y) /\ y # p /\ right'[y] = right'[x] => y = x
    <3>1. \A x \in Leaves : right'[x] \in Leaves \cup {NoBlock}
      BY <1>3, <1>5
    <3> QED  BY <1>3, <1>4, <3>1 DEF Chained
  <2>1. Live(x)' => Live(x)  BY <1>3 DEF Live
  <2>2. CASE right[x] = p
    <3>1. right'[x] = right[p]  BY <1>3, <2>2
    <3>2. right[p] # p  BY <1>2, <1>6, <2>2
    <3>3. first[x] <= first[p] /\ \A j \in owned[x] : j < first[p]
      BY <1>2, <1>6, <2>2
    <3>4. CASE right[p] # NoBlock
      <4>1. InChain(right[p]) /\ right[p] \in Leaves /\ first[p] <= first[right[p]]
        BY <1>2, <1>6, <3>4
      <4>2. first[x] <= first[right[p]]
        BY <1>5, <3>3, <4>1
      <4>3. \A j \in owned[x] : j < first[right[p]]
        BY <1>5, <3>3, <4>1
      <4>4. ASSUME NEW y \in Leaves, InChain(y), y # p, right'[y] = right[p]
            PROVE  y = x
        <5>1. right[y] = p  BY <1>2, <1>3, <1>6, <3>4, <4>4
        <5> QED  BY <1>2, <1>6, <2>2, <4>4, <5>1
      <4> QED  BY <1>6, <2>1, <3>1, <3>2, <4>1, <4>2, <4>3, <4>4
    <3> QED  BY <1>6, <2>1, <3>1, <3>4
  <2>3. CASE right[x] # p
    <3>1. right'[x] = right[x]  BY <1>3, <2>3
    <3>2. ASSUME right[x] # NoBlock, NEW y \in Leaves, InChain(y), y # p, right'[y] = right[x]
          PROVE  y = x
      <4>1. right[y] = right[x] \/ (right[y] = p /\ right[p] = right[x])
        BY <1>3, <3>2
      <4> QED  BY <1>2, <1>6, <3>2, <4>1
    <3> QED  BY <1>6, <2>1, <2>3, <3>1, <3>2
  <2> QED  BY <2>2, <2>3
<1>8. Passes(first, V)'
  <2> SUFFICES ASSUME NEW x \in V
               PROVE  /\ state'[x] # "free"
                      /\ right'[x] # NoBlock => right'[x] \in V
                      /\ \A j \in Keys : first[x] <= j =>
                           j \in owned[x] \/ (right'[x] # NoBlock /\ first[right'[x]] <= j)
    BY <1>3 DEF Passes
  <2>1. \A z \in V : /\ z \in Leaves /\ state[z] # "free"
                     /\ right[z] # NoBlock => right[z] \in V
                     /\ \A j \in Keys : first[z] <= j =>
                          j \in owned[z] \/ (right[z] # NoBlock /\ first[right[z]] <= j)
    BY <1>1 DEF Walk, Passes
  <2> QED  BY <1>2, <1>3, <2>1
<1>9. Ahead(first, V)'
  BY <1>1 DEF Unlink, walkVars, Walk, Ahead
<1>10. Walk(first, V)'
  BY <1>1, <1>4, <1>7, <1>8, <1>9 DEF Walk
<1> QED  BY <1>10 DEF WalkInv
-----------------------------------------------------------------------------
\* The empty directory is a chain of one leaf, and nobody walks.
LEMMA InitWalk == Init => WalkInv
<1> SUFFICES ASSUME Init PROVE Walk([p \in Leaves |-> 0], {First})
  BY DEF WalkInv
<1>1. \A k \in Keys : k \in Nat /\ 0 <= k  BY KeysAssumption
<1>2. /\ First \in Leaves /\ owned[First] = Keys /\ right[First] = NoBlock
      /\ state[First] = "live" /\ \A p \in Leaves : InChain(p) => p = First
  BY BlocksAssumption DEF Init, InChain
<1> QED  BY <1>1, <1>2 DEF Init, Walk, Chained, Passes, Ahead, Live

\* Every step keeps the walks' invariant.
LEMMA NextWalk == Inv /\ WalkInv /\ [Next]_vars => WalkInv'
<1> SUFFICES ASSUME Inv, WalkInv, [Next]_vars PROVE WalkInv'  OBVIOUS
<1>1. CASE UNCHANGED vars
  BY <1>1, EntryWalk DEF vars, treeVars
<1>2. ASSUME NEW r \in Readers, ReaderStep(r)  PROVE  WalkInv'
  BY <1>2, ReaderWalk
<1>3. ASSUME NEW k \in Keys, WriterStep(k)  PROVE  WalkInv'
  <2>1. CASE Insert(k) \/ \E b \in Roots : Spill(k, b)
    BY <2>1, EntryWalk DEF Insert, Spill
  <2>2. CASE \E q \in Leaves : InsertSplit(k, q)
    BY <2>2, SplitWalk
  <2> QED  BY <1>3, <2>1, <2>2 DEF WriterStep
<1>4. CASE VacuumStep
  <2>1. ASSUME NEW k \in Keys, DeleteEntry(k)  PROVE  WalkInv'
    BY <2>1, EntryWalk DEF DeleteEntry
  <2> QED  BY <1>4, <2>1, HalfDeadWalk, UnlinkWalk DEF VacuumStep
<1> QED  BY <1>1, <1>2, <1>3, <1>4 DEF Next

\* A walk of a range passes every key of it, for any number of keys, leaves and
\* readers: what splits, empties or unlinks leaves between two of its steps
\* never moves a key it has still to read behind it.
THEOREM PredLocksWalk == Spec => []WalkCoversRange
<1>1. Init => Inv /\ WalkInv  BY InitInv, InitWalk
<1>2. (Inv /\ WalkInv) /\ [Next]_vars => (Inv /\ WalkInv)'  BY NextInv, NextWalk
<1>3. Inv /\ WalkInv => WalkCoversRange
  BY DEF WalkInv, Walk, Ahead, WalkCoversRange
<1> QED  BY <1>1, <1>2, <1>3, PTL DEF Spec
=============================================================================
