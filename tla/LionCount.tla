----------------------------- MODULE LionCount -----------------------------
(***************************************************************************)
(* Counting the rows of one key while sessions insert and delete rows and  *)
(* VACUUM removes them: the interlock of the count engine (lion_set.c,     *)
(* lion_cursor.c, lion_count.c) with lion_vacuum.c over the posting set of *)
(* LionPosting.                                                            *)
(*                                                                         *)
(* A count copies a page of the set under a SHARE lock, keeps a PIN on it, *)
(* asks the heap's visibility map about the copied TIDs, and only then     *)
(* lets the pin go.  VACUUM removes TIDs under CLEANUP locks, which wait   *)
(* for pins, and marks a heap page all-visible only after the index call.  *)
(*                                                                         *)
(* The heap is external: a row's line pointer, its visibility map bit and  *)
(* the moments a snapshot sees it, as far as src/ relies on them.  A       *)
(* session's steps are the locks it takes; a cleanup lock and what is done *)
(* under it is one step, enabled when no other session pins the page.      *)
(***************************************************************************)
EXTENDS LionPosting

CONSTANTS DirLeaf,   \* the directory leaf, as a page to pin
          Modes,     \* how counts run: "map" pins and asks the map, "recheck"
                     \* has no interlock and rechecks every row in the heap
          Froms,     \* first container keys a count may be asked to start at
          Births     \* bound: rows ever inserted

ASSUME DirLeafAssumption == DirLeaf \notin Links
ASSUME ModesAssumption == Modes \subseteq {"map", "recheck"}
ASSUME FromsAssumption == Froms \subseteq Nat
ASSUME BirthsAssumption == Births \in Nat
ASSUME TidsAssumption == IsFiniteSet(Tids)

VARIABLES row,      \* TID -> "unused", "doing", "live" or "gone"
          vm,       \* heap block -> its all-visible bit
          births,   \* rows inserted so far
          pc,       \* reader -> where its count stands
          snap,     \* reader -> the TIDs its snapshot sees
          mode,     \* reader -> its mode
          from,     \* reader -> its first container key
          root,     \* reader -> the head it found in the entry
          link,     \* reader -> the block it goes to next
          pin,      \* reader -> the page or directory leaf it pins
          img,      \* reader -> the TIDs of its copy not counted yet
          tally,    \* reader -> TID -> times counted on the map's word
          queue,    \* reader -> TID -> times queued for the heap recheck
          vpc,      \* VACUUM: which part of its work is next
          vdead,    \* the TIDs this call removes
          vroot,    \* the head it found in the entry
          vpage,    \* the leaf its walk goes to next
          vempty    \* the leaves the walk left empty, in order

heapVars == <<row, vm, births>>
readerVars == <<pc, snap, mode, from, root, link, pin, img, tally, queue>>
vacuumVars == <<vpc, vdead, vroot, vpage, vempty>>
vars == <<postingVars, heapVars, readerVars, vacuumVars>>

Running == {r \in Readers : pc[r] # "idle"}
Pinned == {pin[r] : r \in Readers}
SeenByAll(t) == \A r \in Running : t \in snap[r]
-----------------------------------------------------------------------------
(* The heap and the sessions that write it *)

\* heap_insert(): the row exists, its page is no longer all-visible
HeapInsert(t) ==
  /\ row[t] = "unused"
  /\ births < Births
  /\ row' = [row EXCEPT ![t] = "doing"]
  /\ vm' = [vm EXCEPT ![BlockOf[t]] = FALSE]
  /\ births' = births + 1
  /\ UNCHANGED <<postingVars, readerVars, vacuumVars>>

\* its transaction goes on to insert into the index ...
IndexInsertBegin(t) ==
  /\ row[t] = "doing"
  /\ t \notin Indexed
  /\ InsertBegin(t)
  /\ UNCHANGED <<heapVars, readerVars, vacuumVars>>

\* ... and commits only after that
Commit(t) ==
  /\ row[t] = "doing"
  /\ t \in Indexed
  /\ ins # t
  /\ row' = [row EXCEPT ![t] = "live"]
  /\ UNCHANGED <<postingVars, vm, births, readerVars, vacuumVars>>

\* ... or aborts, before or after the insertion
Abort(t) ==
  /\ row[t] = "doing"
  /\ ins # t
  /\ row' = [row EXCEPT ![t] = "gone"]
  /\ UNCHANGED <<postingVars, vm, births, readerVars, vacuumVars>>

Delete(t) ==
  /\ row[t] = "live"
  /\ row' = [row EXCEPT ![t] = "gone"]
  /\ vm' = [vm EXCEPT ![BlockOf[t]] = FALSE]
  /\ UNCHANGED <<postingVars, births, readerVars, vacuumVars>>

\* VACUUM marks a heap page all-visible, between its calls of the index
SetAllVisible(b) ==
  /\ vpc = "heap"
  /\ ~vm[b]
  /\ \A t \in Tids : BlockOf[t] = b =>
       row[t] = "unused" \/ (row[t] = "live" /\ SeenByAll(t))
  /\ vm' = [vm EXCEPT ![b] = TRUE]
  /\ UNCHANGED <<postingVars, row, births, readerVars, vacuumVars>>

\* one record of the index insertion
IndexInsertStep ==
  /\ InsertStep(Running)
  /\ UNCHANGED <<heapVars, readerVars, vacuumVars>>

\* an ERROR or a crash in the middle of the insertion aborts its transaction
IndexInsertFails ==
  /\ InsertFails
  /\ row' = [row EXCEPT ![ins] = "gone"]
  /\ UNCHANGED <<vm, births, readerVars, vacuumVars>>
-----------------------------------------------------------------------------
(* A count.  held is a page another session has EXCLUSIVE. *)

Begin(r) ==
  /\ pc[r] = "idle"
  /\ pc' = [pc EXCEPT ![r] = "locate"]
  /\ snap' = [snap EXCEPT ![r] = {t \in Tids : row[t] = "live"}]
  /\ \E m \in Modes : mode' = [mode EXCEPT ![r] = m]
  /\ \E k \in Froms : from' = [from EXCEPT ![r] = k]
  /\ UNCHANGED <<postingVars, heapVars, root, link, pin, img, tally, queue,
                 vacuumVars>>

Window(r, S) == {t \in S : BlockOf[t] >= from[r]}

\* lion_posting_set_locate(): under the directory leaf's SHARE lock.  An
\* INLINE payload is copied, and the leaf's pin kept for the interlock; of a
\* CHAIN entry only the head block is taken
LocateEntry(r) ==
  /\ pc[r] = "locate"
  /\ IF form = "absent"
     THEN /\ pc' = [pc EXCEPT ![r] = "recheck"]
          /\ UNCHANGED <<root, link, pin, img>>
     ELSE IF form = "inline"
     THEN /\ pc' = [pc EXCEPT ![r] = "items"]
          /\ img' = [img EXCEPT ![r] = Window(r, inl)]
          /\ pin' = [pin EXCEPT ![r] = DirLeaf]
          /\ UNCHANGED <<root, link>>
     ELSE /\ pc' = [pc EXCEPT ![r] = "root"]
          /\ root' = [root EXCEPT ![r] = head]
          /\ link' = [link EXCEPT ![r] = head]
          /\ UNCHANGED <<pin, img>>
  /\ UNCHANGED <<postingVars, heapVars, snap, mode, from, tally, queue,
                 vacuumVars>>

Locate(r) == ins = NoTid /\ LocateEntry(r)

\* Not the code: a page that no longer claims the set restarts the descent
EndOfSetAgain(r) ==
  /\ pc' = [pc EXCEPT ![r] = "root"]
  /\ link' = [link EXCEPT ![r] = root[r]]
  /\ UNCHANGED <<root, pin, img>>

\* a page that no longer claims the set, or is no leaf of it: the set was
\* freed since, and the cursor ends
EndOfSet(r) ==
  /\ pc' = [pc EXCEPT ![r] = "recheck"]
  /\ UNCHANGED <<root, link, pin, img>>

\* lion_cursor_take_page(): items and right link are copied together; only a
\* count that asks the map keeps the pin
TakeLeaf(r, p, S) ==
  /\ pc' = [pc EXCEPT ![r] = "items"]
  /\ img' = [img EXCEPT ![r] = S]
  /\ link' = [link EXCEPT ![r] = right[p]]
  /\ pin' = [pin EXCEPT ![r] = IF mode[r] = "map" THEN p ELSE NoPage]
  /\ UNCHANGED root

\* the descent lands on leaf p: right while p cannot hold the first key
LandOn(r, p) ==
  IF MaxKey(p) < from[r] /\ right[p] # NoPage
  THEN /\ pc' = [pc EXCEPT ![r] = "leaf"]
       /\ link' = [link EXCEPT ![r] = right[p]]
       /\ UNCHANGED <<root, pin, img>>
  ELSE TakeLeaf(r, p, Window(r, items[p]))

\* lion_posting_descend() for a reader: the root, a leaf while it is flat.
\* The parent is unlocked before the child is locked
VisitRoot(r) ==
  /\ pc[r] = "root"
  /\ LET p == link[r]
     IN IF ~OwnsTree(p, root[r]) THEN EndOfSet(r)
        ELSE IF kind[p] = "inner"
        THEN /\ pc' = [pc EXCEPT ![r] = "leaf"]
             /\ link' = [link EXCEPT ![r] =
                           down[p][DownlinkOff(down[p], from[r])].child]
             /\ UNCHANGED <<root, pin, img>>
        ELSE LandOn(r, p)
  /\ UNCHANGED <<postingVars, heapVars, snap, mode, from, tally, queue,
                 vacuumVars>>

ReadRoot(r) == link[r] # held /\ VisitRoot(r)

\* ... and its leaves
VisitLeaf(r) ==
  /\ pc[r] = "leaf"
  /\ IF OwnsLeaf(link[r], root[r]) THEN LandOn(r, link[r]) ELSE EndOfSet(r)
  /\ UNCHANGED <<postingVars, heapVars, snap, mode, from, tally, queue,
                 vacuumVars>>

ReadLeaf(r) == link[r] # held /\ VisitLeaf(r)

Bump(f, S) == [t \in Tids |-> IF t \in S THEN f[t] + 1 ELSE f[t]]

\* Not the code: the map is asked whether or not there is an interlock
MapSays(r, k) == vm[k]

\* may the map's word be taken?  not in recovery, and not without pins (novm)
MapAllows(r, k) == mode[r] = "map" /\ vm[k]

\* lion_count_container_vm(): the next container of the copy, its members
\* counted when the map marks their block all-visible, queued otherwise
CountContainer(r) ==
  /\ pc[r] = "items"
  /\ img[r] # {}
  /\ LET k == CHOOSE j \in KeysOf(img[r]) : \A i \in KeysOf(img[r]) : j <= i
         c == {t \in img[r] : BlockOf[t] = k}
     IN /\ img' = [img EXCEPT ![r] = @ \ c]
        /\ IF MapAllows(r, k)
           THEN /\ tally' = [tally EXCEPT ![r] = Bump(@, c)]
                /\ UNCHANGED queue
           ELSE /\ queue' = [queue EXCEPT ![r] = Bump(@, c)]
                /\ UNCHANGED tally
  /\ UNCHANGED <<postingVars, heapVars, pc, snap, mode, from, root, link, pin,
                 vacuumVars>>

\* Not the code: the right link is read when the page is left
UnpinLinkLate(r) ==
  /\ pc[r] = "items"
  /\ img[r] = {}
  /\ LET next == IF pin[r] \in Pages THEN right[pin[r]] ELSE link[r]
     IN /\ link' = [link EXCEPT ![r] = next]
        /\ pc' = [pc EXCEPT ![r] = IF next = NoPage THEN "recheck" ELSE "next"]
  /\ pin' = [pin EXCEPT ![r] = NoPage]
  /\ UNCHANGED <<postingVars, heapVars, snap, mode, from, root, img, tally,
                 queue, vacuumVars>>

\* lion_cursor_next() past the last item of a copy: the pin goes
Unpin(r) ==
  /\ pc[r] = "items"
  /\ img[r] = {}
  /\ pin' = [pin EXCEPT ![r] = NoPage]
  /\ pc' = [pc EXCEPT ![r] = IF link[r] = NoPage THEN "recheck" ELSE "next"]
  /\ UNCHANGED <<postingVars, heapVars, snap, mode, from, root, link, img,
                 tally, queue, vacuumVars>>

\* ... and only then the right sibling is locked
VisitNext(r) ==
  /\ pc[r] = "next"
  /\ IF OwnsLeaf(link[r], root[r])
     THEN TakeLeaf(r, link[r], items[link[r]])
     ELSE EndOfSet(r)
  /\ UNCHANGED <<postingVars, heapVars, snap, mode, from, tally, queue,
                 vacuumVars>>

ReadNext(r) == link[r] # held /\ VisitNext(r)

\* a count lets everything go
Leave(r) ==
  /\ pc' = [pc EXCEPT ![r] = "idle"]
  /\ snap' = [snap EXCEPT ![r] = {}]
  /\ mode' = [mode EXCEPT ![r] = "none"]
  /\ from' = [from EXCEPT ![r] = 0]
  /\ root' = [root EXCEPT ![r] = NoPage]
  /\ link' = [link EXCEPT ![r] = NoPage]
  /\ pin' = [pin EXCEPT ![r] = NoPage]
  /\ img' = [img EXCEPT ![r] = {}]
  /\ tally' = [tally EXCEPT ![r] = [t \in Tids |-> 0]]
  /\ queue' = [queue EXCEPT ![r] = [t \in Tids |-> 0]]
  /\ UNCHANGED <<postingVars, heapVars, vacuumVars>>

\* lion_recheck_flush(): the queued rows its snapshot sees; the count returns
Return(r) == pc[r] = "recheck" /\ Leave(r)

\* what the count has counted t for
Counted(r, t) == tally[r][t] + (IF t \in snap[r] THEN queue[r][t] ELSE 0)
-----------------------------------------------------------------------------
(* VACUUM: lionbulkdelete() for one key *)

\* LockBufferForCleanup(): nobody else holds the page or has it pinned
CleanupLock(p) == p # held /\ p \notin Pinned

\* the heap was scanned and pruned: the line pointers of rows no snapshot
\* sees are dead, and collected
VacuumBegin ==
  /\ vpc = "heap"
  /\ vdead' = {t \in Tids : /\ row[t] = "gone"
                            /\ \A r \in Running : t \notin snap[r]}
  /\ vdead' # {}
  /\ vpc' = "entry"
  /\ UNCHANGED <<postingVars, heapVars, readerVars, vroot, vpage, vempty>>

\* pass 1, lion_vacuum_leaf_page(): the directory leaf under a cleanup lock
PassEntry ==
  /\ vpc = "entry"
  /\ ins = NoTid
  /\ IF form = "inline"
     THEN FilterInline(vdead)
     ELSE UNCHANGED postingVars
  /\ vpc' = IF form = "chain" THEN "root" ELSE "delete"
  /\ vroot' = head
  /\ UNCHANGED <<heapVars, readerVars, vdead, vpage, vempty>>

VacuumEntry == CleanupLock(DirLeaf) /\ PassEntry

\* lion_vacuum_descend(): from the root, leaf or not, to the leftmost leaf
PassRoot ==
  /\ vpc = "root"
  /\ vpage' = IF kind[vroot] = "inner" THEN down[vroot][1].child ELSE vroot
  /\ vpc' = "page"
  /\ UNCHANGED <<postingVars, heapVars, readerVars, vdead, vroot, vempty>>

\* Not the code: the root is only read
VacuumRootShared == vroot # held /\ PassRoot

\* ... under a cleanup lock
VacuumRoot == CleanupLock(vroot) /\ PassRoot

\* lion_vacuum_container_page(), when the root was pushed down meanwhile
PassRestart ==
  /\ vpc = "page"
  /\ kind[vpage] = "inner"
  /\ vpc' = "root"
  /\ UNCHANGED <<postingVars, heapVars, readerVars, vdead, vroot, vpage,
                 vempty>>

VacuumRestart == CleanupLock(vpage) /\ PassRestart

\* Not the code: a page with nothing to remove needs no cleanup lock
LeafLockIfDead(p) ==
  p \in {q \in Pages \ {held} : items[q] \cap vdead # {} => q \notin Pinned}

\* the lock the walk takes on a leaf
LeafLock(p) == CleanupLock(p)

\* lion_vacuum_container_page(): every leaf under a cleanup lock, whether or
\* not anything of it goes; the right link is read in the same window.  A set
\* left with nothing goes with its entry, and its leaves are not unlinked
PassPage ==
  /\ vpc = "page"
  /\ FilterPage(vpage, vdead)
  /\ vpage' = right[vpage]
  /\ LET seen == IF items'[vpage] = {} THEN Append(vempty, vpage) ELSE vempty
     IN IF right[vpage] # NoPage
        THEN vempty' = seen /\ UNCHANGED vpc
        ELSE /\ vempty' = IF Indexed' = {} THEN <<>> ELSE seen
             /\ vpc' = "unlink"
  /\ UNCHANGED <<heapVars, readerVars, vdead, vroot>>

VacuumPage == LeafLock(vpage) /\ PassPage

\* Not the code: a leaf that may not go is tried until it may
VacuumUnlinkRetry ==
  /\ vpc = "unlink"
  /\ ins = NoTid
  /\ IF vempty = <<>>
     THEN /\ vpc' = "delete"
          /\ UNCHANGED <<postingVars, vempty>>
     ELSE /\ MayUnlink(Head(vempty))
          /\ vempty' = Tail(vempty)
          /\ UNCHANGED vpc
          /\ UnlinkLeaf(Head(vempty), Running)
  /\ UNCHANGED <<heapVars, readerVars, vdead, vroot, vpage>>

\* lion_vacuum_unlink_empties(): one leaf at a time, those that may go
VacuumUnlink ==
  /\ vpc = "unlink"
  /\ ins = NoTid
  /\ IF vempty = <<>>
     THEN /\ vpc' = "delete"
          /\ UNCHANGED <<postingVars, vempty>>
     ELSE /\ vempty' = Tail(vempty)
          /\ UNCHANGED vpc
          /\ IF MayUnlink(Head(vempty)) THEN UnlinkLeaf(Head(vempty), Running)
             ELSE UNCHANGED postingVars
  /\ UNCHANGED <<heapVars, readerVars, vdead, vroot, vpage>>

\* lion_vacuum_delete_entries(): under the directory leaf's cleanup lock again
PassDelete ==
  /\ vpc = "delete"
  /\ ins = NoTid
  /\ IF form # "absent" /\ Indexed = {} THEN DeleteEntry
     ELSE UNCHANGED postingVars
  /\ vpc' = "free"
  /\ UNCHANGED <<heapVars, readerVars, vdead, vroot, vpage, vempty>>

VacuumDelete == CleanupLock(DirLeaf) /\ PassDelete

\* lion_vacuum_free_chain() and the sweep: a page that is pinned stays
VacuumFree(p) ==
  /\ vpc = "free"
  /\ CleanupLock(p)
  /\ FreePage(p, Running)
  /\ UNCHANGED <<heapVars, readerVars, vacuumVars>>

\* the index call is over; only now the dead line pointers may be reused
VacuumReap ==
  /\ vpc = "free"
  /\ row' = [t \in Tids |-> IF t \in vdead THEN "unused" ELSE row[t]]
  /\ vpc' = "heap"
  /\ vdead' = {}
  /\ vroot' = NoPage
  /\ vpage' = NoPage
  /\ vempty' = <<>>
  /\ UNCHANGED <<postingVars, vm, births, readerVars>>

\* a cancel, an ERROR or a crash ends the call anywhere
VacuumFails ==
  /\ vpc # "heap"
  /\ vpc' = "heap"
  /\ vdead' = {}
  /\ vroot' = NoPage
  /\ vpage' = NoPage
  /\ vempty' = <<>>
  /\ UNCHANGED <<postingVars, heapVars, readerVars>>
-----------------------------------------------------------------------------
\* no count runs and VACUUM has not been called
RestInit ==
  /\ vm = [b \in Blocks |-> FALSE]
  /\ pc = [r \in Readers |-> "idle"]
  /\ snap = [r \in Readers |-> {}]
  /\ mode = [r \in Readers |-> "none"]
  /\ from = [r \in Readers |-> 0]
  /\ root = [r \in Readers |-> NoPage]
  /\ link = [r \in Readers |-> NoPage]
  /\ pin = [r \in Readers |-> NoPage]
  /\ img = [r \in Readers |-> {}]
  /\ tally = [r \in Readers |-> [t \in Tids |-> 0]]
  /\ queue = [r \in Readers |-> [t \in Tids |-> 0]]
  /\ vpc = "heap"
  /\ vdead = {}
  /\ vroot = NoPage
  /\ vpage = NoPage
  /\ vempty = <<>>

Init ==
  /\ PostingInit
  /\ row = [t \in Tids |-> "unused"]
  /\ births = 0
  /\ RestInit

HeapStep(t) == \/ HeapInsert(t) \/ IndexInsertBegin(t) \/ Commit(t)
               \/ Abort(t) \/ Delete(t)

ReaderStep(r) == \/ Begin(r) \/ Locate(r) \/ ReadRoot(r) \/ ReadLeaf(r)
                 \/ CountContainer(r) \/ Unpin(r) \/ ReadNext(r) \/ Return(r)

VacuumStep == \/ VacuumBegin \/ VacuumEntry \/ VacuumRoot \/ VacuumRestart
              \/ VacuumPage \/ VacuumUnlink \/ VacuumDelete
              \/ \E p \in Pages : VacuumFree(p)
              \/ VacuumReap \/ VacuumFails

Next ==
  \/ \E t \in Tids : HeapStep(t)
  \/ \E b \in Blocks : SetAllVisible(b)
  \/ IndexInsertStep
  \/ IndexInsertFails
  \/ \E r \in Readers : ReaderStep(r)
  \/ VacuumStep

Spec == Init /\ [][Next]_vars

\* Content locks are queued and a writer's call is finite, so an insertion that
\* has begun ends; a session waiting for a lock or a pin that is let go again
\* and again gets its turn in the end.  Nobody has to begin anything.
Advance(r) == \/ Locate(r) \/ ReadRoot(r) \/ ReadLeaf(r) \/ CountContainer(r)
              \/ Unpin(r) \/ ReadNext(r) \/ Return(r)
VacuumAdvance == \/ VacuumEntry \/ VacuumRoot \/ VacuumRestart \/ VacuumPage
                 \/ VacuumUnlink \/ VacuumDelete \/ VacuumReap

Fairness == /\ WF_vars(IndexInsertStep \/ IndexInsertFails)
            /\ \A r \in Readers : SF_vars(Advance(r))
            /\ SF_vars(VacuumAdvance)

FairSpec == Spec /\ Fairness
-----------------------------------------------------------------------------
TypeOK ==
  /\ PostingTypeOK
  /\ row \in [Tids -> {"unused", "doing", "live", "gone"}]
  /\ vm \in [Blocks -> BOOLEAN]
  /\ births \in Nat
  /\ pc \in [Readers -> {"idle", "locate", "root", "leaf", "items", "next",
                         "recheck"}]
  /\ snap \in [Readers -> SUBSET Tids]
  /\ mode \in [Readers -> Modes \cup {"none"}]
  /\ from \in [Readers -> Nat]
  /\ root \in [Readers -> Links]
  /\ link \in [Readers -> Links]
  /\ pin \in [Readers -> Links \cup {DirLeaf}]
  /\ \A r \in Readers : pin[r] # NoPage => pc[r] = "items"
  /\ img \in [Readers -> SUBSET Tids]
  /\ tally \in [Readers -> [Tids -> Nat]]
  /\ queue \in [Readers -> [Tids -> Nat]]
  /\ vpc \in {"heap", "entry", "root", "page", "unlink", "delete", "free"}
  /\ vdead \subseteq Tids
  /\ vroot \in Links
  /\ vpage \in Links
  /\ vempty \in Seq(Pages)

\* A count that has read the whole set has counted every row of its window that
\* its snapshot sees exactly once and no other row, whatever splits, push-downs,
\* VACUUMs and reuses of line pointers and pages went on meanwhile (DESIGN.md
\* section 9).
CountExact ==
  \A r \in Readers : pc[r] = "recheck" =>
    \A t \in Tids : Counted(r, t) = IF t \in Window(r, snap[r]) THEN 1 ELSE 0

\* While a count holds the pin on the page a TID was copied from, the map's
\* word for the TID's heap page is true of the count's own snapshot: what
\* lion_count_container_vm() relies on when it counts without the heap.
MapVouches ==
  \A r \in Readers : mode[r] = "map" /\ pc[r] = "items" =>
    \A t \in img[r] : vm[BlockOf[t]] => t \in snap[r]

\* No line pointer is reused while the set still names it, or while a count
\* that asks the map has it in a copy: VACUUM's walk reaches every TID it was
\* given although splits, push-downs and spills move them, and no copy
\* outlives it (lion_vacuum.c, pass 1 and pass 2).
NoDanglingTid ==
  \A t \in Tids : row[t] = "unused" =>
    /\ t \notin Indexed
    /\ \A r \in Readers : mode[r] = "map" => t \notin img[r]

\* A page a running count may still step to is not handed out again: the
\* safexid of a deleted page or an unlinked leaf outlasts every link a count
\* has copied (lion_page_recyclable()).
NoReuseUnderReader ==
  [][\A r \in Running :
       /\ link[r] # NoPage
       /\ pc[r] # "recheck"
       /\ kind[link[r]] \in {"deleted", "unlinked"}
       => kind'[link[r]] = kind[link[r]]]_vars

\* Every count that begins returns, although it waits for writers' locks and
\* its walk may start again or be led on by splits and unlinked leaves.
CountReturns == \A r \in Readers : pc[r] = "locate" ~> pc[r] = "idle"

\* Every VACUUM call that begins ends, although it waits for the pins of counts
\* and for the directory leaf of writers who in turn never wait for a pin, and
\* starts its walk again after a push-down (lion_vacuum.c, rules 1 and 2).
VacuumEnds == vpc = "entry" ~> vpc = "heap"

\* Every count returns the number of rows its snapshot saw, atomically: the
\* rows it is to count are fixed when its snapshot is taken, and its answer is
\* what the walk, the map and the recheck add up to (lion_count_one_set()).
Total(r) ==
  LET sum[S \in SUBSET Tids] ==
        IF S = {} THEN 0
        ELSE LET t == CHOOSE x \in S : TRUE IN Counted(r, t) + sum[S \ {t}]
  IN sum[Tids]

Atomic == INSTANCE AtomicCount WITH
            Rows <- Tids,
            Sessions <- Readers,
            Parts <- {{t \in Tids : BlockOf[t] >= k} : k \in Froms},
            visible <- {t \in Tids : row[t] = "live"},
            asked <- [r \in Readers |-> Window(r, snap[r])],
            status <- [r \in Readers |->
                         CASE pc[r] = "idle" -> "idle"
                           [] pc[r] = "recheck" -> "answered"
                           [] OTHER -> "asked"],
            answer <- [r \in Readers |->
                         IF pc[r] = "recheck" THEN Total(r) ELSE 0]

CountsAtomically == Atomic!ASpec
=============================================================================
