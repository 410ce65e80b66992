# pg_lion in TLA+

pg_lion is a PostgreSQL index access method: an inverted index that keeps, for
each key of a column, the *posting set* of the rows that hold it, as compressed
containers of TIDs, and answers `count(*)` from those sets without reading the
rows wherever the heap's visibility map vouches for them.  This directory holds
TLA+ models of its parts, the TLC runs that check them on small instances and
theorems about them that TLAPS proves for every instance.  Section numbers (§)
are those of `DESIGN.md`.

## 1. The system

### Components, their state and their operations

| Component | State it keeps | Operations | What makes it correct |
|---|---|---|---|
| Entry directory (`lion_dir.c`, `lion_dir_delete.c`, `lion_entry.c`) | a Lehman & Yao B-tree of entries, one a key; incomplete-split and half-dead flags | descend, move right, place, split, finish split, delete a page in two stages | a key has one entry; a descent that moves right never misses it; writers of a key are serialised by its leaf |
| Posting tree (`lion_posting.c`, `lion_posting_put.c`, `lion_posting_delete.c`) | an entry's head and tail; leaves of containers, right links, owner stamps, flags; downlinks | spill, put, split, promote and push down, finish split, unlink a leaf | the leaves are one sorted chain; a descent ends on the owner of a key; no TID is lost |
| Pages and recycling (`lion_pages.c`) | page kind, owner stamp, safexid; free space map | initialise, mark deleted, allocate | a page is handed out only when nobody can still follow a link to it |
| Insertion (`lion_insert.c`) | the directory leaf it holds | new entry, INLINE, append hint, chain, summaries, bit slices | a row is in the set of its key before its transaction commits |
| VACUUM (`lion_vacuum.c`) | the dead TIDs, the walk's position, the leaves it emptied, pending free pages | pass 1, pass 2, unlink, delete entries, free, sweep, recycle | every dead TID is gone from the index when the call returns, and nobody still has it in hand |
| Count engine (`lion_set.c`, `lion_cursor.c`, `lion_expr.c`, `lion_vis.c`, `lion_count*.c`, `lion_set_copy.c`) | a located set, a page image, one pin a set, a queue of TIDs to recheck | locate, walk, merge, ask the map, recheck, copy, share a copy | a count is the number of rows its snapshot sees |
| WAL (`lion_wal.c`, `lion_waldelta.c`) | an open record; the list of pages VACUUM visited | begin, register, finish, abort, redo, barrier | a record is all or nothing; a standby's counts have the primary's interlock |
| SSI (`lion_reader.c`) | predicate locks on leaves and roots | lock, copy, move, check | no conflict is missed when a key moves |
| Read ahead (`lion_readahead*.c`) | a ring of blocks pushed, given and held | push, pull, take, read, clear | each block is read once, in order, and none is kept for ever |
| Containers, TIDs (`lion_tid.h`, `lion_container.c`, `lion_sparse.c`, `lion_planes.c`) | pure functions | encode, add, filter, combine | they are set algebra |
| Bit slices, positions, BM25, multi-key columns | entries of their own kinds | - | - |
| Planner, executor nodes, SQL functions, verification, build | none that several sessions share | - | - |
| lionvec (`lion_vec*.c`) | a second access method | - | - |

### How they interact

* **Directory leaf.**  Every writer of a key holds the leaf with its entry
  EXCLUSIVE from its lookup to its last change (§5).  VACUUM takes it when a
  page has something to remove (conditionally with the page held, else waiting
  for it with nothing held), a count only SHARE and only to copy the entry.
* **Pages of a set** are read under SHARE locks, one at a time, and written
  EXCLUSIVE.  A change that needs several WAL records leaves the tree usable
  between any two: a reader follows right links, a flag asks later writers to
  finish.
* **Pins.**  A count copies a page and keeps it pinned until it has asked the
  visibility map about every TID of the copy.  VACUUM takes a *cleanup* lock -
  which waits for pins - on every page of the set, changed or not (§9, §11).
* **The heap.**  VACUUM collects dead line pointers, calls every index, and only
  then lets them be reused; it marks a heap page all-visible only when no dead
  line pointer is on it.
* **Snapshots.**  A deleted page, or an unlinked leaf, is handed out again only
  once no snapshot that could hold a link to it is left (§18).

What is hard here is hence: reading a copy while splits, push-downs and VACUUM
move and remove what it names; walks of VACUUM and of writers that pass each
other; crashes and ERRORs between two records of one change; links, heads and
append hints that are behind the truth; reuse of line pointers and pages; waits
for pins and locks in both directions; and promotions, splits and unlinks that
meet on leaves VACUUM emptied.  `PROJECT.json` lists each at its line, with the
properties that cover it or why none does yet.

## 2. Modules

| Module | What it is |
|---|---|
| `LionPosting` | the posting set of one key: entry, tree, inserter, and what VACUUM does to it |
| `LionCount` | extends it with the heap, counts and VACUUM as processes |
| `AtomicCount` | what a count promises; `LionCount` is checked to implement it |
| `LionSharedCopy` | the copy the participants of a parallel plan make together |
| `AtomicCopy` | what that copy promises; `LionSharedCopy` is checked to implement it |
| `LionRing` | the ring of blocks read ahead, core's read stream and the reader |
| `LionRingHash` | the hash by which the ring finds a block |
| `LionReadList` | a plain read stream over a list, with its rests |
| `LionDir` | the entry directory: sessions' lookups and inserts, VACUUM's page deletion |
| `AtomicDir` | what the directory promises; `LionDir` is checked to implement it |
| `LionDirWalk` | extends `LionDir` with a walk down the keys beside its sessions and VACUUM |
| `LionStandby` | extends `LionCount` with a hot standby: replay, the visit list and its barrier |
| `LionMerge` | the count of a boolean expression of sets; checked to implement `AtomicCount` |
| `LionVisCache` | the per-query visibility cache, over a heap with HOT chains |
| `LionPredLocks` | SSI predicate locks while keys move between pages |
| `LionSummary` | the summaries of a column and ranges counted by them |
| `MCLionStructures` | an instance of `LionPosting` and one of `LionRing` |
| `MCLionParts` | instances of `LionRingHash`, `LionReadList`, `LionMerge`, `LionVisCache` |
| `MCLionColumn` | an instance of `LionPredLocks` and one of `LionSummary` |
| `MCLionPosting`, `MCLionCount`, `MCLionStandby`, `MCLionSharedCopy`, `MCLionRing`, `MCLionMerge`, `MCLionDir`, `MCLionPredLocks`, `MCLionSummary` | the values of the constants, alone or for the above |
| `LionPostingProof` | the shape of the posting set, the order of its leaves and where descents end, proved |
| `LionCountProof` | counts and VACUUM: their interlock, and a count's walk: exact, atomic, never led onto a reused page, proved |
| `LionSharedCopyProof` | a shared copy: complete, within its memory, sought right, and an implementation of `AtomicCopy`, proved |
| `LionPartsProof` | that the hash finds what it tracks, and that the visibility cache answers as its snapshot saw, proved |
| `LionRingProof` | the ring: consistent, right answers and pins, nothing given dropped, proved |
| `LionDirProof` | that the levels of the directory stay linked, proved |
| `LionPredLocksProof` | that predicate locks follow their keys and walks skip none, proved |
| `LionSummaryProof` | that a column's buckets stay in order and ranges are counted exactly, proved |

`MCLionStructures`, `MCLionParts` and `MCLionColumn` put models that share nothing
side by side; one variable says which of them runs, and the others stand still.

The type invariants (`TypeOK`, `PostingTypeOK`) are part of the inductive
invariants where a module is proved about, of `RingConsistent` in `LionRing`, and of
`LevelsLinked` in `LionDir`.

### LionPosting

State: `form`, `inl`, `head`, `tail` are the entry (`LionEntryTuple`); `kind`,
`owner`, `items`, `right`, `flagged`, `down`, `stamp` are each page's special
area and items; `ins` is the TID being inserted, which stands for the directory
leaf's EXCLUSIVE lock; `held` is the page the inserter keeps EXCLUSIVE from one
record to the next.

One action is one WAL record, because that is what a reader, a crash or an ERROR
can come between:

| Action | Code |
|---|---|
| `InsertBegin` | `lion_insert_one()` takes the leaf |
| `InsertNewEntry`, `InsertInline`, `Spill` | `lion_insert_new_entry()`, `lion_insert_inline()`, `lion_entry_spill()` |
| `InsertOnTail`, `InsertOnLeaf` | `lion_insert_lock_chain_page()` with and without the append hint, `lion_insert_chain_leaf()` |
| `Promote` | `lion_posting_promote()`, `lion_posting_pushdown()` with `lion_posting_flat_sep()` |
| `Split`, `PlaceDownlink`, `ClearSplit` | `lion_split_and_place()`, `lion_posting_finish_split_ext()` |
| `InsertFails` | an ERROR or crash after any record |
| `FilterInline`, `FilterPage` | `lion_vacuum_inline_filter()`, `lion_vacuum_filter_page()` with `lion_vacuum_apply_page()` |
| `UnlinkLeaf` | `lion_posting_unlink_leaf()` |
| `DeleteEntry`, `FreePage` | `lion_vacuum_delete_entries()`, `lion_vacuum_free_level()` and the sweep |

Routing is that of the code: `FlatRoute` for a flat chain, `DownlinkOff` for a
root with downlinks, both "the last at or below the key".  `Recyclable` is
`lion_page_recyclable()`; a writer may be given any recyclable page, which is
what the free space map can offer.

Abstractions.  A container is one heap block's TIDs, so a container key is a
heap block (64 blocks at 8K); a page holds `PageCap` of them.  A tree has one
internal level, the root, so `lion_posting_split_internal()`, `_adopt()` and
`_level_start()` are not modelled; nor are splits into three pages, spills onto
several leaves, containers that grow when filtered (`lion_vacuum_regrow()`), and
position trees.  A repair is made by the writer that needs the leaf.  The pin
and the entry's payload of an INLINE set are let go when the copy is used up,
where the code keeps the pin until the set is released: the model allows VACUUM
more.

### LionCount

`row` is each TID's line pointer: `unused`, `doing` (inserted, not committed),
`live`, `gone` (deleted or aborted); `vm` the all-visible bits.  They are
external: `heap_insert()` clears the bit before the index is told, a transaction
commits after it, VACUUM may collect a row once no snapshot sees it, marks a
page all-visible only when every row on it is seen by every running snapshot
and nothing on it is dead, and reuses line pointers after the index call.

A count (`lion_count_one_set()`) is the steps `Begin`, `Locate`
(`lion_posting_set_locate()`), `ReadRoot` and `ReadLeaf` (the descent, one page
at a time with nothing held between), `CountContainer`
(`lion_count_container_vm()`), `Unpin`, `ReadNext` (`lion_cursor_next_item()`)
and `Return` (`lion_recheck_flush()`).  `mode` is whether it has the interlock
and asks the map, or has no pins and rechecks everything (`novm`, `droppins`);
`from` is the first container key it wants (`mintarget`).

VACUUM is `VacuumEntry` (pass 1), `VacuumRoot` (`lion_vacuum_descend()`),
`VacuumPage` and `VacuumRestart` (`lion_vacuum_container_page()`),
`VacuumUnlink`, `VacuumDelete`, `VacuumFree`, `VacuumReap`, and `VacuumFails`
anywhere.  Each of these is the locks it waits for and then what is done under
them (`PassRoot`, `VisitPage`, ...), which `LionStandby` replays under other locks.
A cleanup lock and what is done under it are one step, enabled when
nobody pins the page (`CleanupLock`).  A page with something to remove also
needs the directory leaf; the code's two ways to get both locks are one step,
for in both the page is filtered again once both are held.

### AtomicCount

A session asks for a part of the rows and is told how many of them its snapshot
saw when it asked.  `LionCount!CountsAtomically` maps a walking count to
"asked" and what its walk, the map and the recheck add up to, to the answer.
`LionCountProof` proves that mapping.

### LionStandby

The same set, heap, counts and VACUUM, with the counts on a standby.  Nothing a
standby does reaches the primary, so a step of the primary may be put at the moment
its record is replayed; what the primary does between two records may be put
anywhere between them.  Hence the variables of `LionCount` hold what the standby has
replayed, those of VACUUM what the primary's VACUUM is at, and three are new:
`walmode` (the index's `wal_mode`), `visits` (`lion_wal_visits`, the pages
VACUUM cleanup-locked and left as they were) and `redo`, the record whose replay
is waiting for something.

| Action | Code |
|---|---|
| `StandbyEntry`, `StandbyRoot`, `StandbyPage`, `StandbyDelete`, ... | VACUUM's steps, with no pin of the standby in their way; each page it leaves alone goes on the list (`Visit`, `lion_wal_visit()`) |
| `CarryVisits` | `lion_wal_removal_begin()`, `lion_wal_finish()`: the next removal carries the list |
| `NextVisit`, `FlushVisits`, `DropVisits` | the list is full, VACUUM ends, VACUUM fails: `lion_vac_visit()`, `lion_wal_visit_flush()`, `lion_wal_visits_reset()` |
| `Barrier` | `lion_redo_barrier()`: a cleanup lock on each page of the list, one at a time, before the removal |
| `Removal`, `Apart` | `lion_redo()` of a record that removes, under a cleanup lock |
| `ReuseConflicts`, `Cancel` | `lion_wal_log_reuse()`: queries whose snapshots are too old are cancelled before a page is used again |
| `StandbyBegin`, `ModeInRecovery` | a count in recovery: in generic mode it never asks the map |

`VisitCap` bounds the list (`vacuum_barrier_ranges`), and ranges of it are never
merged: a merged range only locks more pages.  Crashes of the standby lose
nothing but its queries, which `Cancel` covers.

### LionMerge

Sets are one container a page, pages 1 to `NKeys` in order; what a walk of one set
meets is `LionCount`'s subject.  `setup` is what is asked: the expression as a
sequence of nodes, children first, how each set is had - `inline`, `nopin`,
`chain`, or `copy` made beforehand - and the budget of pins a source may hold.

| Operators and actions | Code |
|---|---|
| `LeafPlan`, `UnionPlan`, `AndPlan`, `AndNotPlan`, `PlanOf` | `lion_plan_node()`: how many pins each node keeps, and whether what it gives out has one behind it |
| `Carriers`, `NoVm` | `lion_count_sources_run()`: which sources carry the interlock, hence whether the map may be asked |
| `TakeInline`, `CopyPage`, `ReadPage`, `SeekCopy`, `Unpin` | `lion_posting_set_take()`, `lion_posting_set_materialize()`, `lion_cursor_seek_leaf()`, `lion_cursor_unpin()`, a page each |
| `Common`, `Blocking`, `StepDriver`, `AtLeast`, `Union` | `lion_leapfrog()`, `lion_or_build()` |
| `Move`, `Count`, `Finish` | `lion_run_merge()`: cursors to the next common key, the count of its rows, the end |
| `VacuumBegin`, `VacuumPage`, `VacuumReap` | `lionbulkdelete()`, set by set and page by page |

There is one count a behaviour.  That a merge copies sets but "never the last
carrier" (rule 2 of §11) is not assumed: the setups have both, and `NoVm` is what
has to make up for it.  VACUUM may remove a row a snapshot that runs does not see
any more, slightly more than its horizon allows.

### LionVisCache

`entries` is the hash table of `lion_vis.c` for one node: a block is entered by the
second count that visits it and resolved - every line pointer looked up -
by the next (`CacheVisit`, `FillPage`); `CacheBegin` drops entries of
another relation, `Between` the window's resets.  The heap is external and has what
could make a cached answer wrong: HOT updates, deletions, aborts, pruning that
redirects and frees line pointers, VACUUM and reuse (`Chain` is the least set that
holds a chain's first version and what follows each of its own).  `BusyPages` bounds the pages
that are written to.  A node has one snapshot; the predicate lock
a SERIALIZABLE recheck takes on a heap page is the heap's.

### LionPredLocks

The directory is its chain of leaves: `owned`, `right`, `state`; a key's set is
`absent`, `inline` on its leaf or a `chain` with a root.  That a descent ends on a
key's owner is `LionDir`'s subject.

| Action | Code |
|---|---|
| `Lookup` | `lion_probe_find()` with `lion_reader_lock_entry()`: the leaf, and the root of a chain |
| `WalkBegin`, `Land`, `WalkLeaf` | `lion_range_landing()`, `lion_walk_next()` with `lion_reader_lock_leaf()`, a leaf a step |
| `Insert` | `lion_writer_check()` of the page `Target` |
| `Spill`, `InsertSplit`, `DeleteEntry`, `MarkHalfDead`, `Unlink` | where a key or gap goes to another page, with `lion_predlock_copy()` |
| `Finish` | the transaction is over |

A transaction makes any number of lookups and one walk at a time.  The walk through
runs of equal hashes, which locks the whole relation, summaries' ranges and bit
slices are not modelled, and a root's block is not used again.

### LionSummary

`items` is each leaf's summaries in order - the largest key a bucket may hold
(`top`), whether it is open, and its rows; a leaf is known by its low separator and
not deleted.  `leafAt` is the leaf an insert goes to next, `Descent` when it
is to descend.

| Action | Code |
|---|---|
| `SumInsert` | `lion_insert_one()`, which begins `lion_summary_insert()` |
| `StepsRight`, `Join` | the lookup of the bucket and the row's way into it |
| `RaiseInline`, `RaiseChain` | `lion_summary_rekey_insert()`: the open bucket's key is raised, in the same record or in one before the row |
| `Close`, `Open`, `LooksAgain` | a full bucket is closed where it stands, and a new one opened; the lookup is repeated if one was missed |
| `VacuumSummary`, `VacuumValue`, `DeleteSummary` | rows and empty buckets go |
| `BeginRange`, `Lands` | `lion_entry_scan_plan_sum()`, `lion_range_landing()`: where the whole buckets begin |
| `Lower`, `Sums`, `Setup`, `Upper`, `Return` | the phases of `lion_entry_scan_fill()`: keys below the first whole bucket, whole buckets, keys above the last |

The keys of the rows that will be inserted are fixed by the start.  INLINE or chain
is a choice at each raise.  A set is read with its entry, which is right for a
snapshot's rows, as `LionCount` shows.  A part's lower end lands at or right of the first key it
selects (`PartAssumption`), and the column to start from is in order
(`SumStartsAssumption`).  Space is a choice: a rewritten entry may fit
or not, and a split may cut anywhere.  `MaxLeaves` bounds the leaves.

### LionSharedCopy

The participants of a parallel plan cut the heap's container keys into chunks
(`KeyRanges`, `KeyRange`), claim them from an atomic counter, and meet twice at
a barrier; the one elected at the first meeting indexes the chunks.  Each step
of `lion_shared_copy_collect()` that touches shared memory is an action:

| Action | Code |
|---|---|
| `Reinit` | `lion_shared_copy_reinit()`, `lion_copy_empty()` with `lion_key_ranges()` |
| `Attach`, `ArriveCollected`, `ArriveIndexed`, `Wake`, `Leave` | the barrier, by the phase it is found in |
| `Claim`, `ReadRoom`, `Collect` | `pg_atomic_fetch_add_u32(&sc->nextchunk)`, `lion_copy_chunk()`, `lion_collect_container()` |
| `Reserve`, `Place`, `GiveBack` | memory reserved, allocated or not, and given back for a file |
| `Build`, `View` | `lion_copy_index()`, `lion_copy_view()` |
| `QueryFails` | an ERROR or cancel, which ends the query for all |

`CopyIndex` is stated by position: container `i` is of the chunk whose first
container is the last at or before it (`ChunkOf`), and is that chunk's next key
(`KeyOf`), which is what the code's two nested loops leave.  A view reads each
container where its chunk has it (`CopyView`), so that it is the index's keys is
a claim and not a definition.  `Direct`, `Look` and `Seek` are the direct index
and `lion_mat_seek()`, with its binary search without branches (`Round`).  The barrier is PostgreSQL's and external.  What a
participant collects is a choice between the keys the snapshot selects and those
plus any others of its chunk, for its walk may also see rows of transactions
that come and go; a container is one unit of memory.  `AtomicCopy` promises one
ascending copy with every selected key, made once a run, that all read; its copy
is the index's keys.

The module has no processes of `LionCount`: what a participant's walk finds is
that module's subject, and here is any superset of what the snapshot selects.

### LionRing, LionRingHash

A reader pushes blocks it expects to read; core's read stream asks for them
through a callback (`lion_ring_give()`) while the reader pulls a buffer from it,
so the ring changes inside its own calls.  `ring` is the `LionRing`: the given
part (`ghead`, `gpull`, `gtail` over the slots `g`), two pending queues with
holes, the counts and `key`, which the hash keeps.  Positions are counted modulo
`Positions`, as the code's are modulo 2^32, and a slot is a position modulo the
slots, a power of two at least the limit.

| Action | Code |
|---|---|
| `Push`, `Clear` | `lion_ring_push()`, `lion_ring_clear()` |
| `Read`, then `ReadRefills`, `ReadThroughStream`, `ReadApart`, `ReadHeld`, `ReadGiven`, `ReadToFront`, `ReadFirst` | `lion_ring_read()`, one round of its loop by where the block is |
| `GiveFull`, `Give`, `RefillPush`, `RefillEnds` | `lion_ring_give()` with `lion_ring_g_room()`, and `refill` inside it or inside the read |
| `StreamTakes`, `PullEnds` | `read_stream_next_buffer()` around `lion_ring_pull()` |

The read stream is external: it asks only while it is pulled, hands out what it
was named in that order, pinned, looks ahead as far as it likes and asks no more
once it was named none until it is restarted.  What refill pushes is any choice
of predicted blocks.  A buffer is known by its block, so "the wrong buffer" is
another block's; a read apart always gets its own.

`LionRingHash` is `lion_ring_key_add()`, `_find()` and `_remove()`, the removal
one round of its loop a step; `home` stands for `murmurhash32()` and is any
function.

### LionReadList

The list's blocks are `1..ListLen`; `next` is the reader's own place in it,
which the stream's callback (`ListCb`) and, in a rest, the reader (`Rest`)
advance.  `Call` to `TakeBuffer` or `RestartOrEnd` is `lion_readahead_next()`,
split where the stream may call back.  Whether a block was read in (`cold`) is a
choice.  `due` is not in the code: the block the reader is to have next.

### LionDir

State: `page` is each block's special area and items - `kind`, `level`, the
high key, both sibling links, the flags (`flagged` is INCOMPLETE_SPLIT, `state`
has HALF_DEAD and DELETED), a leaf's keys or an internal page's downlinks, and
`owner`, the `owner_head` in which a HALF_DEAD leaf keeps its top parent.
`root` is the page with the ROOT flag, which the meta page names and which
changes in the same record; `fsm` is the free space map; `waits` says whose
snapshots a DELETED page's safexid still waits for; `cached` is each backend's
`ix->meta.root`; `client` and `vac` are where each call stands.  A writer's
`client.stack` is the recursion of `lion_dir_finish_split()`: the pages whose
splits it is finishing, each of them held EXCLUSIVE.

A step is what happens under one page lock: a page read and let go, or one WAL
record.  Where the code holds no lock from one page to the next, so does the
model: everything else may happen between the steps, an ERROR or a crash (`Fail`,
`VacFail`) included.

| Action | Code |
|---|---|
| `Begin`, `RootMoved` | `lion_dir_get_root()`: the cached block first, then the meta page again as long as it names a taller directory |
| `MoveRight`, `Descend`, `Repair` | one page of `lion_dir_descend()`; a writer finishes every split it meets |
| `Answer`, `FindEntry`, `AddEntry`, `SplitLeaf` | the end of `lion_dir_find_ext()` on the leaf, `lion_dir_add_entry()`, `lion_dir_split()` |
| `Climb`, `ReachParents`, `ScanRight`, `RepairParent` | `lion_dir_find_parent()`, by a key the page holds or, with none, from the left of the level |
| `AlreadyLinked`, `PlaceDownlink`, `SplitParent` | `lion_dir_downlink_present()`, `lion_dir_place()` of the downlink |
| `ClearFlag` | the flag's record, then the next page of the stack or on with the descent |
| `StartVacuum`, `SeeLeaf`, `DeleteEntries`, `EndVacuum` | `lionbulkdelete()`'s walk, `lion_vacuum_leaf_page()`, `lion_vacuum_delete_entries()`, the sweep |
| `LookAtLeaf`, `VacDescend`, `VacScanRight`, `ClimbSubtree`, `MarkHalfDead`, `LeaveLeaf` | stage 1: `lion_dirdel_leaf_candidate()`, `_descend()`, `_find_parent()`, `_mark_halfdead()` |
| `PickTarget`, `FindLeftSibling`, `Unlink` | stage 2, a page at a time: `lion_dirdel_unlink()` |
| `TakeForPostings` | a posting set's `lion_alloc_page()` takes a directory block |

An error the code raises or logs because a page is not what a link to it says is
not an action: it is the state in which the next step would be that one
(`Misled`, `VacMisled`), and a property.

Abstractions.  Pages hold counted items instead of bytes, and the split point is
any.  A key is a number and no two keys tie.  Which entries VACUUM finds empty
is a choice among `EmptyKeys` (their sets are `LionPosting`'s subject), and a
row put into an entry afterwards takes it off that list, as
`lion_vacuum_delete_entries()` sees when it looks again.  In the code a blocked
writer keeps what it holds; the model's `Fail` may end it, which only adds
behaviours.  Two constants leave out a step of the code that is known to break
the tree (see Findings): `LinksDying` and `TakesCached`, both `FALSE` in the runs.

### LionDirWalk

One session, the `Walker`, walks down the keys of the column from an upper bound
(`lion_order_next_value()`, backward) beside inserts and VACUUM's page deletion.
`walk` is where it is, with nothing held between two pages.

| Action | Code |
|---|---|
| `BeginWalk`, `Land` | `lion_range_last_leaf()` by `lion_range_landing()`, whose lock is let go |
| `CopyLanding`, `CopyLeft` | `lion_order_read_leaf()` of the first leaf, and of each left sibling |
| `OwnLink`, `SearchRight`, `Reread` | `lion_dir_step_left()`: the left link with `lion_dir_past_deleted()`, the search to the right from there, the page read again |

The descent to the landing is one step, since `LionDir` has it page by page; the
walk has an upper bound only.  `Beside` bounds the calls under way beside it, and
`Rechecks` stands for `LION_STEP_LEFT_RECHECK`.  What is due is every entry the
directory has when the walk begins, until VACUUM deletes it.  `StaysLanded = TRUE`
leaves out one interleaving (see Findings).

## 3. Runs

All runs are of `tlc -config X.cfg M`.  `CHECK_DEADLOCK FALSE` everywhere: with
every row used up, or nobody calling, nobody has to do anything.

| Run | Bounds | Question | Distinct states |
|---|---|---|---|
| `structures` | the tree: 4 TIDs on 3 blocks, 4 pages, 1 container a page, promotion beyond 2 leaves; the ring: 3 blocks, 3 pins in 4 slots, queues of 2, positions modulo 8 | is the tree ordered, routable and complete after any inserts, VACUUMs and failures; is the ring consistent after every step, does a read get its block, does the stream keep its place? | 876,583 |
| `count` | 2 rows, 3 pages, 1 reader, promotion beyond 1 leaf; on the primary 4 rows inserted with pins from the first key on, 3 otherwise; on a standby 3 (2 in generic mode), a list of 2 pages | is a count exact and atomic, the map's word true and no page or line pointer reused too early, while the chain is split and pushed down, VACUUM runs and, on a standby, replay goes on? | 1,069,595 |
| `count_live` | 2 rows inserted once each, also from a spilled leaf, fairness | do counts return and VACUUM calls end, although push-downs make VACUUM start over? | 175,070 |
| `copy_shared` | 2 participants that come and leave, 2 runs of the plan, a heap of 3 or 4 container keys of which the smaller may grow, 3 chunks, memory for 2 containers, fairness | is the copy complete, ordered, within its memory and never written again, does a seek find its key, and does everybody who takes part end up reading? | 342,952 |
| `ring_live` | 3 blocks, 2 pins, queues of 1, positions modulo 4, fairness | are the pins right with fewer of them than blocks; do reads end? | 77,377 |
| `parts` | the hash: 4 blocks, 8 slots, every hash function; the list: 12 blocks, rests of 3 after 2 warm, 4 ahead; merges: 3 rows in 2 blocks, 2 or 3 sets, 16 setups, 1 row inserted meanwhile; the cache: 2 partitions of 2 blocks, one written to, 3 line pointers, 3 transactions, 1 entry, `SecondBlock` | does the hash find what it tracks; is the list handed out whole and in order; is the count of an expression atomic and within its pins; are cached answers the snapshot's? | 881,697 |
| `column` | locks: 3 keys, 3 leaves, 2 roots, 1 reader; summaries: 4 rows, 3 keys, buckets of 1 or 2, 2 leaves, 2 ranges, one to land in | do predicate locks follow their keys, and walks cover their range; are buckets in order and ranges counted once? | 902,086 |
| `directory` | 2 sessions and VACUUM, 9 blocks, leaves of 1 entry, internal pages of 3 downlinks, 6 starting directories of one to three levels; in one of them a walk down, with 1 call beside it | is the directory an atomic set of entries, is every level linked, routed and complete, does no link lead astray, does VACUUM finish what was begun, does the walk miss nothing? | 305,178 |
| `separators` | the tree of `structures` with the step it leaves out | see Findings | violated |
| `self_wait` | 2 sessions that insert 3 keys into a full root's leaves, 10 blocks | see Findings | violated |
| `walk_start` | the walk of `directory` with the step it leaves out | see Findings | violated |
| `left_sibling` | the walk of `directory`, asked about the error | see Findings | violated |

Why these are enough to be interesting.  One container a page makes every second
insert split; four pages allow the head, a pushed-down first leaf and two more,
so that empty leaves occur at both ends and between; two TIDs of one container
let a page gain a TID without splitting.  In the count runs a root is pushed down
and a leaf split between any two steps of a count or VACUUM; four births on two
TIDs reuse each line pointer and, with three pages, each page.  One reader is
enough for interference with writers and VACUUM, since counts do not change
anything another count reads; the theorems hold for any number.  `Births`
bounds how many rows are ever inserted and is, with `VisitCap`, the only bound on
behaviours.  Permuting pages is a symmetry of `count`; of `structures`, permuting
three of the tree's pages, which are the ring's blocks too; of `column`, permuting the
spare leaves and the roots.  A list of 2 visits is full after two pages, and has one
on it when a removal comes.

In `copy_shared` the last chunk has the keys of a heap that grew, and memory for 2
of up to 4 containers makes reservations of two participants collide, be given
back, and chunks go to files.  A participant comes, or leaves, while the other
waits, and the second run of a plan meets what the first left.

In `directory` a leaf of one entry splits at the second and is empty after one
deletion, and an internal page of three downlinks splits into two of two.  Each
start puts one thing within reach: a root that is a leaf (a root split, a stale
cached root), two leaves with a key to insert on either side of the entry
(deletion against insertion), a full root (a split that goes up and makes a new
root), internal pages with an only child each (a deletion that takes a subtree of two
levels), and the same beside a full page (subtree against split).  Key 4 is the one
inserted, between keys 3 and 5 which VACUUM may empty, and key 5 is looked up
and stands right of every split.  Two sessions suffice for a repair by another,
an unfinished split that meets another, and a reader that passes both.  There
are at most three new blocks to take before DELETED ones have to be reused.

The walk of `directory` starts from the second of two leaves with the first as left
sibling, which may split, be emptied, half deleted and deleted; the new right half
too.  It rechecks after one page, so that a search may end early, or go on to a page
that is not the sibling either.

In the ring's models the positions wrap after two rounds of the slots; in `structures` there
are fewer pins than slots, as a limit that is no power of two has, and queues of 2
have a hole beside a block; in `ring_live` there are more blocks than pins.  In `parts` a
list's stream is further ahead (4) than a rest is long (3), so that blocks named before
a rest come out in the next one too; two rows of one heap block and one of the
next let a map bit be right for one set's rows and wrong for another's, and
budgets of one pin make every intersection give some up.  Three transactions update a row,
update it again and use the freed line pointer; a budget of one entry is spent at once.
`SecondBlock` keeps a count to block 0 once all its line pointers are in use: a second block, which
nothing writes to, only spends the budget, and does so before.

In `column` three leaves let a key move twice and its first leaf be deleted, and two roots
let a set spill, be emptied and spill again.  Buckets of one row are full
after each insert, so closing, opening and raising all meet.

Fairness (`FairSpec`).  An insertion that has begun ends - it holds content
locks, never waits for a pin, and either goes on or fails.  Locks and pins that
are let go again and again are granted in the end, so each count's steps and
VACUUM's are strongly fair: PostgreSQL's LWLocks queue their waiters, and a
waiter for a cleanup lock is woken when the last pin goes.  Nobody has to begin
anything, and VACUUM may always fail instead.  A participant of a shared copy
waits for nothing but the barrier, which wakes all that wait, so weak fairness of
its steps is what the scheduler gives; that a process *takes part* is not
assumed.  A read of the ring is one process's loop, weakly fair as a whole, and
refill returns.  `directory` needs no fairness: `VacuumFinishes` speaks of a
VACUUM that does end.

### What each property says

* `ChainSorted`, `ChainOwned`: the leaves hold ascending disjoint ranges of keys;
  every leaf on the chain is live and stamped, and the append hint is its last.
* `RoutesToOwner`, `SeparatorsAscend`: a writer's descent for a key the set has
  ends on its leaf, or left of it with only unfinished splits between.
* `ShapeKeepsMembers`: no change of shape loses or adds a TID.
* `CountExact`, `CountsAtomically`: a count sees each row of its snapshot once.
  These and the next three are asked of the primary and of a standby.
* `MapVouches`: while the pin is held, the map's yes is true of the snapshot.
* `NoDanglingTid`: no line pointer is free that the set or a trusted copy names.
* `NoReuseUnderReader`: a page somebody can still step to is not handed out.
* `CountReturns`, `VacuumEnds`: nobody waits, or starts again, for ever.
* `NothingMissed`, `CopiedOnce`: a shared copy has every selected key once, in
  order, is made once a run, and is what every participant reads.
* `NeverWrittenAgain`: it is read in place, so nobody may still write it.
* `MemoryBound`: reservations that race never let it take more than it may.
* `SeekFinds`: both forms of a seek stop at the first container at or after the
  target, from any position.
* `EveryoneReads`: a participant is not left at the barrier, whoever comes late.
* `RingConsistent`: what `lion_ring_check()` asserts between calls, here after
  every step inside them too.
* `ReadsItsBlock`: the stream and the ring agree on the next block,
  and a read gets its own whatever order blocks are read in.
* `PinsCounted`, `GivenAreHeld`: each block given or held is pinned once, never
  more than the limit, and only a clear or the reader drops one still given.
* `ReadEnds`: `lion_ring_read()`'s loop ends.
* `FindsTracked`: no removal makes a probe stop short.
* `EachInOrder`: rests lose, repeat and cut off nothing.
* `PinsWithinBudget`, `MergesAtomically`: the count of an expression holds the pins its
  plan paid for, and sees each row of its snapshot that the expression holds for once.
* `AnswersExact`: what the visibility cache answers is what the node's snapshot saw.
* `LocksFollowKeys`: the page an insert checks is locked by everybody who read its
  key or gap.
* `WalkCoversRange`: and a walk skips no key of its range.
* `RangeExact`: a range counted by buckets and keys has each row once.
* `BucketsOrdered`, `NeverOutOfOrder`: buckets stay disjoint and in order, each on the
  leaf a descent looks on, and no insert reports the opposite.
* `LevelsLinked`: at any time each level of the directory is one chain, linked
  both ways, whatever is half split or half deleted.
* `ItemsInRange`, `DownlinksExact`: ranges meet, entries are where a descent
  looks for them, and the level above names exactly the live pages, except right
  of a flag that can be acted on.  This is what `lion_index_verify()` counts.
* `NeverMisled`: no "INDEX_CORRUPTED" is raised in an index that is sound.
* `VacuumFinishes`: what an interrupted deletion left is gone after the next
  VACUUM, except at the left edge of the leaves.
* `ActsAtomically`: lookups and inserts are those of `AtomicDir`, and VACUUM
  deletes no entry that has got a row.
* `WalkMissesNone`: a walk down hands out each entry that stays, once and in order.
* `SiblingFound`: a step to the left never takes a sound index for a damaged one.
* `NeverWaitsForItself`: no session locks a page it holds.

### Findings

#### Separators that decrease

A set at `LION_POSTING_FLAT_LEAVES` leaves is promoted before the split that
would make it longer.  If the leaf to be split, P, has an *empty* leaf E right
of it - VACUUM leaves an empty leaf linked when a neighbour is flagged or the
locks are busy - `lion_posting_flat_sep()` gives E the separator
`maxckey(P) + 1`.  The split that follows places a new page M right of P whose
first key is above `maxckey(P)`, and `lion_posting_place_pivot()` puts M's
downlink right behind P's, before E's.  M's separator is then at least E's,
and above it whenever the new key is not just `maxckey(P) + 1`: the separators
of the root decrease, against the comment on `lion_posting_downlink_off()`, and
the binary search may route M's keys to E.  Run `separators` shows it (P holds
block 1, E is empty, block 3 is inserted: separators 0, 3, 2).  `structures`
leaves exactly that step out (`PromotesBeforeEmpty` in `LionPosting`), since
`RoutesToOwner` and `ChainSorted` may fail after it.

#### A writer that waits for itself

`lion_dir_find_parent()` refuses every link to the page its caller holds before
it locks it, as its comment says (`lion_dir.c:2755`).  The page it starts from
is not reached by a link: `lion_dir_get_root()` locks `ix->meta.root`, and looks
at the ROOT flag after that.  Run `self_wait` (19 states): a backend splits a
leaf, climbs, caches root R and lets it go to lock it EXCLUSIVE; another backend
splits R, which becomes an internal page, and fills it again; the first then
locks R, splits it - R has a right sibling now, so it is flagged and kept - and
climbs from R for R's own parent, at its cached root, which is R.  The wait is
on a buffer content lock, which has no deadlock detection and cannot be
cancelled.  Anything that refreshes the cache in between avoids it.

#### A walk down that misses what is on the first leaf

`lion_order_next_value()` gets the block of the leaf its upper bound lands on from
`lion_range_last_leaf()`.  `lion_range_landing()` had that leaf locked and let it go
(`lion_range.c:322`); the walk locks it again (`lion_scan.c:5704`) and copies it.  When
it is split in between, its upper entries are on a new page on its right, and the walk
goes left.  A walk up is not affected, for it follows the right link of its copy.  Run
`walk_start` (leaf 5, key 4 inserted: 5 goes right, the walk from 5 down hands out
4 only).  The comment above the function says that neither direction misses an entry
an older snapshot sees, since a split moves entries right only - of the leaf the walk
holds a copy of, where there is one.  `lion_dir_read_leaf()`'s comment
(`lion_dir.c:405`) has the rule a remembered leaf needs: move right as a descent does.
`directory` leaves the interleaving out (`StaysLanded`).

#### A left sibling that is there

`lion_dir_step_left()` takes a DELETED page that links to the page it came from,
together with a left link that has not changed, for damage.  Run `left_sibling`: the
walk reads left link L of page P; L splits into L and M, and P's left link is M; the walk steps
from L towards M; M is emptied and deleted, and P's left link is L again; the walk reads M,
which is DELETED and links to P, reads P again, finds L, and raises
INDEX_CORRUPTED.  The comment has it that P's "left link has changed by then"
(`lion_dir.c:1805`): it has, twice.

#### What the constants leave out

With `LinksDying = TRUE` `ItemsInRange` and `DownlinksExact` fail.  Stage 1 of
page deletion looks at the leaf's own flag, not at its left neighbour's; when a
split's downlink was placed and its flag not yet cleared, the right half may be
emptied and become HALF_DEAD, its downlink gone, before a writer repairs the
split: `lion_dir_downlink_present()` no longer finds the downlink, and a second
one is posted for the dying page, beside that of the page which took its range
over and with the same separator, or at the end of a parent whose range it is not in.
`DESIGN.md:1130` says that "neither page deletion nor VACUUM's removal of an
empty posting leaf takes a flagged page or the page right of one".

With `TakesCached = TRUE` `NeverMisled` fails.  A backend between two calls has
no snapshot and still has `ix->meta.root`; once the block was demoted, deleted,
recycled and taken for a posting set, `lion_dir_get_root()` locks it and
`lion_dir_check_page()` raises INDEX_CORRUPTED before the ROOT flag is looked at
(`lion_dir.c:799`).

With `DropsTop = TRUE` `BucketsOrdered` fails.  A crash between closing the open bucket
and opening the next leaves a column with none; when VACUUM then empties and deletes
the closed top bucket, and a row below its key comes, the bucket that row opens
is keyed below the separator that leads to its leaf.  The code says so and leaves it
open (`lion_insert.c:1698`).

`VacuumFinishes` excepts HALF_DEAD leaves with nothing but such leaves left of
them.  VACUUM's walk begins at the leaf the first downlinks lead to, and a leaf
that lost its downlink to an interrupted deletion is left of that: no VACUUM
meets it, though `test/isolation/dir_page_delete.spec:13` says an interrupted
deletion must "be finished by the next VACUUM".

## 4. Proofs

`tlapm` checks the eight proof modules without assumptions beyond the named `ASSUME`s
on the constants: heap blocks are positive naturals, the pages and the TIDs of one index are finite sets (block
and offset numbers have a width), `NoPage`, `NoTid` and `DirLeaf` are not pages or TIDs, capacities are positive.
Of the directory, the keys a leaf or the blocks an index may have are any number, internal
pages can be split, and the directory to start from is sound (`StartsAssumption`).
There is no bound on rows, pages, sessions, births, or leaves of summaries.  Of a shared copy the number
of participants, keys and chunks is any; a chunk has at least one heap block's
keys, sizes are naturals, and `None` is neither an index nor a copy.  Of the ring, the arrays' sizes divide the number of positions, as
powers of two do 2^32, and are no smaller than the limits.
Of the visibility cache, transactions and line pointers are any finite number of
successive ones (both have a width), relations and blocks are any.

`LionPostingProof` proves `PostingSpec => []Shape` (`ShapeInvariant`).  `Shape`
says that the live leaves stamped with the entry's head are exactly one chain:
each page of it has one left neighbour (`OneLeft`), the first has none (`Ends`),
all are reached from the first (`AllReached`), and a page that is not one of
them holds no TID (`Ownership`).  Reachability is stated without induction: *any
set of stamped leaves that has the first leaf and that no right link leads out
of is all of them*.  Each action then shows how such a set after the step gives
one before it: a split adds its new page, an unlink adds the page it took out, a
promotion swaps the head for its new child.  `MembersKept`
(`PostingSpec => ShapeKeepsMembers`) follows: the set's TIDs are the entry's and
everything on pages, wherever the links go.

Its second part proves what the set promises along its right links: `ChainOwned`
(`TailIsLast`) of `PostingSpec`, and `ChainSorted` (`LeavesSorted`), `RoutesToOwner`
(`DescentsArrive`) and `SeparatorsAscend` (`SeparatorsOrdered`) of `SoundSpec`, which
leaves out the one step the run `separators` shows to be wrong (`PromotesBeforeEmpty`).
These properties are about the walk `Chain(FirstLeaf)`, a recursive function, and none
is inductive over it: a split in the middle shifts every later element.  The invariant
names the order instead.  *There are numbers `pos` for the pages* (`LinkInv`,
`RouteInv`) such that

* `LinkedBy(pos)` - they ascend along the right links and no stamped leaf lies
  between two linked ones; the append hint is last; the downlinks name the leaves in
  that order from the first on, and a leaf without one is reached from its left
  neighbour by an unfinished split; what an open call holds is a leaf of the set,
  flagged or about to be split;
* `RoutedBy(pos)` - TIDs ascend by them; a separator is above every key of the leaves
  before its own, and at or below every key of its leaf and of what is right of it; and
  the leaf an open call holds is the one its key belongs on.

Each action says what numbers hold after it: the same ones but for a split, which
doubles them and gives the new leaf the odd number in between (`AfterSplit`), and a
promotion, which hands the head's number to its new child (`AfterPromote`).  That the
walk's elements are the leaves by ascending number is then proved once
(`ChainEnumerates`): the numbers say which leaf is the n-th, so the function that is
defined recursively is that sequence.  Induction over the naturals, which the library's
theorems take as a rule about operators, is stated about sets of numbers (`NatSet`),
and the existence of a recursively defined function (`Recursion`) follows from it.

`LionCountProof` proves `Spec => []Inv` (`Invariant`), and from it
`Spec => []NoDanglingTid` (`NoDangling`) and `Spec => []MapVouches` (`MapTold`).
Neither is inductive: that no dead TID is left when the call ends depends on
where the walk was when each page changed.  `WalkAhead` is that strengthening.
While VACUUM walks, whatever it has still to remove - on a page, or in the copy
of a count that pins one and asks the map - is ahead: in every right-closed set
that holds the page the walk goes to next.  So a split, which links its new page
right of the one it came from, cannot carry a TID behind the walk; an unlink
cannot, because the leaf it takes out is empty; and a push-down cannot, because
the walk finds an internal page where a leaf was and starts over.  A count that
still has a copy of the old root pins that block, whose cleanup lock VACUUM then
has to wait for: hence rule 1 of `lion_vacuum.c`, a cleanup lock on *every* page,
and the proof fails without it (`LeafLockIfDead`), as the run does.

Its second part is about the walk of a count, and brings this and `LionPostingProof`
together.  It proves `NoReuseUnderReader` (`NoReuse`) of `Spec`, and of `SoundCountSpec`
(`Spec` without `PromotesBeforeEmpty`) both `CountExact` (`CountsExact`) and the refinement
`CountsAtomically` (`CountsAtOnce`).  A count from the first key takes no downlink
but one with separator 0, so it needs no separator in order: `WholeExact` states its exactness
of `Spec` itself.  The invariant `CountInv` says of each count

* `Safe` - there is a set of pages, with its link, that neither right links nor the
  downlinks of internal pages lead out of, and whatever of it is deleted or unlinked carries the
  count's snapshot in its safexid.  A step of the set may make pages of it leaves that are
  no longer linked, or free them (then it stamps them with every running snapshot), but
  may not hand them out; new leaves the set links to are added (`Widened`).  That is
  `lion_page_recyclable()`'s promise, and it has to be about all pages the count *may* come to:
  about the next link alone it is not inductive;
* `Trail` - the numbers `pos` of `LionPostingProof` also place each unlinked leaf of that
  set: its right link names the first leaf of the set beyond its number.  So a count
  that was stranded on an unlinked leaf loses nothing by following it, however many
  leaves right of it have been split or unlinked since;
* `Walk` - the rows its snapshot sees that it has neither counted nor copied are exactly
  those on leaves at or right of the link by `pos` (`Ahead`), each counted or queued row
  once (`Tallied`), and on the map's word none the snapshot does not see (from `MapTold`'s
  invariant).

What a step of the set may do to the numbers and to one page is stated once (`Turns`:
a page stays, is raised, unlinked, freed, or - if it is free - reused), proved of every action, and the
count's invariant is kept by `Turns` alone (`TurnsKeepReads`); the steps of the count are
then checked against an unchanging set, one lemma each (`RootReads`, `NextReads`, ...).
For the refinement the answer `Total`, a recursive function over sets of TIDs, is shown to be
the number of rows (`SumOfOnes`, from `TidsAssumption`: there are finitely many TIDs).

`LionDirProof` proves `Spec => []LevelsLinked` (`DirLinked`), for any blocks, keys,
sessions and capacities.  One page at each end of a level and links that agree
both ways do not make a level one chain: pages could still be linked in a circle beside
it, and to find one end there must be no such circle.  The invariant says so without
induction: `NoCircle`, *no set of pages of the levels is such that each leads right to
another of it*.  A circle after a split or an unlink is one before it, with the new page
left out or the page taken out put back (`SplitLinks`, `UnlinkLinks`).  `Inv` also has

* `PagesOK` - what kind, level, state, items and flag of a page say of each other: a
  DELETED page has no downlinks and no flag, an internal page always has a first downlink
  below every key, and a page is flagged only if it has a right sibling.  That a split
  leaves every half an item, and that `PlaceDownlink` finds room, is from the capacities
  (`CapsAssumption`; `LION_ABS_MIN_DOWNLINKS` is 2, `lion.h:938`);
* `LinksOK` - the links, one page at each end of each level from 0 to the root's, the
  root alone at the top, and only DELETED pages in the free space map;
* `CallsOK`, `VacOK` - a page a session's stack holds is in the levels and has a right
  sibling, so no other step takes it out (`Stays`); the leaf VACUUM holds is a leaf of the levels
  with one, and the leaf of a deletion is HALF_DEAD in stage 2.

VACUUM's stage 2 reads the siblings' links under their locks and checks them again
(`MayUnlink`), and from that alone the unlinked page's neighbours name each other
afterwards: the proof needs nothing of the downlinks, of ranges, or of what stage 1 saw.
So it holds of every setting of `LinksDying` and `TakesCached`, the two steps
the findings show to mislead: they harm routes, not links.

`LionSharedCopyProof` proves `Spec => []Inv` (`CopyInvariant`), and from it
`CopyTypes`, `NothingMissed` (`CopyComplete`) and `NeverWrittenAgain`
(`CopySettled`).  `Inv` adds to the types who is attached and who waits in each
phase (`Barrier`) and that a claimed chunk is complete or has a participant that
works on it (`Claims`); so when the last to collect arrives, nobody works and
every chunk is claimed.  That complete chunks are a complete copy needs that the
ranges cover every key (`RangesCover`): the range of key `k`, of `n` ranges over
`m` keys, is `((k + 1) * n - 1) \div m`.

`MemoryBound` (`CopyWithinMemory`) says nothing of memory that is reserved and not
taken yet, so it is not inductive.  `Space` adds that `held` is what is in memory and
what is reserved or still to be given back, and that what may yet be placed fits
with what was; `Owners`, that a chunk being collected has one participant and is still empty, so
placing it moves its keys from the one side to the other.

`SeekFinds` (`SeeksFind`) and the refinement (`CopyImplements`) need what the chunks
hold.  `Kept` says that a chunk's keys are of its range, that an index is the index
of the chunks as they are, is made before anyone reads, and that who does not
read has no view.  The ranges ascend (`RangesUp`), each place is in one chunk (`PlaceTaken`) and
below the places of the next (`ChunksUp`), so the index's keys ascend and have every chunk's keys
(`KeysAscend`).  A round of the binary search keeps the answer at or right of its
base and no more than its length right of it (`RoundKeeps`), and as many rounds as there are containers leave one
(`RoundsEnd`), by induction over rounds, which are a number, with a least counterexample (`LeastOf`).  The direct index's
slots are what a seek asks for (`DirectIs`, `LookFinds`).  Then each step is one of `AtomicCopy`: `Build` makes
the copy, a `View` reads it and is the index's keys (`ViewIs`), `Reinit` is a
rescan, and the rest change nothing it sees (`CopySteps`).

`LionPartsProof` proves `Spec => []FindsTracked` (`HashFinds`).  Between calls
every slot on the way from a key's home to the key has a key; inside a removal
that is false, and its strengthening `Paths` says how far: the one empty slot on
a key's way may be the hole, and only for keys the loop has not come to (`at` lies
before them, seen from the hole).  `Looked` says that the slots it has come to
are full, so the loop's end, an empty slot, bounds what could still be cut off.
The code's test for "cyclically in (i, j]" is shown to be "the hole is not on j's
way" (`PlaceKept`); the rest is arithmetic around a table of any size.

It also proves `VisSpec => []AnswersExact` (`VisAnswers`), for any heap.
`AnswersExact` speaks of answers, so its invariant `VisInv` has to say why a page
resolved late, after updates, pruning and reuse, still shows what the snapshot saw.
A page is `Sound`: no two of its versions are one writer's or are updated by one (`OneWriter`), only
committed versions are updated and only by later transactions (`Updated`), a
redirect leads to a committed heap-only version, and no chain goes on into another's first version
(`Led`).  From this a chain, the least set with its first version and what
follows (`ChainIs`), is linear (`ChainLinear`) and no two chains meet
(`ChainsApart`).  `Seeing` relates heap and snapshot: it sees only what has committed,
it sees whatever did not fail below its horizon, and what is visible on a page by
it is `seen`.  A write adds versions it does not see (`WrittenRows`), a freed line
pointer led to none it sees (`FreedRows`), and pruning cuts a chain before
what it sees (`GoneUnseen`, `CutRows`).  `Cached` says that filled entries are `seen`,
of the relation counted.

`LionRingProof` proves of the ring between a reader and its stream, for any blocks,
limits and sizes, `RingConsistent` (`Consistent`), `ReadsItsBlock` (`ReadsRight`),
`PinsCounted` (`PinsRight`) and `GivenAreHeld` (`GivenHeld`).  `RingConsistent` is
`lion_ring_check()` and is not inductive: it says nothing of the stream, which gives
blocks back in the order it was named them, and nothing of what a call has read and
still uses.  `Inv` adds

* `RingInv` - what waits in the queues and what the key table says waits is the same, a
  key names the one place of its block, both for the queues (`QueuesInv`) and for the given
  part (`SlotsInv`, `SlotKeysInv`); the counters count them; the oldest slot of the given
  part is not a hole (`HeadFull`);
* `StreamInv` - the blocks the stream has, the one it hands out and then its queue,
  are those given and not yet held, in the order of their positions from `gpull` on
  (`InOrder`), so the block the stream returns next is the one the next pull expects;
  a block is pinned once if it is given or held (`PinsOf`); and the stream is over only if
  the ring knows it has ended;
* `ReadInv` - a pull that starts with nothing given finds its own block first in line on a
  stream that goes on, so the pull cannot fail; and the loop that refills has room.

Positions wrap, so nothing in it compares them: a span is the positions less far from
its head than its end is (`SpanIs`), it gains or loses one at either end (`SpanTail`,
`SpanFront`, ...), and as the array's size divides the number of positions, those of a span no longer
than the array have slots of their own.  Each operation of the ring (push, unqueue,
dequeue over stale entries, give, evict, take, trim, pull) has a lemma that says what it does to a ring of
`RingInv`, and each action one that puts these together.  `GivenHeld` needs a fact
about two states: between clears a step keeps the key of every block given, and a slot once held (`Keeps`).

`LionPredLocksProof` proves `Spec => []Inv` (`PredLocksInvariant`), and from it the types
(`PredLocksType`) and `LocksFollowKeys` (`PredLocksFollow`), for any keys, leaves, roots
and readers.  `Inv` is `TypeOK`, `Owners` - each key is on exactly one live leaf -
and `LocksFollowKeys`.  The page an insert checks is then one page, and every action that
changes which (a spill, a split, a deleted entry, a leaf that goes) is shown to
give it to the holders of the page that was it.
From `Inv` and `WalkInv` it proves `WalkCoversRange` (`PredLocksWalk`).  `WalkInv` gives
each leaf of the chain a first key that keeps when the leaf leaves it, and says that from every
leaf a walk may stand on the keys from its first one on are there or to the right
(`Passes`), and that what a walk has still to read begins no earlier (`Ahead`).  Leaves
that left keep their right links and what they pass, so a walk is not led astray by a leaf that
is unlinked under it.

`LionSummaryProof` proves `BucketsOrdered` (`BucketsInOrder`), `NeverOutOfOrder`
(`OutOfOrderNever`) and `RangeExact` (`RangesCounted`) of `SumSpec`, for any rows, keys, leaves and
parts, where `DropsTop` is false (with it the first fails, see above).  One
invariant has all three (`SummaryInvariant`), as none is inductive by itself:

* `Good` - the buckets ascend and each is in its place, and no leaf but the only one is
  last and empty, so the last leaf has the bucket a second descent is to find;
* `LooksOf`, `GuardsOf`, `StoredOf` - an insert that goes to a leaf by a right link has
  nothing but closed buckets below its key left of it, so `StepsRight` cannot step past its
  bucket, or past the open one, while leaves split.  An insert that has looked again has a
  bucket at or above its key until it is done - it could be deleted as the top one otherwise,
  and the insert raise "out of order" - and a row that is in, or in the walk's snapshot, is in
  its key's set and in a bucket;
* `Walking` - in each phase a walk has counted exactly the snapshot's rows with keys of the part
  up to some key (`CountedTo`).  Where it takes buckets after it took keys, that key is an end
  (`AtEnd`): a bucket above it has no row of the snapshot at or below it, the open one is above
  it, and there always is one at or above it.  And left of the leaf it reads next all
  buckets are closed and counted.  For the walk is at a leaf it read from a link or a
  separator, and its next read may find that leaf cut, its open bucket closed where it was or raised,
  and new buckets after it.

What a step may do to the buckets is stated once, as `Turn`: whatever was left of a leaf is as it was but
for rows (`KeepsBefore`); a bucket comes from one with the same key, or from the open one with
a higher key, or is new above all and has no row of the snapshot (`KeepsKinds`); there is always
one as high (`KeepsTops`); and rows go only as VACUUM takes dead ones (`KeepsRows`).
Each way to write an entry - rewritten, added, opened, removed, and a cut of the leaf after
any of them - is shown to be a `Turn` that keeps `Good` (`CutGood`, `PutTurn`,
`OpenTurn`, `RemoveTurn`, ...), turns follow one another (`TurnTwice`), and
the invariant's parts are kept by `Turn` alone (`LooksKept`, `GuardsKept`, `IsInKept`, `WalkKept`).
The walk's own steps are then checked against buckets at rest.

Only model-checked: `LionReadList`, `LionMerge` (recursion over expressions),
the rest of `LionDir` (planned: ranges, downlinks,
routes and the refinement of `AtomicDir`), `LionDirWalk`, what `LionStandby` adds, and all liveness.

## 5. Plan

1. Done: the modules above, and the proofs above.
2. Proofs: on top of
   `DirLinked`'s invariant `ItemsInRange`, `DownlinksExact`, `NeverMisled` and
   `ActsAtomically`, which need a number for where each page's range begins, which pages are
   dying, and where a walk may stand; `NoDanglingTid` and `CountExact` on a standby.
3. `LionLocks`: the lock and pin protocol of writers, counts and VACUUM with each
   wait its own step, for freedom from deadlock.
4. A plain scan's private image; a multi-row insert's entries placed from one leaf
   (`lion_dir_place_again()`); VACUUM's regrown containers.
5. Algorithms against their definitions: TID codes, sparse segments, WAL deltas,
   slices' sums and top-k.

## 6. Not modelled

The planner, cost model and SQL surface (pure functions of statistics and
catalogs); lionvec (a second access method, mostly numeric bounds); build (runs
alone); verification (reads only); container encodings beyond the container key;
position trees, bit slices and BM25; plain and bitmap scans; the encoding of WAL
records, their deltas and full-page images.  Of merges: building or probing a union
or a tree, filters on positions, disjoint lists taken in batches, a windowed
union's windows, copies collected for several counts, and memory.  Of summaries: slices of
one bucket, and a build's buckets beyond where they start.  To whom the pins of a list are
charged (`lion_set.c:1038`) is a resource owner's doing.  The
visibility map's unlocked read may also see a bit as set that was cleared a
moment ago: the writer that cleared it had not committed when the count's
snapshot was taken, or its row is still visible to it, and the model's read is
of the current bit.
