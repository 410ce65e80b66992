--------------------------- MODULE LionVisCache ---------------------------
(***************************************************************************)
(* The per-query visibility cache (lion_vis.c): the counts of one node     *)
(* execution share what they found out about the heap's pages, while other *)
(* sessions write to the heap, prune its pages and use their line pointers *)
(* again.                                                                  *)
(*                                                                         *)
(* The first count records nothing, the next ones the blocks they visit,   *)
(* and a block visited once more is resolved: every line pointer of it is  *)
(* looked up under the node's snapshot, and later counts are answered from *)
(* that.  The entries are kept by block number alone, and a node counts    *)
(* the partitions of a table one after another.                            *)
(*                                                                         *)
(* A count rechecks a set of blocks, one at a time, and asks about every   *)
(* line pointer of each: more than any index entry names.                  *)
(***************************************************************************)
EXTENDS Naturals, FiniteSets

CONSTANTS Rels,        \* relations, the partitions of a table
          HeapBlocks,  \* heap blocks of each
          BusyPages,   \* those other sessions write to: a bound of the model
          Lps,         \* line pointers of a page
          Xids,        \* transactions, one write each
          MaxEntries   \* entries work_mem allows

ASSUME BusyAssumption == BusyPages \subseteq Rels \X HeapBlocks
ASSUME MaxEntriesAssumption == MaxEntries \in Nat \ {0}

VARIABLES heap,        \* the line pointers of every page
          nextxid,     \* the transaction that writes next
          committed,   \* transactions that have committed
          aborted,     \* transactions that have failed
          snapshot,    \* transactions the node's snapshot sees as committed
          xmin,        \* the oldest transaction that ran when it was taken
          seen,        \* the roots of the rows it saw then, by page
          node,        \* "none", "idle" between two counts, or "count"
          relid,       \* relation the cache's entries belong to
          todo,        \* blocks the count has still to recheck
          ncounts,     \* counts served since the last reset, 2 for any more
          entries,     \* the hash table, by block
          full         \* its budget is spent

writeVars == <<heap, nextxid, committed, aborted>>
cacheVars == <<relid, ncounts, entries, full>>
nodeVars == <<snapshot, xmin, seen, node, todo>>
visVars == <<writeVars, nodeVars, cacheVars>>

Pages == Rels \X HeapBlocks
None == "none"
Frozen == 0                       \* the transaction of the rows to begin with
NoXid == Cardinality(Xids) + 1    \* no xmax
NoLp == Cardinality(Lps) + 1

ASSUME XidsAssumption == IsFiniteSet(Xids) /\ Xids = 1 .. Cardinality(Xids)
ASSUME LpsAssumption == IsFiniteSet(Lps) /\ Lps = 1 .. Cardinality(Lps)
-----------------------------------------------------------------------------
(* Heap pages.  A line pointer is unused, dead, a redirect, or points to a   *)
(* version: the root of a HOT chain or a heap-only one.                      *)

Line(kind, xi, xa, nx) == [kind |-> kind, xmin |-> xi, xmax |-> xa, next |-> nx]
Unused == Line("unused", Frozen, NoXid, NoLp)
Dead == Line("dead", Frozen, NoXid, NoLp)
Redirect(o) == Line("redirect", Frozen, NoXid, o)
Version(l) == l.kind \in {"root", "heaponly"}

Running == (1 .. nextxid - 1) \ (committed \cup aborted)

Versions(page) == {i \in Lps : Version(page[i])}

\* i's next version is the one its updater wrote: where it is not, the line
\* pointer is another row's by now
Followed(page, i) ==
  /\ page[i].next # NoLp
  /\ Version(page[page[i].next])
  /\ page[page[i].next].xmin = page[i].xmax

\* where line pointer o leads, and the versions its chain goes through
Leads(page, o) == IF page[o].kind = "redirect" THEN page[o].next ELSE o
Chain(page, o) ==
  IF page[o].kind \notin {"root", "redirect"} THEN {}
  ELSE {i \in Versions(page) : \A S \in SUBSET Versions(page) :
          /\ Leads(page, o) \in S
          /\ \A k \in S : Followed(page, k) => page[k].next \in S
          => i \in S}

\* HeapTupleSatisfiesMVCC()
Satisfies(l, snap) == l.xmin \in snap /\ l.xmax \notin snap

\* heap_hot_search_buffer() of line pointer o: is a row of the snapshot there
HotSearch(page, o, snap) == \E i \in Chain(page, o) : Satisfies(page[i], snap)

Visible(page, snap) == {o \in Lps : HotSearch(page, o, snap)}
-----------------------------------------------------------------------------
(* Other sessions *)

\* PageAddItem() takes the first line pointer that is free
FreeLp(p, o) == heap[p][o] = Unused /\ \A i \in Lps : i < o => heap[p][i] # Unused

HeapInsert(p, o, x) ==
  /\ FreeLp(p, o)
  /\ heap' = [heap EXCEPT ![p][o] = Line("root", x, NoXid, NoLp)]

\* the latest version of its row, as heap_update() and heap_delete() ask
Latest(l) ==
  /\ Version(l)
  /\ l.xmin \in committed \cup {Frozen}
  /\ l.xmax \in aborted \cup {NoXid}

HeapDelete(p, o, x) ==
  /\ Latest(heap[p][o])
  /\ heap' = [heap EXCEPT ![p][o].xmax = x, ![p][o].next = NoLp]

HotUpdate(p, o, new, x) ==
  /\ Latest(heap[p][o])
  /\ FreeLp(p, new)
  /\ heap' = [heap EXCEPT ![p][o].xmax = x, ![p][o].next = new,
                          ![p][new] = Line("heaponly", x, NoXid, NoLp)]

\* no snapshot that is registered, or is taken later, sees the version
DeadToAll(l) ==
  l.xmax \in committed /\ (node # None => l.xmax < xmin)

\* heap_page_prune(), a chain at a time: what leads up to its last dead version
\* goes, and the root leads to the first that stays, or to nothing
Prune(p, o) ==
  LET page == heap[p]
      chain == Chain(page, o)
      gone == {i \in chain : \/ page[i].kind = "root" /\ page[i].xmin \in aborted
                             \/ \E j \in chain : /\ DeadToAll(page[j])
                                                 /\ page[i].xmin <= page[j].xmin}
      First(S) == CHOOSE i \in S : \A j \in S : page[i].xmin <= page[j].xmin
  IN /\ gone # {}
     /\ heap' = [heap EXCEPT ![p] =
          [i \in Lps |-> IF i = o THEN IF gone = chain THEN Dead
                                       ELSE Redirect(First(chain \ gone))
                         ELSE IF i \in gone THEN Unused ELSE page[i]]]

\* a heap-only version of a transaction that failed
PruneAborted(p, o) ==
  /\ heap[p][o].kind = "heaponly"
  /\ heap[p][o].xmin \in aborted
  /\ heap' = [heap EXCEPT ![p][o] = Unused]

\* VACUUM, when no index names the line pointer any more
Reap(p, o) == heap[p][o] = Dead /\ heap' = [heap EXCEPT ![p][o] = Unused]

Write(x) ==
  /\ \E p \in BusyPages, o \in Lps :
       \/ HeapInsert(p, o, x)
       \/ HeapDelete(p, o, x)
       \/ \E new \in Lps : HotUpdate(p, o, new, x)
  /\ nextxid' = x + 1
  /\ UNCHANGED <<committed, aborted>>

EndXact(x) ==
  /\ x \in Running
  /\ \/ committed' = committed \cup {x} /\ UNCHANGED aborted
     \/ aborted' = aborted \cup {x} /\ UNCHANGED committed
  /\ UNCHANGED <<heap, nextxid>>

Clean(p, o) ==
  /\ Prune(p, o) \/ PruneAborted(p, o) \/ Reap(p, o)
  /\ UNCHANGED <<nextxid, committed, aborted>>

HeapStep ==
  /\ \/ nextxid \in Xids /\ Write(nextxid)
     \/ \E x \in Xids : EndXact(x)
     \/ \E p \in BusyPages, o \in Lps : Clean(p, o)
  /\ UNCHANGED <<nodeVars, cacheVars>>
-----------------------------------------------------------------------------
(* The cache *)

Empty == [b \in {} |-> [filled |-> FALSE, vis |-> {}]]

\* lion_vis_cache_reset(), and the state lion_vis_cache_create() makes
CacheReset ==
  /\ relid' = None
  /\ ncounts' = 0
  /\ entries' = Empty
  /\ full' = FALSE

\* lion_vis_cache_window_reset(), of a window of keys that is set or lifted
WindowReset ==
  /\ ncounts' = 0
  /\ entries' = Empty
  /\ full' = FALSE
  /\ UNCHANGED relid

\* Not the code: entries are anybody's
CacheBeginAny(r) ==
  /\ relid' = r
  /\ ncounts' = IF ncounts = 2 THEN 2 ELSE ncounts + 1
  /\ UNCHANGED <<entries, full>>

\* lion_vis_cache_begin(): entries of another relation go
CacheBegin(r) ==
  /\ relid' = r
  /\ IF relid # r
     THEN ncounts' = 1 /\ entries' = Empty /\ full' = FALSE
     ELSE /\ ncounts' = IF ncounts = 2 THEN 2 ELSE ncounts + 1
          /\ UNCHANGED <<entries, full>>

\* lion_vis_fill_page(): every line pointer of the page, under its lock
FillPage(b) == [filled |-> TRUE, vis |-> Visible(heap[<<relid, b>>], snapshot)]

Resolved(b) == b \in DOMAIN entries /\ entries[b].filled

\* lion_vis_cache_lookup(), lion_vis_cache_prepare(): what the recheck of a
\* block leaves in the table
CacheVisit(b) ==
  /\ UNCHANGED <<relid, ncounts>>
  /\ IF ncounts < 2 \/ Resolved(b) THEN UNCHANGED <<entries, full>>
     ELSE IF b \in DOMAIN entries
     THEN entries' = [entries EXCEPT ![b] = FillPage(b)] /\ UNCHANGED full
     ELSE IF full \/ Cardinality(DOMAIN entries) >= MaxEntries
     THEN full' = TRUE /\ UNCHANGED entries
     ELSE /\ entries' = [c \in DOMAIN entries \cup {b} |->
               IF c = b THEN [filled |-> FALSE, vis |-> {}] ELSE entries[c]]
          /\ UNCHANGED full
-----------------------------------------------------------------------------
(* The node *)

\* the snapshot is taken, and registered until the node ends; the cache is made
Start ==
  /\ node = None
  /\ node' = "idle"
  /\ snapshot' = committed \cup {Frozen}
  /\ xmin' = CHOOSE x \in Running \cup {nextxid} :
               \A y \in Running \cup {nextxid} : x <= y
  /\ seen' = [p \in Pages |-> Visible(heap[p], snapshot')]
  /\ CacheReset
  /\ UNCHANGED todo

\* a count of relation r, with what the map could not answer for
BeginCount(r) ==
  /\ node = "idle"
  /\ node' = "count"
  /\ todo' \in (SUBSET HeapBlocks) \ {{}}
  /\ CacheBegin(r)
  /\ UNCHANGED <<snapshot, xmin, seen>>

\* lion_recheck_heap_heap(): the next block of the count's
Recheck(b) ==
  /\ node = "count"
  /\ b \in todo
  /\ \A c \in todo : b <= c
  /\ CacheVisit(b)
  /\ todo' = todo \ {b}
  /\ node' = IF todo' = {} THEN "idle" ELSE "count"
  /\ UNCHANGED <<snapshot, xmin, seen>>

\* a window of a parallel count, or a rescan of the node
Between ==
  /\ node = "idle"
  /\ WindowReset \/ CacheReset
  /\ UNCHANGED nodeVars

\* the node ends, or fails
EndNode ==
  /\ node # None
  /\ node' = None
  /\ todo' = {}
  /\ snapshot' = {}
  /\ xmin' = NoXid
  /\ seen' = [p \in Pages |-> {}]
  /\ CacheReset

NodeStep ==
  /\ \/ Start \/ Between \/ EndNode
     \/ \E r \in Rels : BeginCount(r)
     \/ \E b \in HeapBlocks : Recheck(b)
  /\ UNCHANGED writeVars

\* one of the relations has rows to begin with
VisInit ==
  /\ \E r \in Rels :
       heap = [p \in Pages |-> [o \in Lps |->
                 IF p[1] = r /\ o = 1 THEN Line("root", Frozen, NoXid, NoLp)
                 ELSE Unused]]
  /\ nextxid = 1 /\ committed = {} /\ aborted = {}
  /\ node = None
  /\ snapshot = {} /\ xmin = NoXid /\ seen = [p \in Pages |-> {}] /\ todo = {}
  /\ relid = None /\ ncounts = 0 /\ entries = Empty /\ full = FALSE

VisNext == HeapStep \/ NodeStep

VisSpec == VisInit /\ [][VisNext]_visVars
-----------------------------------------------------------------------------
\* how the count that runs would have a block answered now
Answer(b) ==
  IF Resolved(b) THEN entries[b].vis ELSE Visible(heap[<<relid, b>>], snapshot)

\* Whenever a block is asked about, and whether it is answered from the cache,
\* resolved for it or looked up, the answer is the rows the snapshot saw on the
\* page when it was taken - whatever was written, pruned and used again since,
\* and whichever relation was counted before (lion_vis_cache_lookup()'s claim
\* that the answer is a function of the snapshot alone).
AnswersExact ==
  node = "count" => \A b \in todo : Answer(b) = seen[<<relid, b>>]
=============================================================================
