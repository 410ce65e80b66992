---------------------------- MODULE LionPosting ----------------------------
(***************************************************************************)
(* The posting set of ONE key of a lion index: the directory entry that    *)
(* holds it (absent, INLINE, or CHAIN with a head and a tail), the tree of *)
(* posting pages a CHAIN entry heads, the inserter that grows it and the   *)
(* parts of VACUUM that shrink it (lion_insert.c, lion_posting.c,          *)
(* lion_posting_put.c, lion_posting_delete.c, lion_pages.c).               *)
(*                                                                         *)
(* A TID is a number, BlockOf gives its heap block, and the heap block is  *)
(* its container key.  A page holds a set of TIDs; how a container encodes *)
(* them, and the page's bytes, are abstracted into PageCap containers a    *)
(* page.  The tree has at most one internal level, the head block itself.  *)
(*                                                                         *)
(* A writer of the key holds the key's directory leaf EXCLUSIVE for the    *)
(* whole of its call; ins is the TID it is inserting, and NoTid while      *)
(* nobody holds the leaf.  A call that writes several WAL records is       *)
(* several steps, so that a reader can see the state between two of them   *)
(* and an ERROR or a crash can end the call there (InsertFails); held is   *)
(* the posting page it keeps locked from one record to the next.           *)
(***************************************************************************)
EXTENDS Naturals, FiniteSets, Sequences

CONSTANTS Tids,        \* the TIDs rows may have
          BlockOf,     \* TID -> heap block, here also its container key (> 0)
          Pages,       \* blocks of the index posting pages may be made of
          NoPage,      \* InvalidBlockNumber
          NoTid,       \* nobody is inserting
          PageCap,     \* containers a posting leaf holds
          InlineCap,   \* containers an INLINE entry holds (inline_limit)
          FlatLeaves,  \* LION_POSTING_FLAT_LEAVES
          Readers      \* sessions whose snapshots a free page may have to await

ASSUME BlockAssumption == BlockOf \in [Tids -> Nat \ {0}]
ASSUME PagesAssumption == IsFiniteSet(Pages)
ASSUME NoPageAssumption == NoPage \notin Pages
ASSUME NoTidAssumption == NoTid \notin Tids
ASSUME CapAssumption == /\ PageCap \in Nat \ {0}
                        /\ InlineCap \in 1..PageCap
                        /\ FlatLeaves \in Nat \ {0}

VARIABLES form,     \* of the entry: "absent", "inline" or "chain"
          inl,      \* the TIDs of an INLINE entry
          head,     \* root block of a CHAIN entry's tree
          tail,     \* its last leaf, the append hint
          kind,     \* page -> "new", "leaf", "inner", "unlinked", "deleted"
          owner,    \* page -> the owner_head stamp
          items,    \* page -> TIDs of a leaf
          right,    \* page -> rightlink
          flagged,  \* page -> LION_PAGE_INCOMPLETE_SPLIT
          down,     \* page -> downlinks of an internal page, in order
          stamp,    \* page -> snapshots its safexid is not behind
          ins,      \* the TID being inserted: the leaf's EXCLUSIVE lock
          held      \* posting page the inserter keeps EXCLUSIVE meanwhile

entryVars == <<form, inl, head, tail>>
pageVars == <<kind, owner, items, right, flagged, down, stamp>>
postingVars == <<form, inl, head, tail, kind, owner, items, right, flagged,
                 down, stamp, ins, held>>

Blocks == {BlockOf[t] : t \in Tids}
Links == Pages \cup {NoPage}
-----------------------------------------------------------------------------
(* Keys and pages *)

KeysOf(S) == {BlockOf[t] : t \in S}

\* opaque->minckey and maxckey, 0 on a page without items
MinKey(p) == IF items[p] = {} THEN 0
             ELSE CHOOSE k \in KeysOf(items[p]) :
                    \A j \in KeysOf(items[p]) : k <= j
MaxKey(p) == IF items[p] = {} THEN 0
             ELSE CHOOSE k \in KeysOf(items[p]) :
                    \A j \in KeysOf(items[p]) : k >= j

Fits(S, cap) == Cardinality(KeysOf(S)) <= cap

\* lion_page_owns() with LionPageIsPostingLeaf(): an UNLINKED leaf still
\* counts, a DELETED page does not
OwnsLeaf(p, h) ==
  p \in Pages /\ kind[p] \in {"leaf", "unlinked"} /\ owner[p] = h
OwnsTree(p, h) ==
  p \in Pages /\ kind[p] \in {"leaf", "unlinked", "inner"} /\ owner[p] = h

\* the n-th page right of p
StepsRight(p) ==
  LET at[n \in 0..Cardinality(Pages)] ==
        IF n = 0 THEN p
        ELSE IF at[n - 1] = NoPage THEN NoPage ELSE right[at[n - 1]]
  IN at

\* the pages a walk along the right links from page p passes, in order
Chain(p) ==
  LET at == StepsRight(p)
      more == {n \in 1..Cardinality(Pages) : at[n] # NoPage}
  IN [i \in 1..(1 + Cardinality(more)) |-> at[i - 1]]

\* a set of pages no right link leads out of
RightClosed(C) == \A p \in C : right[p] \in C \cup {NoPage}

Flat == kind[head] = "leaf"

\* the leftmost leaf of the set: the head, or its first downlink
FirstLeaf == IF Flat THEN head ELSE down[head][1].child

\* the leaves of the set: the least set with the first of them and, with a leaf,
\* the one its right link names
Leaves ==
  IF form = "chain"
  THEN {p \in Pages : \A C \in SUBSET Pages :
                        FirstLeaf \in C /\ RightClosed(C) => p \in C}
  ELSE {}

Indexed == IF form = "inline" THEN inl
           ELSE UNION {items[p] : p \in Leaves}

\* Not the code: the separator itself already routes left
DownlinkBelow(s, k) ==
  LET at == {i \in 1..Len(s) : s[i].sep < k}
  IN IF at = {} THEN 1 ELSE CHOOSE i \in at : \A j \in at : j <= i

\* lion_posting_downlink_off(): the LAST separator at or below k
DownlinkOff(s, k) ==
  LET at == {i \in 1..Len(s) : s[i].sep <= k}
  IN IF at = {} THEN 1 ELSE CHOOSE i \in at : \A j \in at : j <= i

\* Not the code: the leaf that begins with k is passed over
FlatRouteBelow(k) ==
  LET c == Chain(head)
      at == {i \in 1..Len(c) : items[c[i]] # {} /\ MinKey(c[i]) < k}
  IN IF at = {} THEN head
     ELSE c[CHOOSE i \in at : \A j \in at : j <= i]

\* lion_posting_flat_route(): the last non-empty leaf of a flat chain whose
\* first key is at or below k, else the head
FlatRoute(k) ==
  LET c == Chain(head)
      at == {i \in 1..Len(c) : items[c[i]] # {} /\ MinKey(c[i]) <= k}
  IN IF at = {} THEN head
     ELSE c[CHOOSE i \in at : \A j \in at : j <= i]

\* where a writer's descent for key k ends
WriterLeaf(k) == IF Flat THEN FlatRoute(k)
                 ELSE down[head][DownlinkOff(down[head], k)].child

HasDownlink(p) == \E i \in 1..Len(down[head]) : down[head][i].child = p

\* where a scan from the left finds it
DownlinkAt(p) ==
  IF down[head][1].child = p THEN 1
  ELSE CHOOSE i \in 1..Len(down[head]) : down[head][i].child = p
-----------------------------------------------------------------------------
(* Blocks: live is the set of snapshots now registered *)

\* Not the code: a free page is handed out whatever its safexid
RecyclableAtOnce(p, live) ==
  kind[p] \in {"new", "deleted"} \/ (kind[p] = "unlinked" /\ items[p] = {})

\* lion_page_recyclable(): never used, or free with its safexid behind every
\* snapshot
Recyclable(p, live) ==
  \/ kind[p] = "new"
  \/ kind[p] = "deleted" /\ stamp[p] \cap live = {}
  \/ kind[p] = "unlinked" /\ items[p] = {} /\ stamp[p] \cap live = {}

\* lion_init_page(): q becomes a leaf of the set at h, holding S, linking to r
NewLeaf(q, h, S, r) ==
  /\ kind' = [kind EXCEPT ![q] = "leaf"]
  /\ owner' = [owner EXCEPT ![q] = h]
  /\ items' = [items EXCEPT ![q] = S]
  /\ right' = [right EXCEPT ![q] = r]
  /\ stamp' = [stamp EXCEPT ![q] = {}]
-----------------------------------------------------------------------------
(* The inserter.  It takes the directory leaf EXCLUSIVE (InsertBegin) and   *)
(* lets it go when its TID is in the set and no split of its is open.      *)

InsertBegin(t) ==
  /\ ins = NoTid
  /\ ins' = t
  /\ UNCHANGED <<entryVars, pageVars, held>>

\* lion_insert_new_entry(): the key's first row
InsertNewEntry ==
  /\ ins # NoTid
  /\ form = "absent"
  /\ form' = "inline"
  /\ inl' = {ins}
  /\ ins' = NoTid
  /\ UNCHANGED <<head, tail, pageVars, held>>

\* lion_insert_inline() while the payload stays below inline_limit
InsertInline ==
  /\ ins # NoTid
  /\ form = "inline"
  /\ Fits(inl \cup {ins}, InlineCap)
  /\ inl' = inl \cup {ins}
  /\ ins' = NoTid
  /\ UNCHANGED <<form, head, tail, pageVars, held>>

\* lion_insert_inline() past it: lion_entry_spill() moves the payload onto a
\* first leaf q, in a record of its own, and lion_insert_chain() follows.  q
\* never served the index before: an owner_head names one set for good
Spill(q) ==
  /\ ins # NoTid
  /\ form = "inline"
  /\ ~Fits(inl \cup {ins}, InlineCap)
  /\ kind[q] = "new"
  /\ NewLeaf(q, q, inl, NoPage)
  /\ form' = "chain"
  /\ inl' = {}
  /\ head' = q
  /\ tail' = q
  /\ UNCHANGED <<flagged, down, ins, held>>

\* the TID joins leaf p, and the call is over
PutOn(p) ==
  /\ items' = [items EXCEPT ![p] = @ \cup {ins}]
  /\ ins' = NoTid
  /\ UNCHANGED <<entryVars, kind, owner, right, flagged, down, stamp, held>>

\* lion_insert_lock_chain_page() with the append hint: the tail itself, when
\* it is the rightmost leaf, carries no flag and begins at or below the key,
\* and then only the in-place paths
InsertOnTail ==
  /\ ins # NoTid
  /\ form = "chain"
  /\ held = NoPage
  /\ OwnsLeaf(tail, head)
  /\ right[tail] = NoPage
  /\ ~flagged[tail]
  /\ items[tail] # {}
  /\ BlockOf[ins] >= MinKey(tail)
  /\ Fits(items[tail] \cup {ins}, PageCap)
  /\ PutOn(tail)

\* lion_insert_chain() by a descent to the leaf that owns the key, when it
\* takes the TID without a split
InsertOnLeaf(p) ==
  /\ ins # NoTid
  /\ form = "chain"
  /\ held = NoPage
  /\ ~flagged[p]
  /\ Fits(items[p] \cup {ins}, PageCap)
  /\ p = WriterLeaf(BlockOf[ins])
  /\ PutOn(p)

\* a full leaf of the set the caller is about to split: reached by the
\* descent, or kept locked across the promotion
SplitTarget(p) ==
  /\ ins # NoTid
  /\ form = "chain"
  /\ ~flagged[p]
  /\ ~Fits(items[p] \cup {ins}, PageCap)
  /\ p = IF held # NoPage THEN held ELSE WriterLeaf(BlockOf[ins])
  /\ ins \notin Indexed

\* would a split make a flat chain longer than it may be?
PromoteFirst == Flat /\ Len(Chain(head)) + 1 > FlatLeaves

\* the last non-empty leaf before the i-th of the chain c
FilledBefore(c, i) == {j \in 1..(i - 1) : items[c[j]] # {}}
LastBefore(c, i) ==
  c[CHOOSE j \in FilledBefore(c, i) : \A k \in FilledBefore(c, i) : k <= j]

\* lion_posting_flat_sep(): a leaf's first key, or for an empty leaf one past
\* the last key before it
FlatSep(c, i) ==
  IF items[c[i]] # {} THEN MinKey(c[i])
  ELSE IF FilledBefore(c, i) = {} THEN 0 ELSE MaxKey(LastBefore(c, i)) + 1

\* ... and never below the separator before it, the head's being 0
FlatSeps(c) ==
  LET sep[i \in 1..Len(c)] ==
        IF i = 1 THEN 0
        ELSE IF FlatSep(c, i) < sep[i - 1] THEN sep[i - 1] ELSE FlatSep(c, i)
  IN sep

\* lion_posting_promote() and lion_posting_pushdown(): the head's items move
\* to a new child q that takes its place in the chain, and the head block
\* becomes the level above with a downlink to every leaf; the full leaf - q
\* when it was the head - stays locked for the split that follows
Promote(p, q, live) ==
  /\ SplitTarget(p)
  /\ PromoteFirst
  /\ Recyclable(q, live)
  /\ LET c == Chain(head)
         child(i) == IF i = 1 THEN q ELSE c[i]
     IN /\ down' = [down EXCEPT ![head] =
                      [i \in 1..Len(c) |-> [sep |-> FlatSeps(c)[i],
                                            child |-> child(i)]]]
        /\ tail' = IF Len(c) = 1 THEN q ELSE tail
  /\ kind' = [kind EXCEPT ![head] = "inner", ![q] = "leaf"]
  /\ owner' = [owner EXCEPT ![q] = head]
  /\ items' = [items EXCEPT ![q] = items[head], ![head] = {}]
  /\ right' = [right EXCEPT ![q] = right[head], ![head] = NoPage]
  /\ stamp' = [stamp EXCEPT ![q] = {}]
  /\ held' = IF p = head THEN q ELSE p
  /\ UNCHANGED <<form, inl, head, flagged, ins>>

\* Not the code: the append hint stays with the left half
TailKept(p, q) == tail

\* if p was the tail, the chain has a new last page
TailAfterSplit(p, q) == IF tail = p THEN q ELSE tail

\* lion_split_and_place(), first record: the items past the new one move to
\* a new page on the right - or, when nothing is past it, the new one gets
\* the page - and the left page of a tree is flagged until its new sibling
\* has a downlink.  A flat chain has nothing to post, and the call is over.
Split(p, q, live) ==
  /\ SplitTarget(p)
  /\ ~PromoteFirst
  /\ LET moved == {x \in items[p] : BlockOf[x] > BlockOf[ins]}
         new == IF moved = {} THEN {ins} ELSE moved
     IN /\ Recyclable(q, live)
        /\ kind' = [kind EXCEPT ![q] = "leaf"]
        /\ owner' = [owner EXCEPT ![q] = head]
        /\ items' = [items EXCEPT ![q] = new,
                                  ![p] = IF moved = {} THEN @
                                         ELSE (@ \ moved) \cup {ins}]
        /\ right' = [right EXCEPT ![q] = right[p], ![p] = q]
        /\ flagged' = [flagged EXCEPT ![p] = ~Flat]
        /\ tail' = TailAfterSplit(p, q)
        /\ held' = IF Flat THEN NoPage ELSE p
        /\ ins' = IF Flat THEN NoTid ELSE ins
        /\ stamp' = [stamp EXCEPT ![q] = {}]
        /\ UNCHANGED <<form, inl, head, down>>

\* lion_posting_finish_split_ext(): the separator of the right sibling
SplitSep(p) ==
  LET left == down[head][DownlinkAt(p)].sep
      want == IF items[right[p]] # {} THEN MinKey(right[p])
              ELSE IF items[p] # {} THEN MaxKey(p) + 1 ELSE left
  IN IF want < left THEN left ELSE want

\* Not the code: before the left sibling's downlink
InsertBefore(s, i, e) ==
  [j \in 1..(Len(s) + 1) |-> IF j < i THEN s[j] ELSE IF j = i THEN e ELSE s[j - 1]]

\* lion_posting_place_pivot(), at OffsetNumberNext() of the left sibling's
InsertAt(s, i, e) ==
  [j \in 1..(Len(s) + 1) |->
     IF j <= i THEN s[j] ELSE IF j = i + 1 THEN e ELSE s[j - 1]]

\* a flagged leaf the writer has to finish: the one it split, or one its
\* descent ends on
ToFinish(p) ==
  /\ ins # NoTid
  /\ form = "chain"
  /\ flagged[p]
  /\ p = IF held # NoPage THEN held ELSE WriterLeaf(BlockOf[ins])

\* lion_posting_finish_split_ext(), first record: the downlink, in the parent
\* that lion_posting_find_parent() found the page's own in
PlaceDownlink(p) ==
  /\ ToFinish(p)
  /\ HasDownlink(p)
  /\ ~HasDownlink(right[p])
  /\ down' = [down EXCEPT ![head] =
                InsertAt(@, DownlinkAt(p),
                         [sep |-> SplitSep(p), child |-> right[p]])]
  /\ UNCHANGED <<entryVars, kind, owner, items, right, flagged, stamp, ins,
                 held>>

\* ... second record, the flag; the end of the call whose split it was
ClearSplit(p) ==
  /\ ToFinish(p)
  /\ HasDownlink(right[p])
  /\ flagged' = [flagged EXCEPT ![p] = FALSE]
  /\ IF p = held /\ ins \in Indexed
     THEN ins' = NoTid /\ held' = NoPage
     ELSE UNCHANGED <<ins, held>>
  /\ UNCHANGED <<entryVars, kind, owner, items, right, down, stamp>>

\* an ERROR or a crash between two records: the locks go, what is written
\* stays
InsertFails ==
  /\ ins # NoTid
  /\ ins' = NoTid
  /\ held' = NoPage
  /\ UNCHANGED <<entryVars, pageVars>>
-----------------------------------------------------------------------------
(* What VACUUM does to the set.  gone is a set of TIDs it was told to remove; *)
(* the cleanup locks these steps need are the caller's (LionCount).          *)

\* lion_vacuum_leaf_page(), pass 1, and lion_vacuum_inline_filter()
FilterInline(gone) ==
  /\ form = "inline"
  /\ ins = NoTid
  /\ inl' = inl \ gone
  /\ UNCHANGED <<form, head, tail, pageVars, ins, held>>

\* lion_vacuum_filter_page() and lion_vacuum_apply_page(): what is left of the
\* page's items, under the directory leaf when anything goes
FilterPage(p, gone) ==
  /\ kind[p] = "leaf"
  /\ items[p] \cap gone # {} => ins = NoTid
  /\ items' = [items EXCEPT ![p] = @ \ gone]
  /\ UNCHANGED <<entryVars, kind, owner, right, flagged, down, stamp, ins,
                 held>>

LeftOf(p) == {q \in Leaves : right[q] = p}

\* Not the code: the leaf is taken for empty because the walk left it so
MayUnlinkUnchecked(p) ==
  /\ form = "chain"
  /\ ins = NoTid
  /\ p # head
  /\ p \in Leaves
  /\ right[p] # NoPage
  /\ ~flagged[p]
  /\ \A q \in LeftOf(p) : ~flagged[q]
  /\ IF Flat THEN LeftOf(p) # {}
     ELSE /\ HasDownlink(p)
          /\ DownlinkAt(p) < Len(down[head])
          /\ down[head][DownlinkAt(p) + 1].child = right[p]

\* lion_posting_unlink_leaf()'s checks: an empty leaf with a right sibling, no
\* unfinished split on it or on its left neighbour, and in a tree a parent
\* that links that sibling next
MayUnlink(p) ==
  /\ form = "chain"
  /\ ins = NoTid
  /\ items[p] = {}
  /\ p # head
  /\ p \in Leaves
  /\ right[p] # NoPage
  /\ ~flagged[p]
  /\ \A q \in LeftOf(p) : ~flagged[q]
  /\ IF Flat THEN LeftOf(p) # {}
     ELSE /\ HasDownlink(p)
          /\ DownlinkAt(p) < Len(down[head])
          /\ down[head][DownlinkAt(p) + 1].child = right[p]

\* the downlink of p goes to its right sibling, whose own downlink goes
Retarget(s, i) ==
  [j \in 1..(Len(s) - 1) |->
     IF j < i THEN s[j]
     ELSE IF j = i THEN [sep |-> s[i].sep, child |-> s[i + 1].child]
     ELSE s[j + 1]]

\* lion_posting_unlink_leaf(): one record takes the leaf out of the chain and
\* out of its parent.  It stays an empty leaf of the set that links right, so
\* that a reader with an older link passes through it
UnlinkLeaf(p, live) ==
  /\ MayUnlink(p)
  /\ kind' = [kind EXCEPT ![p] = "unlinked"]
  /\ stamp' = [stamp EXCEPT ![p] = live]
  /\ right' = [q \in Pages |-> IF q \in LeftOf(p) THEN right[p] ELSE right[q]]
  /\ down' = IF Flat THEN down
             ELSE [down EXCEPT ![head] = Retarget(@, DownlinkAt(p))]
  /\ UNCHANGED <<entryVars, owner, items, flagged, ins, held>>

\* lion_vacuum_delete_entries(): an entry whose set is empty
DeleteEntry ==
  /\ form # "absent"
  /\ ins = NoTid
  /\ Indexed = {}
  /\ form' = "absent"
  /\ inl' = {}
  /\ head' = NoPage
  /\ tail' = NoPage
  /\ UNCHANGED <<pageVars, ins, held>>

\* a page of a posting set that no entry heads any more
Orphan(p) ==
  /\ kind[p] \in {"leaf", "inner"}
  /\ form = "chain" => owner[p] # head

\* lion_vacuum_free_level() and lion_page_set_deleted(): a level may be freed
\* although a pinned leaf below it had to be left to a later VACUUM's sweep
FreePage(p, live) ==
  /\ Orphan(p)
  /\ items[p] = {}
  /\ kind' = [kind EXCEPT ![p] = "deleted"]
  /\ right' = [right EXCEPT ![p] = NoPage]
  /\ flagged' = [flagged EXCEPT ![p] = FALSE]
  /\ down' = [down EXCEPT ![p] = <<>>]
  /\ stamp' = [stamp EXCEPT ![p] = live]
  /\ UNCHANGED <<entryVars, owner, items, ins, held>>
-----------------------------------------------------------------------------
(* The set on its own: an inserter, and a VACUUM that removes any TIDs      *)

PostingInit ==
  /\ form = "absent"
  /\ inl = {}
  /\ head = NoPage
  /\ tail = NoPage
  /\ kind = [p \in Pages |-> "new"]
  /\ owner = [p \in Pages |-> NoPage]
  /\ items = [p \in Pages |-> {}]
  /\ right = [p \in Pages |-> NoPage]
  /\ flagged = [p \in Pages |-> FALSE]
  /\ down = [p \in Pages |-> <<>>]
  /\ stamp = [p \in Pages |-> {}]
  /\ ins = NoTid
  /\ held = NoPage

InsertStep(live) ==
  \/ InsertNewEntry
  \/ InsertInline
  \/ \E q \in Pages : Spill(q)
  \/ InsertOnTail
  \/ \E p \in Leaves : \/ InsertOnLeaf(p)
                       \/ \E q \in Pages : Promote(p, q, live)
                       \/ \E q \in Pages : Split(p, q, live)
                       \/ PlaceDownlink(p)
                       \/ ClearSplit(p)

PostingNext ==
  \/ \E t \in Tids \ Indexed : InsertBegin(t)
  \/ InsertStep({})
  \/ InsertFails
  \/ \E gone \in SUBSET inl \ {{}} : FilterInline(gone)
  \/ \E p \in Leaves : \E gone \in SUBSET items[p] \ {{}} : FilterPage(p, gone)
  \/ \E p \in Leaves : UnlinkLeaf(p, {})
  \/ DeleteEntry
  \/ \E p \in Pages : FreePage(p, {})

PostingSpec == PostingInit /\ [][PostingNext]_postingVars

\* The defect SeparatorsAscend shows is in one step: a promotion on behalf of a
\* leaf whose right neighbour is empty.  The runs and theorems about where a
\* descent ends leave exactly that step out.
PromotesBeforeEmpty ==
  /\ form = "chain"
  /\ kind[head] = "leaf"
  /\ kind'[head] = "inner"
  /\ right'[held'] # NoPage
  /\ items'[right'[held']] = {}
SoundNext == PostingNext /\ ~PromotesBeforeEmpty
SoundSpec == PostingInit /\ [][SoundNext]_postingVars
-----------------------------------------------------------------------------
PostingTypeOK ==
  /\ form \in {"absent", "inline", "chain"}
  /\ inl \subseteq Tids
  /\ head \in Links
  /\ tail \in Links
  /\ kind \in [Pages -> {"new", "leaf", "inner", "unlinked", "deleted"}]
  /\ owner \in [Pages -> Links]
  /\ items \in [Pages -> SUBSET Tids]
  /\ right \in [Pages -> Links]
  /\ flagged \in [Pages -> BOOLEAN]
  /\ down \in [Pages -> Seq([sep : Nat, child : Pages])]
  /\ stamp \in [Pages -> SUBSET Readers]
  /\ ins \in Tids \cup {NoTid}
  /\ held \in Links
  /\ held # NoPage => ins # NoTid

\* The leaves of a set hold ascending, disjoint ranges of container keys along
\* the right links, whatever splits, promotions and unlinks made the chain:
\* what a walk that reads each leaf once relies on (lion_posting.c).
ChainSorted ==
  form = "chain" =>
    LET c == Chain(FirstLeaf)
    IN \A i, j \in 1..Len(c) : i < j =>
         \A x \in items[c[i]], y \in items[c[j]] : BlockOf[x] < BlockOf[y]

\* The entry's append hint is the last leaf, and every leaf of the chain is a
\* live leaf stamped with the set's head: a promotion, a split of the tail or
\* an unlink that forgot one of them would let an append write to a page that
\* is not in the set (lion_insert_lock_chain_page()).
ChainOwned ==
  form = "chain" =>
    LET c == Chain(FirstLeaf)
    IN /\ c[Len(c)] = tail
       /\ \A i \in 1..Len(c) : kind[c[i]] = "leaf" /\ owner[c[i]] = head

\* A descent for the key of any TID of the set ends on the leaf that holds it,
\* or left of it with nothing but unfinished splits between: separators of
\* leaves VACUUM emptied, of unlinked leaves and of repaired splits included
\* (lion_posting_finish_split_ext(), lion_posting_flat_sep()).
RoutesToOwner ==
  form = "chain" =>
    LET c == Chain(FirstLeaf)
    IN \A j \in 1..Len(c) : \A k \in KeysOf(items[c[j]]) :
         LET leaf == WriterLeaf(k)
         IN \E i \in 1..j : /\ c[i] = leaf
                           /\ \A n \in i..(j - 1) : flagged[c[n]]

\* The separators of an internal page never decrease, whatever promotions,
\* repaired splits and retargeted downlinks put them there: the binary search of
\* lion_posting_downlink_off() is wrong on any other page, and a key whose
\* separator is passed over goes to a leaf that does not own it.
SeparatorsAscend ==
  form = "chain" /\ ~Flat =>
    \A i, j \in 1..Len(down[head]) :
       i < j => down[head][i].sep <= down[head][j].sep

\* No step that changes the shape of the tree - a spill, promotion, split,
\* downlink, unlink, freed page or a crash between two of their records -
\* loses a TID of the set or adds one nobody inserted.
ShapeKeepsMembers ==
  [][<<kind, right, down, flagged, head>>' # <<kind, right, down, flagged, head>> =>
       /\ Indexed \subseteq Indexed'
       /\ Indexed' \subseteq Indexed \cup {ins}]_postingVars
=============================================================================
