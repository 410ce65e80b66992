---------------------------- MODULE LionSummary ----------------------------
(***************************************************************************)
(* The summaries of a key column (lion_summary_insert() of lion_insert.c)  *)
(* and the ranges counted by them (lion_range.c).                          *)
(*                                                                         *)
(* A column's keys are cut into buckets, each with one more posting set,   *)
(* its summary, under the largest key the bucket may hold.  The last bucket *)
(* is open above: its key is raised as rows come, until it is full and     *)
(* closed where it stands.  A walk takes the buckets a range covers whole  *)
(* and the keys at its two ends one by one; inserts close and open buckets *)
(* and split their leaves between any two of its reads.                    *)
(*                                                                         *)
(* A leaf is known by its low separator, which it keeps for good.  A step  *)
(* is what happens under one leaf's lock; where it is several records, a   *)
(* failure may come between them.  Space is abstracted: an entry that is   *)
(* rewritten or added may or may not fit, and a split may cut anywhere.    *)
(* Leaves are not deleted here, and that a descent ends on the owner of a  *)
(* key is LionDir's subject.  So is LionCount's how a set is read: a walk  *)
(* takes a set's rows with its entry, for until it ends a set neither loses *)
(* nor gains a row its snapshot sees.                                      *)
(***************************************************************************)
EXTENDS Naturals, Sequences, SequencesExt, FiniteSets, FiniteSetsExt

CONSTANTS Rows,         \* TIDs; each is inserted once
          TopKey,       \* the column's keys are 1 .. TopKey
          MaxLeaves,    \* bound: leaves the summaries are spread over
          Parts,        \* the parts of ranges that may be counted
          SumStarts,    \* what the index may hold to begin with
          DropsTop      \* whether VACUUM may delete the top bucket of a column
                        \* that has no open one: see the README

ColumnKeys == 1 .. TopKey
Descent == TopKey + 1   \* for a leaf: the one a descent finds

ASSUME SummaryAssumption == /\ TopKey \in Nat
                            /\ MaxLeaves \in Nat /\ DropsTop \in BOOLEAN

\* A part of a range holds the keys from low to high, and its first whole bucket
\* is after the one `land` is in, the bound it begins at or after; 0 when it starts
\* at the column's first bucket.
ASSUME PartAssumption ==
  \A p \in Parts : /\ p.land \in {0} \cup ColumnKeys
                  /\ p.low \in Nat \ {0} /\ p.low <= p.land + 1
                  /\ p.high \in 0 .. TopKey

VARIABLES limit,    \* summary_tids: rows of an open bucket that is full
          key,      \* row -> its key
          stage,    \* row -> "unused", being put into its "lookup" or "create"
                    \* summary, "stored", "live" once committed, or "gone"
          leafAt,   \* row -> the leaf its insert goes to next
          guarded,  \* row -> whether its insert found a summary it had missed
          vals,     \* the rows that are in the set of their key
          items,    \* leaf -> its summaries in order
          rd        \* the walk of a range

rowVars == <<limit, key, stage, leafAt, guarded>>
sumVars == <<rowVars, vals, items, rd>>

Leaf == DOMAIN items
Rights(l) == {m \in Leaf : m > l}
Rightmost(l) == Rights(l) = {}
RightLink(l) == Min(Rights(l))

\* the leaf a descent to (SUMMARY, k) ends on: it goes left of an equal pivot
Landing(k) == Max({l \in Leaf : l < k})

\* lion_cmp_entry(): a summary at or above key k; the open one, whatever its key
AtOrAbove(e, k) == e.open \/ e.top >= k

\* the first such on leaf l, as lion_dir_search_first() and lion_range_landing() find it
FirstOn(l, k) == SelectInSeq(items[l], LAMBDA e : AtOrAbove(e, k))
-----------------------------------------------------------------------------
(* Writing an entry *)

Bucket(k, open, S) == [top |-> k, open |-> open, rows |-> S]
With(e, r) == [e EXCEPT !.rows = @ \cup {r}]

\* lion_dir_place() and lion_dir_split(): leaf l gets the entries s, or the first
\* n of them, and a new leaf the others, its separator (lion_make_pivot()) a
\* SUMMARY of the first one's key even where that is the open bucket
Fits(l, s) == [items EXCEPT ![l] = s]
Cut(l, s, n) == [m \in Leaf \cup {s[n + 1].top} |->
                   IF m = l THEN SubSeq(s, 1, n)
                   ELSE IF m = s[n + 1].top THEN SubSeq(s, n + 1, Len(s))
                   ELSE items[m]]
CutsOf(s) == IF Cardinality(Leaf) < MaxLeaves THEN 1 .. Len(s) - 1 ELSE {}
Placed(l, s) == {Fits(l, s)} \cup {Cut(l, s, n) : n \in CutsOf(s)}
-----------------------------------------------------------------------------
(* Inserting a row *)

Goes(r, p) == /\ stage' = [stage EXCEPT ![r] = p]
              /\ leafAt' = [leafAt EXCEPT ![r] = Descent]

\* lion_insert_one() of the row's key, which its summary comes after
SumInsert(r) == /\ stage[r] = "unused"
                /\ Goes(r, "lookup")
                /\ vals' = vals \cup {r}
                /\ UNCHANGED <<limit, key, guarded, items, rd>>

LookupLeaf(r) == IF leafAt[r] = Descent THEN Landing(key[r]) ELSE leafAt[r]

\* what lion_dir_search_first() looks at next for r: leaf l, its entry i or none
LooksAt(r, l, i) == stage[r] = "lookup" /\ l = LookupLeaf(r) /\ i = FirstOn(l, key[r])

StepsRight(r) == \E l \in Leaf :
  /\ LooksAt(r, l, 0)
  /\ ~Rightmost(l)
  /\ leafAt' = [leafAt EXCEPT ![r] = RightLink(l)]
  /\ UNCHANGED <<limit, key, stage, guarded, vals, items, rd>>

\* the row joins the bucket it belongs to, whose entry may be rewritten for it
Join(r) == \E l \in Leaf : \E i \in DOMAIN items[l] :
  /\ LooksAt(r, l, i)
  /\ items[l][i].top >= key[r]
  /\ items' \in Placed(l, [items[l] EXCEPT ![i] = With(@, r)])
  /\ Goes(r, "stored")
  /\ UNCHANGED <<limit, key, guarded, vals, rd>>

\* the open bucket, whose keys are all below the row's
OpenBelow(r, l, i) == LooksAt(r, l, i) /\ items[l][i].top < key[r]
HasSpace(e) == Cardinality(e.rows) < limit

\* lion_summary_rekey_insert() of an INLINE bucket: the key and the row at once
Raised(r, e) == [e EXCEPT !.top = key[r]]
RaiseInline(r) == \E l \in Leaf : \E i \in DOMAIN items[l] :
  /\ OpenBelow(r, l, i)
  /\ HasSpace(items[l][i])
  /\ items' \in Placed(l, [items[l] EXCEPT ![i] = With(Raised(r, @), r)])
  /\ Goes(r, "stored")
  /\ UNCHANGED <<limit, key, guarded, vals, rd>>

\* ... of a CHAIN: the key in a record of its own, and then the row, unless that
\* has moved the entry off the leaf or the insert fails
RaiseChain(r) == \E l \in Leaf : \E i \in DOMAIN items[l] :
  /\ OpenBelow(r, l, i)
  /\ HasSpace(items[l][i])
  /\ LET raised == [items[l] EXCEPT ![i] = Raised(r, @)]
         both == [raised EXCEPT ![i] = With(@, r)]
     IN \/ /\ items' \in {Fits(l, both)} \cup {Cut(l, both, n) : n \in CutsOf(both) \ 1 .. i - 1}
           /\ Goes(r, "stored")
        \/ /\ items' \in {Cut(l, raised, n) : n \in CutsOf(raised) \cap 1 .. i - 1}
           /\ Goes(r, "lookup")
        \/ items' \in Placed(l, raised) /\ Goes(r, "gone")
  /\ UNCHANGED <<limit, key, guarded, vals, rd>>

\* lion_summary_close_last(): the full bucket is closed where it stands, and the
\* next one opened right after it unless the insert fails
Close(r) == \E l \in Leaf : \E i \in DOMAIN items[l] :
  /\ OpenBelow(r, l, i)
  /\ ~HasSpace(items[l][i])
  /\ LET closed == [items[l] EXCEPT ![i].open = FALSE]
         opened == Bucket(key[r], TRUE, {r})
     IN \/ items' \in Placed(l, InsertAt(closed, i + 1, opened)) /\ Goes(r, "stored")
        \/ items' = Fits(l, closed) /\ Goes(r, "gone")
  /\ UNCHANGED <<limit, key, guarded, vals, rd>>

\* no summary is at or above the key: a second descent, to the end of them
NoSummary(r) == \E l \in Leaf :
  /\ LooksAt(r, l, 0)
  /\ Rightmost(l)
  /\ Goes(r, "create")
  /\ UNCHANGED <<limit, key, guarded, vals, items, rd>>

LastLeaf == Max(Leaf)
LastItem == items[LastLeaf][Len(items[LastLeaf])]
HasOpen == items[LastLeaf] # <<>> /\ LastItem.open

\* another insert opened a bucket meanwhile
FindsOpen(r) == /\ stage[r] = "create"
                /\ HasOpen
                /\ Goes(r, "lookup")
                /\ UNCHANGED <<limit, key, guarded, vals, items, rd>>

\* Not the code: an insert takes any closed bucket in front of it for a missed one.
IsMissedAny(e, k) == ~e.open

\* the summary in front of the new one is not below the key
IsMissed(e, k) == ~e.open /\ e.top >= k
Missed(r) == /\ stage[r] = "create" /\ items[LastLeaf] # <<>>
             /\ IsMissed(LastItem, key[r])

LooksAgain(r) == /\ Missed(r) /\ ~guarded[r]
                 /\ guarded' = [guarded EXCEPT ![r] = TRUE]
                 /\ Goes(r, "lookup")
                 /\ UNCHANGED <<limit, key, vals, items, rd>>

Open(r) == /\ stage[r] = "create"
           /\ ~HasOpen /\ ~Missed(r)
           /\ items' \in Placed(LastLeaf, Append(items[LastLeaf],
                                                 Bucket(key[r], TRUE, {r})))
           /\ Goes(r, "stored")
           /\ UNCHANGED <<limit, key, guarded, vals, rd>>

\* external: an ERROR or a crash, an abort, a deletion; a commit
Inserting(r) == stage[r] \in {"lookup", "create"}
Dies(r) == /\ Inserting(r) \/ stage[r] \in {"stored", "live"}
           /\ Goes(r, "gone")
           /\ UNCHANGED <<limit, key, guarded, vals, items, rd>>
Commit(r) == /\ stage[r] = "stored"
             /\ Goes(r, "live")
             /\ UNCHANGED <<limit, key, guarded, vals, items, rd>>
-----------------------------------------------------------------------------
(* VACUUM *)

Dead == {r \in Rows : stage[r] = "gone" /\ r \notin rd.snap}

\* a key's own entry goes with its last row
VacuumValue(k) ==
  /\ vals' = vals \ {r \in Dead : key[r] = k}
  /\ UNCHANGED <<rowVars, items, rd>>

VacuumSummary == \E l \in Leaf : \E i \in DOMAIN items[l] :
  /\ items' = [items EXCEPT ![l][i].rows = @ \ Dead]
  /\ UNCHANGED <<rowVars, vals, rd>>

\* Not the code: VACUUM deletes an emptied bucket that is open, too.
DeletableOpen(e) == e.rows = {}

\* lion_vacuum_delete_entries(): an emptied bucket, but never the open one
Deletable(e) == e.rows = {} /\ ~e.open
IsTop(l, i) == i = Len(items[l]) /\ \A m \in Rights(l) : items[m] = <<>>
DeleteSummary == \E l \in Leaf : \E i \in DOMAIN items[l] :
  /\ Deletable(items[l][i])
  /\ IsTop(l, i) => items[l][i].open \/ DropsTop
  /\ items' = [items EXCEPT ![l] = RemoveAt(@, i)]
  /\ UNCHANGED <<rowVars, vals, rd>>
-----------------------------------------------------------------------------
(* Counting a range *)

NoneCounted == [r \in Rows |-> 0]
AnyPart == CHOOSE p \in Parts : TRUE
Idle == [phase |-> "idle", part |-> AnyPart, snap |-> {}, at |-> 0, clip |-> 0,
         prev |-> 0, pos |-> 0, got |-> NoneCounted]

Phase(p) == rd.phase = p
\* the sets of entries T of leaf l read: each row the snapshot sees counts in each
\* set that has it
Counted(l, T) ==
  [r \in Rows |->
     rd.got[r] + Cardinality({i \in T : r \in items[l][i].rows \cap rd.snap})]
Walks(new) == rd' = new /\ UNCHANGED <<rowVars, vals, items>>

\* The keys a bucket holds are at or below its top (lion_scan_bucket_inside()).
Inside(e) == e.top <= rd.part.high

\* lion_entry_scan_plan_sum(): from the column's first bucket on, or first where
\* the part's lower end lands
BeginRange == /\ Phase("idle")
         /\ \E p \in Parts :
              LET new == [Idle EXCEPT !.part = p,
                                      !.snap = {r \in Rows : stage[r] = "live"}]
              IN Walks(IF p.land = 0 THEN [new EXCEPT !.phase = "sums"]
                       ELSE [new EXCEPT !.phase = "landing", !.at = Descent])

\* the part's values one by one, those up to `prev` passed over
Values == [rd EXCEPT !.phase = "upper", !.pos = Max({rd.prev, rd.part.low - 1})]

\* lion_range_landing(): a leaf, and the summary E_j whose bucket `land` is in;
\* without one that ends inside the part the walk is the plain one
Lands == /\ Phase("landing")
         /\ LET l == IF rd.at = Descent THEN Landing(rd.part.land) ELSE rd.at
                i == FirstOn(l, rd.part.land)
                use == i # 0 /\ ~items[l][i].open /\ Inside(items[l][i])
            IN \/ i = 0 /\ ~Rightmost(l) /\ Walks([rd EXCEPT !.at = RightLink(l)])
               \/ use /\ Walks([rd EXCEPT !.phase = "lower", !.clip = items[l][i].top,
                                         !.pos = rd.part.low - 1])
               \/ ~use /\ (i = 0 => Rightmost(l)) /\ Walks(Values)

\* the next key above the last that has an entry, TopKey + 1 where they end
NextKey == Min({key[r] : r \in {x \in vals : key[x] > rd.pos}} \cup {TopKey + 1})
OfKey(r, k) == r \in vals \cap rd.snap /\ key[r] = k
TakeKey(k) == [rd EXCEPT !.pos = k,
                         !.got = [r \in Rows |-> @[r] + IF OfKey(r, k) THEN 1 ELSE 0]]
Ended == [rd EXCEPT !.phase = "done"]

\* lion_entry_scan_setup_phase(): the summaries after E_j
SumsAfter(k) == [rd EXCEPT !.phase = "sums", !.prev = k, !.at = Landing(k)]

\* the values up to E_j's key; a column with none above it has no bucket to take
Lower == /\ Phase("lower")
         /\ \/ NextKey > TopKey /\ Walks(Ended)
            \/ NextKey <= TopKey /\ NextKey <= rd.clip /\ Walks(TakeKey(NextKey))
            \/ NextKey <= TopKey /\ NextKey > rd.clip /\ Walks(SumsAfter(rd.clip))

\* Not the code: a leaf is read from the last bucket taken on, itself included.
NotTakenFrom(l) == {i \in DOMAIN items[l] : AtOrAbove(items[l][i], rd.prev)}

\* lion_entry_scan_selects(), _fill(): one read of a leaf of summaries takes those
\* after the last one taken, up to the first that is not inside the part
NotTaken(l) == {i \in DOMAIN items[l] : AtOrAbove(items[l][i], rd.prev + 1)}
Taken(l) == {i \in NotTaken(l) : \A j \in NotTaken(l) : j <= i => Inside(items[l][j])}

\* where the summaries run out the walk is over, unless the column has slices,
\* which end the phase only
Sums == /\ Phase("sums")
        /\ LET T == Taken(rd.at)
               took == [rd EXCEPT !.prev = IF T = {} THEN @ ELSE items[rd.at][Max(T)].top,
                                  !.got = Counted(rd.at, T)]
               whole == T = NotTaken(rd.at)
           IN \/ ~whole /\ Walks([took EXCEPT !.phase = "setup"])
              \/ whole /\ ~Rightmost(rd.at) /\ Walks([took EXCEPT !.at = RightLink(rd.at)])
              \/ whole /\ Rightmost(rd.at)
                 /\ \E p \in {"setup", "done"} : Walks([took EXCEPT !.phase = p])

Setup == Phase("setup") /\ Walks(Values)

\* the part's values above the last whole bucket, or all of them
Upper == /\ Phase("upper")
         /\ Walks(IF NextKey > rd.part.high THEN Ended ELSE TakeKey(NextKey))

Return == Phase("done") /\ Walks(Idle)
-----------------------------------------------------------------------------
\* The entry i of leaf l is in front of entry j of leaf m.
InFront(l, i, m, j) == l < m \/ (l = m /\ i < j)

\* The buckets f, of rows with the keys k, ascend, and only the last one is open; a
\* bucket holds rows of its own keys only, and is on the leaf a descent for its key
\* ends on.
Ascend(f, k) == \A l, m \in DOMAIN f : \A i \in DOMAIN f[l], j \in DOMAIN f[m] :
  InFront(l, i, m, j) => /\ ~f[l][i].open
                         /\ f[l][i].top < f[m][j].top
                         /\ \A r \in f[m][j].rows : k[r] > f[l][i].top
InPlace(f, k) == \A l \in DOMAIN f : \A i \in DOMAIN f[l] :
  /\ \A r \in f[l][i].rows : k[r] <= f[l][i].top
  /\ f[l][i].top >= l
  /\ \A m \in DOMAIN f : l < m => f[l][i].top < m

\* A column to start from: its leaves are those a first descent and splits made, the
\* last of several has a bucket, and no row is in two.
Buckets == Seq([top : ColumnKeys, open : BOOLEAN, rows : SUBSET Rows])
SumStartOK(s) ==
  /\ s.limit \in Nat /\ s.key \in [Rows -> ColumnKeys] /\ s.born \subseteq Rows
  /\ DOMAIN s.items \subseteq 0 .. TopKey /\ 0 \in DOMAIN s.items
  /\ s.items \in [DOMAIN s.items -> Buckets]
  /\ Ascend(s.items, s.key) /\ InPlace(s.items, s.key)
  /\ s.items[Max(DOMAIN s.items)] = <<>> => DOMAIN s.items = {0}
ASSUME SumStartsAssumption == \A s \in SumStarts : SumStartOK(s)

StoredIn(f) == UNION {UNION {f[l][i].rows : i \in DOMAIN f[l]} : l \in DOMAIN f}
SumInit == /\ \E s \in SumStarts :
                /\ limit = s.limit
                /\ key = s.key
                /\ items = s.items
                /\ stage = [r \in Rows |-> IF r \in StoredIn(s.items) THEN "live"
                                          ELSE IF r \in s.born THEN "unused" ELSE "gone"]
           /\ vals = StoredIn(items)
           /\ leafAt = [r \in Rows |-> Descent]
           /\ guarded = [r \in Rows |-> FALSE]
           /\ rd = Idle

SumNext ==
  \/ \E r \in Rows : \/ SumInsert(r) \/ StepsRight(r) \/ Join(r)
                     \/ RaiseInline(r) \/ RaiseChain(r) \/ Close(r)
                     \/ NoSummary(r) \/ FindsOpen(r) \/ LooksAgain(r) \/ Open(r)
                     \/ Dies(r) \/ Commit(r)
  \/ \E k \in ColumnKeys : VacuumValue(k)
  \/ VacuumSummary \/ DeleteSummary
  \/ BeginRange \/ Lands \/ Lower \/ Sums \/ Setup \/ Upper \/ Return

SumSpec == SumInit /\ [][SumNext]_sumVars
-----------------------------------------------------------------------------
(* Properties *)

\* A walk counts every row of its snapshot that the part selects exactly once, and
\* no other, though keys are raised, buckets closed, opened and deleted and leaves
\* split between its reads (DESIGN.md 32: "disjoint").
RangeExact ==
  Phase("done") =>
    rd.got = [r \in Rows |-> IF r \in rd.snap /\ key[r] >= rd.part.low
                                              /\ key[r] <= rd.part.high THEN 1 ELSE 0]

\* The buckets of a column ascend, only the last one is open, each holds rows of
\* its own keys only, and each entry is where a descent for its key ends, although
\* a bucket's key changes and its kind does in the place the entry has
\* (lion_index_verify() looks for this).
BucketsOrdered == Ascend(items, key) /\ InPlace(items, key)

\* No insert finds twice a summary at or above its key in front of the new bucket
\* it is about to open: "the summaries of key column are out of order".
NeverOutOfOrder == \A r \in Rows : ~(Missed(r) /\ guarded[r])
=============================================================================
