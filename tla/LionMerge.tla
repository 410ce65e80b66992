----------------------------- MODULE LionMerge -----------------------------
(***************************************************************************)
(* Counting a boolean expression of posting sets (lion_expr.c and the      *)
(* merge of lion_count.c) while other sessions insert and delete rows and  *)
(* VACUUM removes them from one set after the other.                       *)
(*                                                                         *)
(* An expression cursor stands at a container key with the members its     *)
(* expression has there.  Its sets are copied at different moments, some   *)
(* under a pin that is kept, some under none, and a plan made beforehand   *)
(* says which: within a budget of pins, and so that the merge knows        *)
(* whether what it counts has a pin behind it.  Only then may it ask the   *)
(* visibility map; otherwise it rechecks every row in the heap.            *)
(*                                                                         *)
(* A page of a set holds one container, and a container is one heap        *)
(* block's rows.  What a walk of one set meets is LionCount's subject: here *)
(* a set is one container a page, and a seek to a page is one step.  A row *)
(* is inserted, committed and put into all its sets in one step.           *)
(***************************************************************************)
EXTENDS Naturals, Sequences, FiniteSets

CONSTANTS Tids,       \* the rows there may be
          KeyOf,      \* TID -> its container key, the heap block
          NKeys,      \* container keys, and the pages of a set, are 1 .. NKeys
          Setups,     \* what a count may be asked, and of what: see below
          RowSets,    \* the sets a row inserted meanwhile may be in
          Births      \* bound: rows inserted meanwhile

Keys == 1 .. NKeys
End == NKeys + 1

ASSUME KeyAssumption == NKeys \in Nat /\ KeyOf \in [Tids -> Keys]
ASSUME BirthsAssumption == Births \in Nat

\* A setup is an expression, as a sequence of nodes with children before their
\* parents and a leaf for each set before any other; how the count has each
\* set; the sets each row is in to begin with; and the pins a source may hold
\* (lion_open_budget_init()).
ASSUME SetupAssumption ==
  \A s \in Setups : s.budget \in Nat \ {0}
                   /\ \A l \in DOMAIN s.kind :
                        s.kind[l] \in {"inline", "nopin", "chain", "copy"}

VARIABLES setup,    \* the expression counted, and how
          row,      \* TID -> "unused", "live" or "gone"
          vm,       \* heap block -> its all-visible bit
          births,   \* rows inserted so far
          idx,      \* set -> the TIDs it holds
          stage,    \* of the count: "idle", "merge" or "done"
          snap,     \* the TIDs its snapshot sees
          plan,     \* node -> its plan, once there is one
          want,     \* of those, the ones the expression holds for
          img,      \* set -> the TIDs of the count's copy of it, or of a page
          nxt,      \* set -> the next page of a copy being made
          stand,    \* set -> the container key its cursor stands at, End past
                    \* the last, 0 before it is opened
          pin,      \* set -> the page the count pins, 0 for none
          goal,     \* the merge is past every key below
          count,    \* rows counted on the map's word
          recheck,  \* rows to be rechecked in the heap
          vset,     \* VACUUM: the set its walk is at, 0 between two calls
          vpage,    \* ... and the page
          vdead     \* the TIDs this call removes

heapVars == <<row, vm, births>>
cursorVars == <<img, nxt, stand, pin>>
countVars == <<stage, snap, want, plan, cursorVars, goal, count, recheck>>
vacuumVars == <<vset, vpage, vdead>>
mergeVars == <<setup, heapVars, idx, countVars, vacuumVars>>

query == setup.query
kind == setup.kind
Nodes == DOMAIN query
Root == Len(query)
Sets == DOMAIN kind
ArgsOf(n) == {query[n].args[i] : i \in DOMAIN query[n].args}
MinusOf(n) == {query[n].minus[i] : i \in DOMAIN query[n].minus}
At(S, k) == {t \in S : KeyOf[t] = k}
Least(S) == CHOOSE k \in S : \A j \in S : k <= j
Greatest(S) == CHOOSE k \in S : \A j \in S : k >= j
Busy == stage # "idle"
SeenByAll(t) == Busy => t \in snap
-----------------------------------------------------------------------------
(* The plan of a node: does every container it yields have a pin behind it,  *)
(* how many pins does it hold, and what is let go of past the budget.        *)

AllKept == 0
NoneKept == Root + 1

Plan(pinned, pins, keep, wide) ==
  [pinned |-> pinned, pins |-> pins, keep |-> keep, wide |-> wide]

\* lion_leaf_cost() and the leaf rule: an INLINE set's pin is the set's own
LeafPlan(l) ==
  Plan(kind[l] \in {"inline", "chain"}, IF kind[l] = "chain" THEN 1 ELSE 0,
       AllKept, FALSE)

\* the pins of the children p[1], ..., p[n] together
PinSum(p) ==
  LET s[i \in 0 .. Len(p)] == IF i = 0 THEN 0 ELSE s[i - 1] + p[i].pins
  IN s[Len(p)]

\* Not the code: a union's container has a pin if any child would have one
UnionPinnedIfAny(p) == \E i \in DOMAIN p : p[i].pinned

\* which children contributed to a union's container is not known in advance
UnionPinned(p) == \A i \in DOMAIN p : p[i].pinned

\* past the budget a union is wide: read a child at a time, pinned by nothing
UnionPlan(p) ==
  IF Len(p) > 1 /\ PinSum(p) > setup.budget
  THEN Plan(FALSE, 0, NoneKept, TRUE)
  ELSE Plan(UnionPinned(p), PinSum(p), AllKept, FALSE)

\* Not the code: the first child keeps its pins whether it has any or not
FirstOf(p) == 1

\* the one child whose pin is behind all an intersection yields
FirstPinned(p) == Least({i \in DOMAIN p : p[i].pinned})

\* past the budget only the first child that has a pin at every key keeps its
AndPlan(args, p) ==
  LET any == \E i \in DOMAIN p : p[i].pinned
      keep == IF any THEN FirstPinned(p) ELSE 0
  IN IF PinSum(p) <= setup.budget
     THEN Plan(any, PinSum(p), AllKept, FALSE)
     ELSE Plan(any, IF any THEN p[keep].pins ELSE 0,
               IF any THEN args[keep] ELSE NoneKept, FALSE)

\* what is left of the first child of an ANDNOT has that child's pin
AndNotPlan(args, p) ==
  IF PinSum(p) <= setup.budget
  THEN Plan(p[1].pinned, PinSum(p), AllKept, FALSE)
  ELSE Plan(p[1].pinned, p[1].pins, args[1], FALSE)

\* lion_plan_node(), and of the merge, whose sources are planned one by one
PlanOf ==
  LET of[n \in Nodes] ==
        LET children == query[n].args \o query[n].minus
            p == [i \in DOMAIN children |-> of[children[i]]]
        IN CASE query[n].kind = "key" -> LeafPlan(n)
             [] query[n].kind = "or" -> UnionPlan(p)
             [] query[n].kind = "and" -> AndPlan(children, p)
             [] query[n].kind = "andnot" -> AndNotPlan(children, p)
             [] query[n].kind = "merge" -> Plan(FALSE, PinSum(p), AllKept, FALSE)
  IN of

\* Not the code: negated sources are asked too
SourcesCarrying ==
  {s \in ArgsOf(Root) \cup MinusOf(Root) : plan[s].pinned}

\* the positive sources with a pin behind all they yield
Carriers == {s \in ArgsOf(Root) : plan[s].pinned}

\* is the map not to be asked at all
NoVm == Carriers = {}

\* the leaves of the tree under a node
Below ==
  LET leaves[n \in Nodes] ==
        IF query[n].kind = "key" THEN {n}
        ELSE UNION {leaves[c] : c \in ArgsOf(n) \cup MinusOf(n)}
  IN leaves

\* a leaf of a windowed union, which is read without pins
Windowed(l) == \E n \in Nodes \ Sets : l \in Below[n] /\ plan[n].wide

\* Not the code: every cursor keeps its pins
KeepsPinAlways(l) == TRUE

\* lion_ecursor_init_ex(): no node above told the leaf to drop its pins
KeepsPin(l) ==
  \A n \in Nodes \ Sets : l \in Below[n] =>
    \/ plan[n].keep = AllKept
    \/ plan[n].keep \in Nodes /\ l \in Below[plan[n].keep]
-----------------------------------------------------------------------------
(* Where the cursors stand.  A leaf is had whole - an INLINE payload, a      *)
(* private copy, a windowed union's child - or a page at a time.             *)

Whole(l) == kind[l] # "chain" \/ Windowed(l)

Standing(k, S) == [is |-> "at", key |-> k, members |-> S, leaf |-> 0]
Exhausted == [is |-> "end", key |-> End, members |-> {}, leaf |-> 0]
Wanting(l, k) == [is |-> "move", key |-> k, members |-> {}, leaf |-> l]

\* leaf l sought to key k: it stands there, or has to move first
LeafAt(l, k) ==
  IF k >= End \/ stand[l] = End THEN Exhausted
  ELSE IF stand[l] >= k THEN Standing(stand[l], At(img[l], stand[l]))
  ELSE Wanting(l, k)

\* how far a node is known to be from key k on, nothing being read
AtLeast ==
  LET low[n \in Nodes, k \in 0 .. End + 1] ==
        IF query[n].kind = "key" THEN LeafAt(n, k).key
        ELSE LET all == {low[c, k] : c \in ArgsOf(n)}
             IN IF query[n].kind = "or" THEN Least(all) ELSE Greatest(all)
  IN low

\* the first of a sequence of cursors that has to move
FirstWanting(c) == c[Least({i \in DOMAIN c : c[i].is = "move"})]

\* the k-way merge of an OR's children
Union(c) ==
  LET keys == {c[i].key : i \in {j \in DOMAIN c : c[j].is = "at"}}
  IN IF \E i \in DOMAIN c : c[i].is = "move" THEN FirstWanting(c)
     ELSE IF keys = {} THEN Exhausted
     ELSE Standing(Least(keys), UNION {c[i].members : i \in
                     {j \in DOMAIN c : c[j].is = "at" /\ c[j].key = Least(keys)}})

\* the members the first i cursors of c have in common
Common(c, i) == {t \in c[1].members : \A j \in 1 .. i : t \in c[j].members}

\* what makes a leapfrog give up key k: a cursor that has to move, is past
\* k or has run out, or empties the intersection
Blocking(c, k) ==
  {i \in DOMAIN c : c[i].is # "at" \/ c[i].key > k \/ Common(c, i) = {}}

\* the members of S that the cursors c, sought to S's key k, leave of it
Left(c, k, S) ==
  S \ UNION {c[i].members : i \in {j \in DOMAIN c : c[j].is = "at" /\ c[j].key = k}}

\* Not the code: an abandoned key takes the key after it along
StepTwo(k) == k + 2

\* the driver steps past a key that is abandoned
StepDriver(k) == k + 1

\* lion_ecursor_build(), _next() and _seek(): node n wound to key k.  The AND
\* of cursors is lion_leapfrog(): its driver, then the others sought to where
\* the furthest is, in order, and the negated ones to what is left.
Wind ==
  LET wind[n \in Nodes, k \in 0 .. End + 2] ==
        LET cursors(s, j) == <<>> \o [i \in DOMAIN s |-> wind[s[i], j]]
            driver == wind[query[n].order[1], k]
            abandon(j) == wind[n, StepDriver(j)]
            subtract(j, S) ==
              LET c == cursors(query[n].minus, j)
              IN IF \E i \in DOMAIN c : c[i].is = "move" THEN FirstWanting(c)
                 ELSE IF Left(c, j, S) = {} THEN abandon(j)
                 ELSE Standing(j, Left(c, j, S))
            round[j \in 0 .. End] ==
              LET c == cursors(query[n].order, j)
                  stop == Blocking(c, j)
                  blocker == c[Least(stop)]
              IN IF stop = {} THEN subtract(j, Common(c, Len(c)))
                 ELSE IF blocker.is # "at" THEN blocker
                 ELSE IF blocker.key > j THEN round[blocker.key]
                 ELSE abandon(j)
        IN IF k >= End THEN Exhausted
           ELSE IF query[n].kind = "key" THEN LeafAt(n, k)
           ELSE IF query[n].kind = "or" THEN Union(cursors(query[n].args, k))
           ELSE IF driver.is # "at" THEN driver
           ELSE round[Greatest({driver.key} \cup
                        {AtLeast[c, k] : c \in ArgsOf(n)})]
  IN wind
-----------------------------------------------------------------------------
(* The heap and the sessions that write it *)

Insert(t, S) ==
  /\ row[t] = "unused"
  /\ births < Births
  /\ row' = [row EXCEPT ![t] = "live"]
  /\ vm' = [vm EXCEPT ![KeyOf[t]] = FALSE]
  /\ births' = births + 1
  /\ idx' = [l \in Sets |-> IF l \in S THEN idx[l] \cup {t} ELSE idx[l]]
  /\ UNCHANGED <<setup, countVars, vacuumVars>>

Delete(t) ==
  /\ row[t] = "live"
  /\ row' = [row EXCEPT ![t] = "gone"]
  /\ vm' = [vm EXCEPT ![KeyOf[t]] = FALSE]
  /\ UNCHANGED <<setup, births, idx, countVars, vacuumVars>>

\* VACUUM of the heap, between its calls of the index
SetAllVisible(b) ==
  /\ vset = 0
  /\ ~vm[b]
  /\ \A t \in At(Tids, b) :
       row[t] = "unused" \/ (row[t] = "live" /\ SeenByAll(t))
  /\ vm' = [vm EXCEPT ![b] = TRUE]
  /\ UNCHANGED <<setup, row, births, idx, countVars, vacuumVars>>

\* of what the count does not see, any row that is gone: the horizon would spare
\* those inserted since it began
VacuumBegin ==
  /\ vset = 0
  /\ vdead' = {t \in Tids : row[t] = "gone" /\ (Busy => t \notin snap)}
  /\ vdead' # {}
  /\ vset' = 1
  /\ vpage' = 1
  /\ UNCHANGED <<setup, heapVars, idx, countVars>>

\* an INLINE set is one page, its directory leaf
OnPage(l, p) == IF kind[l] \in {"inline", "nopin"} THEN idx[l] ELSE At(idx[l], p)
LastPage(l) == IF kind[l] \in {"inline", "nopin"} THEN 1 ELSE NKeys

\* every page of every set, one after the other, under a cleanup lock
VacuumPage ==
  /\ vset \in Sets
  /\ pin[vset] # vpage
  /\ idx' = [idx EXCEPT ![vset] = @ \ (vdead \cap OnPage(vset, vpage))]
  /\ IF vpage < LastPage(vset)
     THEN vpage' = vpage + 1 /\ vset' = vset
     ELSE vpage' = 1 /\ vset' = vset + 1
  /\ UNCHANGED <<setup, heapVars, countVars, vdead>>

\* the call of the index is over: the line pointers may be used again
VacuumReap ==
  /\ vset = Len(kind) + 1
  /\ row' = [t \in Tids |-> IF t \in vdead THEN "unused" ELSE row[t]]
  /\ vdead' = {}
  /\ vset' = 0
  /\ UNCHANGED <<setup, vm, births, idx, countVars, vpage>>
-----------------------------------------------------------------------------
(* The count *)

\* does the query hold for row t, by the sets the row is in
Holds(t) ==
  LET h[n \in Nodes] ==
        IF query[n].kind = "key" THEN t \in idx[n]
        ELSE IF query[n].kind = "or" THEN \E c \in ArgsOf(n) : h[c]
        ELSE (\A c \in ArgsOf(n) : h[c]) /\ (\A c \in MinusOf(n) : ~h[c])
  IN h[Root]

Live == {t \in Tids : row[t] = "live"}

Begin ==
  /\ stage = "idle"
  /\ stage' = "merge"
  /\ snap' = Live
  /\ want' = {t \in Live : Holds(t)}
  /\ plan' = PlanOf
  /\ goal' = 1
  /\ UNCHANGED <<setup, heapVars, idx, cursorVars, count, recheck,
                 vacuumVars>>

\* Sets are located first, INLINE ones with their payload; then private copies
\* are made, then the cursors are opened, each at its first container.
Rank(l) == IF kind[l] \in {"inline", "nopin"} THEN 1
           ELSE IF kind[l] = "copy" THEN 2 ELSE 3
Unready == {l \in Sets : stand[l] = 0}
FirstUnready ==
  CHOOSE l \in Unready : \A m \in Unready :
    Rank(l) < Rank(m) \/ (Rank(l) = Rank(m) /\ l <= m)

\* what the merge does next: a leaf moves, a container is counted, or it ends
NextMove ==
  IF Unready # {} THEN Wanting(FirstUnready, 1) ELSE Wind[Root, goal]

FirstKey(S, k) == Least(({KeyOf[t] : t \in S} \cap (k .. NKeys)) \cup {End})

\* lion_posting_set_take() of an INLINE entry, under its leaf's lock
TakeInline(l) ==
  /\ stand[l] = 0
  /\ kind[l] \in {"inline", "nopin"}
  /\ img' = [img EXCEPT ![l] = idx[l]]
  /\ stand' = [stand EXCEPT ![l] = FirstKey(idx[l], 1)]
  /\ pin' = [pin EXCEPT ![l] = IF kind[l] = "inline" THEN 1 ELSE 0]
  /\ UNCHANGED nxt

\* lion_posting_set_materialize(), or a windowed union's child: a page more
CopyPage(l) ==
  /\ stand[l] = 0
  /\ Whole(l) /\ kind[l] \notin {"inline", "nopin"}
  /\ img' = [img EXCEPT ![l] = @ \cup At(idx[l], nxt[l])]
  /\ nxt' = [nxt EXCEPT ![l] = @ + 1]
  /\ stand' = [stand EXCEPT ![l] = IF nxt'[l] = End THEN FirstKey(img'[l], 1) ELSE 0]
  /\ UNCHANGED pin

\* lion_cursor_seek() of a set that is had whole
SeekCopy(l, k) ==
  /\ stand[l] # 0
  /\ Whole(l)
  /\ stand' = [stand EXCEPT ![l] = FirstKey(img[l], k)]
  /\ UNCHANGED <<img, nxt, pin>>

\* lion_cursor_unpin(): the page the cursor has is let go first
Unpin(l) ==
  /\ pin[l] # 0
  /\ pin' = [pin EXCEPT ![l] = 0]
  /\ UNCHANGED <<img, nxt, stand>>

\* lion_cursor_next_item() and lion_cursor_seek_leaf(): the first page from key
\* k on with a container is copied, and pinned unless the plan said otherwise
ReadPage(l, k) ==
  /\ pin[l] = 0
  /\ stand' = [stand EXCEPT ![l] = FirstKey(idx[l], k)]
  /\ img' = [img EXCEPT ![l] = At(idx[l], stand'[l])]
  /\ pin' = [pin EXCEPT ![l] =
                IF stand'[l] < End /\ KeepsPin(l) THEN stand'[l] ELSE 0]
  /\ UNCHANGED nxt

Move(m) ==
  /\ m.is = "move"
  /\ \/ TakeInline(m.leaf) \/ CopyPage(m.leaf) \/ SeekCopy(m.leaf, m.key)
     \/ ~Whole(m.leaf) /\ (Unpin(m.leaf) \/ ReadPage(m.leaf, m.key))
  /\ UNCHANGED <<stage, plan, goal, count, recheck>>

\* lion_count_container(): the map is asked about what the sources have in
\* common, and only then do they move on
Count(m) ==
  /\ m.is = "at"
  /\ IF ~NoVm /\ vm[m.key]
     THEN count' = count + Cardinality(m.members) /\ recheck' = recheck
     ELSE recheck' = recheck \cup m.members /\ count' = count
  /\ goal' = m.key + 1
  /\ UNCHANGED <<stage, plan, cursorVars>>

NoCursor == [l \in Sets |-> 0]

\* a source has run out: the cursors are closed, the sets released, and what
\* was queued is looked up in the heap under the snapshot
Finish(m) ==
  /\ m.is = "end"
  /\ stage' = "done"
  /\ count' = count + Cardinality(recheck \cap snap)
  /\ recheck' = {}
  /\ plan' = <<>>
  /\ img' = [l \in Sets |-> {}]
  /\ nxt' = [l \in Sets |-> 1]
  /\ stand' = NoCursor
  /\ pin' = NoCursor
  /\ goal' = 0

CountStep ==
  /\ stage = "merge"
  /\ LET m == NextMove IN Move(m) \/ Count(m) \/ Finish(m)
  /\ UNCHANGED <<setup, heapVars, idx, snap, want, vacuumVars>>
-----------------------------------------------------------------------------
MergeInit ==
  /\ setup \in Setups
  /\ row = [t \in Tids |-> "live"]
  /\ vm = [b \in Keys |-> TRUE]
  /\ births = 0
  /\ idx = [l \in Sets |-> {t \in Tids : l \in setup.rows[t]}]
  /\ stage = "idle"
  /\ snap = {}
  /\ want = {}
  /\ plan = <<>>
  /\ img = [l \in Sets |-> {}]
  /\ nxt = [l \in Sets |-> 1]
  /\ stand = NoCursor
  /\ pin = NoCursor
  /\ goal = 0
  /\ count = 0
  /\ recheck = {}
  /\ vset = 0
  /\ vpage = 1
  /\ vdead = {}

MergeNext ==
  \/ \E t \in Tids, S \in RowSets : Insert(t, S)
  \/ \E t \in Tids : Delete(t)
  \/ \E b \in Keys : SetAllVisible(b)
  \/ VacuumBegin \/ VacuumPage \/ VacuumReap
  \/ Begin \/ CountStep

MergeSpec == MergeInit /\ [][MergeNext]_mergeVars
-----------------------------------------------------------------------------
\* The pins a count holds on pages of chains are those its plans paid for: no
\* more than the budget for each of its sources (lion_plan_node()).
PinsWithinBudget ==
  Cardinality({l \in Sets : kind[l] = "chain" /\ pin[l] # 0})
    <= setup.budget * (Len(query[Root].args) + Len(query[Root].minus))

\* What a count of an expression promises: the rows it holds for, as of the
\* snapshot, whatever its sets and the map go through meanwhile.
Promise == INSTANCE AtomicCount WITH
  Rows <- Tids, Sessions <- {"count"}, Parts <- {Tids},
  visible <- {t \in Live : Holds(t)},
  asked <- [s \in {"count"} |-> want],
  status <- [s \in {"count"} |->
              CASE stage = "idle" -> "idle"
                [] stage = "merge" -> "asked"
                [] stage = "done" -> "answered"],
  answer <- [s \in {"count"} |-> IF stage = "done" THEN count ELSE 0]

MergesAtomically == Promise!ASpec
=============================================================================
