--------------------------- MODULE LionCountProof ---------------------------
(***************************************************************************)
(* Counts of a set beside its inserters and VACUUM, for any number of      *)
(* rows, pages and sessions, whatever splits, push-downs, unlinks and      *)
(* spills run meanwhile.                                                   *)
(*                                                                         *)
(* The first part shows that VACUUM frees no line pointer the set, or a    *)
(* count that asks the visibility map, still names, and that the map's     *)
(* word is therefore true of the count's snapshot.  The heart of its       *)
(* invariant is WalkAhead: whatever VACUUM has still to remove lies, on a  *)
(* page or in the copy of a session that pins a page, at or right of the   *)
(* leaf the walk goes to next.  "Right of" is said with sets no right link *)
(* leads out of, so that no induction over the chain is needed: a fact     *)
(* about every such set that holds the walk's leaf.                        *)
(*                                                                         *)
(* The second part shows that a count is exact - every row of its window   *)
(* its snapshot sees is counted once, and no other - and that no page a    *)
(* count may still step to is handed out again.  Two facts about a count   *)
(* make its invariant.  It can only ever step to pages of a set S that     *)
(* right links and downlinks do not lead out of, and whatever of S is free *)
(* has a safexid its snapshot holds back (Safe).  And by the numbers of    *)
(* LionPostingProof, which here also say where an unlinked leaf was, the   *)
(* rows it has not counted or copied are exactly those at or right of the  *)
(* page it goes to next (Walk).                                            *)
(***************************************************************************)
EXTENDS LionCount, LionPostingProof

-----------------------------------------------------------------------------
(* VACUUM's interlock                                                      *)

\* session r trusts the map about the TIDs of its copy of p
Trusts(r, p) == mode[r] = "map" /\ pin[r] = p /\ img[r] # {}

\* something VACUUM was told to remove is on p, or in a trusted copy of p
Dirty(p) == \/ items[p] \cap vdead # {}
            \/ \E r \in Readers : Trusts(r, p) /\ img[r] \cap vdead # {}

\* the TIDs of the set, wherever they are
Named == inl \cup UNION {items[p] : p \in Pages}

Clean == /\ Named \cap vdead = {}
         /\ \A r \in Readers : mode[r] = "map" => img[r] \cap vdead = {}

SessionTypes ==
  /\ row \in [Tids -> {"unused", "doing", "live", "gone"}]
  /\ vm \in [Blocks -> BOOLEAN]
  /\ pc \in [Readers -> {"idle", "locate", "root", "leaf", "items", "next",
                         "recheck"}]
  /\ mode \in [Readers -> Modes \cup {"none"}]
  /\ snap \in [Readers -> SUBSET Tids]
  /\ img \in [Readers -> SUBSET Tids]
  /\ pin \in [Readers -> Links \cup {DirLeaf}]
  /\ vdead \in SUBSET Tids
  /\ vpc \in {"heap", "entry", "root", "page", "unlink", "delete", "free"}

\* the set keeps something VACUUM will not remove, or its root is still to come
SomethingStays ==
  \E p \in Pages : /\ items[p] # {}
                   /\ \/ items[p] \ vdead # {}
                      \/ vpc \in {"entry", "root"}
                      \/ vpc = "page" /\ vpage = head

\* a trusted copy is pinned, on a leaf of the set that still holds something,
\* or on a root pushed down since
Copies ==
  /\ \A r \in Readers : img[r] # {} =>
       /\ pc[r] = "items"
       /\ mode[r] = "map" => pin[r] \in Pages \cup {DirLeaf}
  /\ \A r \in Readers : \A p \in Pages : Trusts(r, p) =>
       /\ form = "chain"
       /\ \/ p \in Stamped /\ items[p] # {}
          \/ p = head /\ kind[head] = "inner" /\ SomethingStays

Heap ==
  /\ ins # NoTid => row[ins] = "doing"
  /\ \A t \in Tids : vm[BlockOf[t]] =>
       row[t] = "unused" \/ (row[t] = "live" /\ SeenByAll(t))
  /\ \A t \in vdead : row[t] = "gone"
  /\ vpc = "heap" => vdead = {}

\* no line pointer that is free is named anywhere
NoneNamed ==
  \A t \in Tids : row[t] = "unused" =>
    /\ t \notin Named
    /\ \A r \in Readers : mode[r] = "map" => t \notin img[r]

\* whatever is to go is at or right of the leaf the walk goes to next
WalkAhead ==
  /\ vpc \in {"root", "page"} =>
       /\ form = "chain"
       /\ vroot = head
       /\ \A r \in Readers : Trusts(r, DirLeaf) => img[r] \cap vdead = {}
  /\ vpc = "page" =>
       \/ vpage = head /\ kind[head] = "inner"
       \/ /\ vpage \in Stamped
          /\ \A C \in SUBSET Stamped : RightClosed(C) /\ vpage \in C =>
               \A p \in Pages : Dirty(p) => p \in C
  /\ vpc \in {"unlink", "delete", "free"} => Clean

Inv == /\ Shape /\ SessionTypes /\ Copies /\ Heap /\ NoneNamed /\ WalkAhead
-----------------------------------------------------------------------------
\* The shape speaks of the posting set alone: a step that leaves the set alone
\* keeps it.
LEMMA ShapeUnchanged ==
  ASSUME Shape, UNCHANGED postingVars
  PROVE  Shape'
BY NextShape

\* So does the set of its stamped leaves.
LEMMA StampedUnchanged ==
  ASSUME UNCHANGED postingVars
  PROVE  Stamped' = Stamped /\ Named' = Named
BY DEF postingVars, Stamped, Named

(* The heap's steps touch neither the set nor a count nor VACUUM.          *)
LEMMA HeapKeeps ==
  ASSUME Inv,
         \/ \E t \in Tids : HeapInsert(t) \/ Commit(t) \/ Abort(t) \/ Delete(t)
         \/ \E b \in Blocks : SetAllVisible(b)
  PROVE  Inv'
<1> USE DEF HeapInsert, Commit, Abort, Delete, SetAllVisible
<1>1. UNCHANGED <<postingVars, readerVars, vacuumVars>>
  OBVIOUS
<1>2. Shape' BY <1>1, ShapeUnchanged DEF Inv
<1>3. SessionTypes' BY <1>1 DEF Inv, SessionTypes, readerVars, vacuumVars
<1>4. Copies'
  BY <1>1, StampedUnchanged
  DEF Inv, Copies, Trusts, SomethingStays, readerVars, vacuumVars, postingVars
<1>5. Heap'
  <2>1. PICK t \in Tids, b \in Blocks :
          HeapInsert(t) \/ Commit(t) \/ Abort(t) \/ Delete(t) \/ SetAllVisible(b)
    BY BlockAssumption DEF Blocks
  <2>2. /\ UNCHANGED <<ins, vdead, vpc>>
        /\ \A x \in Tids : SeenByAll(x)' <=> SeenByAll(x)
    BY <1>1 DEF postingVars, vacuumVars, readerVars, SeenByAll, Running
  <2>3. \A x \in Tids : BlockOf[x] \in Blocks
    BY DEF Blocks
  <2>4. (ins # NoTid => row[ins] = "doing")'
    BY <2>1, <2>2 DEF Inv, Heap, SessionTypes, Shape, PageTypes
  <2>5. (\A x \in vdead : row[x] = "gone")'
    BY <2>1, <2>2 DEF Inv, Heap, SessionTypes
  <2>6. (\A x \in Tids : vm[BlockOf[x]] =>
           row[x] = "unused" \/ (row[x] = "live" /\ SeenByAll(x)))'
    <3>1. SUFFICES ASSUME NEW x \in Tids, vm'[BlockOf[x]]
                   PROVE  row'[x] = "unused" \/ (row'[x] = "live" /\ SeenByAll(x))
      BY <2>2
    <3>2. CASE HeapInsert(t)
      BY <2>3, <3>1, <3>2 DEF Inv, Heap, SessionTypes
    <3>3. CASE Delete(t)
      BY <2>3, <3>1, <3>3 DEF Inv, Heap, SessionTypes
    <3>4. CASE Commit(t) \/ Abort(t)
      BY <2>3, <3>1, <3>4 DEF Inv, Heap, SessionTypes
    <3>5. CASE SetAllVisible(b)
      BY <2>3, <3>1, <3>5 DEF Inv, Heap, SessionTypes
    <3> QED BY <2>1, <3>2, <3>3, <3>4, <3>5
  <2> QED BY <2>2, <2>4, <2>5, <2>6 DEF Heap, Inv
<1>6. NoneNamed'
  BY <1>1, StampedUnchanged DEF Inv, NoneNamed, SessionTypes, readerVars
<1>7. WalkAhead'
  BY <1>1, StampedUnchanged
  DEF Inv, WalkAhead, Clean, Dirty, Trusts, RightClosed, readerVars, vacuumVars,
      postingVars
<1> QED BY <1>2, <1>3, <1>4, <1>5, <1>6, <1>7 DEF Inv
-----------------------------------------------------------------------------
\* what a step of session r may do to its copy: drop it, count part of it,
\* or take one of the INLINE payload or of a page, with the pin
CopyStep(r) ==
  \/ img'[r] = {}
  \/ img'[r] \subseteq img[r] /\ UNCHANGED <<mode, pin, pc>>
  \/ /\ pc'[r] = "items" /\ pin'[r] = DirLeaf
     /\ form = "inline" /\ img'[r] \subseteq inl
  \/ /\ pc'[r] = "items"
     /\ mode'[r] = "map" => /\ pin'[r] \in Pages
                            /\ img'[r] \subseteq items[pin'[r]]

\* its snapshot: the one it has, or the rows that are live when it begins
SnapStep(r) ==
  pc'[r] # "idle" =>
    \/ pc[r] # "idle" /\ snap'[r] = snap[r]
    \/ snap'[r] = {t \in Tids : row[t] = "live"}

\* A count that copies the items of a page, or of the INLINE payload, and pins
\* it keeps the invariant: what the copy names is ahead of VACUUM's walk, for
\* it is still on the page (lion_cursor_take_page(), lion_set.c).
LEMMA CopyKeeps ==
  ASSUME Inv, NEW r \in Readers, SessionTypes',
         UNCHANGED <<postingVars, heapVars, vacuumVars>>,
         \A x \in Readers \ {r} :
           /\ pc'[x] = pc[x] /\ snap'[x] = snap[x] /\ mode'[x] = mode[x]
           /\ img'[x] = img[x] /\ pin'[x] = pin[x],
         CopyStep(r), SnapStep(r)
  PROVE  Inv'
<1>1. Shape' BY ShapeUnchanged DEF Inv
<1>2. UNCHANGED <<form, inl, head, kind, owner, items, right, ins, row, vm, vpc,
                  vdead, vroot, vpage>>
  BY DEF postingVars, heapVars, vacuumVars
<1>3. Stamped' = Stamped /\ Named' = Named
  BY StampedUnchanged
<1>4. DirLeaf \notin Pages /\ DirLeaf # NoPage
  BY DirLeafAssumption DEF Links
<1>5. \A p \in Pages : items[p] # {} => form = "chain" /\ p \in Stamped
  BY DEF Inv, Shape, Ownership
<1>6. \A p \in Pages : items[p] \subseteq Named
  BY DEF Named
<1>7. inl \subseteq Named
  BY DEF Named
<1>8. Copies'
  <2>1. ASSUME NEW x \in Readers, img'[x] # {}
        PROVE  /\ pc'[x] = "items"
               /\ mode'[x] = "map" => pin'[x] \in Pages \cup {DirLeaf}
    BY <2>1 DEF CopyStep, Inv, Copies
  <2>2. ASSUME NEW x \in Readers, NEW p \in Pages, Trusts(x, p)'
        PROVE  /\ form = "chain"
               /\ \/ p \in Stamped /\ items[p] # {}
                  \/ p = head /\ kind[head] = "inner" /\ SomethingStays
    <3>1. CASE Trusts(x, p)
      BY <3>1 DEF Inv, Copies
    <3>2. CASE ~Trusts(x, p)
      <4>1. x = r /\ img'[r] # {} /\ pin'[r] = p /\ mode'[r] = "map"
        BY <2>2, <3>2 DEF Trusts
      <4>2. img'[r] \subseteq items[p]
        BY <1>4, <3>2, <4>1 DEF CopyStep, Trusts
      <4> QED BY <1>5, <4>1, <4>2
    <3> QED BY <3>1, <3>2
  <2>3. SomethingStays' <=> SomethingStays
    BY <1>2 DEF SomethingStays
  <2> QED BY <1>2, <1>3, <2>1, <2>2, <2>3 DEF Copies
<1>9. Heap'
  <2>1. ASSUME NEW t \in Tids, row[t] = "live", SeenByAll(t)
        PROVE  SeenByAll(t)'
    BY <1>2, <2>1 DEF SeenByAll, Running, SnapStep
  <2> QED BY <1>2, <2>1 DEF Inv, Heap
<1>10. NoneNamed'
  <2>1. ASSUME NEW t \in Tids, row[t] = "unused", NEW x \in Readers,
               mode'[x] = "map"
        PROVE  t \notin img'[x]
    <3>1. CASE x # r
      BY <2>1, <3>1 DEF Inv, NoneNamed
    <3>2. CASE x = r
      BY <1>6, <1>7, <2>1, <3>2 DEF Inv, NoneNamed, CopyStep
    <3> QED BY <3>1, <3>2
  <2> QED BY <1>2, <1>3, <2>1 DEF Inv, NoneNamed
<1>11. WalkAhead'
  <2>1. ASSUME NEW p \in Pages, Dirty(p)' PROVE Dirty(p)
    <3>1. CASE items[p] \cap vdead # {}
      BY <3>1 DEF Dirty
    <3>2. CASE items[p] \cap vdead = {}
      <4>1. PICK x \in Readers : Trusts(x, p)' /\ img'[x] \cap vdead # {}
        BY <1>2, <2>1, <3>2 DEF Dirty
      <4>2. Trusts(x, p) /\ img[x] \cap vdead # {}
        BY <1>4, <3>2, <4>1 DEF Trusts, CopyStep
      <4> QED BY <4>2 DEF Dirty
    <3> QED BY <3>1, <3>2
  <2>2. ASSUME vpc \in {"root", "page"}, NEW x \in Readers, Trusts(x, DirLeaf)'
        PROVE  img'[x] \cap vdead = {}
    BY <1>4, <2>2 DEF Inv, WalkAhead, Trusts, CopyStep
  <2>3. Clean => Clean'
    <3>1. SUFFICES ASSUME Clean, NEW x \in Readers, mode'[x] = "map"
                   PROVE  img'[x] \cap vdead = {}
      BY <1>2, <1>3 DEF Clean
    <3>2. CASE x # r
      BY <3>1, <3>2 DEF Clean
    <3>3. CASE x = r
      BY <1>6, <1>7, <3>1, <3>3 DEF Clean, CopyStep
    <3> QED BY <3>2, <3>3
  <2> QED BY <1>2, <1>3, <2>1, <2>2, <2>3 DEF Inv, WalkAhead, RightClosed
<1> QED BY <1>1, <1>8, <1>9, <1>10, <1>11 DEF Inv

\* a step of r that only moves its count on: to the set's end, along a link,
\* or onto leaf p with a copy of what it holds
LEMMA StepToLeaf ==
  ASSUME Inv, NEW r \in Readers,
         pc[r] \in {"root", "leaf", "next"},
         \/ EndOfSet(r)
         \/ /\ pc' = [pc EXCEPT ![r] = "leaf"]
            /\ UNCHANGED <<pin, img>>
         \/ \E p \in Pages : \E S \in SUBSET items[p] : TakeLeaf(r, p, S),
         UNCHANGED <<postingVars, heapVars, snap, mode, from, tally, queue,
                     vacuumVars>>
  PROVE  Inv'
<1>1. img[r] = {}
  BY DEF Inv, Copies
<1>2. /\ UNCHANGED <<snap, mode, row, vm, vdead, vpc, items>>
      /\ items \in [Pages -> SUBSET Tids]
  BY DEF postingVars, heapVars, vacuumVars, Inv, Shape, PageTypes
<1>3. CASE UNCHANGED <<pin, img>> /\ \E w \in {"leaf", "recheck"} :
             pc' = [pc EXCEPT ![r] = w]
  <2>1. SessionTypes'
    BY <1>2, <1>3 DEF Inv, SessionTypes
  <2>2. CopyStep(r)
    BY <1>1, <1>2, <1>3 DEF CopyStep, Inv, SessionTypes
  <2>3. SnapStep(r)
    BY <1>2 DEF SnapStep
  <2>4. \A x \in Readers \ {r} : pc'[x] = pc[x]
    BY <1>3 DEF Inv, SessionTypes
  <2> QED BY <1>2, <1>3, <2>1, <2>2, <2>3, <2>4, CopyKeeps
<1>4. CASE \E p \in Pages : \E S \in SUBSET items[p] : TakeLeaf(r, p, S)
  <2>0. PICK p \in Pages : \E S \in SUBSET items[p] : TakeLeaf(r, p, S)
    BY <1>4
  <2>1. PICK S \in SUBSET items[p] : TakeLeaf(r, p, S)
    BY <2>0
  <2>2. /\ pc' = [pc EXCEPT ![r] = "items"]
        /\ img' = [img EXCEPT ![r] = S]
        /\ pin' = [pin EXCEPT ![r] = IF mode[r] = "map" THEN p ELSE NoPage]
    BY <2>1 DEF TakeLeaf
  <2>3. SessionTypes'
    BY <1>2, <2>1, <2>2 DEF Inv, SessionTypes, Links
  <2>4. /\ pc'[r] = "items" /\ img'[r] = S
        /\ pin'[r] = IF mode[r] = "map" THEN p ELSE NoPage
        /\ \A x \in Readers \ {r} :
             pc'[x] = pc[x] /\ img'[x] = img[x] /\ pin'[x] = pin[x]
    BY <2>2 DEF Inv, SessionTypes
  <2>5. CopyStep(r)
    BY <1>2, <2>1, <2>4, NoPageAssumption DEF CopyStep
  <2>6. SnapStep(r)
    BY <1>2 DEF SnapStep
  <2> QED BY <1>2, <2>3, <2>4, <2>5, <2>6, CopyKeeps
<1> QED BY <1>3, <1>4 DEF EndOfSet

\* Every step of a count keeps the invariant: a copy is made under the page's
\* lock and given up only with its pin.
LEMMA CountKeeps ==
  ASSUME Inv, NEW r \in Readers, ReaderStep(r)
  PROVE  Inv'
<1> DEFINE others == \A x \in Readers \ {r} :
                       /\ pc'[x] = pc[x] /\ snap'[x] = snap[x]
                       /\ mode'[x] = mode[x]
                       /\ img'[x] = img[x] /\ pin'[x] = pin[x]
<1>1. \A S : Window(r, S) \subseteq S
  BY DEF Window
<1>2. CASE Begin(r)
  <2>1. SessionTypes' /\ others
    BY <1>2 DEF Begin, Inv, SessionTypes, heapVars, vacuumVars
  <2>2. CopyStep(r)
    BY <1>2 DEF Begin, CopyStep, Inv, Copies
  <2>3. SnapStep(r)
    BY <1>2 DEF Begin, SnapStep, Inv, SessionTypes
  <2> QED BY <1>2, <2>1, <2>2, <2>3, CopyKeeps DEF Begin
<1>3. CASE Locate(r)
  <2>1. SessionTypes' /\ others
    BY <1>1, <1>3
    DEF Locate, LocateEntry, Inv, SessionTypes, Shape, PageTypes, heapVars, vacuumVars
  <2>2. CopyStep(r)
    BY <1>1, <1>3 DEF Locate, LocateEntry, CopyStep, Inv, Copies, SessionTypes
  <2>3. SnapStep(r)
    BY <1>3 DEF Locate, LocateEntry, SnapStep
  <2> QED BY <1>3, <2>1, <2>2, <2>3, CopyKeeps DEF Locate, LocateEntry
<1>4. CASE ReadRoot(r)
  BY <1>1, <1>4, StepToLeaf DEF ReadRoot, VisitRoot, LandOn, OwnsTree
<1>5. CASE ReadLeaf(r)
  BY <1>1, <1>5, StepToLeaf DEF ReadLeaf, VisitLeaf, LandOn, OwnsLeaf
<1>6. CASE ReadNext(r)
  BY <1>1, <1>6, StepToLeaf DEF ReadNext, VisitNext, OwnsLeaf
<1>7. CASE CountContainer(r)
  <2>1. img'[r] \subseteq img[r] /\ SessionTypes' /\ others
        /\ UNCHANGED <<mode, pin, pc, snap>>
    BY <1>7 DEF CountContainer, Inv, SessionTypes, heapVars, vacuumVars
  <2>2. CopyStep(r) /\ SnapStep(r)
    BY <2>1, <1>7 DEF CopyStep, SnapStep
  <2> QED BY <1>7, <2>1, <2>2, CopyKeeps DEF CountContainer
<1>8. CASE Unpin(r)
  <2>1. SessionTypes' /\ others
    BY <1>8 DEF Unpin, Inv, SessionTypes, heapVars, vacuumVars, Links
  <2>2. CopyStep(r) /\ SnapStep(r)
    BY <1>8 DEF Unpin, CopyStep, SnapStep
  <2> QED BY <1>8, <2>1, <2>2, CopyKeeps DEF Unpin
<1>9. CASE Return(r)
  <2>1. SessionTypes' /\ others
    BY <1>9 DEF Return, Leave, Inv, SessionTypes, heapVars, vacuumVars, Links
  <2>2. CopyStep(r) /\ SnapStep(r)
    BY <1>9 DEF Return, Leave, CopyStep, SnapStep, Inv, SessionTypes
  <2> QED BY <1>9, <2>1, <2>2, CopyKeeps DEF Return, Leave
<1> QED BY <1>2, <1>3, <1>4, <1>5, <1>6, <1>7, <1>8, <1>9 DEF ReaderStep
-----------------------------------------------------------------------------
\* a step of the inserter adds no TID to the set but its own
LEMMA InsertNames ==
  ASSUME Shape, NEW live, InsertStep(live)
  PROVE  /\ ins \in Tids /\ ins' \in {ins, NoTid}
         /\ Named' \subseteq Named \cup {ins}
<1>1. ins \in Tids /\ ins' \in {ins, NoTid}
  BY DEF InsertStep, InsertNewEntry, InsertInline, Spill, InsertOnTail,
     InsertOnLeaf, PutOn, Promote, Split, SplitTarget, PlaceDownlink, ToFinish,
     ClearSplit, Shape, PageTypes
<1> SUFFICES Named' \subseteq Named \cup {ins}
  BY <1>1
<1>2. CASE InsertNewEntry \/ InsertInline
  BY <1>2 DEF InsertNewEntry, InsertInline, pageVars, Named
<1>3. CASE \E q \in Pages : Spill(q)
  BY <1>3 DEF Spill, NewLeaf, Named, Shape, PageTypes
<1>4. CASE InsertOnTail \/ \E p \in Leaves : InsertOnLeaf(p)
  <2>1. PICK p : PutOn(p)
    BY <1>4 DEF InsertOnTail, InsertOnLeaf
  <2> QED BY <2>1 DEF PutOn, entryVars, Named, Shape, PageTypes
<1>5. CASE \E p \in Leaves, q \in Pages : Promote(p, q, live)
  <2>1. PICK p \in Leaves, q \in Pages : Promote(p, q, live) BY <1>5
  <2>2. /\ head \in Pages /\ inl' = inl
        /\ items' = [items EXCEPT ![q] = items[head], ![head] = {}]
    BY <2>1, PromoteShape DEF Promote, Stamped
  <2> QED BY <2>2 DEF Named, Shape, PageTypes
<1>6. CASE \E p \in Leaves, q \in Pages : Split(p, q, live)
  <2>1. PICK p \in Leaves, q \in Pages : Split(p, q, live) BY <1>6
  <2>2. /\ p \in Pages /\ inl' = inl
        /\ \A x \in Pages : items'[x] \subseteq items[x] \cup items[p] \cup {ins}
    BY <2>1 DEF Split, Leaves, Shape, PageTypes
  <2> QED BY <2>2 DEF Named
<1>7. CASE \E p \in Leaves : PlaceDownlink(p) \/ ClearSplit(p)
  BY <1>7 DEF PlaceDownlink, ClearSplit, entryVars, Named
<1> QED BY <1>2, <1>3, <1>4, <1>5, <1>6, <1>7 DEF InsertStep

\* what an insertion keeps whichever step it is
LEMMA InsertKeepsRest ==
  ASSUME Inv, NEW live, InsertStep(live),
         UNCHANGED <<heapVars, readerVars, vacuumVars>>
  PROVE  /\ Shape' /\ SessionTypes' /\ Heap' /\ NoneNamed'
         /\ ins \notin vdead /\ ins \in Tids
         /\ Clean => Clean'
<1>1. /\ ins \in Tids /\ ins' \in {ins, NoTid}
      /\ Named' \subseteq Named \cup {ins}
  BY InsertNames DEF Inv
<1>2. Shape' BY InsertShape DEF Inv
<1>3. ins # NoTid /\ row[ins] = "doing" /\ ins \notin vdead
  BY <1>1, NoTidAssumption DEF Inv, Heap
<1>4. SessionTypes' BY DEF Inv, SessionTypes, heapVars, readerVars, vacuumVars
<1>5. Heap'
  BY <1>1, <1>3
  DEF Inv, Heap, SeenByAll, Running, heapVars, readerVars, vacuumVars
<1>6. NoneNamed'
  BY <1>1, <1>3 DEF Inv, NoneNamed, heapVars, readerVars
<1>7. Clean => Clean'
  BY <1>1, <1>3 DEF Clean, readerVars, vacuumVars
<1> QED BY <1>1, <1>2, <1>3, <1>4, <1>5, <1>6, <1>7

\* steps that leave the stamped leaves and their links alone, and take nothing
\* off a page
LEMMA InsertKeepsChain ==
  ASSUME Inv, NEW live, InsertStep(live),
         UNCHANGED <<heapVars, readerVars, vacuumVars>>,
         UNCHANGED <<form, head, kind, owner, right>>,
         \A x \in Pages : /\ items[x] \subseteq items'[x]
                          /\ items'[x] \subseteq items[x] \cup {ins}
  PROVE  Inv'
<1>1. /\ Shape' /\ SessionTypes' /\ Heap' /\ NoneNamed'
      /\ ins \notin vdead
      /\ Clean => Clean'
  BY InsertKeepsRest
<1>2. UNCHANGED <<pc, mode, pin, img, vpc, vdead, vroot, vpage>>
  BY DEF readerVars, vacuumVars
<1>3. Stamped' = Stamped BY DEF Stamped
<1>4. Copies'
  <2>1. SomethingStays => SomethingStays'
    BY <1>2 DEF SomethingStays
  <2> QED BY <1>2, <1>3, <2>1 DEF Inv, Copies, Trusts
<1>5. WalkAhead'
  <2>1. ASSUME NEW p \in Pages, Dirty(p)' PROVE Dirty(p)
    BY <1>1, <1>2, <2>1 DEF Dirty, Trusts
  <2>2. \A C : RightClosed(C)' <=> RightClosed(C)
    BY DEF RightClosed
  <2> QED BY <1>1, <1>2, <1>3, <2>1, <2>2 DEF Inv, WalkAhead, Trusts
<1> QED BY <1>1, <1>4, <1>5 DEF Inv

\* steps that begin without a chain
LEMMA InsertKeepsUnchained ==
  ASSUME Inv, NEW live, InsertStep(live), form # "chain",
         UNCHANGED <<heapVars, readerVars, vacuumVars>>
  PROVE  Inv'
<1>1. /\ Shape' /\ SessionTypes' /\ Heap' /\ NoneNamed'
      /\ Clean => Clean'
  BY InsertKeepsRest
<1>2. UNCHANGED <<pc, mode, pin, img, vpc>>
  BY DEF readerVars, vacuumVars
<1>3. Copies'
  BY <1>2 DEF Inv, Copies, Trusts
<1>4. WalkAhead'
  BY <1>1, <1>2 DEF Inv, WalkAhead
<1> QED BY <1>1, <1>3, <1>4 DEF Inv

\* a promotion moves the head's items right of nothing: what was left of the
\* walk stays left of it
LEMMA PromoteKeeps ==
  ASSUME Inv, NEW live, InsertStep(live),
         NEW f \in Leaves, NEW q \in Pages, Promote(f, q, live),
         UNCHANGED <<heapVars, readerVars, vacuumVars>>
  PROVE  Inv'
<1>1. /\ Shape' /\ SessionTypes' /\ Heap' /\ NoneNamed'
      /\ Clean => Clean'
  BY InsertKeepsRest
<1>2. UNCHANGED <<pc, mode, pin, img, vpc, vdead, vroot, vpage>>
  BY DEF readerVars, vacuumVars
<1>3. /\ head \in Stamped /\ q \notin Stamped /\ q # head
      /\ Stamped' = (Stamped \ {head}) \cup {q}
      /\ kind'[head] = "inner" /\ UNCHANGED <<form, head>>
      /\ \A x \in Stamped : x # head => right'[x] = right[x]
      /\ items' = [items EXCEPT ![q] = items[head], ![head] = {}]
  BY PromoteShape DEF Inv
<1>4. /\ items'[q] = items[head] /\ items'[head] = {}
      /\ \A x \in Pages \ {head, q} : items'[x] = items[x]
  BY <1>3 DEF Inv, Shape, PageTypes, Stamped
<1>5. form = "chain" /\ kind[head] = "leaf" /\ items[q] = {}
  BY <1>3, RecyclableUnused DEF Promote, SplitTarget, Stamped, Inv
<1>6. /\ RightClosed(Stamped)
      /\ \A x \in Stamped : right[x] \notin {q, head}
  BY <1>3, <1>5, NoPageAssumption
  DEF Inv, Shape, OneChain, OneLeft, RightClosed, FirstLeaf, Flat
<1>7. ASSUME NEW p \in Pages, NEW r \in Readers, Trusts(r, p)
      PROVE  p \in Stamped /\ items[p] # {}
  BY <1>5, <1>7 DEF Inv, Copies
<1>8. ASSUME vpc = "page", vpage # head
      PROVE  ~Dirty(head) /\ vpage \in Stamped
  <2>1. /\ vpage \in Stamped
        /\ \A C \in SUBSET Stamped : RightClosed(C) /\ vpage \in C =>
             \A p \in Pages : Dirty(p) => p \in C
    BY <1>8 DEF Inv, WalkAhead
  <2>2. RightClosed(Stamped \ {head})
    BY <1>6 DEF RightClosed
  <2>3. head \in Pages BY <1>3 DEF Stamped
  <2> QED BY <1>8, <2>1, <2>2, <2>3
<1>9. Copies'
  <2>1. ASSUME NEW r \in Readers, Trusts(r, head)
        PROVE  SomethingStays'
    <3>1. items[head] # {} /\ head \in Pages
      BY <1>3, <1>7, <2>1 DEF Stamped
    <3>2. CASE vpc \in {"entry", "root"} \/ (vpc = "page" /\ vpage = head)
      BY <1>2, <1>3, <1>4, <3>1, <3>2 DEF SomethingStays
    <3>3. CASE vpc \in {"heap", "unlink", "delete", "free"}
               \/ (vpc = "page" /\ vpage # head)
      <4>1. items[head] \cap vdead = {}
        BY <1>8, <3>1, <3>3 DEF Inv, Heap, WalkAhead, Clean, Named, Dirty
      <4> QED BY <1>2, <1>4, <3>1, <4>1 DEF SomethingStays
    <3> QED BY <3>2, <3>3 DEF Inv, SessionTypes
  <2>2. ASSUME NEW r \in Readers, NEW p \in Pages, Trusts(r, p)'
        PROVE  \/ p \in Stamped' /\ items'[p] # {}
               \/ p = head /\ SomethingStays'
    <3>1. Trusts(r, p) BY <1>2, <2>2 DEF Trusts
    <3> QED BY <1>3, <1>4, <1>7, <2>1, <3>1
  <2> QED BY <1>2, <1>3, <1>5, <2>2 DEF Inv, Copies
<1>10. WalkAhead'
  <2>1. ASSUME vpc = "page", vpage # head, NEW C \in SUBSET Stamped',
               RightClosed(C)', vpage \in C, NEW p \in Pages, Dirty(p)'
        PROVE  p \in C
    <3>1. RightClosed(C \ {q}) /\ C \ {q} \in SUBSET Stamped
      BY <1>3, <1>6, <2>1 DEF RightClosed
    <3>2. vpage \in C \ {q}
      BY <1>3, <1>8, <2>1
    <3>3. \A x \in Pages : Dirty(x) => x \in C \ {q}
      BY <1>3, <2>1, <3>1, <3>2 DEF Inv, WalkAhead
    <3>4. \A r \in Readers : ~Trusts(r, q)
      BY <1>3, <1>7
    <3>5. CASE p = q
      <4>1. items[head] \cap vdead # {}
        BY <1>2, <1>4, <2>1, <3>4, <3>5 DEF Dirty, Trusts
      <4> QED BY <1>8, <2>1, <4>1 DEF Dirty
    <3>6. CASE p # q
      <4>1. Dirty(p)
        BY <1>2, <1>4, <2>1, <3>6 DEF Dirty, Trusts
      <4> QED BY <3>3, <4>1
    <3> QED BY <3>5, <3>6
  <2>2. vpc = "page" /\ vpage # head => vpage \in Stamped'
    BY <1>3, <1>8
  <2> QED BY <1>1, <1>2, <1>3, <2>1, <2>2 DEF Inv, WalkAhead, Trusts
<1> QED BY <1>1, <1>9, <1>10 DEF Inv

\* a split moves items to the page right of the one it splits
LEMMA SplitKeeps ==
  ASSUME Inv, NEW live, InsertStep(live),
         NEW f \in Leaves, NEW q \in Pages, Split(f, q, live),
         UNCHANGED <<heapVars, readerVars, vacuumVars>>
  PROVE  Inv'
<1>1. /\ Shape' /\ SessionTypes' /\ Heap' /\ NoneNamed'
      /\ ins \notin vdead
      /\ Clean => Clean'
  BY InsertKeepsRest
<1>2. UNCHANGED <<pc, mode, pin, img, vpc, vdead, vroot, vpage>>
  BY DEF readerVars, vacuumVars
<1>3. /\ f \in Stamped /\ q \notin Stamped /\ q # head
      /\ Stamped' = Stamped \cup {q}
      /\ right' = [right EXCEPT ![q] = right[f], ![f] = q]
  BY SplitShape DEF Inv
<1>4. /\ form = "chain" /\ UNCHANGED <<form, head>>
      /\ kind' = [kind EXCEPT ![q] = "leaf"]
      /\ ~Fits(items[f] \cup {ins}, PageCap)
  BY DEF Split, SplitTarget
<1>5. /\ right'[q] = right[f] /\ right'[f] = q
      /\ \A x \in Stamped : x # f => right'[x] = right[x]
      /\ RightClosed(Stamped)
      /\ \A x \in Stamped : right[x] # q
  BY <1>3, <1>4, NoPageAssumption
  DEF Inv, Shape, OneChain, PageTypes, Stamped, RightClosed
<1>6. /\ items[q] = {} /\ kind'[head] = kind[head]
  BY <1>3, <1>4, RecyclableUnused DEF Split, Inv, Shape, PageTypes, Ownership
<1> DEFINE moved == {x \in items[f] : BlockOf[x] > BlockOf[ins]}
<1>7. /\ items'[q] = IF moved = {} THEN {ins} ELSE moved
      /\ items'[f] = IF moved = {} THEN items[f]
                     ELSE (items[f] \ moved) \cup {ins}
      /\ \A x \in Pages \ {f, q} : items'[x] = items[x]
      /\ moved \subseteq items[f]
  BY <1>3 DEF Split, Inv, Shape, PageTypes, Stamped
<1> HIDE DEF moved
<1>8. ASSUME NEW p \in Pages, NEW r \in Readers, Trusts(r, p)
      PROVE  p # q
  BY <1>3, <1>8 DEF Inv, Copies
<1>9. Copies'
  <2>1. \A x \in Pages : items[x] # {} => items'[x] # {}
    BY <1>6, <1>7
  <2>2. ASSUME SomethingStays PROVE SomethingStays'
    <3>1. PICK x \in Pages : /\ items[x] # {}
                             /\ \/ items[x] \ vdead # {}
                                \/ vpc \in {"entry", "root"}
                                \/ vpc = "page" /\ vpage = head
      BY <2>2 DEF SomethingStays
    <3>2. CASE vpc \in {"entry", "root"} \/ (vpc = "page" /\ vpage = head)
      BY <1>2, <1>4, <2>1, <3>1, <3>2 DEF SomethingStays
    <3>3. CASE items[x] \ vdead # {}
      <4>1. \E y \in Pages : items'[y] \ vdead # {}
        BY <1>3, <1>6, <1>7, <3>3 DEF Stamped
      <4> QED BY <1>2, <4>1 DEF SomethingStays
    <3> QED BY <3>1, <3>2, <3>3
  <2>3. \A r \in Readers : \A p \in Pages : Trusts(r, p)' <=> Trusts(r, p)
    BY <1>2 DEF Trusts
  <2> QED BY <1>2, <1>3, <1>4, <1>6, <2>1, <2>2, <2>3 DEF Inv, Copies
<1>10. WalkAhead'
  <2>1. ASSUME vpc = "page", ~(vpage = head /\ kind[head] = "inner"),
               NEW C \in SUBSET Stamped',
               RightClosed(C)', vpage \in C, NEW p \in Pages, Dirty(p)'
        PROVE  p \in C
    <3>1. RightClosed(C \ {q}) /\ C \ {q} \in SUBSET Stamped
      <4>1. C \ {q} \in SUBSET Stamped BY <1>3
      <4>2. ASSUME NEW x \in C \ {q} PROVE right[x] \in (C \ {q}) \cup {NoPage}
        <5>1. CASE x = f
          BY <1>3, <1>5, <2>1, <5>1, NoPageAssumption DEF RightClosed
        <5>2. CASE x # f
          BY <1>5, <2>1, <4>1, <4>2, <5>2 DEF RightClosed
        <5> QED BY <5>1, <5>2
      <4> QED BY <4>1, <4>2 DEF RightClosed
    <3>2. vpage \in C \ {q}
      BY <1>3, <2>1 DEF Inv, WalkAhead
    <3>3. \A x \in Pages : Dirty(x) => x \in C \ {q}
      BY <2>1, <3>1, <3>2 DEF Inv, WalkAhead
    <3>4. CASE p = q
      <4>1. items[f] \cap vdead # {}
        BY <1>1, <1>2, <1>7, <1>8, <2>1, <3>4 DEF Dirty, Trusts
      <4>2. f \in C
        BY <1>3, <3>3, <4>1 DEF Dirty, Stamped
      <4> QED BY <1>5, <2>1, <3>4, <4>2, NoPageAssumption DEF RightClosed
    <3>5. CASE p # q
      <4>1. items'[p] \subseteq items[p] \cup {ins}
        BY <1>7, <3>5
      <4>2. Dirty(p)
        BY <1>1, <1>2, <2>1, <4>1 DEF Dirty, Trusts
      <4> QED BY <3>3, <4>2
    <3> QED BY <3>4, <3>5
  <2> QED BY <1>1, <1>2, <1>3, <1>4, <1>6, <2>1 DEF Inv, WalkAhead, Trusts
<1> QED BY <1>1, <1>9, <1>10 DEF Inv

(* Every step of an insertion keeps the invariant.                         *)
LEMMA InsertKeeps ==
  ASSUME Inv, NEW live, InsertStep(live),
         UNCHANGED <<heapVars, readerVars, vacuumVars>>
  PROVE  Inv'
<1>1. CASE InsertNewEntry \/ InsertInline \/ \E q \in Pages : Spill(q)
  <2>1. form # "chain"
    BY <1>1 DEF InsertNewEntry, InsertInline, Spill
  <2> QED BY <2>1, InsertKeepsUnchained
<1>2. CASE InsertOnTail \/ \E p \in Leaves : InsertOnLeaf(p)
  <2>1. PICK p : PutOn(p)
    BY <1>2 DEF InsertOnTail, InsertOnLeaf
  <2>2. UNCHANGED <<form, head, kind, owner, right>>
    BY <2>1 DEF PutOn, entryVars
  <2>3. \A x \in Pages : /\ items[x] \subseteq items'[x]
                         /\ items'[x] \subseteq items[x] \cup {ins}
    BY <2>1 DEF PutOn, Inv, Shape, PageTypes
  <2> QED BY <2>2, <2>3, InsertKeepsChain
<1>3. CASE \E p \in Leaves : PlaceDownlink(p) \/ ClearSplit(p)
  <2>1. UNCHANGED <<form, head, kind, owner, right, items>>
    BY <1>3 DEF PlaceDownlink, ClearSplit, entryVars
  <2> QED BY <2>1, InsertKeepsChain
<1>4. CASE \E p \in Leaves, q \in Pages : Promote(p, q, live)
  BY <1>4, PromoteKeeps
<1>5. CASE \E p \in Leaves, q \in Pages : Split(p, q, live)
  BY <1>5, SplitKeeps
<1> QED BY <1>1, <1>2, <1>3, <1>4, <1>5 DEF InsertStep

\* An insertion that begins, or ends with an ERROR between two records, moves
\* no TID.
LEMMA InsertEndsKeep ==
  ASSUME Inv, IndexInsertFails \/ \E t \in Tids : IndexInsertBegin(t)
  PROVE  Inv'
<1> USE DEF IndexInsertFails, InsertFails, IndexInsertBegin, InsertBegin
<1>1. UNCHANGED <<entryVars, pageVars, vm, readerVars, vacuumVars>>
  BY DEF heapVars
<1>2. UNCHANGED <<form, inl, head, kind, owner, items, right, flagged, down>>
  BY <1>1 DEF entryVars, pageVars
<1>3. UNCHANGED <<pc, mode, snap, pin, img, vpc, vdead, vroot, vpage>>
  BY <1>1 DEF readerVars, vacuumVars
<1>4. Shape'
  <2>1. CASE IndexInsertFails BY <2>1, FailsShape DEF Inv
  <2>2. CASE \E t \in Tids : IndexInsertBegin(t)
    BY <2>2, BeginShape DEF Inv
  <2> QED BY <2>1, <2>2
<1>5. /\ row' = row \/ row' = [row EXCEPT ![ins] = "gone"]
      /\ ins # NoTid /\ row' # row => row[ins] = "doing" /\ ins \in Tids
      /\ ins' = NoTid \/ (row' = row /\ row[ins'] = "doing")
      /\ ins # NoTid \/ row' = row
  BY DEF Inv, Heap, heapVars, Shape, PageTypes
<1>6. SessionTypes'
  BY <1>1, <1>3, <1>5 DEF Inv, SessionTypes
<1>7. Stamped' = Stamped /\ Named' = Named
  BY <1>2 DEF Stamped, Named
<1>8. Copies'
  BY <1>2, <1>3, <1>7 DEF Inv, Copies, Trusts, SomethingStays
<1>9. Heap'
  BY <1>1, <1>3, <1>5
  DEF Inv, Heap, SeenByAll, Running, SessionTypes
<1>10. NoneNamed'
  BY <1>3, <1>5, <1>7 DEF Inv, NoneNamed, SessionTypes
<1>11. WalkAhead'
  BY <1>2, <1>3, <1>7 DEF Inv, WalkAhead, Clean, Dirty, Trusts, RightClosed
<1> QED BY <1>4, <1>6, <1>8, <1>9, <1>10, <1>11 DEF Inv
-----------------------------------------------------------------------------
(* VACUUM *)

\* a call that begins, ends or fails touches no page
LEMMA VacuumEndsKeep ==
  ASSUME Inv, VacuumBegin \/ VacuumReap \/ VacuumFails
  PROVE  Inv'
<1> USE DEF VacuumBegin, VacuumReap, VacuumFails
<1>1. /\ UNCHANGED <<postingVars, readerVars, vm>>
      /\ \/ /\ row' = row
            /\ vpc' \in {"heap", "entry"}
            /\ vpc' = "heap" => vdead' = {}
            /\ vdead' \subseteq {t \in Tids : row[t] = "gone"}
         \/ /\ row' = [t \in Tids |-> IF t \in vdead THEN "unused" ELSE row[t]]
            /\ vpc = "free" /\ vpc' = "heap" /\ vdead' = {}
  BY DEF heapVars
<1>2. UNCHANGED <<form, inl, head, kind, items, ins, pc, mode, snap, img, pin>>
  BY <1>1 DEF postingVars, readerVars
<1>3. Shape' BY <1>1, ShapeUnchanged DEF Inv
<1>4. Stamped' = Stamped /\ Named' = Named
  BY <1>1, StampedUnchanged
<1>5. \A t \in vdead : row[t] = "gone"
  BY DEF Inv, Heap
<1>6. SessionTypes'
  <2>1. row' \in [Tids -> {"unused", "doing", "live", "gone"}]
    BY <1>1 DEF Inv, SessionTypes
  <2>2. vdead' \in SUBSET Tids /\ vpc' \in {"heap", "entry"}
    BY <1>1
  <2> QED BY <1>1, <1>2, <2>1, <2>2 DEF Inv, SessionTypes
<1>7. Copies'
  <2>1. SomethingStays => SomethingStays'
    BY <1>1, <1>2 DEF SomethingStays
  <2> QED BY <1>2, <1>4, <2>1 DEF Inv, Copies, Trusts
<1>8. Heap'
  <2>1. \A t \in Tids : SeenByAll(t)' <=> SeenByAll(t)
    BY <1>2 DEF SeenByAll, Running
  <2>2. \A t \in Tids : row'[t] = row[t]
                        \/ (row[t] = "gone" /\ row'[t] = "unused")
    BY <1>1, <1>5
  <2>3. ins' # NoTid => row'[ins'] = "doing"
    BY <1>2, <2>2 DEF Inv, Heap, Shape, PageTypes
  <2>4. \A t \in vdead' : row'[t] = "gone"
    BY <1>1
  <2>5. \A t \in Tids : vm[BlockOf[t]] =>
          row'[t] = "unused" \/ (row'[t] = "live" /\ SeenByAll(t))
    BY <2>2 DEF Inv, Heap
  <2>6. vpc' = "heap" => vdead' = {}
    BY <1>1
  <2> QED BY <1>1, <2>1, <2>3, <2>4, <2>5, <2>6 DEF Heap
<1>9. NoneNamed'
  <2>1. \A t \in Tids : row'[t] = "unused" => row[t] = "unused" \/ (t \in vdead /\ Clean)
    BY <1>1 DEF Inv, WalkAhead
  <2> QED BY <1>2, <1>4, <2>1 DEF Inv, NoneNamed, Clean
<1>10. WalkAhead'
  BY <1>1 DEF WalkAhead
<1> QED BY <1>3, <1>6, <1>7, <1>8, <1>9, <1>10 DEF Inv

\* what a step of VACUUM that is neither keeps when it only takes TIDs away
LEMMA VacuumKeepsRest ==
  ASSUME Inv, Shape', UNCHANGED <<heapVars, readerVars, vdead, ins>>,
         Named' \subseteq Named,
         vpc' \in {"root", "page", "unlink", "delete", "free"}
  PROVE  /\ SessionTypes' /\ Heap' /\ NoneNamed'
         /\ Clean => Clean'
<1>1. UNCHANGED <<row, vm, pc, mode, snap, img, pin>>
  BY DEF heapVars, readerVars
<1>2. SessionTypes' BY <1>1 DEF Inv, SessionTypes
<1>3. Heap'
  BY <1>1 DEF Inv, Heap, SeenByAll, Running
<1>4. NoneNamed' BY <1>1 DEF Inv, NoneNamed
<1>5. Clean => Clean' BY <1>1 DEF Clean
<1> QED BY <1>2, <1>3, <1>4, <1>5

\* Pass 1 under the directory leaf's cleanup lock: nothing VACUUM is to remove
\* is left in an INLINE payload or in a copy of it, and a chain is all ahead.
LEMMA VacuumEntryKeeps ==
  ASSUME Inv, VacuumEntry
  PROVE  Inv'
<1> USE DEF VacuumEntry, PassEntry
<1>1. /\ UNCHANGED <<heapVars, readerVars, vdead, ins>>
      /\ vpc' \in {"root", "delete"}
  BY DEF FilterInline, postingVars
<1>2. Shape'
  BY InlineShape, ShapeUnchanged DEF Inv
<1>3. UNCHANGED <<form, head, kind, owner, items, right>> /\ inl' \subseteq inl
  BY DEF FilterInline, postingVars, pageVars
<1>4. Stamped' = Stamped /\ Named' \subseteq Named
  BY <1>3 DEF Stamped, Named
<1>5. SessionTypes' /\ Heap' /\ NoneNamed'
  BY <1>1, <1>2, <1>4, VacuumKeepsRest
<1>6. UNCHANGED <<pc, mode, img, pin>>
  BY DEF readerVars
<1>7. Copies'
  <2>1. form = "chain" /\ SomethingStays => SomethingStays'
    BY <1>1, <1>3 DEF SomethingStays
  <2> QED BY <1>3, <1>4, <1>6, <2>1 DEF Inv, Copies, Trusts
<1>8. \A r \in Readers : ~Trusts(r, DirLeaf)
  BY DEF CleanupLock, Pinned, Trusts
<1>9. CASE form = "chain"
  <2>1. WalkAhead'
    BY <1>3, <1>6, <1>8, <1>9 DEF WalkAhead, Trusts
  <2> QED BY <1>2, <1>5, <1>7, <2>1 DEF Inv
<1>10. CASE form # "chain"
  <2>1. Named' \cap vdead = {}
    <3>1. \A p \in Pages : items[p] = {}
      BY <1>10 DEF Inv, Shape, Ownership
    <3>2. inl' \cap vdead = {}
      BY <1>10 DEF FilterInline, postingVars, Inv, Shape, Ownership
    <3> QED BY <1>3, <3>1, <3>2 DEF Named
  <2>2. \A r \in Readers : mode[r] = "map" => img[r] = {}
    BY <1>8, <1>10 DEF Inv, Copies, Trusts
  <2>3. WalkAhead'
    BY <1>1, <1>6, <1>10, <2>1, <2>2 DEF WalkAhead, Clean
  <2> QED BY <1>2, <1>5, <1>7, <2>3 DEF Inv
<1> QED BY <1>9, <1>10

\* The root under a cleanup lock: no count holds a copy of what was on it before
\* a push-down, so the walk may begin at the first leaf.
LEMMA VacuumRootKeeps ==
  ASSUME Inv, VacuumRoot \/ VacuumRestart
  PROVE  Inv'
<1> USE DEF VacuumRoot, PassRoot, VacuumRestart, PassRestart
<1>1. /\ UNCHANGED <<postingVars, heapVars, readerVars, vdead, vroot, ins>>
      /\ vpc' \in {"root", "page"} /\ vpc \in {"root", "page"}
  BY DEF postingVars
<1>2. Shape' BY <1>1, ShapeUnchanged DEF Inv
<1>3. Stamped' = Stamped /\ Named' = Named
  BY <1>1, StampedUnchanged
<1>4. SessionTypes' /\ Heap' /\ NoneNamed'
  BY <1>1, <1>2, <1>3, VacuumKeepsRest
<1>5. UNCHANGED <<form, inl, head, kind, owner, items, right, pc, mode, img, pin>>
  BY <1>1 DEF readerVars, postingVars
<1>6. form = "chain" /\ vroot = head
  BY <1>1 DEF Inv, WalkAhead
<1>7. CASE VacuumRestart
  <2>1. vpage = head /\ vpage' = vpage /\ vpc = "page" /\ vpc' = "root"
    BY <1>7 DEF Inv, WalkAhead, Stamped
  <2>2. Copies'
    <3>1. SomethingStays => SomethingStays'
      BY <1>5, <1>1, <2>1 DEF SomethingStays
    <3> QED BY <1>3, <1>5, <3>1 DEF Inv, Copies, Trusts
  <2>3. WalkAhead'
    BY <1>1, <1>5, <2>1 DEF Inv, WalkAhead, Trusts
  <2> QED BY <1>2, <1>4, <2>2, <2>3 DEF Inv
<1>8. CASE VacuumRoot
  <2>1. vpage' = FirstLeaf /\ vpc' = "page"
    BY <1>6, <1>8 DEF FirstLeaf, Flat, Inv, Shape, Ownership
  <2>2. \A r \in Readers : ~Trusts(r, head)
    BY <1>6, <1>8 DEF CleanupLock, Pinned, Trusts
  <2>3. \A p \in Pages : \A r \in Readers : Trusts(r, p) =>
          p \in Stamped /\ items[p] # {}
    BY <2>2 DEF Inv, Copies
  <2>4. Copies'
    BY <1>3, <1>5, <1>6, <2>3 DEF Inv, Copies, Trusts
  <2>5. \A p \in Pages : Dirty(p) => p \in Stamped
    BY <2>3 DEF Dirty, Inv, Shape, Ownership
  <2>6. WalkAhead'
    <3>1. ASSUME NEW C \in SUBSET Stamped, RightClosed(C), FirstLeaf \in C,
                 NEW p \in Pages, Dirty(p)
          PROVE  p \in C
      BY <1>6, <2>5, <3>1 DEF Inv, Shape, OneChain, AllReached
    <3>2. FirstLeaf \in Stamped
      BY <1>6 DEF Inv, Shape, OneChain
    <3>3. \A p \in Pages : Dirty(p)' <=> Dirty(p)
      BY <1>1, <1>5 DEF Dirty, Trusts
    <3> QED
      BY <1>1, <1>3, <1>5, <1>6, <2>1, <3>1, <3>2, <3>3
      DEF Inv, WalkAhead, Trusts, RightClosed
  <2> QED BY <1>2, <1>4, <2>4, <2>6 DEF Inv
<1> QED BY <1>7, <1>8

\* the walk cleans the leaf it is on, and leaves what is right of it ahead
LEMMA VacuumPageKeeps ==
  ASSUME Inv, VacuumPage
  PROVE  Inv'
<1> USE DEF VacuumPage, PassPage, LeafLock, FilterPage
<1>1. /\ UNCHANGED <<heapVars, readerVars, vdead, vroot, ins>>
      /\ UNCHANGED <<form, inl, head, kind, owner, right>>
      /\ vpc = "page" /\ vpc' \in {"page", "unlink"}
      /\ vpage' = right[vpage] /\ kind[vpage] = "leaf"
  BY DEF entryVars
<1>2. /\ form = "chain" /\ vroot = head
      /\ vpage \in Stamped /\ vpage # NoPage /\ vpage \in Pages
      /\ \A C \in SUBSET Stamped : RightClosed(C) /\ vpage \in C =>
           \A p \in Pages : Dirty(p) => p \in C
  BY <1>1, NoPageAssumption DEF Inv, WalkAhead, Stamped
<1>3. Shape'
  <2>1. ASSUME NEW gone, gone = vdead PROVE FilterPage(vpage, gone)
    BY <2>1
  <2> QED BY <1>2, <2>1, FilterShape DEF Inv
<1>4. /\ items'[vpage] = items[vpage] \ vdead
      /\ \A x \in Pages : x # vpage => items'[x] = items[x]
  BY <1>2 DEF Inv, Shape, PageTypes
<1>5. Stamped' = Stamped /\ Named' \subseteq Named
  BY <1>1, <1>4 DEF Stamped, Named
<1>6. SessionTypes' /\ Heap' /\ NoneNamed'
  BY <1>1, <1>3, <1>5, VacuumKeepsRest
<1>7. UNCHANGED <<pc, mode, img, pin>>
  BY <1>1 DEF readerVars
<1>8. \A r \in Readers : ~Trusts(r, vpage)
  BY <1>2 DEF CleanupLock, Pinned, Trusts
<1>9. Copies'
  <2>1. ASSUME SomethingStays, kind[head] = "inner" PROVE SomethingStays'
    <3>1. PICK x \in Pages : items[x] \ vdead # {}
      BY <1>1, <2>1 DEF SomethingStays
    <3>2. items'[x] \ vdead # {} /\ items'[x] # {}
      BY <1>4, <3>1
    <3> QED BY <1>1, <3>2 DEF SomethingStays
  <2> QED BY <1>1, <1>4, <1>5, <1>7, <1>8, <2>1 DEF Inv, Copies, Trusts
<1>10. ASSUME NEW p \in Pages, Dirty(p)'
       PROVE  p # vpage /\ Dirty(p)
  <2>1. p # vpage
    BY <1>1, <1>4, <1>7, <1>8, <1>10 DEF Dirty, Trusts
  <2> QED BY <1>1, <1>4, <1>7, <1>10, <2>1 DEF Dirty, Trusts
<1>11. CASE right[vpage] # NoPage
  <2>1. vpc' = "page"
    BY <1>1, <1>11
  <2>2. right[vpage] \in Stamped
    BY <1>2, <1>11 DEF Inv, Shape, OneChain, RightClosed
  <2>3. ASSUME NEW C \in SUBSET Stamped, RightClosed(C), right[vpage] \in C,
               NEW p \in Pages, Dirty(p)'
        PROVE  p \in C
    <3>1. RightClosed(C \cup {vpage}) /\ C \cup {vpage} \in SUBSET Stamped
      BY <1>2, <2>3 DEF RightClosed
    <3> QED BY <1>2, <1>10, <2>3, <3>1
  <2>4. \A C : RightClosed(C)' <=> RightClosed(C)
    BY <1>1 DEF RightClosed
  <2>5. WalkAhead'
    BY <1>1, <1>2, <1>5, <1>7, <2>1, <2>2, <2>3, <2>4 DEF Inv, WalkAhead, Trusts
  <2> QED BY <1>3, <1>6, <1>9, <2>5 DEF Inv
<1>12. CASE right[vpage] = NoPage
  <2>1. vpc' = "unlink"
    BY <1>1, <1>12
  <2>2. RightClosed({vpage}) /\ {vpage} \in SUBSET Stamped
    BY <1>2, <1>12 DEF RightClosed
  <2>3. \A p \in Pages : ~Dirty(p)'
    BY <1>2, <1>10, <2>2
  <2>4. Named' \cap vdead = {}
    <3>1. inl = {} BY <1>2 DEF Inv, Shape, Ownership
    <3> QED BY <1>1, <2>3, <3>1 DEF Named, Dirty
  <2>5. ASSUME NEW r \in Readers, mode[r] = "map" PROVE img[r] \cap vdead = {}
    <3>1. CASE img[r] = {} BY <3>1
    <3>2. CASE img[r] # {} /\ pin[r] = DirLeaf
      BY <1>1, <2>5, <3>2 DEF Inv, WalkAhead, Trusts
    <3>3. CASE img[r] # {} /\ pin[r] \in Pages
      BY <1>1, <1>7, <2>3, <2>5, <3>3 DEF Dirty, Trusts
    <3> QED BY <2>5, <3>1, <3>2, <3>3 DEF Inv, Copies
  <2>6. WalkAhead'
    BY <1>1, <1>7, <2>1, <2>4, <2>5 DEF WalkAhead, Clean
  <2> QED BY <1>3, <1>6, <1>9, <2>6 DEF Inv
<1> QED BY <1>11, <1>12

\* after the walk: unlinked leaves, the entry and freed pages
LEMMA VacuumTailKeeps ==
  ASSUME Inv, VacuumUnlink \/ VacuumDelete \/ \E p \in Pages : VacuumFree(p)
  PROVE  Inv'
<1> USE DEF VacuumUnlink, VacuumDelete, PassDelete, VacuumFree
<1>1. /\ UNCHANGED <<heapVars, readerVars, vdead, ins>>
      /\ vpc \in {"unlink", "delete", "free"}
      /\ vpc' \in {"unlink", "delete", "free"}
  BY DEF UnlinkLeaf, DeleteEntry, FreePage, postingVars, vacuumVars
<1>2. PICK live : live = Running
  OBVIOUS
<1>3. \/ UNCHANGED postingVars
      \/ \E p \in Leaves : UnlinkLeaf(p, live)
      \/ DeleteEntry
      \/ \E p \in Pages : FreePage(p, live) /\ p \notin Pinned
  BY <1>2 DEF MayUnlink, CleanupLock
<1>4. Shape'
  BY <1>3, ShapeUnchanged, UnlinkShape, DeleteShape, FreeShape DEF Inv
<1>5. Named' \subseteq Named
  <2>1. CASE DeleteEntry \/ UNCHANGED postingVars
    BY <2>1 DEF DeleteEntry, pageVars, postingVars, Named
  <2>2. CASE (\E p \in Leaves : UnlinkLeaf(p, live))
             \/ \E p \in Pages : FreePage(p, live)
    BY <2>2 DEF UnlinkLeaf, FreePage, entryVars, Named
  <2> QED BY <1>3, <2>1, <2>2
<1>6. SessionTypes' /\ Heap' /\ NoneNamed' /\ (Clean => Clean')
  BY <1>1, <1>4, <1>5, VacuumKeepsRest
<1>7. WalkAhead'
  BY <1>1, <1>6 DEF Inv, WalkAhead
<1>8. UNCHANGED <<pc, mode, img, pin>>
  BY <1>1 DEF readerVars
<1>9. Copies'
  <2>1. UNCHANGED items /\ SomethingStays => SomethingStays'
    BY <1>1 DEF SomethingStays
  <2>2. CASE UNCHANGED postingVars
    <3>1. UNCHANGED <<form, head, kind, items>>
      BY <2>2 DEF postingVars
    <3> QED BY <1>8, <2>1, <2>2, <3>1, StampedUnchanged DEF Inv, Copies, Trusts
  <2>3. CASE \E p \in Leaves : UnlinkLeaf(p, live)
    <3>1. PICK p \in Leaves : UnlinkLeaf(p, live) BY <2>3
    <3>2. /\ Stamped' = Stamped \ {p} /\ items[p] = {}
          /\ UNCHANGED <<items, form, head>>
      BY <3>1, UnlinkShape DEF Inv
    <3>3. kind'[head] = "inner" <=> kind[head] = "inner"
      BY <3>1 DEF UnlinkLeaf, MayUnlink, Inv, Shape, PageTypes
    <3> QED BY <1>8, <2>1, <3>2, <3>3 DEF Inv, Copies, Trusts
  <2>4. CASE DeleteEntry
    <3>1. \A p \in Pages : items[p] = {}
      BY <2>4, IndexedEverywhere DEF Everywhere, DeleteEntry, Inv
    <3>2. \A r \in Readers : \A p \in Pages : ~Trusts(r, p)
      BY <3>1 DEF Inv, Copies, SomethingStays
    <3> QED BY <1>8, <3>2 DEF Inv, Copies, Trusts
  <2>5. CASE \E p \in Pages : FreePage(p, live)
    <3>1. PICK p \in Pages : FreePage(p, live) BY <2>5
    <3>2. UNCHANGED <<items, form, head, owner>>
          /\ kind' = [kind EXCEPT ![p] = "deleted"]
      BY <3>1 DEF FreePage, entryVars
    <3>3. form = "chain" => /\ p # head /\ p \notin Stamped
      BY <3>1 DEF FreePage, Orphan, Inv, Shape, Ownership, Stamped
    <3>4. form = "chain" => Stamped' = Stamped /\ kind'[head] = kind[head]
      BY <3>2, <3>3 DEF Stamped, Inv, Shape, PageTypes
    <3> QED BY <1>8, <2>1, <3>2, <3>4 DEF Inv, Copies, Trusts
  <2> QED BY <1>3, <2>2, <2>3, <2>4, <2>5
<1> QED BY <1>4, <1>6, <1>7, <1>9 DEF Inv
-----------------------------------------------------------------------------
\* The invariant holds before anything happened.
LEMMA InitInv == Init => Inv
<1> SUFFICES ASSUME Init PROVE Inv
  OBVIOUS
<1>1. Shape BY InitShape DEF Init, RestInit
<1>2. SessionTypes BY DEF Init, RestInit, SessionTypes, Links, Blocks
<1>3. Copies BY DEF Init, RestInit, Copies, Trusts
<1>4. Heap
  BY BlockAssumption DEF Init, RestInit, PostingInit, Heap, Blocks
<1>5. NoneNamed BY DEF Init, RestInit, PostingInit, NoneNamed, Named
<1>6. WalkAhead BY DEF Init, RestInit, WalkAhead
<1> QED BY <1>1, <1>2, <1>3, <1>4, <1>5, <1>6 DEF Inv

\* Every step, of a session, a count or VACUUM, keeps the invariant.
LEMMA NextInv ==
  ASSUME Inv, [Next]_vars
  PROVE  Inv'
<1>1. CASE \/ \E t \in Tids : HeapInsert(t) \/ Commit(t) \/ Abort(t) \/ Delete(t)
           \/ \E b \in Blocks : SetAllVisible(b)
  BY <1>1, HeapKeeps
<1>2. CASE IndexInsertFails \/ \E t \in Tids : IndexInsertBegin(t)
  BY <1>2, InsertEndsKeep
<1>3. CASE IndexInsertStep
  <2>1. PICK live : live = Running
    OBVIOUS
  <2>2. InsertStep(live)
    BY <1>3, <2>1 DEF IndexInsertStep
  <2> QED BY <1>3, <2>2, InsertKeeps DEF IndexInsertStep
<1>4. CASE \E r \in Readers : ReaderStep(r)
  BY <1>4, CountKeeps
<1>5. CASE VacuumStep
  BY <1>5, VacuumEndsKeep, VacuumEntryKeeps, VacuumRootKeeps, VacuumPageKeeps,
     VacuumTailKeeps DEF VacuumStep
<1>6. CASE UNCHANGED vars
  <2>1. UNCHANGED <<postingVars, heapVars, readerVars, vacuumVars>>
    BY <1>6 DEF vars
  <2>2. Shape' BY <2>1, ShapeUnchanged DEF Inv
  <2>3. UNCHANGED <<form, inl, head, kind, items, right, ins, row, vm, pc, mode,
                    snap, img, pin, vpc, vdead, vroot, vpage>>
    BY <2>1 DEF postingVars, heapVars, readerVars, vacuumVars
  <2>4. Stamped' = Stamped /\ Named' = Named
    BY <2>1, StampedUnchanged
  <2>5. SessionTypes' BY <2>3 DEF Inv, SessionTypes
  <2>6. Copies' BY <2>3, <2>4 DEF Inv, Copies, Trusts, SomethingStays
  <2>7. Heap' BY <2>3 DEF Inv, Heap, SeenByAll, Running
  <2>8. NoneNamed' BY <2>3, <2>4 DEF Inv, NoneNamed
  <2>9. WalkAhead'
    BY <2>3, <2>4 DEF Inv, WalkAhead, Clean, Dirty, Trusts, RightClosed
  <2> QED BY <2>2, <2>5, <2>6, <2>7, <2>8, <2>9 DEF Inv
<1> QED BY <1>1, <1>2, <1>3, <1>4, <1>5, <1>6 DEF Next, HeapStep

\* Whatever sessions, counts and VACUUM do, the set keeps its shape, an unused
\* line pointer is named nowhere, and what VACUUM has still to remove is ahead
\* of its walk, on a page or in the copy of a count that pins one: the
\* inductive invariant of the count / VACUUM interlock (lion_vacuum.c, rules on
\* cleanup locks).
THEOREM Invariant == Spec => []Inv
<1>1. Inv /\ [Next]_vars => Inv'
  BY NextInv
<1> QED BY InitInv, <1>1, PTL DEF Spec

(* VACUUM's walk reaches every TID it was given: when a line pointer is    *)
(* free again, neither the set nor the copy of a count that asks the map   *)
(* names it, whatever splits, promotions, spills and failures moved TIDs   *)
(* about while it walked (lion_vacuum.c, pass 1 and pass 2).               *)
THEOREM NoDangling == Spec => []NoDanglingTid
<1>1. Inv => NoDanglingTid
  <2>1. Shape => Indexed \subseteq Named
    BY IndexedEverywhere DEF Everywhere, Named
  <2> QED BY <2>1 DEF Inv, NoneNamed, NoDanglingTid
<1> QED BY Invariant, <1>1, PTL

(* While a count that asks the visibility map has a TID in its copy, the   *)
(* map's word for the TID's block is true of the count's snapshot: what    *)
(* lion_count_container_vm() counts without looking at the heap.           *)
THEOREM MapTold == Spec => []MapVouches
<1>1. Inv => MapVouches
  <2> SUFFICES ASSUME Inv, NEW r \in Readers, mode[r] = "map", pc[r] = "items",
                      NEW t \in img[r], vm[BlockOf[t]]
               PROVE  t \in snap[r]
    BY DEF MapVouches
  <2>1. t \in Tids BY DEF Inv, SessionTypes
  <2>2. row[t] # "unused" BY <2>1 DEF Inv, NoneNamed
  <2>3. SeenByAll(t) BY <2>1, <2>2 DEF Inv, Heap
  <2> QED BY <2>3 DEF SeenByAll, Running
<1> QED BY Invariant, <1>1, PTL

-----------------------------------------------------------------------------
(* The walk of a count                                                     *)


(* What a step of the set may do to a page, live being the snapshots then   *)
(* registered                                                               *)
PageStays(p) ==
  /\ kind'[p] = kind[p] /\ owner'[p] = owner[p] /\ stamp'[p] = stamp[p]
  /\ right'[p] = right[p] \/ (form' = "chain" /\ p \in Stamped')
  /\ down'[p] = down[p] \/ (form' = "chain" /\ p = head')

PageReused(p, live) ==
  /\ kind[p] = "new" \/ (kind[p] \in {"deleted", "unlinked"} /\ stamp[p] \cap live = {})
  /\ form' = "chain" /\ p \in Stamped'

PageRaised(p) ==
  /\ form = "chain" /\ p = head /\ p \in Stamped
  /\ form' = "chain" /\ p = head' /\ kind'[p] = "inner" /\ right'[p] = NoPage

PageUnlinked(p, live) ==
  /\ form = "chain" /\ p \in Stamped /\ p # head /\ items[p] = {}
  /\ form' = "chain" /\ right[p] \in Stamped' /\ Stamped' \subseteq Stamped \ {p}
  /\ kind'[p] = "unlinked" /\ stamp'[p] = live
  /\ owner'[p] = owner[p] /\ right'[p] = right[p]

PageFreed(p, live) ==
  /\ kind[p] \in {"leaf", "inner"} /\ (form = "chain" => owner[p] # head)
  /\ kind'[p] = "deleted" /\ stamp'[p] = live /\ right'[p] = NoPage

PagesTurn(live) ==
  \A p \in Pages : \/ PageStays(p) \/ PageReused(p, live) \/ PageRaised(p)
                   \/ PageUnlinked(p, live) \/ PageFreed(p, live)

\* a set that has a TID keeps its head
SetStays ==
  form = "chain" => (form' = "chain" /\ head' = head) \/ Named = {}

\* the pages a step takes into the set
Fresh == Stamped' \ Stamped

\* what is on a leaf was on one leaf, and on the same side of every page
LeavesTurn(pos, pos2) ==
  form = "chain" /\ form' = "chain" =>
    /\ \A x, y \in Pages \ Fresh : pos[x] < pos[y] <=> pos2[x] < pos2[y]
    /\ \A p \in Stamped' : \E o \in Stamped :
         /\ items'[p] \subseteq items[o] \cup {ins}
         /\ \A y \in Pages \ Fresh :
              /\ pos2[y] <= pos2[p] <=> pos[y] <= pos[o]
              /\ pos2[y] = pos2[p] => pos[y] = pos[o]

Turns(pos, pos2, live) ==
  PagesTurn(live) /\ SetStays /\ LeavesTurn(pos, pos2)
-----------------------------------------------------------------------------
(* What each step does *)

\* steps that leave the links, the kinds and the stamps alone
LEMMA QuietTurns ==
  ASSUME NEW pos, LinkedBy(pos), NEW live,
         UNCHANGED <<form, head, kind, owner, right, stamp>>,
         \A p \in Pages : down'[p] = down[p] \/ (form = "chain" /\ p = head),
         \A p \in Pages : items'[p] \subseteq items[p] \cup {ins}
  PROVE  Turns(pos, pos, live)
<1>1. Stamped' = Stamped /\ Fresh = {} /\ Stamped \subseteq Pages
  BY DEF Stamped, Fresh
<1>2. PagesTurn(live) /\ SetStays
  BY DEF PagesTurn, PageStays, SetStays
<1>3. LeavesTurn(pos, pos)
  BY <1>1 DEF LeavesTurn
<1> QED BY <1>2, <1>3 DEF Turns

\* an inserter's locks and a TID that joins a leaf
LEMMA PutTurns ==
  ASSUME NEW pos, LinkedBy(pos), NEW live,
         \/ \E t \in Tids : InsertBegin(t)
         \/ InsertFails
         \/ InsertOnTail
         \/ \E p \in Leaves : InsertOnLeaf(p)
         \/ \E p \in Leaves : ClearSplit(p)
         \/ UNCHANGED postingVars
  PROVE  Turns(pos, pos, live)
<1>1. UNCHANGED <<form, head, kind, owner, right, stamp, down>>
  BY DEF InsertBegin, InsertFails, InsertOnTail, InsertOnLeaf, PutOn, ClearSplit,
         entryVars, pageVars, postingVars
<1>2. \A p \in Pages : items'[p] \subseteq items[p] \cup {ins}
  BY DEF InsertBegin, InsertFails, InsertOnTail, InsertOnLeaf, PutOn, ClearSplit,
         pageVars, postingVars, LinkedBy, Shape, PageTypes
<1> QED BY <1>1, <1>2, QuietTurns

\* VACUUM takes TIDs from a leaf
LEMMA FilterTurns ==
  ASSUME NEW pos, LinkedBy(pos), NEW live, NEW p \in Pages, NEW gone,
         FilterPage(p, gone)
  PROVE  Turns(pos, pos, live)
<1>1. UNCHANGED <<form, head, kind, owner, right, stamp, down>>
  BY DEF FilterPage, entryVars
<1>2. \A x \in Pages : items'[x] \subseteq items[x] \cup {ins}
  BY DEF FilterPage, LinkedBy, Shape, PageTypes
<1> QED BY <1>1, <1>2, QuietTurns

\* a downlink is placed in the head
LEMMA PlaceTurns ==
  ASSUME NEW pos, LinkedBy(pos), NEW live, NEW p, PlaceDownlink(p)
  PROVE  Turns(pos, pos, live)
<1>1. UNCHANGED <<form, head, kind, owner, right, stamp, items>>
  BY DEF PlaceDownlink, entryVars
<1>2. \A x \in Pages : down'[x] = down[x] \/ (form = "chain" /\ x = head)
  BY DEF PlaceDownlink, ToFinish, LinkedBy, Shape, PageTypes
<1> QED BY <1>1, <1>2, QuietTurns

\* an entry without a tree, or one that goes because its set is empty
LEMMA EntryTurns ==
  ASSUME NEW pos, LinkedBy(pos), NEW live,
         \/ InsertNewEntry \/ InsertInline \/ DeleteEntry
         \/ \E gone : FilterInline(gone)
  PROVE  Turns(pos, pos, live)
<1> USE DEF InsertNewEntry, InsertInline, DeleteEntry, FilterInline
<1>1. UNCHANGED pageVars /\ form' # "chain"
  OBVIOUS
<1>2. PagesTurn(live)
  BY <1>1 DEF PagesTurn, PageStays, pageVars
<1>3. SetStays
  <2>1. form = "chain" => DeleteEntry
    OBVIOUS
  <2>2. DeleteEntry => Named = {}
    BY IndexedEverywhere DEF Everywhere, LinkedBy, Named
  <2> QED BY <2>1, <2>2 DEF SetStays
<1> QED BY <1>1, <1>2, <1>3 DEF Turns, LeavesTurn

\* the first leaf
LEMMA SpillTurns ==
  ASSUME NEW pos, LinkedBy(pos), NEW pos2, NEW live, NEW q \in Pages, Spill(q),
         DOMAIN stamp = Pages
  PROVE  Turns(pos, pos2, live)
<1>1. /\ form # "chain" /\ form' = "chain" /\ Stamped' = {q} /\ kind[q] = "new"
      /\ \A x \in Pages \ {q} :
           /\ kind'[x] = kind[x] /\ owner'[x] = owner[x] /\ right'[x] = right[x]
           /\ stamp'[x] = stamp[x] /\ down'[x] = down[x]
  BY SpillLinks DEF Spill, NewLeaf, LinkedBy, Shape, PageTypes
<1>2. PagesTurn(live)
  BY <1>1 DEF PagesTurn, PageStays, PageReused
<1> QED BY <1>1, <1>2 DEF Turns, SetStays, LeavesTurn

\* a split: the new leaf is right behind the one it takes TIDs from
LEMMA SplitTurns ==
  ASSUME NEW pos, LinkedBy(pos), NEW p \in Leaves, NEW q \in Pages, NEW live,
         Split(p, q, live), NEW pos2, pos2 = AfterSplit(pos, p, q),
         DOMAIN stamp = Pages
  PROVE  Turns(pos, pos2, live)
<1>1. /\ form = "chain" /\ UNCHANGED <<form, head, down>> /\ p \in Stamped
      /\ Stamped' = Stamped \cup {q} /\ q \notin Stamped /\ q # p /\ p \in Pages
      /\ Recyclable(q, live)
  BY SplitOn, SplitShape DEF Split, Stamped, LinkedBy
<1>2. \A x \in Pages \ {q} :
        /\ kind'[x] = kind[x] /\ owner'[x] = owner[x] /\ stamp'[x] = stamp[x]
        /\ right'[x] = right[x] \/ x = p
  BY DEF Split, LinkedBy, Shape, PageTypes
<1>3. PagesTurn(live)
  <2>1. PageReused(q, live)
    BY <1>1 DEF PageReused, Recyclable
  <2>2. ASSUME NEW x \in Pages \ {q} PROVE PageStays(x)
    BY <1>1, <1>2 DEF PageStays
  <2> QED BY <2>1, <2>2 DEF PagesTurn
<1>4. SetStays BY <1>1 DEF SetStays
<1>5. /\ \A y \in Pages : pos[y] \in Nat
      /\ \A y \in Pages \ {q} : pos2[y] = 2 * pos[y]
      /\ pos2[q] = 2 * pos[p] + 1
      /\ Fresh = {q}
  BY <1>1 DEF LinkedBy, Linked, Ordered, AfterSplit, Fresh
<1>6. \A x, y \in Pages \ Fresh : pos[x] < pos[y] <=> pos2[x] < pos2[y]
  BY <1>5
<1>7. ASSUME NEW x \in Stamped'
      PROVE  \E o \in Stamped :
               /\ items'[x] \subseteq items[o] \cup {ins}
               /\ \A y \in Pages \ Fresh :
                    /\ pos2[y] <= pos2[x] <=> pos[y] <= pos[o]
                    /\ pos2[y] = pos2[x] => pos[y] = pos[o]
  <2>1. CASE x = q
    <3>1. items'[q] \subseteq items[p] \cup {ins}
      BY SplitItems
    <3>2. \A y \in Pages \ Fresh : /\ pos2[y] <= pos2[q] <=> pos[y] <= pos[p]
                                   /\ pos2[y] # pos2[q]
      BY <1>1, <1>5
    <3> QED BY <1>1, <2>1, <3>1, <3>2
  <2>2. CASE x # q
    <3>1. x \in Stamped /\ x \in Pages BY <1>1, <2>2 DEF Stamped
    <3>2. items'[x] \subseteq items[x] \cup {ins}
      <4>1. CASE x = p BY <4>1, SplitItems
      <4>2. CASE x # p
        <5>1. items'[x] = items[x]
          BY <2>2, <3>1, <4>2 DEF Split, LinkedBy, Shape, PageTypes
        <5> QED BY <5>1
      <4> QED BY <4>1, <4>2
    <3> QED BY <1>5, <2>2, <3>1, <3>2
  <2> QED BY <2>1, <2>2
<1>8. LeavesTurn(pos, pos2) BY <1>6, <1>7 DEF LeavesTurn
<1> QED BY <1>3, <1>4, <1>8 DEF Turns

\* a promotion: the head's new child takes its place among the leaves
LEMMA PromoteTurns ==
  ASSUME NEW pos, LinkedBy(pos), NEW p \in Leaves, NEW q \in Pages, NEW live,
         Promote(p, q, live), NEW pos2, pos2 = AfterPromote(pos, head, q),
         DOMAIN stamp = Pages
  PROVE  Turns(pos, pos2, live)
<1>1. /\ form = "chain" /\ UNCHANGED <<form, head>> /\ head \in Stamped
      /\ Stamped' = (Stamped \ {head}) \cup {q} /\ q \notin Stamped /\ q # head
      /\ head \in Pages /\ kind'[head] = "inner" /\ Recyclable(q, live)
      /\ right'[head] = NoPage
      /\ items' = [items EXCEPT ![q] = items[head], ![head] = {}]
  <2>1. Shape BY DEF LinkedBy
  <2>2. /\ head \in Stamped /\ q \notin Stamped /\ UNCHANGED <<form, head>>
        /\ Stamped' = (Stamped \ {head}) \cup {q} /\ kind'[head] = "inner"
        /\ items' = [items EXCEPT ![q] = items[head], ![head] = {}]
    BY <2>1, PromoteShape
  <2>3. form = "chain" /\ Recyclable(q, live)
    BY DEF Promote, SplitTarget
  <2>4. right'[head] = NoPage
    BY <2>1, <2>2 DEF Promote, Shape, PageTypes, Stamped
  <2> QED BY <2>2, <2>3, <2>4 DEF Stamped
<1>2. \A x \in Pages \ {q, head} :
        /\ kind'[x] = kind[x] /\ owner'[x] = owner[x] /\ stamp'[x] = stamp[x]
        /\ right'[x] = right[x] /\ down'[x] = down[x]
  BY DEF Promote, LinkedBy, Shape, PageTypes
<1>3. PagesTurn(live)
  <2>1. PageReused(q, live)
    BY <1>1 DEF PageReused, Recyclable
  <2>2. PageRaised(head)
    BY <1>1 DEF PageRaised
  <2>3. ASSUME NEW x \in Pages \ {q, head} PROVE PageStays(x)
    BY <1>2 DEF PageStays
  <2> QED BY <2>1, <2>2, <2>3 DEF PagesTurn
<1>4. SetStays BY <1>1 DEF SetStays
<1>5. /\ \A y \in Pages : pos[y] \in Nat
      /\ \A y \in Pages \ {q} : pos2[y] = pos[y]
      /\ pos2[q] = pos[head]
      /\ Fresh = {q}
  BY <1>1 DEF LinkedBy, Linked, Ordered, AfterPromote, Fresh
<1>6. \A x, y \in Pages \ Fresh : pos[x] < pos[y] <=> pos2[x] < pos2[y]
  BY <1>5
<1>7. ASSUME NEW x \in Stamped'
      PROVE  \E o \in Stamped :
               /\ items'[x] \subseteq items[o] \cup {ins}
               /\ \A y \in Pages \ Fresh :
                    /\ pos2[y] <= pos2[x] <=> pos[y] <= pos[o]
                    /\ pos2[y] = pos2[x] => pos[y] = pos[o]
  <2>1. CASE x = q
    <3>1. items'[q] = items[head]
      BY <1>1 DEF LinkedBy, Shape, PageTypes
    <3> QED BY <1>1, <1>5, <2>1, <3>1
  <2>2. CASE x # q
    <3>1. x \in Stamped /\ x \in Pages /\ items'[x] = items[x]
      BY <1>1, <2>2 DEF Stamped, LinkedBy, Shape, PageTypes
    <3> QED BY <1>5, <2>2, <3>1
  <2> QED BY <2>1, <2>2
<1>8. LeavesTurn(pos, pos2) BY <1>6, <1>7 DEF LeavesTurn
<1> QED BY <1>3, <1>4, <1>8 DEF Turns

\* an unlinked leaf: it still links right, and its safexid is now
LEMMA UnlinkTurns ==
  ASSUME NEW pos, LinkedBy(pos), NEW p \in Leaves, NEW live, UnlinkLeaf(p, live),
         DOMAIN stamp = Pages
  PROVE  Turns(pos, pos, live)
<1>1. /\ form = "chain" /\ p \in Stamped /\ p # head /\ items[p] = {}
      /\ right[p] \in Stamped /\ right[p] # p /\ Stamped' = Stamped \ {p}
      /\ \A x \in Stamped : right'[x] = IF right[x] = p THEN right[p] ELSE right[x]
      /\ kind'[head] = kind[head]
      /\ UNCHANGED <<form, head, owner, items>>
  BY UnlinkOn
<1>2. /\ p \in Pages /\ kind'[p] = "unlinked" /\ stamp'[p] = live
      /\ \A x \in Pages \ {p} : kind'[x] = kind[x] /\ stamp'[x] = stamp[x]
      /\ \A x \in Pages : down'[x] = down[x] \/ x = head
  BY <1>1 DEF UnlinkLeaf, LinkedBy, Shape, PageTypes, Stamped
<1>3. LeftOf(p) = {x \in Stamped : right[x] = p}
  BY <1>1, LeavesStamped DEF LeftOf, LinkedBy
<1>4. \A x \in Pages : right'[x] = right[x] \/ (x \in Stamped' /\ x # p)
  <2>1. right' = [x \in Pages |-> IF x \in LeftOf(p) THEN right[p] ELSE right[x]]
    BY DEF UnlinkLeaf
  <2>2. p \notin LeftOf(p) BY <1>1, <1>3
  <2> QED BY <1>1, <1>3, <2>1, <2>2
<1>5. PagesTurn(live)
  <2>1. PageUnlinked(p, live)
    BY <1>1, <1>2, <1>4 DEF PageUnlinked
  <2>2. ASSUME NEW x \in Pages \ {p} PROVE PageStays(x)
    BY <1>1, <1>2, <1>4 DEF PageStays
  <2> QED BY <2>1, <2>2 DEF PagesTurn
<1>6. SetStays BY <1>1 DEF SetStays
<1>7. LeavesTurn(pos, pos)
  BY <1>1 DEF LeavesTurn, Fresh, Stamped
<1> QED BY <1>5, <1>6, <1>7 DEF Turns

\* a page of a set no entry heads is freed
LEMMA FreeTurns ==
  ASSUME NEW pos, LinkedBy(pos), NEW p \in Pages, NEW live, FreePage(p, live),
         DOMAIN stamp = Pages
  PROVE  Turns(pos, pos, live)
<1>1. /\ UNCHANGED <<form, head, owner, items>>
      /\ \A x \in Pages \ {p} : /\ kind'[x] = kind[x] /\ right'[x] = right[x]
                                /\ stamp'[x] = stamp[x] /\ down'[x] = down[x]
      /\ kind'[p] = "deleted" /\ stamp'[p] = live /\ right'[p] = NoPage
      /\ kind[p] \in {"leaf", "inner"} /\ (form = "chain" => owner[p] # head)
  BY DEF FreePage, Orphan, entryVars, LinkedBy, Shape, PageTypes
<1>2. PagesTurn(live)
  BY <1>1 DEF PagesTurn, PageStays, PageFreed
<1>3. form = "chain" => Stamped' = Stamped
  BY <1>1 DEF Stamped
<1>4. LeavesTurn(pos, pos)
  BY <1>1, <1>3 DEF LeavesTurn, Fresh, Stamped
<1> QED BY <1>1, <1>2, <1>4 DEF Turns, SetStays
-----------------------------------------------------------------------------
(* What the pages keep *)

\* a TID is on one page; the inserter's own is on one only between the split
\* that put it there and the end of its call
OnceEach ==
  /\ \A p, q \in Pages : p # q => items[p] \cap items[q] = {}
  /\ ins \in Tids /\ ins \in Named => held # NoPage /\ flagged[held]

PageBook ==
  /\ DOMAIN stamp = Pages
  /\ \A p \in Pages : kind[p] = "inner" =>
       Len(down[p]) \in Nat \ {0} /\ right[p] = NoPage
  /\ OnceEach

\* the TIDs of the set are those anywhere
LEMMA NamedIndexed ==
  ASSUME Shape
  PROVE  Named = Indexed
BY IndexedEverywhere DEF Everywhere, Named

\* an inserter's steps lose no TID
LEMMA InsertKeepsNamed ==
  ASSUME NEW pos, LinkedBy(pos), NEW live, InsertStep(live)
  PROVE  Named \subseteq Named'
<1>1. CASE InsertNewEntry \/ InsertInline
  <2>1. inl \subseteq inl' /\ items' = items
    BY <1>1 DEF InsertNewEntry, InsertInline, pageVars, LinkedBy, Shape, Ownership
  <2> QED BY <2>1 DEF Named
<1>2. CASE \E q \in Pages : Spill(q)
  <2>1. PICK q \in Pages : Spill(q) BY <1>2
  <2>2. /\ \A x \in Pages : items[x] = {}
        /\ items'[q] = inl
    BY <2>1, SpillLinks DEF Spill, LinkedBy, Shape, Ownership
  <2> QED BY <2>2 DEF Named
<1>3. CASE InsertOnTail \/ \E p \in Leaves : InsertOnLeaf(p)
  <2>1. \A x \in Pages : items[x] \subseteq items'[x]
    BY <1>3 DEF InsertOnTail, InsertOnLeaf, PutOn, LinkedBy, Shape, PageTypes
  <2>2. inl' = inl
    BY <1>3 DEF InsertOnTail, InsertOnLeaf, PutOn, entryVars
  <2> QED BY <2>1, <2>2 DEF Named
<1>4. CASE \E p \in Leaves, q \in Pages : Promote(p, q, live)
  <2>1. PICK p \in Leaves, q \in Pages : Promote(p, q, live) BY <1>4
  <2>2. /\ items' = [items EXCEPT ![q] = items[head], ![head] = {}]
        /\ q \notin Stamped
    BY <2>1, PromoteShape DEF LinkedBy
  <2>3. items[q] = {} /\ inl' = inl
    BY <2>1, <2>2 DEF Promote, LinkedBy, Shape, Ownership
  <2>4. \A x \in Pages : x # head => items[x] \subseteq items'[x]
    BY <2>2, <2>3 DEF LinkedBy, Shape, PageTypes
  <2>5. head \in Pages => items[head] \subseteq items'[q]
    BY <2>2, <2>3 DEF LinkedBy, Shape, PageTypes
  <2> QED BY <2>3, <2>4, <2>5 DEF Named
<1>5. CASE \E p \in Leaves, q \in Pages : Split(p, q, live)
  <2>1. PICK p \in Leaves, q \in Pages : Split(p, q, live) BY <1>5
  <2>2. /\ p \in Pages /\ q \in Pages /\ q \notin Stamped /\ inl' = inl
    BY <2>1, SplitShape DEF Split, LinkedBy, Leaves
  <2>3. items[q] = {}
    BY <2>2 DEF LinkedBy, Shape, Ownership
  <2>4. items[p] \subseteq items'[p] \cup items'[q]
    <3> DEFINE moved == {x \in items[p] : BlockOf[x] > BlockOf[ins]}
    <3>1. /\ items'[q] = IF moved = {} THEN {ins} ELSE moved
          /\ items'[p] = IF moved = {} THEN items[p]
                         ELSE (items[p] \ moved) \cup {ins}
      BY <2>1, SplitItems
    <3> QED BY <3>1
  <2>5. \A x \in Pages \ {p, q} : items'[x] = items[x]
    BY <2>1, SplitItems
  <2> QED BY <2>2, <2>3, <2>4, <2>5 DEF Named
<1>6. CASE \E p \in Leaves : PlaceDownlink(p) \/ ClearSplit(p)
  BY <1>6 DEF PlaceDownlink, ClearSplit, entryVars, Named
<1> QED BY <1>1, <1>2, <1>3, <1>4, <1>5, <1>6 DEF InsertStep

\* a page has no two sets of downlinks to choose from
LEMMA InnerKept ==
  ASSUME PageBook, NEW live, PagesTurn(live), Shape'
  PROVE  \A p \in Pages : kind'[p] = "inner" =>
           Len(down'[p]) \in Nat \ {0} /\ right'[p] = NoPage
<1> SUFFICES ASSUME NEW p \in Pages, kind'[p] = "inner"
             PROVE  Len(down'[p]) \in Nat \ {0} /\ right'[p] = NoPage
  OBVIOUS
<1>1. CASE form' = "chain" /\ p = head'
  <2>1. Len(down'[p]) \in Nat \ {0} /\ p \notin Stamped'
    BY <1>1 DEF Shape, Ownership, Stamped
  <2>2. PageStays(p) \/ PageRaised(p)
    BY <2>1 DEF PagesTurn, PageReused, PageUnlinked, PageFreed
  <2> QED BY <2>1, <2>2 DEF PageStays, PageRaised, PageBook
<1>2. CASE ~(form' = "chain" /\ p = head')
  <2>1. PageStays(p)
    BY <1>2 DEF PagesTurn, PageReused, PageRaised, PageUnlinked, PageFreed, Stamped
  <2> QED BY <1>2, <2>1 DEF PageStays, PageBook, Stamped
<1> QED BY <1>1, <1>2

\* an inserter's TID is put on one page, once
LEMMA InsertOnce ==
  ASSUME NEW pos, LinkedBy(pos), OnceEach, NEW live, InsertStep(live)
  PROVE  OnceEach'
<1>0. Shape /\ Base /\ Named = Indexed /\ NoTid \notin Tids
  BY NamedIndexed, NoTidAssumption DEF LinkedBy
<1>1. CASE InsertNewEntry \/ InsertInline
  <2>1. items' = items /\ ins' = NoTid
    BY <1>1 DEF InsertNewEntry, InsertInline, pageVars
  <2> QED BY <1>0, <2>1 DEF OnceEach
<1>2. CASE \E q \in Pages : Spill(q)
  <2>1. PICK q \in Pages : Spill(q) BY <1>2
  <2>2. /\ \A x \in Pages : items[x] = {}
        /\ items'[q] = inl /\ \A x \in Pages \ {q} : items'[x] = items[x]
        /\ inl' = {} /\ UNCHANGED <<ins, held>> /\ form # "chain"
    BY <1>0, <2>1 DEF Spill, NewLeaf, Shape, Ownership, PageTypes
  <2>3. Named' = Named
    BY <2>2 DEF Named
  <2>4. ~(ins \in Tids /\ ins \in Named)
    BY <1>0, <2>2 DEF OnceEach, Base
  <2>5. \A p, x \in Pages : p # x => items'[p] \cap items'[x] = {}
    BY <2>2
  <2> QED BY <2>2, <2>3, <2>4, <2>5 DEF OnceEach
<1>3. CASE InsertOnTail \/ \E p \in Leaves : InsertOnLeaf(p)
  <2>1. PICK p : PutOn(p) /\ held = NoPage /\ ins # NoTid
    BY <1>3 DEF InsertOnTail, InsertOnLeaf
  <2>2. ins \notin Named
    BY <1>0, <2>1 DEF OnceEach, Shape, PageTypes
  <2>3. /\ \A x \in Pages : items'[x] = IF x = p THEN items[x] \cup {ins} ELSE items[x]
        /\ ins' = NoTid
    BY <1>0, <2>1 DEF PutOn, Shape, PageTypes
  <2>4. \A x \in Pages : ins \notin items[x]
    BY <2>2 DEF Named
  <2>5. \A x, y \in Pages : x # y => items'[x] \cap items'[y] = {}
    <3>1. \A x, y \in Pages : x # y => items[x] \cap items[y] = {}
      BY DEF OnceEach
    <3>2. \A x \in Pages \ {p} : items'[x] = items[x] /\ ins \notin items[x]
      BY <2>3, <2>4
    <3>3. p \in Pages => items'[p] = items[p] \cup {ins}
      BY <2>3
    <3>4. \A x \in Pages \ {p} :
            p \in Pages => items'[x] \cap items'[p] = {} /\ items'[p] \cap items'[x] = {}
      BY <3>1, <3>2, <3>3
    <3>5. \A x, y \in Pages \ {p} : x # y => items'[x] \cap items'[y] = {}
      BY <3>1, <3>2
    <3> QED BY <3>4, <3>5
  <2> QED BY <1>0, <2>3, <2>5 DEF OnceEach
<1>4. CASE \E p \in Leaves, q \in Pages : Promote(p, q, live)
  <2>1. PICK p \in Leaves, q \in Pages : Promote(p, q, live) BY <1>4
  <2>2. /\ items' = [items EXCEPT ![q] = items[head], ![head] = {}]
        /\ head \in Stamped /\ q \notin Stamped
    BY <1>0, <2>1, PromoteShape
  <2>3. /\ items[q] = {} /\ inl' = inl /\ ins' = ins /\ ins \notin Named
        /\ head \in Pages /\ head # q
    BY <1>0, <2>1, <2>2 DEF Promote, SplitTarget, Shape, Ownership, Stamped
  <2>4. \A x \in Pages : items'[x] = IF x = q THEN items[head]
                                     ELSE IF x = head THEN {} ELSE items[x]
    BY <1>0, <2>2, <2>3 DEF Shape, PageTypes
  <2>5. Named' \subseteq Named
    BY <2>3, <2>4 DEF Named
  <2>6. \A x, y \in Pages : x # y => items'[x] \cap items'[y] = {}
    BY <2>3, <2>4 DEF OnceEach
  <2> QED BY <2>3, <2>5, <2>6 DEF OnceEach
<1>5. CASE \E p \in Leaves, q \in Pages : Split(p, q, live)
  <2>1. PICK p \in Leaves, q \in Pages : Split(p, q, live) BY <1>5
  <2>2. /\ p \in Stamped /\ p \in Pages /\ q \notin Stamped /\ q # p
    BY <1>0, <2>1, SplitShape DEF Leaves
  <2>3. /\ items[q] = {} /\ ins \notin Named
    BY <1>0, <2>1, <2>2 DEF Split, SplitTarget, Shape, Ownership
  <2>4. PICK moved \in SUBSET items[p] :
          /\ items'[q] = IF moved = {} THEN {ins} ELSE moved
          /\ items'[p] = IF moved = {} THEN items[p]
                         ELSE (items[p] \ moved) \cup {ins}
          /\ \A x \in Pages \ {p, q} : items'[x] = items[x]
    <3> DEFINE moved == {x \in items[p] : BlockOf[x] > BlockOf[ins]}
    <3>1. /\ items'[q] = IF moved = {} THEN {ins} ELSE moved
          /\ items'[p] = IF moved = {} THEN items[p]
                         ELSE (items[p] \ moved) \cup {ins}
      BY <2>1, SplitItems
    <3>2. \A x \in Pages \ {p, q} : items'[x] = items[x]
      BY <2>1, SplitItems
    <3> QED BY <3>1, <3>2
  <2>5. \A x \in Pages : ins \notin items[x]
    BY <2>3 DEF Named
  <2>6. \A x, y \in Pages : x # y => items'[x] \cap items'[y] = {}
    <3>1. \A x, y \in Pages : x # y => items[x] \cap items[y] = {}
      BY DEF OnceEach
    <3>2. items'[p] \cap items'[q] = {}
      BY <2>2, <2>4, <2>5
    <3>3. \A x \in Pages \ {p, q} : items'[x] \cap items'[p] = {}
      BY <2>2, <2>4, <2>5, <3>1
    <3>4. \A x \in Pages \ {p, q} : items'[x] \cap items'[q] = {}
      BY <2>2, <2>4, <2>5, <3>1
    <3>5. \A x, y \in Pages \ {p, q} : x # y => items'[x] \cap items'[y] = {}
      BY <2>4, <3>1
    <3> QED BY <3>2, <3>3, <3>4, <3>5
  <2>7. ins' \in Tids => held' # NoPage /\ flagged'[held']
    <3>1. flagged \in [Pages -> BOOLEAN] BY <1>0 DEF Base
    <3> QED BY <1>0, <2>1, <2>2, <3>1, NoPageAssumption DEF Split
  <2> QED BY <2>6, <2>7 DEF OnceEach
<1>6. CASE \E p \in Leaves : PlaceDownlink(p)
  <2>1. UNCHANGED <<inl, items, ins, held, flagged>>
    BY <1>6 DEF PlaceDownlink, entryVars
  <2> QED BY <2>1 DEF OnceEach, Named
<1>7. CASE \E p \in Leaves : ClearSplit(p)
  <2>1. PICK p \in Leaves : ClearSplit(p) BY <1>7
  <2>2. UNCHANGED <<inl, items>>
    BY <2>1 DEF ClearSplit, entryVars
  <2>3. ins' \in Tids => ins \notin Named
    <3>1. SUFFICES ASSUME ins' \in Tids, ins \in Named PROVE FALSE
      OBVIOUS
    <3>2. ins' = ins /\ ~(p = held /\ ins \in Indexed)
      BY <1>0, <2>1, <3>1 DEF ClearSplit
    <3>3. held # NoPage BY <3>1, <3>2 DEF OnceEach
    <3> QED BY <1>0, <2>1, <3>1, <3>2, <3>3 DEF ClearSplit, ToFinish
  <2>4. ins' \in {ins, NoTid}
    BY <2>1 DEF ClearSplit
  <2> QED BY <1>0, <2>2, <2>3, <2>4 DEF OnceEach, Named
<1> QED BY <1>1, <1>2, <1>3, <1>4, <1>5, <1>6, <1>7 DEF InsertStep

\* nor do the other steps put it on another
LEMMA RestOnce ==
  ASSUME NEW pos, LinkedBy(pos), OnceEach,
         \/ \E t \in Tids \ Indexed : InsertBegin(t)
         \/ InsertFails
         \/ \E gone : FilterInline(gone)
         \/ \E p \in Pages : \E gone : FilterPage(p, gone)
         \/ \E p, live : UnlinkLeaf(p, live)
         \/ DeleteEntry
         \/ \E p \in Pages : \E live : FreePage(p, live)
         \/ UNCHANGED postingVars
  PROVE  OnceEach'
<1>0. Shape /\ Base /\ Named = Indexed /\ NoTid \notin Tids
  BY NamedIndexed, NoTidAssumption DEF LinkedBy
<1>1. inl' \subseteq inl /\ \A x \in Pages : items'[x] \subseteq items[x]
  BY <1>0 DEF InsertBegin, InsertFails, FilterInline, FilterPage, UnlinkLeaf,
       DeleteEntry, FreePage, entryVars, pageVars, postingVars, Shape, PageTypes
<1>2. Named' \subseteq Named
  BY <1>1 DEF Named
<1>3. \A x, y \in Pages : x # y => items'[x] \cap items'[y] = {}
  BY <1>1 DEF OnceEach
<1>4. CASE \E t \in Tids \ Indexed : InsertBegin(t)
  BY <1>0, <1>2, <1>3, <1>4 DEF OnceEach, InsertBegin
<1>5. CASE InsertFails
  BY <1>0, <1>3, <1>5 DEF OnceEach, InsertFails
<1>6. CASE \E p \in Pages : \E live : FreePage(p, live)
  <2>1. PICK p, live : p \in Pages /\ FreePage(p, live) BY <1>6
  <2>2. ins' = ins /\ held' = held /\ \A x \in Pages \ {p} : flagged'[x] = flagged[x]
    BY <1>0, <2>1 DEF FreePage, entryVars, Base
  <2>3. held # NoPage => held # p /\ held \in Pages
    BY <2>1 DEF FreePage, Orphan, LinkedBy, Base, Linked, HeldOn, Stamped
  <2> QED BY <1>2, <1>3, <2>2, <2>3 DEF OnceEach
<1>7. CASE \/ \E gone : FilterInline(gone)
           \/ \E p \in Pages : \E gone : FilterPage(p, gone)
           \/ \E p, live : UnlinkLeaf(p, live)
           \/ DeleteEntry
           \/ UNCHANGED postingVars
  <2>1. UNCHANGED <<ins, held, flagged>>
    BY <1>7 DEF FilterInline, FilterPage, UnlinkLeaf, DeleteEntry, pageVars,
         postingVars
  <2> QED BY <1>2, <1>3, <2>1 DEF OnceEach
<1> QED BY <1>4, <1>5, <1>6, <1>7
-----------------------------------------------------------------------------
(* What a count keeps *)

\* a row that is live, or that a snapshot sees, is named by the set
Kept ==
  \A t \in Tids : row[t] = "live" \/ (\E r \in Readers : t \in snap[r]) =>
    t \in Named /\ t \notin vdead /\ row[t] \in {"live", "gone"}

NothingYet(r) == \A t \in Tids : tally[r][t] = 0 /\ queue[r][t] = 0

ReaderTypes ==
  /\ from \in [Readers -> Nat]
  /\ root \in [Readers -> Links]
  /\ link \in [Readers -> Links]
  /\ tally \in [Readers -> [Tids -> Nat]]
  /\ queue \in [Readers -> [Tids -> Nat]]
  /\ \A r \in Readers :
       /\ pc[r] \in {"idle", "locate"} => link[r] = NoPage
       /\ pc[r] \in {"idle", "locate", "root", "leaf"} => NothingYet(r)
       /\ pc[r] = "idle" => snap[r] = {}
       /\ pc[r] = "root" => link[r] = root[r]
       /\ pc[r] \in {"root", "leaf", "next"} => link[r] \in Pages

\* S is all that session r may come to: its link and, with a page, those the
\* page leads to.  What of it is free has a safexid r's snapshot holds back
Safe(r, S) ==
  /\ S \in SUBSET Pages
  /\ link[r] \in S \cup {NoPage}
  /\ RightClosed(S)
  /\ \A p \in S : kind[p] = "inner" =>
       \A i \in 1..Len(down[p]) : down[p][i].child \in S
  /\ \A p \in S : /\ kind[p] # "new"
                  /\ kind[p] \in {"deleted", "unlinked"} => r \in stamp[p]

\* an unlinked leaf of S leads on to the leaf that was right of it, or to what
\* that has become, and no leaf is where it was
Trail(pos, S) ==
  \A y \in S : kind[y] = "unlinked" /\ owner[y] = head =>
    /\ OwnsLeaf(right[y], head)
    /\ right[y] # head
    /\ pos[y] < pos[right[y]]
    /\ \A p \in Stamped : /\ pos[p] # pos[y]
                          /\ pos[y] < pos[p] => pos[right[y]] <= pos[p]

\* of the rows r's snapshot sees, those on the leaves still to come
Ahead(r, pos) ==
  {t \in snap[r] : /\ link[r] # NoPage
                   /\ \E p \in Stamped : t \in items[p] /\ pos[link[r]] <= pos[p]}

\* r has counted, or queued, the rows of D its snapshot sees, once each, and on
\* the map's word no others
Tallied(r, D) ==
  \A t \in Tids :
    IF t \in snap[r] THEN tally[r][t] + queue[r][t] = IF t \in D THEN 1 ELSE 0
    ELSE tally[r][t] = 0

OnTheWay(r, pos, S) ==
  /\ form = "chain"
  /\ root[r] = head
  /\ Trail(pos, S)
  /\ pc[r] # "root" => link[r] # head /\ OwnsLeaf(link[r], head)

Walk(r, pos, S) ==
  /\ snap[r] # {} /\ pc[r] \in {"root", "leaf", "items", "next"}
     /\ link[r] # NoPage => OnTheWay(r, pos, S)
  /\ pc[r] = "leaf" => Window(r, snap[r]) \subseteq Ahead(r, pos)
  /\ pc[r] \in {"items", "next"} =>
       /\ Ahead(r, pos) \cap img[r] = {}
       /\ Ahead(r, pos) \subseteq Window(r, snap[r])
       /\ img[r] \cap snap[r] \subseteq Window(r, snap[r])
       /\ Tallied(r, Window(r, snap[r]) \ (img[r] \cup Ahead(r, pos)))
  /\ pc[r] = "recheck" => Tallied(r, Window(r, snap[r]))

\* what holds of session r, by the numbers pos: of a count from the first key
\* whatever the separators say, of any other if they are sound
Reads(r, pos, sound) ==
  \E S : /\ Safe(r, S)
         /\ sound \/ from[r] = 0 => Walk(r, pos, S)

Counts(pos, sound) ==
  /\ LinkedBy(pos)
  /\ sound => RoutedBy(pos)
  /\ \A r \in Readers : Reads(r, pos, sound)

CountInv(sound) ==
  /\ Inv /\ PageBook /\ Kept /\ ReaderTypes
  /\ \E pos : Counts(pos, sound)
-----------------------------------------------------------------------------
(* Steps of the set beside a count *)

\* a page a count may come to is not handed out: what else may become of it
LEMMA NotReused ==
  ASSUME NEW r \in Running, NEW S, Safe(r, S), NEW p \in S, PagesTurn(Running)
  PROVE  /\ \/ PageStays(p) \/ PageRaised(p)
            \/ PageUnlinked(p, Running) \/ PageFreed(p, Running)
         /\ form = "chain" /\ form' = "chain" /\ head' = head => p \notin Fresh
<1>1. p \in Pages /\ kind[p] # "new"
      /\ (kind[p] \in {"deleted", "unlinked"} => r \in stamp[p])
  BY DEF Safe
<1>2. ~PageReused(p, Running)
  BY <1>1 DEF PageReused
<1>3. \/ PageStays(p) \/ PageRaised(p)
      \/ PageUnlinked(p, Running) \/ PageFreed(p, Running)
  BY <1>1, <1>2 DEF PagesTurn
<1>4. ASSUME form = "chain", form' = "chain", head' = head, p \in Stamped'
      PROVE  p \in Stamped
  BY <1>1, <1>3, <1>4 DEF Stamped, PageStays, PageRaised, PageUnlinked, PageFreed
<1> QED BY <1>3, <1>4 DEF Fresh

\* what a step adds to where a count may come to: the leaves of the set now
Widened(S) == S \cup IF form = "chain" THEN Stamped \cup {head} ELSE {}

\* the leaves of the set and its head lead to leaves of the set
Leads ==
  form = "chain" =>
    /\ head \in Pages
    /\ \A p \in Stamped \cup {head} :
         /\ kind[p] \in {"leaf", "inner"}
         /\ right[p] \in Stamped \cup {NoPage}
         /\ kind[p] = "inner" =>
              \A i \in 1..Len(down[p]) : down[p][i].child \in Stamped

\* ... as the invariant of the links and the pages' book say
LEMMA SetLeads == LinkInv /\ PageBook => Leads
<1> SUFFICES ASSUME NEW pos, LinkedBy(pos), PageBook, form = "chain"
             PROVE  Leads
  BY DEF LinkInv, Leads
<1>1. head \in Pages /\ kind[head] \in {"leaf", "inner"}
      /\ (kind[head] = "leaf" => head \in Stamped)
  BY HeadKind DEF LinkedBy
<1>2. RightClosed(Stamped)
  BY DEF LinkedBy, Shape, OneChain
<1>3. kind[head] = "inner" => /\ right[head] = NoPage
                              /\ \A i \in 1..Len(down[head]) :
                                   down[head][i].child \in Stamped
  BY <1>1 DEF PageBook, LinkedBy, Linked, Downlinks, Positions, Child
<1>4. ASSUME NEW p \in Stamped
      PROVE  kind[p] = "leaf" /\ right[p] \in Stamped \cup {NoPage}
  BY <1>2 DEF Stamped, RightClosed
<1>5. kind[head] = "leaf" => right[head] \in Stamped \cup {NoPage}
  BY <1>1, <1>4
<1> QED BY <1>1, <1>3, <1>4, <1>5 DEF Leads

\* what is safe to come to stays so, with the leaves the set now has
LEMMA SafeTurns ==
  ASSUME NEW r \in Running, NEW S, Safe(r, S), PagesTurn(Running),
         LinkInv', PageBook', link' = link, NEW T, T = Widened(S)'
  PROVE  Safe(r, T)'
<1>0. Leads'
  BY SetLeads, PTL
<1>1. /\ link'[r] \in S \cup {NoPage} /\ S \in SUBSET Pages
      /\ T = S \cup IF form' = "chain" THEN Stamped' \cup {head'} ELSE {}
  BY DEF Safe, Widened
<1>2. T \in SUBSET Pages
  BY <1>0, <1>1 DEF Leads, Stamped
<1>3. ASSUME NEW p \in S, ~(form' = "chain" /\ p \in Stamped' \cup {head'})
      PROVE  /\ right'[p] \in T \cup {NoPage}
             /\ kind'[p] = "inner" =>
                  \A i \in 1..Len(down'[p]) : down'[p][i].child \in T
             /\ kind'[p] # "new"
             /\ kind'[p] \in {"deleted", "unlinked"} => r \in stamp'[p]
  <2>1. CASE PageStays(p)
    BY <1>1, <1>3, <2>1 DEF PageStays, Safe, RightClosed
  <2>2. CASE PageUnlinked(p, Running) \/ PageFreed(p, Running)
    BY <1>1, <2>2 DEF PageUnlinked, PageFreed
  <2>3. CASE PageRaised(p)
    BY <1>3, <2>3 DEF PageRaised
  <2> QED BY <2>1, <2>2, <2>3, NotReused
<1>4. ASSUME NEW p \in T
      PROVE  /\ right'[p] \in T \cup {NoPage}
             /\ kind'[p] = "inner" =>
                  \A i \in 1..Len(down'[p]) : down'[p][i].child \in T
             /\ kind'[p] # "new"
             /\ kind'[p] \in {"deleted", "unlinked"} => r \in stamp'[p]
  <2>1. CASE form' = "chain" /\ p \in Stamped' \cup {head'}
    BY <1>0, <1>1, <2>1 DEF Leads
  <2>2. CASE ~(form' = "chain" /\ p \in Stamped' \cup {head'})
    <3>1. p \in S BY <1>1, <1>4, <2>2
    <3> QED BY <1>3, <2>2, <3>1
  <2> QED BY <2>1, <2>2
<1> QED BY <1>1, <1>2, <1>4 DEF Safe, RightClosed

\* the rows still to come stay the same ones: each is on one leaf, on one side
\* of the page the count goes to next
LEMMA AheadTurns ==
  ASSUME NEW r \in Running, NEW S, Safe(r, S), link[r] \in S,
         NEW pos, NEW pos2, LinkedBy(pos), Shape', OnceEach,
         form = "chain", form' = "chain", head' = head,
         PagesTurn(Running), LeavesTurn(pos, pos2),
         \A t \in snap[r] : t # ins /\ t \in Named',
         link' = link, snap' = snap
  PROVE  Ahead(r, pos2)' = Ahead(r, pos)
<1> DEFINE l == link[r]
<1>1. l \in Pages /\ l \notin Fresh /\ l # NoPage
  BY NotReused, NoPageAssumption DEF Safe
<1>2. Ahead(r, pos2)' = {t \in snap[r] : \E p \in Stamped' :
                                           t \in items'[p] /\ pos2[l] <= pos2[p]}
  BY <1>1 DEF Ahead
<1>3. Ahead(r, pos) = {t \in snap[r] : \E p \in Stamped :
                                         t \in items[p] /\ pos[l] <= pos[p]}
  BY <1>1 DEF Ahead
<1>4. ASSUME NEW t \in snap[r], NEW p \in Stamped', t \in items'[p]
      PROVE  \E o \in Stamped : /\ t \in items[o]
                                /\ pos2[l] <= pos2[p] <=> pos[l] <= pos[o]
  <2>1. PICK o \in Stamped :
               /\ items'[p] \subseteq items[o] \cup {ins}
               /\ \A y \in Pages \ Fresh : pos2[y] <= pos2[p] <=> pos[y] <= pos[o]
    BY DEF LeavesTurn
  <2>2. t \in items[o]
    BY <1>4, <2>1
  <2> QED BY <1>1, <2>1, <2>2
<1>5. ASSUME NEW t \in snap[r] PROVE \E p \in Stamped' : t \in items'[p]
  <2>1. inl' = {} /\ \A p \in Pages : items'[p] # {} => p \in Stamped'
    BY DEF Shape, Ownership
  <2>2. PICK p \in Pages : t \in items'[p]
    BY <1>5, <2>1 DEF Named
  <2> QED BY <2>1, <2>2
<1>6. \A o, p \in Stamped : \A t : t \in items[o] /\ t \in items[p] => o = p
  BY DEF OnceEach, Stamped
<1> HIDE DEF l
<1>7. ASSUME NEW t \in snap[r]
      PROVE  (\E p \in Stamped' : t \in items'[p] /\ pos2[l] <= pos2[p])
             <=> (\E p \in Stamped : t \in items[p] /\ pos[l] <= pos[p])
  <2>1. PICK p \in Stamped' : t \in items'[p]
    BY <1>5
  <2>2. PICK o \in Stamped : /\ t \in items[o]
                             /\ pos2[l] <= pos2[p] <=> pos[l] <= pos[o]
    BY <1>4, <2>1
  <2>3. ASSUME NEW p3 \in Stamped', t \in items'[p3], pos2[l] <= pos2[p3]
        PROVE  \E x \in Stamped : t \in items[x] /\ pos[l] <= pos[x]
    BY <1>4, <2>3
  <2>4. ASSUME NEW x \in Stamped, t \in items[x], pos[l] <= pos[x]
        PROVE  \E p3 \in Stamped' : t \in items'[p3] /\ pos2[l] <= pos2[p3]
    <3>1. x = o BY <1>6, <2>2, <2>4
    <3> QED BY <2>1, <2>2, <2>4, <3>1
  <2> QED BY <2>3, <2>4
<1> QED BY <1>2, <1>3, <1>7

\* the way on from the unlinked leaves stays what it was
LEMMA TrailTurns ==
  ASSUME NEW r \in Running, NEW S, Safe(r, S),
         NEW pos, NEW pos2, LinkedBy(pos), LinkedBy(pos2)', LinkInv', PageBook',
         form = "chain", form' = "chain", head' = head,
         PagesTurn(Running), LeavesTurn(pos, pos2), Trail(pos, S),
         NEW T, T = Widened(S)'
  PROVE  Trail(pos2, T)'
<1>1. Leads' BY SetLeads, PTL
<1>2. T = S \cup Stamped' \cup {head} /\ S \subseteq Pages
  BY DEF Widened, Safe
<1>3. \A x \in Pages : pos[x] \in Nat /\ pos2[x] \in Nat
  BY DEF LinkedBy, Linked, Ordered
<1>4. \A x, y \in Pages \ Fresh : pos[x] < pos[y] <=> pos2[x] < pos2[y]
  BY DEF LeavesTurn
<1> SUFFICES ASSUME NEW y \in T, kind'[y] = "unlinked", owner'[y] = head
             PROVE  /\ right'[y] \in Pages /\ right'[y] # head
                    /\ kind'[right'[y]] \in {"leaf", "unlinked"}
                    /\ owner'[right'[y]] = head
                    /\ pos2[y] < pos2[right'[y]]
                    /\ \A p \in Stamped' :
                         /\ pos2[p] # pos2[y]
                         /\ pos2[y] < pos2[p] => pos2[right'[y]] <= pos2[p]
  BY DEF Trail, OwnsLeaf
<1>5. y \in S /\ y \in Pages /\ y \notin Stamped' /\ y # head
  BY <1>1, <1>2 DEF Leads, Stamped
<1>6. y \notin Fresh
  BY <1>5, NotReused
<1>7. CASE PageStays(y)
  <2>0. PICK z : z = right[y]
    OBVIOUS
  <2>1. kind[y] = "unlinked" /\ owner[y] = head /\ right'[y] = z
    BY <1>5, <1>7, <2>0 DEF PageStays
  <2>2. /\ OwnsLeaf(z, head) /\ z # head /\ pos[y] < pos[z]
        /\ \A p \in Stamped : /\ pos[p] # pos[y]
                              /\ pos[y] < pos[p] => pos[z] <= pos[p]
    BY <1>5, <2>0, <2>1 DEF Trail
  <2>3. z \in S /\ z \in Pages
    <3>1. z \in Pages BY <2>2 DEF OwnsLeaf
    <3> QED BY <1>5, <2>0, <3>1, NoPageAssumption DEF Safe, RightClosed
  <2>4. z \notin Fresh
    BY <2>3, NotReused
  <2>5. kind'[z] \in {"leaf", "unlinked"} /\ owner'[z] = head
    <3>1. CASE PageStays(z)
      BY <2>2, <3>1 DEF PageStays, OwnsLeaf
    <3>2. CASE PageRaised(z)
      BY <2>2, <3>2 DEF PageRaised
    <3>3. CASE PageUnlinked(z, Running)
      BY <2>2, <3>3 DEF PageUnlinked, OwnsLeaf
    <3>4. CASE PageFreed(z, Running)
      BY <2>2, <3>4 DEF PageFreed, OwnsLeaf
    <3> QED BY <2>3, <3>1, <3>2, <3>3, <3>4, NotReused
  <2>6. pos2[y] < pos2[z]
    BY <1>4, <1>5, <1>6, <2>2, <2>3, <2>4
  <2>7. ASSUME NEW p \in Stamped'
        PROVE  /\ pos2[p] # pos2[y]
               /\ pos2[y] < pos2[p] => pos2[z] <= pos2[p]
    <3>1. PICK o \in Stamped :
            \A x \in Pages \ Fresh : /\ pos2[x] <= pos2[p] <=> pos[x] <= pos[o]
                                     /\ pos2[x] = pos2[p] => pos[x] = pos[o]
      BY DEF LeavesTurn
    <3>2. o \in Pages /\ p \in Pages BY DEF Stamped
    <3>3. /\ pos2[y] <= pos2[p] <=> pos[y] <= pos[o]
          /\ pos2[y] = pos2[p] => pos[y] = pos[o]
          /\ pos2[z] <= pos2[p] <=> pos[z] <= pos[o]
      BY <1>5, <1>6, <2>3, <2>4, <3>1
    <3>4. pos[o] # pos[y] /\ (pos[y] < pos[o] => pos[z] <= pos[o])
      BY <2>2
    <3>5. /\ pos[y] \in Nat /\ pos[z] \in Nat /\ pos[o] \in Nat
          /\ pos2[y] \in Nat /\ pos2[z] \in Nat /\ pos2[p] \in Nat
      BY <1>3, <1>5, <2>3, <3>2
    <3> QED BY <3>3, <3>4, <3>5
  <2> QED BY <2>1, <2>2, <2>3, <2>5, <2>6, <2>7
<1>8. CASE PageUnlinked(y, Running)
  <2>0. PICK z : z = right[y]
    OBVIOUS
  <2>1. /\ y \in Stamped /\ right'[y] = z /\ z \in Stamped' /\ z \in Stamped
        /\ Stamped' \subseteq Stamped \ {y}
    BY <1>8, <2>0 DEF PageUnlinked
  <2>2. /\ kind'[z] = "leaf" /\ owner'[z] = head
        /\ z \in Pages /\ z # NoPage /\ z \notin Fresh
    BY <2>1, NoPageAssumption DEF Stamped, Fresh
  <2>3. z # head
    <3>1. SUFFICES ASSUME z = head PROVE FALSE
      OBVIOUS
    <3>2. kind[head] = "leaf" BY <2>1, <3>1 DEF Stamped
    <3>3. FirstLeaf = head BY <3>2, HeadKind DEF LinkedBy
    <3> QED BY <2>0, <2>1, <3>1, <3>3 DEF LinkedBy, Shape, OneChain, OneLeft
  <2>4. /\ pos[y] < pos[z]
        /\ \A p \in Stamped : pos[y] < pos[p] => pos[z] <= pos[p]
        /\ \A p \in Stamped : pos[p] = pos[y] => p = y
    BY <2>0, <2>1, <2>2 DEF LinkedBy, Linked, Ordered
  <2>5. pos2[y] < pos2[z]
    BY <1>4, <1>5, <1>6, <2>2, <2>4
  <2>6. ASSUME NEW p \in Stamped'
        PROVE  /\ pos2[p] # pos2[y]
               /\ pos2[y] < pos2[p] => pos2[z] <= pos2[p]
    <3>1. p \in Stamped /\ p # y /\ p \in Pages /\ p \notin Fresh
      BY <2>1 DEF Stamped, Fresh
    <3>2. /\ pos[p] < pos[y] <=> pos2[p] < pos2[y]
          /\ pos[y] < pos[p] <=> pos2[y] < pos2[p]
          /\ pos[p] < pos[z] <=> pos2[p] < pos2[z]
      BY <1>4, <1>5, <1>6, <2>2, <3>1
    <3>3. pos[p] # pos[y] /\ (pos[y] < pos[p] => pos[z] <= pos[p])
      BY <2>4, <3>1
    <3>4. /\ pos[y] \in Nat /\ pos[z] \in Nat /\ pos[p] \in Nat
          /\ pos2[y] \in Nat /\ pos2[z] \in Nat /\ pos2[p] \in Nat
      BY <1>3, <1>5, <2>2, <3>1
    <3> QED BY <3>2, <3>3, <3>4
  <2> QED BY <2>1, <2>2, <2>3, <2>5, <2>6
<1>9. ~PageRaised(y) /\ ~PageFreed(y, Running)
  BY <1>5, NoPageAssumption DEF PageRaised, PageFreed
<1> QED BY <1>5, <1>7, <1>8, <1>9, NotReused

\* a count beside a step of the set: what it has and what is to come
LEMMA WalkTurns ==
  ASSUME NEW r \in Running, NEW S, Safe(r, S), NEW T, T = Widened(S)',
         NEW pos, NEW pos2, LinkedBy(pos), LinkedBy(pos2)', PageBook, PageBook',
         Turns(pos, pos2, Running), Inv, Kept, Kept', Walk(r, pos, S),
         UNCHANGED <<pc, snap, from, root, link, img, tally, queue>>
  PROVE  Walk(r, pos2, T)'
<1>1. ASSUME NEW t \in snap[r]
      PROVE  t \in Named /\ t \in Named' /\ t # ins
  <2>1. t \in Tids /\ r \in Readers
    BY DEF Inv, SessionTypes, Running
  <2>2. t \in Named /\ t \in Named' /\ row[t] \in {"live", "gone"}
    BY <1>1, <2>1 DEF Kept
  <2>3. t # ins
    BY <2>1, <2>2, NoTidAssumption DEF Inv, Heap
  <2> QED BY <2>2, <2>3
<1>2. /\ Window(r, snap[r])' = Window(r, snap[r])
      /\ \A D : Tallied(r, D)' <=> Tallied(r, D)
  BY DEF Window, Tallied
<1>3. LinkInv' /\ OnceEach /\ Shape' /\ Leads'
  <2>1. LinkInv' BY DEF LinkInv
  <2>2. Leads' BY <2>1, SetLeads, PTL
  <2> QED BY <2>1, <2>2 DEF PageBook, LinkedBy
<1>4. CASE snap[r] = {} \/ link[r] = NoPage
  <2>1. Ahead(r, pos) = {} /\ Ahead(r, pos2)' = {}
    BY <1>4 DEF Ahead
  <2> QED BY <1>2, <1>4, <2>1 DEF Walk
<1>5. CASE pc[r] \notin {"root", "leaf", "items", "next"}
  BY <1>2, <1>5 DEF Walk
<1>6. CASE snap[r] # {} /\ link[r] # NoPage /\ pc[r] \in {"root", "leaf", "items", "next"}
  <2>1. /\ form = "chain" /\ root[r] = head /\ Trail(pos, S)
        /\ pc[r] # "root" => link[r] # head /\ OwnsLeaf(link[r], head)
    BY <1>6 DEF Walk, OnTheWay
  <2>2. form' = "chain" /\ head' = head
    BY <1>1, <1>6, <2>1 DEF Turns, SetStays
  <2>3. link[r] \in S
    BY <1>6 DEF Safe
  <2>4. PagesTurn(Running) /\ LeavesTurn(pos, pos2)
    BY DEF Turns
  <2>5. Ahead(r, pos2)' = Ahead(r, pos)
    BY <1>1, <1>3, <2>1, <2>2, <2>3, <2>4, AheadTurns
  <2>6. Trail(pos2, T)'
    BY <1>3, <2>1, <2>2, <2>4, TrailTurns
  <2>7. ASSUME pc[r] # "root"
        PROVE  link[r] # head /\ OwnsLeaf(link[r], head)'
    <3>1. PICK l : l = link[r]
      OBVIOUS
    <3>2. l # head /\ OwnsLeaf(l, head) /\ l \in S
      BY <2>1, <2>3, <2>7, <3>1
    <3>3. kind'[l] \in {"leaf", "unlinked"} /\ owner'[l] = head
      <4>1. CASE PageStays(l)
        BY <3>2, <4>1 DEF PageStays, OwnsLeaf
      <4>2. CASE PageRaised(l)
        BY <3>2, <4>2 DEF PageRaised
      <4>3. CASE PageUnlinked(l, Running)
        BY <3>2, <4>3 DEF PageUnlinked, OwnsLeaf
      <4>4. CASE PageFreed(l, Running)
        BY <2>1, <3>2, <4>4 DEF PageFreed, OwnsLeaf
      <4> QED BY <2>4, <3>2, <4>1, <4>2, <4>3, <4>4, NotReused
    <3> QED BY <2>2, <3>1, <3>2, <3>3 DEF OwnsLeaf
  <2>8. OnTheWay(r, pos2, T)'
    BY <2>1, <2>2, <2>6, <2>7 DEF OnTheWay
  <2> QED BY <1>2, <1>6, <2>5, <2>8 DEF Walk
<1> QED BY <1>4, <1>5, <1>6

(* A step of the set beside counts keeps what holds of each of them.        *)
LEMMA TurnsKeepReads ==
  ASSUME NEW sound, NEW pos, NEW pos2, LinkedBy(pos), LinkedBy(pos2)', PageBook,
         PageBook', Turns(pos, pos2, Running), Inv, Kept, Kept', ReaderTypes,
         UNCHANGED readerVars, NEW r \in Readers, Reads(r, pos, sound)
  PROVE  Reads(r, pos2, sound)'
<1>1. UNCHANGED <<pc, snap, from, root, link, img, tally, queue>>
  BY DEF readerVars
<1>2. CASE r \notin Running
  <2>1. pc[r] = "idle" /\ link[r] = NoPage /\ snap[r] = {}
    BY <1>2 DEF Running, ReaderTypes
  <2>2. Safe(r, {})'
    BY <1>1, <2>1 DEF Safe, RightClosed
  <2>3. Walk(r, pos2, {})'
    BY <1>1, <2>1 DEF Walk
  <2> QED BY <2>2, <2>3 DEF Reads
<1>3. CASE r \in Running
  <2>1. PICK S : Safe(r, S) /\ (sound \/ from[r] = 0 => Walk(r, pos, S))
    BY DEF Reads
  <2>2. PICK T : T = Widened(S)'
    OBVIOUS
  <2>3. LinkInv' /\ PagesTurn(Running)
    BY DEF LinkInv, Turns
  <2>4. Safe(r, T)'
    BY <1>1, <1>3, <2>1, <2>2, <2>3, SafeTurns
  <2>5. sound' \/ from'[r] = 0 => Walk(r, pos2, T)'
    BY <1>1, <1>3, <2>1, <2>2, WalkTurns
  <2> QED BY <2>4, <2>5 DEF Reads
<1> QED BY <1>2, <1>3
-----------------------------------------------------------------------------
(* Every step of the set *)

\* a record of an insertion, the numbers it leaves and what it does to the pages
LEMMA InsertStepTurns ==
  ASSUME NEW pos, LinkedBy(pos), NEW live, InsertStep(live), DOMAIN stamp = Pages
  PROVE  \E pos2 : /\ LinkedBy(pos2)' /\ Turns(pos, pos2, live)
                   /\ RoutedBy(pos) /\ ~PromotesBeforeEmpty => RoutedBy(pos2)'
<1>0. Leaves \subseteq Pages
  BY DEF Leaves
<1>1. CASE InsertNewEntry \/ InsertInline
  <2>1. LinkedBy(pos)' /\ form' # "chain"
    BY <1>1, InlineLinks
  <2>2. Turns(pos, pos, live)
    BY <1>1, EntryTurns
  <2> QED BY <2>1, <2>2 DEF RoutedBy
<1>2. CASE \E q \in Pages : Spill(q)
  <2>1. PICK q \in Pages : Spill(q) BY <1>2
  <2>2. PICK pos2 : pos2 = OnePage
    OBVIOUS
  <2>3. LinkedBy(OnePage)' /\ RoutedBy(OnePage)'
    BY <2>1, SpillLinks, SpillRoutes
  <2>4. OnePage' = OnePage
    BY DEF OnePage
  <2>5. LinkedBy(pos2)' /\ RoutedBy(pos2)'
    BY <2>2, <2>3, <2>4
  <2>6. Turns(pos, pos2, live)
    BY <2>1, SpillTurns
  <2> QED BY <2>5, <2>6
<1>3. CASE InsertOnTail
  <2>1. Turns(pos, pos, live) BY <1>3, PutTurns
  <2> QED BY <1>3, <2>1, OnTailLinks, OnTailRoutes
<1>4. CASE \E p \in Leaves : InsertOnLeaf(p)
  <2>1. Turns(pos, pos, live) BY <1>4, PutTurns
  <2> QED BY <1>4, <2>1, OnLeafLinks, OnLeafRoutes
<1>5. CASE \E p \in Leaves, q \in Pages : Promote(p, q, live)
  <2>1. PICK p \in Leaves, q \in Pages : Promote(p, q, live) BY <1>5
  <2>2. PICK pos2 : pos2 = AfterPromote(pos, head, q)
    OBVIOUS
  <2>3. LinkedBy(pos2)' BY <2>1, <2>2, PromoteLinks
  <2>4. RoutedBy(pos) /\ ~PromotesBeforeEmpty => RoutedBy(pos2)'
    BY <2>1, <2>2, PromoteRoutes
  <2>5. Turns(pos, pos2, live) BY <2>1, <2>2, PromoteTurns
  <2> QED BY <2>3, <2>4, <2>5
<1>6. CASE \E p \in Leaves, q \in Pages : Split(p, q, live)
  <2>1. PICK p \in Leaves, q \in Pages : Split(p, q, live) BY <1>6
  <2>2. PICK pos2 : pos2 = AfterSplit(pos, p, q)
    OBVIOUS
  <2>3. LinkedBy(pos2)' BY <2>1, <2>2, SplitLinks
  <2>4. RoutedBy(pos) => RoutedBy(pos2)'
    BY <2>1, <2>2, SplitRoutes
  <2>5. Turns(pos, pos2, live) BY <2>1, <2>2, SplitTurns
  <2> QED BY <2>3, <2>4, <2>5
<1>7. CASE \E p \in Leaves : PlaceDownlink(p)
  <2>1. PICK p \in Leaves : PlaceDownlink(p) BY <1>7
  <2>2. LinkedBy(pos)' /\ (RoutedBy(pos) => RoutedBy(pos)')
    BY <1>0, <2>1, PlaceLinks, PlaceRoutes
  <2>3. Turns(pos, pos, live) BY <2>1, PlaceTurns
  <2> QED BY <2>2, <2>3
<1>8. CASE \E p \in Leaves : ClearSplit(p)
  <2>1. Turns(pos, pos, live) BY <1>8, PutTurns
  <2> QED BY <1>0, <1>8, <2>1, ClearLinks, ClearRoutes
<1> QED BY <1>1, <1>2, <1>3, <1>4, <1>5, <1>6, <1>7, <1>8 DEF InsertStep

\* a step of the set that is not an insertion's record
OtherStep(live) ==
  \/ \E t \in Tids \ Indexed : InsertBegin(t)
  \/ InsertFails
  \/ \E gone : FilterInline(gone)
  \/ \E p \in Pages : \E gone : FilterPage(p, gone)
  \/ \E p \in Leaves : UnlinkLeaf(p, live)
  \/ DeleteEntry
  \/ \E p \in Pages : FreePage(p, live)
  \/ UNCHANGED postingVars

\* those keep the numbers
LEMMA OtherStepTurns ==
  ASSUME NEW pos, LinkedBy(pos), NEW live, OtherStep(live), DOMAIN stamp = Pages
  PROVE  /\ LinkedBy(pos)' /\ Turns(pos, pos, live)
         /\ RoutedBy(pos) => RoutedBy(pos)'
<1>0. Leaves \subseteq Pages
  BY DEF Leaves
<1>1. CASE \E t \in Tids \ Indexed : InsertBegin(t)
  <2>1. Turns(pos, pos, live) BY <1>1, PutTurns
  <2> QED BY <1>1, <2>1, BeginLinks, BeginRoutes
<1>2. CASE InsertFails
  <2>1. Turns(pos, pos, live) BY <1>2, PutTurns
  <2> QED BY <1>2, <2>1, FailsLinks, BeginRoutes
<1>3. CASE \E gone : FilterInline(gone)
  <2>1. LinkedBy(pos)' /\ form' # "chain"
    BY <1>3, InlineLinks
  <2>2. Turns(pos, pos, live)
    BY <1>3, EntryTurns
  <2> QED BY <2>1, <2>2 DEF RoutedBy
<1>4. CASE \E p \in Pages : \E gone : FilterPage(p, gone)
  <2>1. PICK p, gone : p \in Pages /\ FilterPage(p, gone) BY <1>4
  <2>2. Turns(pos, pos, live) BY <2>1, FilterTurns
  <2>3. LinkedBy(pos)' BY <2>1, FilterLinks
  <2>4. RoutedBy(pos) => RoutedBy(pos)' BY <2>1, FilterRoutes
  <2> QED BY <2>2, <2>3, <2>4
<1>5. CASE \E p \in Leaves : UnlinkLeaf(p, live)
  <2>1. PICK p \in Leaves : UnlinkLeaf(p, live) BY <1>5
  <2>2. Turns(pos, pos, live) BY <2>1, UnlinkTurns
  <2>3. LinkedBy(pos)' BY <2>1, UnlinkLinks
  <2>4. RoutedBy(pos) => RoutedBy(pos)' BY <2>1, UnlinkRoutes
  <2> QED BY <2>2, <2>3, <2>4
<1>6. CASE DeleteEntry
  <2>1. LinkedBy(pos)' /\ form' # "chain"
    BY <1>6, DeleteLinks
  <2>2. Turns(pos, pos, live)
    BY <1>6, EntryTurns
  <2> QED BY <2>1, <2>2 DEF RoutedBy
<1>7. CASE \E p \in Pages : FreePage(p, live)
  <2>1. PICK p \in Pages : FreePage(p, live) BY <1>7
  <2>2. Turns(pos, pos, live) BY <2>1, FreeTurns
  <2>3. LinkedBy(pos)' BY <2>1, FreeLinks
  <2>4. RoutedBy(pos) => RoutedBy(pos)' BY <2>1, FreeRoutes
  <2> QED BY <2>2, <2>3, <2>4
<1>8. CASE UNCHANGED postingVars
  <2>1. Turns(pos, pos, live) BY <1>8, PutTurns
  <2> QED BY <1>8, <2>1, IdleFollows
<1> QED
  BY <1>1, <1>2, <1>3, <1>4, <1>5, <1>6, <1>7, <1>8 DEF OtherStep

\* the pages' books are kept by both
LEMMA BookKept ==
  ASSUME NEW pos, LinkedBy(pos), PageBook, NEW live,
         InsertStep(live) \/ OtherStep(live),
         NEW pos2, LinkedBy(pos2)', Turns(pos, pos2, live)
  PROVE  PageBook'
<1>1. DOMAIN stamp' = Pages
  <2>1. DOMAIN stamp = Pages BY DEF PageBook
  <2>2. \/ UNCHANGED stamp
        \/ \E p, S : stamp' = [stamp EXCEPT ![p] = S]
    <3>1. CASE InsertStep(live)
      BY <3>1 DEF InsertStep, InsertNewEntry, InsertInline, Spill, NewLeaf,
           InsertOnTail, InsertOnLeaf, PutOn, Promote, Split, PlaceDownlink,
           ClearSplit, pageVars
    <3>2. CASE OtherStep(live)
      BY <3>2 DEF OtherStep, InsertBegin, InsertFails, FilterInline, FilterPage,
           UnlinkLeaf, DeleteEntry, FreePage, pageVars, postingVars
    <3> QED BY <3>1, <3>2
  <2> QED BY <2>1, <2>2
<1>2. \A p \in Pages : kind'[p] = "inner" =>
        Len(down'[p]) \in Nat \ {0} /\ right'[p] = NoPage
  <2>1. PagesTurn(live) /\ Shape'
    BY DEF Turns, LinkedBy
  <2> QED BY <2>1, InnerKept
<1>3. OnceEach'
  <2>1. CASE InsertStep(live)
    BY <2>1, InsertOnce DEF PageBook
  <2>2. CASE OtherStep(live)
    <3>1. OnceEach BY DEF PageBook
    <3> QED BY <2>2, <3>1, RestOnce DEF OtherStep
  <2> QED BY <2>1, <2>2
<1> QED BY <1>1, <1>2, <1>3 DEF PageBook
-----------------------------------------------------------------------------
(* Everybody but the counts *)

Aside == \/ \E t \in Tids : HeapStep(t)
         \/ \E b \in Blocks : SetAllVisible(b)
         \/ IndexInsertStep
         \/ IndexInsertFails
         \/ VacuumStep
         \/ UNCHANGED vars

\* it is a step of the set, or leaves the set alone, and is not a count's
LEMMA AsideSteps ==
  ASSUME Inv, Aside
  PROVE  UNCHANGED readerVars /\ (InsertStep(Running) \/ OtherStep(Running))
<1>1. CASE \E t \in Tids : HeapInsert(t) \/ Commit(t) \/ Abort(t) \/ Delete(t)
  BY <1>1 DEF HeapInsert, Commit, Abort, Delete, OtherStep
<1>2. CASE \E t \in Tids : IndexInsertBegin(t)
  BY <1>2 DEF IndexInsertBegin, OtherStep
<1>3. CASE \E b \in Blocks : SetAllVisible(b)
  BY <1>3 DEF SetAllVisible, OtherStep
<1>4. CASE IndexInsertStep \/ IndexInsertFails
  BY <1>4 DEF IndexInsertStep, IndexInsertFails, OtherStep
<1>5. CASE VacuumBegin \/ VacuumRoot \/ VacuumRestart \/ VacuumReap \/ VacuumFails
  BY <1>5 DEF VacuumBegin, VacuumRoot, PassRoot, VacuumRestart, PassRestart,
       VacuumReap, VacuumFails, OtherStep
<1>6. CASE VacuumEntry
  BY <1>6 DEF VacuumEntry, PassEntry, OtherStep
<1>7. CASE VacuumPage
  <2>1. FilterPage(vpage, vdead) /\ UNCHANGED readerVars /\ vpc = "page"
    BY <1>7 DEF VacuumPage, PassPage
  <2>2. vpage \in Pages
    BY <2>1 DEF FilterPage, Inv, WalkAhead, Stamped
  <2> QED BY <2>1, <2>2 DEF OtherStep
<1>8. CASE VacuumUnlink
  <2>1. /\ UNCHANGED readerVars
        /\ UNCHANGED postingVars \/ UnlinkLeaf(Head(vempty), Running)
    BY <1>8 DEF VacuumUnlink
  <2>2. UnlinkLeaf(Head(vempty), Running) => Head(vempty) \in Leaves
    BY DEF UnlinkLeaf, MayUnlink
  <2> QED BY <2>1, <2>2 DEF OtherStep
<1>9. CASE VacuumDelete
  BY <1>9 DEF VacuumDelete, PassDelete, OtherStep
<1>10. CASE \E p \in Pages : VacuumFree(p)
  BY <1>10 DEF VacuumFree, OtherStep
<1>11. CASE UNCHANGED vars
  BY <1>11 DEF vars, OtherStep
<1> QED BY <1>1, <1>2, <1>3, <1>4, <1>5, <1>6, <1>7, <1>8, <1>9, <1>10, <1>11
        DEF Aside, HeapStep, VacuumStep

\* a row a snapshot sees stays in the set: VACUUM removes only rows no
\* snapshot sees, and no step of the set loses one
LEMMA AsideKept ==
  ASSUME NEW pos, LinkedBy(pos), Inv, Kept, ReaderTypes, Aside
  PROVE  Kept'
<1>0. /\ Named = Indexed /\ snap' = snap /\ pc' = pc
      /\ snap \in [Readers -> SUBSET Tids]
      /\ row \in [Tids -> {"unused", "doing", "live", "gone"}]
  BY NamedIndexed, AsideSteps DEF LinkedBy, readerVars, Inv, SessionTypes
<1>1. /\ \A t \in vdead : row[t] = "gone"
      /\ \A t \in Tids, r \in Readers : t \in snap[r] =>
           t \in Named /\ t \notin vdead /\ row[t] \in {"live", "gone"}
      /\ \A t \in Tids : row[t] = "live" => t \in Named /\ t \notin vdead
  BY DEF Inv, Heap, Kept
<1> SUFFICES ASSUME NEW t \in Tids,
                    row'[t] = "live" \/ (\E r \in Readers : t \in snap[r])
             PROVE  t \in Named' /\ t \notin vdead' /\ row'[t] \in {"live", "gone"}
  BY <1>0 DEF Kept
<1>2. CASE \E x \in Tids : HeapInsert(x) \/ Commit(x) \/ Abort(x) \/ Delete(x)
  <2>1. PICK x \in Tids : HeapInsert(x) \/ Commit(x) \/ Abort(x) \/ Delete(x)
    BY <1>2
  <2>2. UNCHANGED <<postingVars, vacuumVars>>
    BY <2>1 DEF HeapInsert, Commit, Abort, Delete
  <2>3. Named' = Named /\ vdead' = vdead
    BY <2>2 DEF Named, postingVars, vacuumVars
  <2>4. \/ row[x] = "unused" /\ row' = [row EXCEPT ![x] = "doing"]
        \/ row[x] = "doing" /\ x \in Named /\ row' = [row EXCEPT ![x] = "live"]
        \/ row[x] \in {"doing", "live"} /\ row' = [row EXCEPT ![x] = "gone"]
    BY <1>0, <2>1 DEF HeapInsert, Commit, Abort, Delete
  <2> QED BY <1>0, <1>1, <2>3, <2>4
<1>3. CASE (\E b \in Blocks : SetAllVisible(b)) \/ UNCHANGED vars
  <2>1. UNCHANGED <<postingVars, vacuumVars, row>>
    BY <1>3 DEF SetAllVisible, vars, heapVars
  <2>2. Named' = Named /\ vdead' = vdead
    BY <2>1 DEF Named, postingVars, vacuumVars
  <2> QED BY <1>0, <1>1, <2>1, <2>2
<1>4. CASE \E x \in Tids : IndexInsertBegin(x)
  <2>1. UNCHANGED <<inl, items, row, vdead>>
    BY <1>4 DEF IndexInsertBegin, InsertBegin, entryVars, pageVars, heapVars,
         vacuumVars
  <2>2. Named' = Named
    BY <2>1 DEF Named
  <2> QED BY <1>1, <2>1, <2>2
<1>5. CASE IndexInsertStep
  <2>1. UNCHANGED <<row, vdead>> /\ InsertStep(Running)
    BY <1>5 DEF IndexInsertStep, heapVars, vacuumVars
  <2>2. Named \subseteq Named'
    BY <2>1, InsertKeepsNamed
  <2> QED BY <1>1, <2>1, <2>2
<1>6. CASE IndexInsertFails
  <2>1. UNCHANGED <<inl, items, vdead>> /\ row' = [row EXCEPT ![ins] = "gone"]
    BY <1>6 DEF IndexInsertFails, InsertFails, entryVars, pageVars, vacuumVars
  <2>2. Named' = Named
    BY <2>1 DEF Named
  <2>3. row'[t] = "live" => row[t] = "live"
    BY <1>0, <2>1
  <2> QED BY <1>0, <1>1, <2>1, <2>2, <2>3
<1>7. CASE VacuumBegin
  <2>1. /\ UNCHANGED <<inl, items, row>>
        /\ vdead' = {x \in Tids : row[x] = "gone" /\ \A r \in Running : x \notin snap[r]}
    BY <1>7 DEF VacuumBegin, postingVars, heapVars
  <2>2. Named' = Named
    BY <2>1 DEF Named
  <2>3. \A r \in Readers : r \in Running \/ snap[r] = {}
    BY DEF Running, ReaderTypes
  <2> QED BY <1>1, <2>1, <2>2, <2>3
<1>8. CASE VacuumReap \/ VacuumFails
  <2>1. /\ UNCHANGED <<inl, items>> /\ vdead' = {}
        /\ \A x \in Tids : x \notin vdead => row'[x] = row[x]
        /\ \A x \in Tids : row'[x] = "live" => row[x] = "live"
    BY <1>0, <1>8 DEF VacuumReap, VacuumFails, postingVars, heapVars
  <2>2. Named' = Named
    BY <2>1 DEF Named
  <2> QED BY <1>1, <2>1, <2>2
<1>9. CASE VacuumRoot \/ VacuumRestart
  <2>1. UNCHANGED <<inl, items, row, vdead>>
    BY <1>9 DEF VacuumRoot, PassRoot, VacuumRestart, PassRestart, postingVars,
         heapVars
  <2>2. Named' = Named
    BY <2>1 DEF Named
  <2> QED BY <1>1, <2>1, <2>2
<1>10. CASE VacuumEntry
  <2>1. /\ UNCHANGED <<row, vdead>>
        /\ UNCHANGED postingVars \/ FilterInline(vdead)
    BY <1>10 DEF VacuumEntry, PassEntry, heapVars
  <2>2. Named \ vdead \subseteq Named'
    BY <2>1 DEF Named, FilterInline, postingVars, pageVars
  <2> QED BY <1>1, <2>1, <2>2
<1>11. CASE VacuumPage
  <2>1. UNCHANGED <<row, vdead>> /\ FilterPage(vpage, vdead)
    BY <1>11 DEF VacuumPage, PassPage, heapVars
  <2>2. inl' = inl /\ \A p \in Pages : items[p] \ vdead \subseteq items'[p]
    BY <2>1 DEF FilterPage, entryVars, LinkedBy, Shape, PageTypes
  <2>3. Named \ vdead \subseteq Named'
    BY <2>2 DEF Named
  <2> QED BY <1>1, <2>1, <2>3
<1>12. CASE VacuumUnlink \/ \E p \in Pages : VacuumFree(p)
  <2>1. UNCHANGED <<row, vdead, inl, items>>
    BY <1>12 DEF VacuumUnlink, VacuumFree, UnlinkLeaf, FreePage, heapVars,
         vacuumVars, entryVars, postingVars
  <2>2. Named' = Named
    BY <2>1 DEF Named
  <2> QED BY <1>1, <2>1, <2>2
<1>13. CASE VacuumDelete
  <2>1. UNCHANGED <<row, vdead>> /\ (DeleteEntry \/ UNCHANGED postingVars)
    BY <1>13 DEF VacuumDelete, PassDelete, heapVars
  <2>2. CASE DeleteEntry
    BY <1>0, <1>1, <2>1, <2>2 DEF DeleteEntry
  <2>3. CASE UNCHANGED postingVars
    <3>1. Named' = Named
      BY <2>3 DEF Named, postingVars
    <3> QED BY <1>1, <2>1, <3>1
  <2> QED BY <2>1, <2>2, <2>3
<1> QED BY <1>2, <1>3, <1>4, <1>5, <1>6, <1>7, <1>8, <1>9, <1>10, <1>11, <1>12,
           <1>13 DEF Aside, HeapStep, VacuumStep

(* Every step but a count's keeps the invariant.                            *)
LEMMA AsideCounts ==
  ASSUME NEW sound \in BOOLEAN, CountInv(sound), Aside, Inv',
         sound => ~PromotesBeforeEmpty
  PROVE  CountInv(sound)'
<1>1. PICK pos : Counts(pos, sound)
  BY DEF CountInv
<1>2. /\ Inv /\ PageBook /\ Kept /\ ReaderTypes /\ LinkedBy(pos)
      /\ (sound => RoutedBy(pos)) /\ \A r \in Readers : Reads(r, pos, sound)
  BY <1>1 DEF CountInv, Counts
<1>3. UNCHANGED readerVars /\ (InsertStep(Running) \/ OtherStep(Running))
  BY <1>2, AsideSteps
<1>4. DOMAIN stamp = Pages
  BY <1>2 DEF PageBook
<1>5. PICK pos2 : /\ LinkedBy(pos2)' /\ Turns(pos, pos2, Running)
                  /\ RoutedBy(pos) /\ ~PromotesBeforeEmpty => RoutedBy(pos2)'
                  /\ InsertStep(Running) \/ pos2 = pos
  BY <1>2, <1>3, <1>4, InsertStepTurns, OtherStepTurns
<1>6. sound => RoutedBy(pos2)'
  BY <1>2, <1>5
<1>7. PageBook'
  BY <1>2, <1>3, <1>5, BookKept
<1>8. Kept'
  BY <1>2, AsideKept
<1>9. ReaderTypes'
  BY <1>2, <1>3 DEF ReaderTypes, NothingYet, readerVars
<1>10. \A r \in Readers : Reads(r, pos2, sound)'
  BY <1>2, <1>3, <1>5, <1>7, <1>8, TurnsKeepReads
<1>11. Counts(pos2, sound)'
  BY <1>5, <1>6, <1>10 DEF Counts
<1> QED BY <1>7, <1>8, <1>9, <1>11 DEF CountInv
-----------------------------------------------------------------------------
(* Where a count goes *)

\* of the rows r's snapshot sees, those at or right of page l
At(r, pos, l) ==
  {t \in snap[r] : l # NoPage /\ \E p \in Stamped : t \in items[p] /\ pos[l] <= pos[p]}

\* what is right of page l, a leaf of the set or one that was
LEMMA PastPage ==
  ASSUME NEW pos, LinkedBy(pos), form = "chain", NEW S, Trail(pos, S), NEW l \in S,
         OwnsLeaf(l, head)
  PROVE  /\ right[l] # NoPage => OwnsLeaf(right[l], head) /\ right[l] # head
         /\ l \notin Stamped => items[l] = {}
         /\ \A p \in Stamped :
              pos[l] <= pos[p] <=>
                p = l \/ (right[l] # NoPage /\ pos[right[l]] <= pos[p])
         /\ l \in Stamped /\ right[l] # NoPage => ~(pos[right[l]] <= pos[l])
<1>0. /\ l \in Pages /\ Ordered(pos) /\ RightClosed(Stamped) /\ OneLeft
      /\ \A p \in Pages : pos[p] \in Nat
      /\ Stamped \subseteq Pages
  BY DEF OwnsLeaf, LinkedBy, Linked, Ordered, Shape, OneChain, Stamped
<1>1. l \notin Stamped => items[l] = {}
  BY <1>0 DEF LinkedBy, Shape, Ownership
<1>2. CASE l \in Stamped
  <2>1. right[l] # NoPage => right[l] \in Stamped
    BY <1>0, <1>2 DEF RightClosed
  <2>2. right[l] \in Stamped => right[l] # head
    <3>1. SUFFICES ASSUME right[l] \in Stamped, right[l] = head PROVE FALSE
      OBVIOUS
    <3>2. kind[head] = "leaf" BY <3>1 DEF Stamped
    <3>3. FirstLeaf = head BY <3>2, HeadKind DEF LinkedBy
    <3> QED BY <1>0, <1>2, <3>1, <3>3 DEF OneLeft
  <2>3. /\ \A p \in Stamped : pos[p] = pos[l] => p = l
        /\ right[l] # NoPage => pos[l] < pos[right[l]]
        /\ \A p \in Stamped : pos[l] < pos[p] =>
             right[l] # NoPage /\ pos[right[l]] <= pos[p]
    BY <1>0, <1>2 DEF Ordered
  <2>4. ASSUME NEW p \in Stamped
        PROVE  pos[l] <= pos[p] <=>
                 p = l \/ (right[l] # NoPage /\ pos[right[l]] <= pos[p])
    <3>1. pos[p] \in Nat /\ pos[l] \in Nat
      BY <1>0
    <3>2. right[l] # NoPage => pos[right[l]] \in Nat
      BY <1>0, <2>1
    <3> QED BY <2>3, <3>1, <3>2
  <2>5. right[l] # NoPage => ~(pos[right[l]] <= pos[l])
    <3>1. right[l] # NoPage => pos[right[l]] \in Nat /\ pos[l] \in Nat
      BY <1>0, <2>1
    <3> QED BY <2>3, <3>1
  <2> QED BY <1>1, <2>1, <2>2, <2>4, <2>5 DEF OwnsLeaf, Stamped
<1>3. CASE l \notin Stamped
  <2>1. kind[l] = "unlinked" /\ owner[l] = head
    BY <1>0, <1>3 DEF OwnsLeaf, Stamped
  <2>2. /\ OwnsLeaf(right[l], head) /\ right[l] # head
        /\ pos[l] < pos[right[l]]
        /\ \A p \in Stamped : /\ pos[p] # pos[l]
                              /\ pos[l] < pos[p] => pos[right[l]] <= pos[p]
    BY <2>1 DEF Trail
  <2>3. right[l] \in Pages /\ right[l] # NoPage
    BY <2>2, NoPageAssumption DEF OwnsLeaf
  <2>4. ASSUME NEW p \in Stamped
        PROVE  pos[l] <= pos[p] <=>
                 p = l \/ (right[l] # NoPage /\ pos[right[l]] <= pos[p])
    <3>1. pos[p] \in Nat /\ pos[l] \in Nat /\ pos[right[l]] \in Nat /\ p # l
      BY <1>0, <1>3, <2>3
    <3> QED BY <2>2, <2>3, <3>1
  <2> QED BY <1>1, <1>3, <2>2, <2>4
<1> QED BY <1>2, <1>3

\* a step to the right leaves the rows of page l behind
LEMMA StepRight ==
  ASSUME NEW pos, LinkedBy(pos), form = "chain", NEW S, Trail(pos, S), NEW l \in S,
         OwnsLeaf(l, head), OnceEach, NEW r \in Readers
  PROVE  At(r, pos, right[l]) = At(r, pos, l) \ items[l]
<1>1. l \in Pages /\ l # NoPage /\ Stamped \subseteq Pages
  BY NoPageAssumption DEF OwnsLeaf, Stamped
<1>2. \A p \in Stamped : p # l => items[p] \cap items[l] = {}
  BY <1>1 DEF OnceEach
<1>3. /\ \A p \in Stamped :
           pos[l] <= pos[p] <=>
             p = l \/ (right[l] # NoPage /\ pos[right[l]] <= pos[p])
      /\ l \in Stamped /\ right[l] # NoPage => ~(pos[right[l]] <= pos[l])
  BY PastPage
<1>4. ASSUME NEW t \in At(r, pos, right[l])
      PROVE  t \in At(r, pos, l) /\ t \notin items[l]
  <2>1. PICK p \in Stamped : t \in items[p] /\ pos[right[l]] <= pos[p]
    BY <1>4 DEF At
  <2>2. right[l] # NoPage /\ t \in snap[r]
    BY <1>4 DEF At
  <2>3. p # l
    BY <1>3, <2>1, <2>2
  <2> QED BY <1>1, <1>2, <1>3, <2>1, <2>2, <2>3 DEF At
<1>5. ASSUME NEW t \in At(r, pos, l), t \notin items[l]
      PROVE  t \in At(r, pos, right[l])
  <2>1. PICK p \in Stamped : t \in items[p] /\ pos[l] <= pos[p]
    BY <1>5 DEF At
  <2>2. p # l /\ t \in snap[r]
    BY <1>5, <2>1 DEF At
  <2> QED BY <1>3, <2>1, <2>2 DEF At
<1> QED BY <1>4, <1>5

\* rows the snapshot sees are on leaves
LEMMA SeenOnLeaves ==
  ASSUME Inv, Kept, form = "chain", NEW r \in Readers, NEW t \in snap[r]
  PROVE  t \in Tids /\ BlockOf[t] \in Nat /\ \E p \in Stamped : t \in items[p]
<1>1. t \in Tids
  BY DEF Inv, SessionTypes
<1>2. BlockOf[t] \in Nat
  BY <1>1, BlockAssumption
<1>3. t \in Named
  BY <1>1 DEF Kept
<1>4. inl = {} /\ \A p \in Pages : items[p] # {} => p \in Stamped
  BY DEF Inv, Shape, Ownership
<1> QED BY <1>1, <1>2, <1>3, <1>4 DEF Named

\* a descent for the first key leaves none of the window's rows to its left
LEMMA Landing ==
  ASSUME NEW pos, LinkedBy(pos), Inv, Kept, form = "chain", kind[head] = "inner",
         NEW r \in Readers, from[r] \in Nat, from[r] = 0 \/ Separated(pos)
  PROVE  /\ WriterLeaf(from[r]) \in Stamped
         /\ Window(r, snap[r]) \subseteq At(r, pos, WriterLeaf(from[r]))
<1> DEFINE k == from[r]
<1>1. Shape /\ Ordered(pos) /\ Downlinks(pos) /\ Lands(pos, 0)
  BY DEF LinkedBy, Linked
<1>2. PICK n \in Positions :
        /\ WriterLeaf(k) = Child(n) /\ WriterLeaf(k) \in Stamped
        /\ n = 1 \/ Sep(n) <= k
  <2> DEFINE at == {i \in 1..Len(down[head]) : down[head][i].sep <= k}
             n == DownlinkOff(down[head], k)
  <2>1. 1 \in Positions /\ Len(down[head]) \in Nat /\ ~Flat
    BY <1>1, HeadKind
  <2>2. n = IF at = {} THEN 1 ELSE CHOOSE i \in at : \A j \in at : j <= i
    BY DEF DownlinkOff
  <2>3. n \in Positions /\ (n = 1 \/ Sep(n) <= k)
    <3>1. CASE at = {}
      BY <2>1, <2>2, <3>1
    <3>2. CASE at # {}
      <4>1. at \in SUBSET (1..Len(down[head]))
        OBVIOUS
      <4> HIDE DEF at, n
      <4>2. n \in at
        BY <2>1, <2>2, <3>2, <4>1, LastPosition
      <4> QED BY <4>2 DEF at, Positions, Sep
    <3> QED BY <3>1, <3>2
  <2>4. WriterLeaf(k) = Child(n)
    BY <2>1 DEF WriterLeaf, Child
  <2> HIDE DEF n
  <2> QED BY <1>1, <2>3, <2>4 DEF Downlinks
<1>3. ASSUME NEW p \in Stamped, pos[p] < pos[WriterLeaf(k)], NEW x \in items[p]
      PROVE  BlockOf[x] < k
  <2>1. pos[p] \in Nat /\ pos[WriterLeaf(k)] \in Nat
    BY <1>1, <1>2 DEF Ordered, Stamped
  <2>2. CASE n = 1
    <3>1. Child(n) = FirstLeaf
      BY <1>1, <2>2, HeadKind
    <3>2. pos[FirstLeaf] <= pos[p]
      BY <1>1, FirstLowest
    <3> QED BY <1>2, <1>3, <2>1, <3>1, <3>2
  <2>3. CASE Sep(n) <= k /\ from[r] = 0
    BY <1>1, <1>2, <1>3, <2>3 DEF Lands
  <2>4. CASE Sep(n) <= k /\ Separated(pos)
    <3>1. BlockOf[x] < Sep(n)
      BY <1>2, <1>3, <2>4 DEF Separated
    <3>2. BlockOf[x] \in Nat /\ Sep(n) \in Nat
      BY <1>1, <1>2, DownTypes, BlockAssumption DEF Shape, PageTypes, Stamped
    <3> QED BY <2>4, <3>1, <3>2
  <2> QED BY <1>2, <2>2, <2>3, <2>4
<1>4. WriterLeaf(k) # NoPage
  BY <1>2, NoPageAssumption DEF Stamped
<1>5. ASSUME NEW t \in Window(r, snap[r])
      PROVE  t \in At(r, pos, WriterLeaf(k))
  <2>1. t \in snap[r] /\ BlockOf[t] >= k
    BY DEF Window
  <2>2. PICK p \in Stamped : t \in items[p]
    BY <2>1, SeenOnLeaves
  <2>3. BlockOf[t] \in Nat
    BY <2>1, SeenOnLeaves
  <2>4. pos[p] \in Nat /\ pos[WriterLeaf(k)] \in Nat
    BY <1>1, <1>2 DEF Ordered, Stamped
  <2>5. ~(pos[p] < pos[WriterLeaf(k)])
    BY <1>3, <2>1, <2>2, <2>3
  <2> QED BY <1>4, <2>1, <2>2, <2>4, <2>5 DEF At
<1> QED BY <1>2, <1>5

\* some downlink is taken
LEMMA DownOff ==
  ASSUME NEW s, Len(s) \in Nat \ {0}, NEW k
  PROVE  DownlinkOff(s, k) \in 1..Len(s)
<1> DEFINE at == {i \in 1..Len(s) : s[i].sep <= k}
           n == DownlinkOff(s, k)
<1>1. n = IF at = {} THEN 1 ELSE CHOOSE i \in at : \A j \in at : j <= i
  BY DEF DownlinkOff
<1>2. CASE at = {}
  BY <1>1, <1>2
<1>3. CASE at # {}
  <2>1. at \in SUBSET (1..Len(s)) /\ Len(s) \in Nat
    OBVIOUS
  <2> HIDE DEF at, n
  <2>2. n \in at
    BY <1>1, <1>3, <2>1, LastPosition
  <2> QED BY <2>1, <2>2 DEF n
<1> QED BY <1>2, <1>3
-----------------------------------------------------------------------------
(* A step of a count *)

\* the set stays, so where the count may come to does too
LEMMA SafeStep ==
  ASSUME NEW r \in Readers, NEW S, Safe(r, S), UNCHANGED postingVars,
         link'[r] \in S \cup {NoPage}
  PROVE  Safe(r, S)'
BY DEF Safe, postingVars, RightClosed

\* a count whose snapshot sees nothing counts nothing
LEMMA EmptyWalk ==
  ASSUME NEW r \in Readers, NEW pos, NEW S, snap'[r] = {},
         pc'[r] \in {"items", "next", "recheck"} => \A t \in Tids : tally'[r][t] = 0
  PROVE  Walk(r, pos, S)'
<1>1. Window(r, snap[r])' = {} /\ Ahead(r, pos)' = {}
  BY DEF Window, Ahead
<1>2. pc'[r] \in {"items", "next", "recheck"} => \A D : Tallied(r, D)'
  BY DEF Tallied
<1> QED BY <1>1, <1>2 DEF Walk

\* what is still to come, after a step that leaves the set and the snapshot
LEMMA AheadThere ==
  ASSUME NEW r \in Readers, NEW pos, UNCHANGED <<postingVars, snap>>,
         NEW l, link'[r] = l
  PROVE  Ahead(r, pos)' = At(r, pos, l)
BY DEF Ahead, At, Stamped, postingVars

\* ... and before it
LEMMA AheadHere ==
  ASSUME NEW r \in Readers, NEW pos
  PROVE  Ahead(r, pos) = At(r, pos, link[r])
BY DEF Ahead, At

\* a descent lands on a leaf no row of the window is left of: it goes right past
\* what is below the window, or copies what the window has of the leaf
LEMMA LandWalks ==
  ASSUME NEW r \in Readers, NEW pos, NEW S, NEW l \in S,
         LinkedBy(pos), OnceEach, Inv, form = "chain", Trail(pos, S),
         OwnsLeaf(l, head), root[r] = head,
         from[r] \in Nat, from[r] = 0 \/ Sorted(pos),
         Window(r, snap[r]) \subseteq At(r, pos, l), NothingYet(r),
         LandOn(r, l), UNCHANGED <<postingVars, snap, from, tally, queue>>,
         ReaderTypes
  PROVE  Walk(r, pos, S)'
<1> DEFINE W == Window(r, snap[r])
<1>1. /\ link'[r] = right[l] /\ root'[r] = head
      /\ \/ pc'[r] = "leaf" /\ MaxKey(l) < from[r] /\ right[l] # NoPage
         \/ /\ pc'[r] = "items" /\ img'[r] = Window(r, items[l])
            /\ ~(MaxKey(l) < from[r] /\ right[l] # NoPage)
  BY DEF LandOn, TakeLeaf, ReaderTypes, Inv, SessionTypes
<1>2. At(r, pos, right[l]) = At(r, pos, l) \ items[l]
  BY StepRight
<1>3. Ahead(r, pos)' = At(r, pos, l) \ items[l] /\ Window(r, snap[r])' = W
  <2>1. Ahead(r, pos)' = At(r, pos, right[l])
    BY <1>1, AheadThere
  <2> QED BY <1>2, <2>1 DEF Window
<1>4. /\ right[l] # NoPage => OwnsLeaf(right[l], head) /\ right[l] # head
      /\ l \notin Stamped => items[l] = {}
      /\ \A p \in Stamped :
           pos[l] <= pos[p] <=>
             p = l \/ (right[l] # NoPage /\ pos[right[l]] <= pos[p])
      /\ l \in Stamped /\ right[l] # NoPage => ~(pos[right[l]] <= pos[l])
  BY PastPage
<1>5. link'[r] # NoPage => OnTheWay(r, pos, S)'
  <2>1. Trail(pos, S)'
    BY DEF Trail, postingVars, OwnsLeaf, Stamped
  <2> QED BY <1>1, <1>4, <2>1 DEF OnTheWay, postingVars, OwnsLeaf
<1>6. /\ l \in Pages /\ items[l] \in SUBSET Tids /\ snap[r] \in SUBSET Tids
      /\ \A t \in Tids : BlockOf[t] \in Nat \ {0}
  BY BlockAssumption DEF LinkedBy, Shape, PageTypes, OwnsLeaf, Inv, SessionTypes
<1>7. items[l] # {} => /\ MaxKey(l) \in KeysOf(items[l])
                       /\ \A x \in items[l] : BlockOf[x] <= MaxKey(l)
                       /\ MaxKey(l) \in Nat \ {0}
  BY <1>6, LastKey DEF LinkedBy, Shape, Base
<1>8. CASE pc'[r] = "leaf"
  <2>1. W \cap items[l] = {}
    BY <1>1, <1>6, <1>7, <1>8 DEF Window
  <2>2. W \subseteq Ahead(r, pos)'
    BY <1>3, <2>1
  <2> QED BY <1>3, <1>5, <1>8, <2>2 DEF Walk
<1>9. CASE pc'[r] = "items"
  <2>1. img'[r] = {t \in items[l] : BlockOf[t] >= from[r]}
        /\ ~(MaxKey(l) < from[r] /\ right[l] # NoPage)
    BY <1>1, <1>9 DEF Window
  <2>2. W = {t \in snap[r] : BlockOf[t] >= from[r]}
    BY DEF Window
  <2>3. ASSUME NEW t \in At(r, pos, right[l]) PROVE t \in W
    <3>1. PICK p \in Stamped : t \in items[p] /\ pos[right[l]] <= pos[p]
      BY <2>3 DEF At
    <3>2. t \in snap[r] /\ right[l] # NoPage /\ BlockOf[t] \in Nat
      BY <1>6, <2>3 DEF At
    <3>3. CASE from[r] = 0
      BY <2>2, <3>2, <3>3
    <3>4. CASE from[r] # 0
      <4>1. Sorted(pos) /\ from[r] \in Nat \ {0}
        BY <3>4
      <4>2. ~(MaxKey(l) < from[r]) /\ items[l] # {}
        BY <2>1, <3>2, <4>1 DEF MaxKey
      <4>3. l \in Stamped /\ p # l /\ pos[l] <= pos[p]
        BY <1>4, <3>1, <3>2, <4>2
      <4>4. pos[l] # pos[p] /\ pos[l] \in Nat /\ pos[p] \in Nat
        BY <4>3 DEF LinkedBy, Linked, Ordered, Stamped
      <4>5. pos[l] < pos[p]
        BY <4>3, <4>4
      <4>6. PICK x \in items[l] : BlockOf[x] = MaxKey(l)
        BY <1>7, <4>2 DEF KeysOf
      <4>7. MaxKey(l) < BlockOf[t] /\ MaxKey(l) \in Nat
        BY <1>7, <3>1, <4>1, <4>2, <4>3, <4>5, <4>6 DEF Sorted
      <4>8. BlockOf[t] >= from[r]
        BY <3>2, <4>1, <4>2, <4>7
      <4> QED BY <2>2, <3>2, <4>8
    <3> QED BY <3>3, <3>4
  <2>4. Ahead(r, pos)' \cap img'[r] = {} /\ Ahead(r, pos)' \subseteq W
        /\ img'[r] \cap snap[r] \subseteq W
    BY <1>2, <1>3, <2>1, <2>2, <2>3
  <2>5. W \ (img'[r] \cup Ahead(r, pos)') = {}
    BY <1>3, <2>1, <2>2
  <2>6. Tallied(r, {})'
    BY <1>6 DEF Tallied, NothingYet
  <2> QED BY <1>3, <1>5, <1>9, <2>4, <2>5, <2>6 DEF Walk
<1> QED BY <1>1, <1>8, <1>9

\* ... and takes the next page whole
LEMMA NextWalks ==
  ASSUME NEW r \in Readers, NEW pos, NEW S, NEW l \in S, l = link[r],
         LinkedBy(pos), OnceEach, Inv, Trail(pos, S), form = "chain",
         OwnsLeaf(l, head), root[r] = head, Walk(r, pos, S), pc[r] = "next",
         TakeLeaf(r, l, items[l]),
         UNCHANGED <<postingVars, snap, from, tally, queue>>, ReaderTypes
  PROVE  Walk(r, pos, S)'
<1> DEFINE W == Window(r, snap[r])
<1>1. /\ link'[r] = right[l] /\ root'[r] = head /\ pc'[r] = "items"
      /\ img'[r] = items[l]
  BY DEF TakeLeaf, ReaderTypes, Inv, SessionTypes
<1>2. Ahead(r, pos)' = At(r, pos, l) \ items[l] /\ Window(r, snap[r])' = W
  <2>1. Ahead(r, pos)' = At(r, pos, right[l])
    BY <1>1, AheadThere
  <2> QED BY <2>1, StepRight DEF Window
<1>3. /\ right[l] # NoPage => OwnsLeaf(right[l], head) /\ right[l] # head
      /\ l \notin Stamped => items[l] = {}
  BY PastPage
<1>4. link'[r] # NoPage => OnTheWay(r, pos, S)'
  <2>1. Trail(pos, S)'
    BY DEF Trail, postingVars, OwnsLeaf, Stamped
  <2> QED BY <1>1, <1>3, <2>1 DEF OnTheWay, postingVars, OwnsLeaf
<1>5. /\ At(r, pos, l) \subseteq W /\ img[r] = {}
      /\ Tallied(r, W \ At(r, pos, l))
  <2>1. img[r] = {} BY DEF Inv, Copies
  <2>2. Ahead(r, pos) = At(r, pos, l)
    BY AheadHere
  <2>3. Ahead(r, pos) \subseteq W /\ Tallied(r, W \ (img[r] \cup Ahead(r, pos)))
    BY DEF Walk
  <2>4. W \ ({} \cup At(r, pos, l)) = W \ At(r, pos, l)
    OBVIOUS
  <2> QED BY <2>1, <2>2, <2>3, <2>4
<1>6. items[l] \cap snap[r] \subseteq At(r, pos, l)
  <2>1. l \in Stamped => pos[l] \in Nat /\ l # NoPage
    BY NoPageAssumption DEF LinkedBy, Linked, Ordered, Stamped
  <2> QED BY <1>3, <2>1 DEF At
<1>7. /\ Ahead(r, pos)' \cap img'[r] = {} /\ Ahead(r, pos)' \subseteq W
      /\ img'[r] \cap snap[r] \subseteq W
  BY <1>1, <1>2, <1>5, <1>6
<1>8. PICK D : D = W \ At(r, pos, l)
  OBVIOUS
<1>9. W \ (img'[r] \cup Ahead(r, pos)') = D
  <2>1. W \subseteq snap[r] BY DEF Window
  <2> QED BY <1>1, <1>2, <1>6, <1>8, <2>1
<1>10. Tallied(r, D)'
  BY <1>5, <1>8 DEF Tallied
<1> QED BY <1>1, <1>2, <1>4, <1>7, <1>9, <1>10 DEF Walk
-----------------------------------------------------------------------------
(* The steps of a count, one by one *)

\* what is to show of a step of session r
ReadsOn(r, sound) ==
  /\ ReaderTypes'
  /\ \A pos : Counts(pos, sound) => Reads(r, pos, sound)'

\* what session r has is of its kind, and the others have what they had
LEMMA TypesStep ==
  ASSUME ReaderTypes, NEW r \in Readers,
         from' \in [Readers -> Nat], root' \in [Readers -> Links],
         link' \in [Readers -> Links], tally' \in [Readers -> [Tids -> Nat]],
         queue' \in [Readers -> [Tids -> Nat]],
         \A x \in Readers \ {r} :
           /\ pc'[x] = pc[x] /\ snap'[x] = snap[x] /\ root'[x] = root[x]
           /\ link'[x] = link[x] /\ tally'[x] = tally[x] /\ queue'[x] = queue[x],
         pc'[r] \in {"idle", "locate"} => link'[r] = NoPage,
         pc'[r] \in {"idle", "locate", "root", "leaf"} => NothingYet(r)',
         pc'[r] = "idle" => snap'[r] = {},
         pc'[r] = "root" => link'[r] = root'[r],
         pc'[r] \in {"root", "leaf", "next"} => link'[r] \in Pages
  PROVE  ReaderTypes'
<1>1. \A x \in Readers \ {r} : NothingYet(x) => NothingYet(x)'
  BY DEF NothingYet
<1>2. ASSUME NEW x \in Readers
      PROVE  /\ pc'[x] \in {"idle", "locate"} => link'[x] = NoPage
             /\ pc'[x] \in {"idle", "locate", "root", "leaf"} => NothingYet(x)'
             /\ pc'[x] = "idle" => snap'[x] = {}
             /\ pc'[x] = "root" => link'[x] = root'[x]
             /\ pc'[x] \in {"root", "leaf", "next"} => link'[x] \in Pages
  <2>1. CASE x = r BY <2>1
  <2>2. CASE x # r
    <3>1. x \in Readers \ {r} BY <2>2
    <3> QED BY <1>1, <3>1 DEF ReaderTypes
  <2> QED BY <2>1, <2>2
<1> QED BY <1>2 DEF ReaderTypes

\* a count begins with a snapshot and nowhere to go
LEMMA BeginReads ==
  ASSUME NEW sound \in BOOLEAN, CountInv(sound), NEW r \in Readers, Begin(r)
  PROVE  ReadsOn(r, sound)
<1>1. /\ ReaderTypes /\ SessionTypes
      /\ pc[r] = "idle" /\ pc' = [pc EXCEPT ![r] = "locate"]
      /\ snap' = [snap EXCEPT ![r] = {t \in Tids : row[t] = "live"}]
      /\ \E k \in Froms : from' = [from EXCEPT ![r] = k]
      /\ UNCHANGED <<postingVars, root, link, img, tally, queue>>
  BY DEF CountInv, Inv, Begin
<1>2. ReaderTypes'
  <2>1. from' \in [Readers -> Nat]
    BY <1>1, FromsAssumption DEF ReaderTypes
  <2>2. NothingYet(r) /\ \A x \in Readers : NothingYet(x) => NothingYet(x)'
    BY <1>1 DEF ReaderTypes, NothingYet
  <2> QED BY <1>1, <2>1, <2>2 DEF ReaderTypes, SessionTypes
<1>3. ASSUME NEW pos PROVE Reads(r, pos, sound)'
  <2>1. link'[r] = NoPage /\ pc'[r] = "locate"
    BY <1>1 DEF ReaderTypes, SessionTypes
  <2>2. Safe(r, {})'
    BY <2>1 DEF Safe, RightClosed
  <2>3. Walk(r, pos, {})'
    BY <2>1 DEF Walk
  <2> QED BY <2>2, <2>3 DEF Reads
<1> QED BY <1>2, <1>3 DEF ReadsOn

\* ... and ends so
LEMMA ReturnReads ==
  ASSUME NEW sound \in BOOLEAN, CountInv(sound), NEW r \in Readers, Return(r)
  PROVE  ReadsOn(r, sound)
<1>1. /\ ReaderTypes /\ SessionTypes
      /\ pc' = [pc EXCEPT ![r] = "idle"]
      /\ snap' = [snap EXCEPT ![r] = {}]
      /\ from' = [from EXCEPT ![r] = 0]
      /\ root' = [root EXCEPT ![r] = NoPage]
      /\ link' = [link EXCEPT ![r] = NoPage]
      /\ tally' = [tally EXCEPT ![r] = [t \in Tids |-> 0]]
      /\ queue' = [queue EXCEPT ![r] = [t \in Tids |-> 0]]
  BY DEF CountInv, Inv, Return, Leave
<1>2. ReaderTypes'
  <2>1. NothingYet(r)' /\ \A x \in Readers \ {r} : NothingYet(x) => NothingYet(x)'
    BY <1>1 DEF ReaderTypes, NothingYet
  <2>2. [t \in Tids |-> 0] \in [Tids -> Nat] /\ NoPage \in Links
    BY DEF Links
  <2>3. /\ from' \in [Readers -> Nat] /\ root' \in [Readers -> Links]
        /\ link' \in [Readers -> Links]
        /\ tally' \in [Readers -> [Tids -> Nat]]
        /\ queue' \in [Readers -> [Tids -> Nat]]
    BY <1>1, <2>2 DEF ReaderTypes
  <2>4. /\ pc'[r] = "idle" /\ link'[r] = NoPage /\ snap'[r] = {}
        /\ \A x \in Readers \ {r} : /\ pc'[x] = pc[x] /\ link'[x] = link[x]
                                    /\ root'[x] = root[x] /\ snap'[x] = snap[x]
    BY <1>1 DEF ReaderTypes, SessionTypes
  <2> QED BY <1>1, <2>1, <2>3, <2>4 DEF ReaderTypes
<1>3. ASSUME NEW pos PROVE Reads(r, pos, sound)'
  <2>1. link'[r] = NoPage /\ pc'[r] = "idle"
    BY <1>1 DEF ReaderTypes, SessionTypes
  <2>2. Safe(r, {})'
    BY <2>1 DEF Safe, RightClosed
  <2>3. Walk(r, pos, {})'
    BY <2>1 DEF Walk
  <2> QED BY <2>2, <2>3 DEF Reads
<1> QED BY <1>2, <1>3 DEF ReadsOn

\* the entry: no row, all the rows, or the head they are reached from
LEMMA LocateReads ==
  ASSUME NEW sound \in BOOLEAN, CountInv(sound), NEW r \in Readers, Locate(r)
  PROVE  ReadsOn(r, sound)
<1>1. /\ ReaderTypes /\ SessionTypes /\ Shape /\ Kept /\ PageBook /\ LinkInv
      /\ pc[r] = "locate"
      /\ UNCHANGED <<postingVars, snap, from, tally, queue>>
      /\ \/ /\ form = "absent" /\ pc' = [pc EXCEPT ![r] = "recheck"]
            /\ UNCHANGED <<root, link, img>>
         \/ /\ form = "inline" /\ pc' = [pc EXCEPT ![r] = "items"]
            /\ img' = [img EXCEPT ![r] = Window(r, inl)]
            /\ UNCHANGED <<root, link>>
         \/ /\ form = "chain" /\ pc' = [pc EXCEPT ![r] = "root"]
            /\ root' = [root EXCEPT ![r] = head]
            /\ link' = [link EXCEPT ![r] = head]
            /\ UNCHANGED img
  BY DEF CountInv, Counts, LinkInv, Inv, Locate, LocateEntry, Shape, PageTypes
<1>2. /\ form = "chain" => head \in Pages
      /\ form # "chain" => \A p \in Pages : items[p] = {}
      /\ form # "inline" => inl = {}
  BY <1>1 DEF Shape, Ownership
<1>3. NothingYet(r) /\ link[r] = NoPage /\ snap[r] \in SUBSET Tids
  BY <1>1 DEF ReaderTypes, SessionTypes
<1>4. NothingYet(r)' /\ \A x \in Readers : NothingYet(x) => NothingYet(x)'
  BY <1>1, <1>3 DEF NothingYet
<1>5. ReaderTypes'
  <2>1. /\ from' \in [Readers -> Nat]
        /\ tally' \in [Readers -> [Tids -> Nat]]
        /\ queue' \in [Readers -> [Tids -> Nat]]
    BY <1>1 DEF ReaderTypes
  <2>2. root' \in [Readers -> Links] /\ link' \in [Readers -> Links]
    BY <1>1, <1>2 DEF ReaderTypes, Links
  <2>3. /\ pc'[r] \in {"recheck", "items", "root"}
        /\ pc'[r] = "root" => link'[r] = head /\ root'[r] = head /\ head \in Pages
    BY <1>1, <1>2 DEF ReaderTypes, SessionTypes
  <2>4. \A x \in Readers \ {r} :
          /\ pc'[x] = pc[x] /\ snap'[x] = snap[x] /\ root'[x] = root[x]
          /\ link'[x] = link[x] /\ tally'[x] = tally[x] /\ queue'[x] = queue[x]
    BY <1>1 DEF ReaderTypes, SessionTypes
  <2> QED BY <1>1, <1>4, <2>1, <2>2, <2>3, <2>4, TypesStep
<1>6. \A t \in snap[r] : t \in Named
  BY <1>1, <1>3 DEF Kept
<1>7. Tallied(r, {})'
  BY <1>3, <1>4 DEF Tallied, NothingYet
<1>8. ASSUME NEW pos PROVE Reads(r, pos, sound)'
  <2>1. CASE form = "absent"
    <3>1. snap'[r] = {}
      BY <1>1, <1>2, <1>6, <2>1 DEF Named
    <3>2. Walk(r, pos, {})'
      BY <1>4, <3>1, EmptyWalk DEF NothingYet
    <3>3. Safe(r, {})'
      BY <1>1, <1>3, <2>1 DEF Safe, RightClosed
    <3> QED BY <3>2, <3>3 DEF Reads
  <2>2. CASE form = "inline"
    <3>1. /\ link'[r] = NoPage /\ pc'[r] = "items"
          /\ img'[r] = {t \in inl : BlockOf[t] >= from[r]}
      BY <1>1, <1>3, <2>2 DEF Window, SessionTypes
    <3>2. Ahead(r, pos)' = {}
      BY <3>1 DEF Ahead
    <3>3. Window(r, snap[r])' = {t \in snap[r] : BlockOf[t] >= from[r]}
      BY <1>1 DEF Window
    <3>4. snap[r] \subseteq inl
      BY <1>2, <1>6, <2>2 DEF Named
    <3>5. /\ img'[r] \cap snap'[r] \subseteq Window(r, snap[r])'
          /\ Window(r, snap[r])' \ (img'[r] \cup Ahead(r, pos)') = {}
      BY <1>1, <3>1, <3>2, <3>3, <3>4
    <3>6. Walk(r, pos, {})'
      BY <1>7, <3>1, <3>2, <3>5 DEF Walk
    <3>7. Safe(r, {})'
      BY <3>1 DEF Safe, RightClosed
    <3> QED BY <3>6, <3>7 DEF Reads
  <2>3. CASE form = "chain"
    <3>1. PICK S : S = Stamped \cup {head}
      OBVIOUS
    <3>2. Leads
      BY <1>1, SetLeads
    <3>3. /\ S \in SUBSET Pages /\ head \in S /\ NoPage \notin S
          /\ RightClosed(S)
          /\ \A p \in S : kind[p] = "inner" =>
               \A i \in 1..Len(down[p]) : down[p][i].child \in S
          /\ \A p \in S : kind[p] \in {"leaf", "inner"}
      BY <2>3, <3>1, <3>2, NoPageAssumption DEF Leads, Stamped, RightClosed
    <3>4. link'[r] = head /\ root'[r] = head /\ pc'[r] = "root" /\ head' = head
          /\ form' = "chain"
      BY <1>1, <2>3 DEF ReaderTypes, SessionTypes, postingVars
    <3>5. Safe(r, S)'
      BY <1>1, <3>3, <3>4 DEF Safe, postingVars, RightClosed
    <3>6. Trail(pos, S)'
      BY <1>1, <3>3 DEF Trail, postingVars
    <3>7. Walk(r, pos, S)'
      BY <3>4, <3>6 DEF Walk, OnTheWay
    <3> QED BY <3>5, <3>7 DEF Reads
  <2> QED BY <1>1, <2>1, <2>2, <2>3
<1> QED BY <1>5, <1>8 DEF ReadsOn
\* the steps that go to a page: where the link may lead, and what is kept
Goes(r) ==
  /\ UNCHANGED <<postingVars, heapVars, snap, mode, from, tally, queue, vacuumVars>>
  /\ root' = root
  /\ \A x \in Readers \ {r} : pc'[x] = pc[x] /\ link'[x] = link[x]
  /\ link' \in [Readers -> Links]

\* they keep the sessions' types
LEMMA GoesTypes ==
  ASSUME ReaderTypes, NEW r \in Readers, Goes(r),
         pc'[r] \in {"leaf", "items", "recheck"},
         pc'[r] = "leaf" => link'[r] \in Pages /\ NothingYet(r)
  PROVE  ReaderTypes'
<1>1. /\ from' \in [Readers -> Nat] /\ root' \in [Readers -> Links]
      /\ link' \in [Readers -> Links] /\ tally' \in [Readers -> [Tids -> Nat]]
      /\ queue' \in [Readers -> [Tids -> Nat]]
  BY DEF Goes, ReaderTypes
<1>2. \A x \in Readers \ {r} :
        /\ pc'[x] = pc[x] /\ snap'[x] = snap[x] /\ root'[x] = root[x]
        /\ link'[x] = link[x] /\ tally'[x] = tally[x] /\ queue'[x] = queue[x]
  BY DEF Goes
<1>3. NothingYet(r) => NothingYet(r)'
  BY DEF Goes, NothingYet
<1> QED BY <1>1, <1>2, <1>3, TypesStep

\* landing on page l: right of it, or a copy of it
LEMMA LandGoes ==
  ASSUME ReaderTypes, SessionTypes, Shape, NEW r \in Readers, NEW l \in Pages,
         LandOn(r, l), NothingYet(r),
         UNCHANGED <<postingVars, heapVars, snap, mode, from, tally, queue, vacuumVars>>
  PROVE  /\ Goes(r) /\ ReaderTypes'
         /\ link'[r] = right[l]
         /\ pc'[r] \in {"leaf", "items"}
<1>1. right[l] \in Links
  BY DEF Shape, PageTypes
<1>2. /\ link' = [link EXCEPT ![r] = right[l]] /\ root' = root
      /\ \/ pc' = [pc EXCEPT ![r] = "leaf"] /\ right[l] # NoPage
         \/ pc' = [pc EXCEPT ![r] = "items"]
  BY DEF LandOn, TakeLeaf
<1>3. Goes(r)
  BY <1>1, <1>2 DEF Goes, ReaderTypes, SessionTypes
<1>4. /\ link'[r] = right[l] /\ pc'[r] \in {"leaf", "items"}
      /\ pc'[r] = "leaf" => right[l] \in Pages
  BY <1>1, <1>2 DEF ReaderTypes, SessionTypes, Links
<1> QED BY <1>3, <1>4, GoesTypes

\* the end of a set: nothing is copied any more
LEMMA EndGoes ==
  ASSUME ReaderTypes, SessionTypes, NEW r \in Readers, EndOfSet(r),
         UNCHANGED <<postingVars, heapVars, snap, mode, from, tally, queue, vacuumVars>>
  PROVE  Goes(r) /\ ReaderTypes' /\ link'[r] = link[r] /\ pc'[r] = "recheck"
<1>1. Goes(r) /\ link'[r] = link[r] /\ pc'[r] = "recheck"
  BY DEF EndOfSet, Goes, ReaderTypes, SessionTypes
<1> QED BY <1>1, GoesTypes

\* the root: a leaf the count lands on, or the level above, whose downlink leaves
\* none of the window's rows to its left
LEMMA RootReads ==
  ASSUME NEW sound \in BOOLEAN, CountInv(sound), NEW r \in Readers, ReadRoot(r)
  PROVE  ReadsOn(r, sound)
<1> DEFINE p == link[r]
           child == down[p][DownlinkOff(down[p], from[r])].child
<1>1. /\ ReaderTypes /\ SessionTypes /\ Shape /\ Kept /\ PageBook /\ Inv
      /\ pc[r] = "root" /\ link[r] = root[r] /\ p \in Pages /\ NothingYet(r)
      /\ UNCHANGED <<postingVars, heapVars, snap, mode, from, tally, queue,
                     vacuumVars>>
      /\ from[r] \in Nat /\ snap[r] \in SUBSET Tids
  BY DEF CountInv, Inv, ReadRoot, VisitRoot, ReaderTypes, SessionTypes
<1>2. \/ ~OwnsTree(p, root[r]) /\ EndOfSet(r)
      \/ /\ OwnsTree(p, root[r]) /\ kind[p] = "inner"
         /\ pc' = [pc EXCEPT ![r] = "leaf"]
         /\ link' = [link EXCEPT ![r] = child]
         /\ UNCHANGED <<root, pin, img>>
      \/ OwnsTree(p, root[r]) /\ kind[p] # "inner" /\ LandOn(r, p)
  BY DEF ReadRoot, VisitRoot
<1>3. PICK pos0, S0 : Safe(r, S0) /\ Counts(pos0, sound)
  BY DEF CountInv, Counts, Reads
<1>4. kind[p] = "inner" => child \in Pages /\ \A S : Safe(r, S) => child \in S
  <2>1. SUFFICES ASSUME kind[p] = "inner"
                 PROVE  \A S : Safe(r, S) => child \in S /\ S \in SUBSET Pages
    BY <1>3
  <2>2. DownlinkOff(down[p], from[r]) \in 1..Len(down[p])
    BY <1>1, <2>1, DownOff DEF PageBook
  <2>3. p # NoPage
    BY <1>1, NoPageAssumption
  <2> QED BY <2>1, <2>2, <2>3 DEF Safe
<1>5. CASE ~OwnsTree(p, root[r]) /\ EndOfSet(r)
  <2>1. ReaderTypes' /\ link'[r] = link[r] /\ pc'[r] = "recheck"
    BY <1>1, <1>5, EndGoes
  <2>2. ASSUME NEW pos, Counts(pos, sound) PROVE Reads(r, pos, sound)'
    <3>1. PICK S : Safe(r, S) /\ (sound \/ from[r] = 0 => Walk(r, pos, S))
      BY <2>2 DEF Counts, Reads
    <3>2. Safe(r, S)'
      BY <1>1, <2>1, <3>1, SafeStep DEF Safe
    <3>3. ASSUME sound \/ from[r] = 0 PROVE Walk(r, pos, S)'
      <4>1. snap[r] = {}
        <5>1. SUFFICES ASSUME snap[r] # {} PROVE FALSE
          OBVIOUS
        <5>2. form = "chain" /\ root[r] = head
          BY <1>1, <3>1, <3>3, <5>1, NoPageAssumption DEF Walk, OnTheWay
        <5> QED BY <1>1, <1>5, <5>2 DEF OwnsTree, Shape, Ownership
      <4>2. \A t \in Tids : tally'[r][t] = 0
        BY <1>1 DEF NothingYet
      <4> QED BY <1>1, <4>1, <4>2, EmptyWalk
    <3> QED BY <1>1, <3>2, <3>3 DEF Reads
  <2> QED BY <2>1, <2>2 DEF ReadsOn
<1>6. CASE /\ OwnsTree(p, root[r]) /\ kind[p] = "inner"
           /\ pc' = [pc EXCEPT ![r] = "leaf"]
           /\ link' = [link EXCEPT ![r] = child]
           /\ UNCHANGED <<root, pin, img>>
  <2>1. link'[r] = child /\ pc'[r] = "leaf"
    BY <1>1, <1>6 DEF ReaderTypes, SessionTypes
  <2>2. Goes(r)
    BY <1>1, <1>4, <1>6 DEF Goes, ReaderTypes, SessionTypes, Links
  <2>3. ReaderTypes'
    BY <1>1, <1>4, <1>6, <2>1, <2>2, GoesTypes
  <2>4. ASSUME NEW pos, Counts(pos, sound) PROVE Reads(r, pos, sound)'
    <3>1. PICK S : Safe(r, S) /\ (sound \/ from[r] = 0 => Walk(r, pos, S))
      BY <2>4 DEF Counts, Reads
    <3>2. Safe(r, S)'
      BY <1>1, <1>4, <1>6, <2>1, <3>1, SafeStep
    <3>3. ASSUME sound \/ from[r] = 0 PROVE Walk(r, pos, S)'
      <4>1. CASE snap[r] = {}
        BY <1>1, <2>1, <4>1, EmptyWalk
      <4>2. CASE snap[r] # {}
        <5>1. form = "chain" /\ root[r] = head /\ Trail(pos, S)
          BY <1>1, <3>1, <3>3, <4>2, NoPageAssumption DEF Walk, OnTheWay
        <5>2. LinkedBy(pos) /\ (from[r] = 0 \/ Separated(pos))
          BY <2>4, <3>3, <5>1 DEF Counts, RoutedBy, Routed
        <5>3. /\ WriterLeaf(from[r]) \in Stamped
              /\ Window(r, snap[r]) \subseteq At(r, pos, WriterLeaf(from[r]))
          BY <1>1, <1>6, <5>1, <5>2, Landing
        <5>4. WriterLeaf(from[r]) = child
          BY <1>1, <1>6, <5>1, HeadKind DEF WriterLeaf
        <5>5. Ahead(r, pos)' = At(r, pos, child)
          BY <1>1, <2>1, AheadThere
        <5>6. Trail(pos, S)'
          BY <1>1, <5>1 DEF Trail, postingVars, OwnsLeaf, Stamped
        <5>7. child # head /\ OwnsLeaf(child, head)
          BY <1>1, <1>6, <5>1, <5>3, <5>4 DEF Stamped, OwnsLeaf
        <5>8. OnTheWay(r, pos, S)'
          BY <1>1, <1>6, <2>1, <5>1, <5>6, <5>7 DEF OnTheWay, postingVars, OwnsLeaf
        <5>9. Window(r, snap[r])' = Window(r, snap[r])
          BY <1>1 DEF Window
        <5> QED BY <2>1, <5>3, <5>4, <5>5, <5>8, <5>9 DEF Walk
      <4> QED BY <4>1, <4>2
    <3> QED BY <1>1, <3>2, <3>3 DEF Reads
  <2> QED BY <2>3, <2>4 DEF ReadsOn
<1>7. CASE OwnsTree(p, root[r]) /\ kind[p] # "inner" /\ LandOn(r, p)
  <2>1. ReaderTypes' /\ link'[r] = right[p] /\ pc'[r] \in {"leaf", "items"}
    BY <1>1, <1>7, LandGoes
  <2>2. ASSUME NEW pos, Counts(pos, sound) PROVE Reads(r, pos, sound)'
    <3>1. PICK S : Safe(r, S) /\ (sound \/ from[r] = 0 => Walk(r, pos, S))
      BY <2>2 DEF Counts, Reads
    <3>2. p \in S
      BY <1>1, <3>1, NoPageAssumption DEF Safe
    <3>3. Safe(r, S)'
      BY <1>1, <2>1, <3>1, <3>2, SafeStep DEF Safe, RightClosed
    <3>4. ASSUME sound \/ from[r] = 0 PROVE Walk(r, pos, S)'
      <4>1. CASE snap[r] = {}
        <5>1. \A t \in Tids : tally'[r][t] = 0
          BY <1>1 DEF NothingYet
        <5> QED BY <1>1, <4>1, <5>1, EmptyWalk
      <4>2. CASE snap[r] # {}
        <5>1. form = "chain" /\ root[r] = head /\ Trail(pos, S)
          BY <1>1, <3>1, <3>4, <4>2, NoPageAssumption DEF Walk, OnTheWay
        <5>2. LinkedBy(pos) /\ (from[r] = 0 \/ Sorted(pos))
          BY <2>2, <3>4, <5>1 DEF Counts, RoutedBy, Routed
        <5>3. p = head /\ kind[head] = "leaf" /\ OwnsLeaf(p, head)
          BY <1>1, <1>7, <5>1, HeadKind DEF OwnsTree, OwnsLeaf
        <5>4. FirstLeaf = p
          BY <1>1, <5>1, <5>3, HeadKind
        <5>5. Window(r, snap[r]) \subseteq At(r, pos, p)
          <6>1. SUFFICES ASSUME NEW t \in snap[r] PROVE t \in At(r, pos, p)
            BY DEF Window
          <6>2. PICK q \in Stamped : t \in items[q]
            BY <1>1, <5>1, <6>1, SeenOnLeaves
          <6>3. pos[p] <= pos[q]
            BY <1>1, <5>1, <5>2, <5>4, FirstLowest DEF LinkedBy, Linked
          <6> QED BY <1>1, <6>2, <6>3, NoPageAssumption DEF At
        <5>6. OnceEach
          BY <1>1 DEF PageBook
        <5> QED BY <1>1, <1>7, <3>2, <5>1, <5>2, <5>3, <5>5, <5>6, LandWalks
      <4> QED BY <4>1, <4>2
    <3> QED BY <1>1, <3>3, <3>4 DEF Reads
  <2> QED BY <2>1, <2>2 DEF ReadsOn
<1> QED BY <1>2, <1>5, <1>6, <1>7

\* a leaf the descent comes to
LEMMA LeafReads ==
  ASSUME NEW sound \in BOOLEAN, CountInv(sound), NEW r \in Readers, ReadLeaf(r)
  PROVE  ReadsOn(r, sound)
<1> DEFINE l == link[r]
<1>1. /\ ReaderTypes /\ SessionTypes /\ Shape /\ PageBook /\ Inv
      /\ pc[r] = "leaf" /\ l \in Pages /\ l # NoPage /\ NothingYet(r)
      /\ UNCHANGED <<postingVars, heapVars, snap, mode, from, tally, queue,
                     vacuumVars>>
      /\ from[r] \in Nat /\ snap[r] \in SUBSET Tids
  BY NoPageAssumption
  DEF CountInv, Inv, ReadLeaf, VisitLeaf, ReaderTypes, SessionTypes
<1>2. \/ ~OwnsLeaf(l, root[r]) /\ EndOfSet(r)
      \/ OwnsLeaf(l, root[r]) /\ LandOn(r, l)
  BY DEF ReadLeaf, VisitLeaf
<1>3. /\ ReaderTypes'
      /\ \/ link'[r] = right[l]
         \/ link'[r] = l /\ ~OwnsLeaf(l, root[r])
  BY <1>1, <1>2, LandGoes, EndGoes
<1>4. ASSUME NEW pos, Counts(pos, sound) PROVE Reads(r, pos, sound)'
  <2>1. PICK S : Safe(r, S) /\ (sound \/ from[r] = 0 => Walk(r, pos, S))
    BY <1>4 DEF Counts, Reads
  <2>2. l \in S
    BY <1>1, <2>1 DEF Safe
  <2>3. Safe(r, S)'
    BY <1>1, <1>3, <2>1, <2>2, SafeStep DEF Safe, RightClosed
  <2>4. ASSUME sound \/ from[r] = 0 PROVE Walk(r, pos, S)'
    <3>1. CASE snap[r] = {}
      <4>1. \A t \in Tids : tally'[r][t] = 0
        BY <1>1 DEF NothingYet
      <4> QED BY <1>1, <3>1, <4>1, EmptyWalk
    <3>2. CASE snap[r] # {}
      <4>1. /\ form = "chain" /\ root[r] = head /\ Trail(pos, S)
            /\ OwnsLeaf(l, head)
            /\ Window(r, snap[r]) \subseteq At(r, pos, l)
        BY <1>1, <2>1, <2>4, <3>2, AheadHere DEF Walk, OnTheWay
      <4>2. LinkedBy(pos) /\ (from[r] = 0 \/ Sorted(pos))
        BY <1>4, <2>4, <4>1 DEF Counts, RoutedBy, Routed
      <4>3. OnceEach /\ LandOn(r, l)
        BY <1>1, <1>2, <4>1 DEF PageBook
      <4> QED BY <1>1, <2>2, <4>1, <4>2, <4>3, LandWalks
    <3> QED BY <3>1, <3>2
  <2> QED BY <1>1, <2>3, <2>4 DEF Reads
<1> QED BY <1>3, <1>4 DEF ReadsOn

\* the page right of the one it let go
LEMMA NextReads ==
  ASSUME NEW sound \in BOOLEAN, CountInv(sound), NEW r \in Readers, ReadNext(r)
  PROVE  ReadsOn(r, sound)
<1> DEFINE l == link[r]
<1>1. /\ ReaderTypes /\ SessionTypes /\ Shape /\ PageBook /\ Inv
      /\ pc[r] = "next" /\ l \in Pages /\ l # NoPage
      /\ UNCHANGED <<postingVars, heapVars, snap, mode, from, tally, queue,
                     vacuumVars>>
      /\ from[r] \in Nat /\ snap[r] \in SUBSET Tids
  BY NoPageAssumption
  DEF CountInv, Inv, ReadNext, VisitNext, ReaderTypes, SessionTypes
<1>2. \/ ~OwnsLeaf(l, root[r]) /\ EndOfSet(r)
      \/ OwnsLeaf(l, root[r]) /\ TakeLeaf(r, l, items[l])
  BY DEF ReadNext, VisitNext
<1>3. /\ ReaderTypes' /\ pc'[r] \in {"items", "recheck"}
      /\ \/ link'[r] = right[l]
         \/ link'[r] = l /\ ~OwnsLeaf(l, root[r])
  <2>1. CASE EndOfSet(r) /\ ~OwnsLeaf(l, root[r])
    BY <1>1, <2>1, EndGoes
  <2>2. CASE TakeLeaf(r, l, items[l])
    <3>1. right[l] \in Links
      BY <1>1 DEF Shape, PageTypes
    <3>2. Goes(r) /\ link'[r] = right[l] /\ pc'[r] = "items"
      BY <1>1, <2>2, <3>1 DEF TakeLeaf, Goes, ReaderTypes, SessionTypes
    <3> QED BY <1>1, <3>2, GoesTypes
  <2> QED BY <1>2, <2>1, <2>2
<1>4. ASSUME NEW pos, Counts(pos, sound) PROVE Reads(r, pos, sound)'
  <2>1. PICK S : Safe(r, S) /\ (sound \/ from[r] = 0 => Walk(r, pos, S))
    BY <1>4 DEF Counts, Reads
  <2>2. l \in S
    BY <1>1, <2>1 DEF Safe
  <2>3. Safe(r, S)'
    BY <1>1, <1>3, <2>1, <2>2, SafeStep DEF Safe, RightClosed
  <2>4. ASSUME sound \/ from[r] = 0 PROVE Walk(r, pos, S)'
    <3>1. CASE snap[r] = {}
      <4>1. \A t \in Tids : tally[r][t] = 0
        BY <1>1, <2>1, <2>4, <3>1 DEF Walk, Tallied
      <4>2. \A t \in Tids : tally'[r][t] = 0
        BY <1>1, <4>1
      <4> QED BY <1>1, <3>1, <4>2, EmptyWalk
    <3>2. CASE snap[r] # {}
      <4>1. /\ form = "chain" /\ root[r] = head /\ Trail(pos, S)
            /\ OwnsLeaf(l, head)
        BY <1>1, <2>1, <2>4, <3>2 DEF Walk, OnTheWay
      <4>2. LinkedBy(pos) /\ Walk(r, pos, S)
        BY <1>4, <2>1, <2>4 DEF Counts
      <4>3. OnceEach /\ TakeLeaf(r, l, items[l])
        BY <1>1, <1>2, <4>1 DEF PageBook
      <4> QED BY <1>1, <2>2, <4>1, <4>2, <4>3, NextWalks
    <3> QED BY <3>1, <3>2
  <2> QED BY <1>1, <2>3, <2>4 DEF Reads
<1> QED BY <1>3, <1>4 DEF ReadsOn

\* a row is counted on the map's word only if the snapshot sees it, and a row of
\* the window is counted once
LEMMA ContainerReads ==
  ASSUME NEW sound \in BOOLEAN, CountInv(sound), NEW r \in Readers, CountContainer(r)
  PROVE  ReadsOn(r, sound)
<1> DEFINE k == CHOOSE j \in KeysOf(img[r]) : \A i \in KeysOf(img[r]) : j <= i
           W == Window(r, snap[r])
<1>1. PICK c : c = {t \in img[r] : BlockOf[t] = k}
  OBVIOUS
<1>2. /\ ReaderTypes /\ SessionTypes /\ Inv /\ pc[r] = "items"
      /\ snap[r] \in SUBSET Tids /\ img[r] \in SUBSET Tids
      /\ UNCHANGED <<postingVars, heapVars, pc, snap, mode, from, root, link, pin,
                     vacuumVars>>
  BY DEF CountInv, Inv, CountContainer, SessionTypes
<1>3. /\ img' = [img EXCEPT ![r] = @ \ c]
      /\ \/ /\ mode[r] = "map" /\ vm[k]
            /\ tally' = [tally EXCEPT ![r] = Bump(@, c)]
            /\ UNCHANGED queue
         \/ /\ queue' = [queue EXCEPT ![r] = Bump(@, c)]
            /\ UNCHANGED tally
  BY <1>1 DEF CountContainer, MapAllows
<1>4. \A f \in [Tids -> Nat] :
        /\ Bump(f, c) \in [Tids -> Nat]
        /\ \A t \in Tids : Bump(f, c)[t] = IF t \in c THEN f[t] + 1 ELSE f[t]
  BY DEF Bump
<1>5. /\ tally[r] \in [Tids -> Nat] /\ queue[r] \in [Tids -> Nat]
      /\ img'[r] = img[r] \ c
      /\ \A x \in Readers \ {r} : tally'[x] = tally[x] /\ queue'[x] = queue[x]
      /\ \/ /\ mode[r] = "map" /\ vm[k] /\ tally'[r] = Bump(tally[r], c)
            /\ queue'[r] = queue[r]
         \/ queue'[r] = Bump(queue[r], c) /\ tally'[r] = tally[r]
  BY <1>2, <1>3 DEF ReaderTypes, SessionTypes
<1>6. ReaderTypes'
  <2>1. /\ tally \in [Readers -> [Tids -> Nat]]
        /\ queue \in [Readers -> [Tids -> Nat]]
    BY <1>2 DEF ReaderTypes
  <2>2. PICK F, G : F = Bump(tally[r], c) /\ G = Bump(queue[r], c)
    OBVIOUS
  <2>3. F \in [Tids -> Nat] /\ G \in [Tids -> Nat]
    BY <1>4, <1>5, <2>2
  <2>4. /\ tally' \in {tally, [tally EXCEPT ![r] = F]}
        /\ queue' \in {queue, [queue EXCEPT ![r] = G]}
    BY <1>3, <2>2
  <2>5. /\ tally' \in [Readers -> [Tids -> Nat]]
        /\ queue' \in [Readers -> [Tids -> Nat]]
    BY <2>1, <2>3, <2>4
  <2> QED BY <1>2, <1>5, <2>5, TypesStep DEF ReaderTypes
<1>7. mode[r] = "map" /\ vm[k] => \A t \in c : t \in snap[r]
  <2>1. SUFFICES ASSUME mode[r] = "map", vm[k], NEW t \in c PROVE t \in snap[r]
    OBVIOUS
  <2>2. t \in img[r] /\ t \in Tids /\ BlockOf[t] = k
    BY <1>1, <1>2
  <2>3. row[t] # "unused" BY <1>2, <2>1, <2>2 DEF Inv, NoneNamed
  <2>4. SeenByAll(t) BY <1>2, <2>1, <2>2, <2>3 DEF Inv, Heap
  <2> QED BY <1>2, <2>4 DEF SeenByAll, Running
<1>8. ASSUME NEW pos, Counts(pos, sound) PROVE Reads(r, pos, sound)'
  <2>1. PICK S : Safe(r, S) /\ (sound \/ from[r] = 0 => Walk(r, pos, S))
    BY <1>8 DEF Counts, Reads
  <2>2. Safe(r, S)'
    BY <1>2, <2>1, SafeStep DEF Safe
  <2>3. ASSUME sound \/ from[r] = 0 PROVE Walk(r, pos, S)'
    <3> DEFINE D == W \ (img[r] \cup Ahead(r, pos))
    <3>1. /\ Ahead(r, pos) \cap img[r] = {} /\ Ahead(r, pos) \subseteq W
          /\ img[r] \cap snap[r] \subseteq W /\ Tallied(r, D)
      BY <1>2, <2>1, <2>3 DEF Walk
    <3>2. /\ Window(r, snap[r])' = W /\ Ahead(r, pos)' = Ahead(r, pos)
      BY <1>2 DEF Window, Ahead, Stamped, postingVars
    <3>3. OnTheWay(r, pos, S)' <=> OnTheWay(r, pos, S)
      BY <1>2 DEF OnTheWay, Trail, OwnsLeaf, Stamped, postingVars
    <3>4. PICK E : E = W \ ((img[r] \ c) \cup Ahead(r, pos))
      OBVIOUS
    <3>5. ASSUME NEW t \in Tids
          PROVE  IF t \in snap[r]
                 THEN tally'[r][t] + queue'[r][t] = IF t \in E THEN 1 ELSE 0
                 ELSE tally'[r][t] = 0
      <4>1. /\ tally[r][t] \in Nat /\ queue[r][t] \in Nat
            /\ IF t \in snap[r]
               THEN tally[r][t] + queue[r][t] = IF t \in D THEN 1 ELSE 0
               ELSE tally[r][t] = 0
        BY <1>5, <3>1 DEF Tallied
      <4>2. \/ /\ mode[r] = "map" /\ vm[k] /\ queue'[r][t] = queue[r][t]
               /\ tally'[r][t] = IF t \in c THEN tally[r][t] + 1 ELSE tally[r][t]
            \/ /\ tally'[r][t] = tally[r][t]
               /\ queue'[r][t] = IF t \in c THEN queue[r][t] + 1 ELSE queue[r][t]
        BY <1>4, <1>5
      <4>3. t \in c => t \in img[r] /\ t \notin D
        BY <1>1
      <4>4. t \in c /\ t \in snap[r] => t \in E
        BY <3>1, <3>4, <4>3
      <4>5. t \notin c => (t \in E <=> t \in D)
        BY <3>4
      <4>6. CASE t \notin snap[r]
        BY <1>7, <4>1, <4>2, <4>6
      <4>7. CASE t \in snap[r] /\ t \in c
        BY <4>1, <4>2, <4>3, <4>4, <4>7
      <4>8. CASE t \in snap[r] /\ t \notin c
        BY <4>1, <4>2, <4>5, <4>8
      <4> QED BY <4>6, <4>7, <4>8
    <3>6. Tallied(r, E)'
      BY <1>2, <3>5 DEF Tallied
    <3>7. W \ (img'[r] \cup Ahead(r, pos)') = E
      BY <1>5, <3>2, <3>4
    <3>8. /\ Ahead(r, pos)' \cap img'[r] = {} /\ Ahead(r, pos)' \subseteq W
          /\ img'[r] \cap snap'[r] \subseteq W
      BY <1>2, <1>5, <3>1, <3>2
    <3>9. snap[r] # {} /\ link[r] # NoPage => OnTheWay(r, pos, S)
      BY <1>2, <2>1, <2>3 DEF Walk
    <3> QED BY <1>2, <3>2, <3>3, <3>6, <3>7, <3>8, <3>9 DEF Walk
  <2> QED BY <1>2, <2>2, <2>3 DEF Reads
<1> QED BY <1>6, <1>8 DEF ReadsOn

\* letting a page go changes nothing of what was counted
LEMMA UnpinReads ==
  ASSUME NEW sound \in BOOLEAN, CountInv(sound), NEW r \in Readers, Unpin(r)
  PROVE  ReadsOn(r, sound)
<1>1. /\ ReaderTypes /\ SessionTypes /\ pc[r] = "items" /\ img[r] = {}
      /\ pc' = [pc EXCEPT ![r] = IF link[r] = NoPage THEN "recheck" ELSE "next"]
      /\ UNCHANGED <<postingVars, heapVars, snap, mode, from, root, link, img,
                     tally, queue, vacuumVars>>
  BY DEF CountInv, Inv, Unpin
<1>2. pc'[r] = (IF link[r] = NoPage THEN "recheck" ELSE "next")
  BY <1>1 DEF SessionTypes
<1>3. ReaderTypes'
  <2>1. link[r] \in Links /\ \A x \in Readers \ {r} : pc'[x] = pc[x]
    BY <1>1 DEF ReaderTypes, SessionTypes
  <2> QED BY <1>1, <1>2, <2>1, TypesStep DEF ReaderTypes, Links
<1>4. ASSUME NEW pos, Counts(pos, sound) PROVE Reads(r, pos, sound)'
  <2>1. PICK S : Safe(r, S) /\ (sound \/ from[r] = 0 => Walk(r, pos, S))
    BY <1>4 DEF Counts, Reads
  <2>2. Safe(r, S)'
    BY <1>1, <2>1, SafeStep DEF Safe
  <2>3. ASSUME sound \/ from[r] = 0 PROVE Walk(r, pos, S)'
    <3>1. /\ Ahead(r, pos) \subseteq Window(r, snap[r])
          /\ Tallied(r, Window(r, snap[r]) \ ({} \cup Ahead(r, pos)))
          /\ snap[r] # {} /\ link[r] # NoPage => OnTheWay(r, pos, S)
      BY <1>1, <2>1, <2>3 DEF Walk
    <3>2. /\ Window(r, snap[r])' = Window(r, snap[r])
          /\ Ahead(r, pos)' = Ahead(r, pos)
      BY <1>1 DEF Window, Ahead, Stamped, postingVars
    <3>3. \A D : Tallied(r, D)' <=> Tallied(r, D)
      BY <1>1 DEF Tallied
    <3>4. CASE link[r] = NoPage
      <4>1. Ahead(r, pos) = {}
        BY <3>4 DEF Ahead
      <4>2. Window(r, snap[r]) \ ({} \cup {}) = Window(r, snap[r])
        OBVIOUS
      <4>3. Tallied(r, Window(r, snap[r]))
        BY <3>1, <4>1, <4>2
      <4> QED BY <1>2, <3>2, <3>3, <3>4, <4>3 DEF Walk
    <3>5. CASE link[r] # NoPage
      <4>1. snap[r] # {} => OnTheWay(r, pos, S)'
        BY <1>1, <1>2, <3>1, <3>5 DEF OnTheWay, Trail, OwnsLeaf, Stamped, postingVars
      <4>2. img'[r] = {} /\ pc'[r] = "next" /\ snap' = snap
        BY <1>1, <1>2, <3>5
      <4> QED BY <3>1, <3>2, <3>3, <4>1, <4>2 DEF Walk
    <3> QED BY <3>4, <3>5
  <2> QED BY <1>1, <2>2, <2>3 DEF Reads
<1> QED BY <1>3, <1>4 DEF ReadsOn
-----------------------------------------------------------------------------
(* All of it *)

\* a step of one count leaves the others' alone
LEMMA StepCounts ==
  ASSUME NEW sound \in BOOLEAN, CountInv(sound), NEW r \in Readers, ReaderStep(r), Inv'
  PROVE  CountInv(sound)'
<1>1. /\ Inv /\ SessionTypes /\ PageBook /\ Kept /\ ReaderTypes
      /\ UNCHANGED <<postingVars, heapVars, vacuumVars>>
  BY DEF CountInv, Inv, ReaderStep, Begin, Locate, LocateEntry, ReadRoot, VisitRoot,
         ReadLeaf, VisitLeaf, CountContainer, Unpin, ReadNext, VisitNext, Return,
         Leave
<1>2. ReadsOn(r, sound)
  BY BeginReads, LocateReads, RootReads, LeafReads, ContainerReads, UnpinReads,
     NextReads, ReturnReads DEF ReaderStep
<1>3. ASSUME NEW x \in Readers \ {r}
      PROVE  /\ pc'[x] = pc[x] /\ snap'[x] = snap[x] /\ from'[x] = from[x]
             /\ root'[x] = root[x] /\ link'[x] = link[x] /\ img'[x] = img[x]
             /\ tally'[x] = tally[x] /\ queue'[x] = queue[x]
  <2>1. CASE Begin(r) \/ Locate(r)
    BY <1>1, <2>1 DEF Begin, Locate, LocateEntry, ReaderTypes, SessionTypes
  <2>2. CASE ReadRoot(r) \/ ReadLeaf(r)
    BY <1>1, <2>2
    DEF ReadRoot, VisitRoot, ReadLeaf, VisitLeaf, LandOn, TakeLeaf, EndOfSet,
        ReaderTypes, SessionTypes
  <2>3. CASE CountContainer(r) \/ Unpin(r)
    BY <1>1, <2>3 DEF CountContainer, Unpin, ReaderTypes, SessionTypes
  <2>4. CASE ReadNext(r)
    BY <1>1, <2>4
    DEF ReadNext, VisitNext, TakeLeaf, EndOfSet, ReaderTypes, SessionTypes
  <2>5. CASE Return(r)
    BY <1>1, <2>5 DEF Return, Leave, ReaderTypes, SessionTypes
  <2> QED BY <2>1, <2>2, <2>3, <2>4, <2>5 DEF ReaderStep
<1>4. PageBook'
  BY <1>1 DEF PageBook, OnceEach, Named, postingVars
<1>5. Kept'
  <2>1. row' = row /\ vdead' = vdead /\ Named' = Named
    BY <1>1 DEF heapVars, vacuumVars, Named, postingVars
  <2>2. \/ snap'[r] \subseteq snap[r]
        \/ snap'[r] = {t \in Tids : row[t] = "live"}
    BY <1>1 DEF ReaderStep, Begin, Locate, LocateEntry, ReadRoot, VisitRoot,
         ReadLeaf, VisitLeaf, CountContainer, Unpin, ReadNext, VisitNext, Return,
         Leave, SessionTypes
  <2>3. \A t \in Tids, x \in Readers : t \in snap'[x] =>
          row[t] = "live" \/ \E y \in Readers : t \in snap[y]
    BY <1>3, <2>2
  <2> QED BY <1>1, <2>1, <2>3 DEF Kept
<1>6. PICK pos : Counts(pos, sound)
  BY DEF CountInv
<1>7. LinkedBy(pos)' /\ (sound => RoutedBy(pos)')
  BY <1>1, <1>6, IdleFollows DEF Counts
<1>8. ASSUME NEW x \in Readers PROVE Reads(x, pos, sound)'
  <2>1. CASE x = r
    BY <1>2, <1>6, <2>1 DEF ReadsOn
  <2>2. CASE x # r
    <3>1. PICK S : Safe(x, S) /\ (sound \/ from[x] = 0 => Walk(x, pos, S))
      BY <1>6 DEF Counts, Reads
    <3>2. /\ pc'[x] = pc[x] /\ snap'[x] = snap[x] /\ from'[x] = from[x]
          /\ root'[x] = root[x] /\ link'[x] = link[x] /\ img'[x] = img[x]
          /\ tally'[x] = tally[x] /\ queue'[x] = queue[x]
      BY <1>3, <2>2
    <3>3. Safe(x, S)'
      BY <1>1, <3>1, <3>2, SafeStep DEF Safe
    <3>4. /\ Window(x, snap[x])' = Window(x, snap[x])
          /\ Ahead(x, pos)' = Ahead(x, pos)
          /\ \A D : Tallied(x, D)' <=> Tallied(x, D)
          /\ OnTheWay(x, pos, S)' <=> OnTheWay(x, pos, S)
      BY <1>1, <3>2 DEF Window, Ahead, Tallied, OnTheWay, Trail, OwnsLeaf, Stamped,
         postingVars
    <3>5. Walk(x, pos, S) => Walk(x, pos, S)'
      BY <3>2, <3>4 DEF Walk
    <3> QED BY <3>1, <3>2, <3>3, <3>5 DEF Reads
  <2> QED BY <2>1, <2>2
<1>9. Counts(pos, sound)'
  BY <1>7, <1>8 DEF Counts
<1> QED BY <1>2, <1>4, <1>5, <1>9 DEF CountInv, ReadsOn

\* every step keeps the invariant
LEMMA NextCounts ==
  ASSUME NEW sound \in BOOLEAN, CountInv(sound), [Next]_vars,
         sound => ~PromotesBeforeEmpty
  PROVE  CountInv(sound)'
<1>1. Inv'
  BY NextInv DEF CountInv
<1>2. CASE Aside
  BY <1>1, <1>2, AsideCounts
<1>3. CASE \E r \in Readers : ReaderStep(r)
  BY <1>1, <1>3, StepCounts
<1> QED BY <1>2, <1>3 DEF Next, Aside

\* before anything happened no count has begun
LEMMA InitCounts ==
  ASSUME NEW sound \in BOOLEAN, Init
  PROVE  CountInv(sound)
<1>1. PICK pos : LinkedBy(pos) /\ RoutedBy(pos)
  BY InitFollows DEF Init, RouteInv
<1>2. PageBook
  BY NoTidAssumption
  DEF Init, PostingInit, PageBook, OnceEach, Named
<1>3. Kept
  BY DEF Init, RestInit, Kept
<1>4. ReaderTypes
  BY DEF Init, RestInit, ReaderTypes, NothingYet, Links
<1>5. ASSUME NEW r \in Readers PROVE Reads(r, pos, sound)
  <2>1. link[r] = NoPage /\ pc[r] = "idle"
    BY DEF Init, RestInit
  <2>2. Safe(r, {})
    BY <2>1 DEF Safe, RightClosed
  <2>3. Walk(r, pos, {})
    BY <2>1 DEF Walk
  <2> QED BY <2>2, <2>3 DEF Reads
<1>6. Counts(pos, sound)
  BY <1>1, <1>5 DEF Counts
<1> QED BY <1>2, <1>3, <1>4, <1>6, InitInv DEF CountInv

(* Whatever the separators say, what a running count may come to is there,  *)
(* and a count from the first key has counted what it passed.               *)
THEOREM CountsKept == Spec => []CountInv(FALSE)
<1>1. CountInv(FALSE) /\ [Next]_vars => CountInv(FALSE)'
  BY NextCounts
<1>2. Init => CountInv(FALSE)
  BY InitCounts
<1> QED BY <1>1, <1>2, PTL DEF Spec

(* A page a running count may still step to is not handed out again: what    *)
(* lion_page_recyclable() promises every link a count has copied, through     *)
(* splits, push-downs, unlinked leaves, ERRORs and reused pages.             *)
THEOREM NoReuse == Spec => NoReuseUnderReader
<1>1. ASSUME CountInv(FALSE), [Next]_vars, NEW r \in Running, link[r] # NoPage,
             kind[link[r]] \in {"deleted", "unlinked"}
      PROVE  kind'[link[r]] = kind[link[r]]
  <2>1. PICK l : l = link[r]
    OBVIOUS
  <2>2. PICK S : Safe(r, S)
    BY <1>1 DEF CountInv, Counts, Reads, Running
  <2>3. PICK pos : LinkedBy(pos)
    BY <1>1 DEF CountInv, Counts
  <2>4. l \in S /\ l \in Pages /\ kind[l] \in {"deleted", "unlinked"}
    BY <1>1, <2>1, <2>2 DEF Safe
  <2>5. CASE Aside
    <3>1. InsertStep(Running) \/ OtherStep(Running)
      BY <1>1, <2>5, AsideSteps DEF CountInv
    <3>2. PICK pos2 : Turns(pos, pos2, Running)
      BY <1>1, <2>3, <3>1, InsertStepTurns, OtherStepTurns DEF CountInv, PageBook
    <3>3. \/ PageStays(l) \/ PageRaised(l)
          \/ PageUnlinked(l, Running) \/ PageFreed(l, Running)
      BY <2>2, <2>4, <3>2, NotReused DEF Turns
    <3>4. kind'[l] = kind[l]
      BY <2>4, <3>3
      DEF PageStays, PageRaised, PageUnlinked, PageFreed, Stamped
    <3> QED BY <2>1, <3>4
  <2>6. CASE \E x \in Readers : ReaderStep(x)
    <3>1. kind' = kind
      BY <2>6 DEF ReaderStep, Begin, Locate, LocateEntry, ReadRoot, VisitRoot,
         ReadLeaf, VisitLeaf, CountContainer, Unpin, ReadNext, VisitNext, Return,
         Leave, postingVars
    <3> QED BY <3>1
  <2> QED BY <1>1, <2>5, <2>6 DEF Next, Aside
<1>2. CountInv(FALSE) /\ [Next]_vars =>
        [\A r \in Running :
           /\ link[r] # NoPage
           /\ pc[r] # "recheck"
           /\ kind[link[r]] \in {"deleted", "unlinked"}
           => kind'[link[r]] = kind[link[r]]]_vars
  BY <1>1
<1> QED BY <1>2, CountsKept, PTL DEF Spec, NoReuseUnderReader

\* a finished count of session r is exact
Exact(r) ==
  pc[r] = "recheck" =>
    \A t \in Tids : Counted(r, t) = IF t \in Window(r, snap[r]) THEN 1 ELSE 0

\* ... by what its walk has kept
LEMMA WalkedExact ==
  ASSUME NEW sound \in BOOLEAN, CountInv(sound), NEW r \in Readers,
         sound \/ from[r] = 0
  PROVE  Exact(r)
<1> SUFFICES ASSUME pc[r] = "recheck", NEW t \in Tids
             PROVE  Counted(r, t) = IF t \in Window(r, snap[r]) THEN 1 ELSE 0
  BY DEF Exact
<1>1. Tallied(r, Window(r, snap[r])) /\ ReaderTypes
  BY DEF CountInv, Counts, Reads, Walk
<1>2. tally[r][t] \in Nat /\ queue[r][t] \in Nat
  BY <1>1 DEF ReaderTypes
<1>3. t \in Window(r, snap[r]) => t \in snap[r]
  BY DEF Window
<1> QED BY <1>1, <1>2, <1>3 DEF Tallied, Counted

\* a count of the whole set is exact
WholeCountExact == \A r \in Readers : from[r] = 0 => Exact(r)

(* A count of the whole set counts every row its snapshot sees exactly once   *)
(* and no other row, in every state of the system: it never uses a separator *)
(* above the first (lion_count_one_set(), lion_posting_descend()).            *)
THEOREM WholeExact == Spec => []WholeCountExact
<1>1. CountInv(FALSE) => WholeCountExact
  BY WalkedExact DEF WholeCountExact
<1> QED BY <1>1, CountsKept, PTL

\* the system without the step that leaves a separator too low
SoundCountSpec == Init /\ [][Next /\ ~PromotesBeforeEmpty]_vars

(* With the separators in order, where every descent lands is right too.     *)
THEOREM SoundCountsKept == SoundCountSpec => []CountInv(TRUE)
<1>1. ASSUME CountInv(TRUE), [Next /\ ~PromotesBeforeEmpty]_vars
      PROVE  CountInv(TRUE)'
  <2>1. [Next]_vars /\ (~PromotesBeforeEmpty \/ UNCHANGED vars)
    BY <1>1
  <2>2. UNCHANGED vars => ~PromotesBeforeEmpty
    BY DEF vars, postingVars, PromotesBeforeEmpty
  <2> QED BY <1>1, <2>1, <2>2, NextCounts
<1>2. Init => CountInv(TRUE)
  BY InitCounts
<1> QED BY <1>1, <1>2, PTL DEF SoundCountSpec

(* A count from any first key counts every row of its window that its         *)
(* snapshot sees exactly once and no other row, whatever splits, push-downs,  *)
(* VACUUMs and reuses of line pointers and pages go on meanwhile.            *)
THEOREM CountsExact == SoundCountSpec => []CountExact
<1>1. CountInv(TRUE) => CountExact
  BY WalkedExact DEF CountExact, Exact
<1> QED BY <1>1, SoundCountsKept, PTL
-----------------------------------------------------------------------------
(* The abstract count *)

\* the sum over the rows of what each was counted for is a number of rows, when
\* those of D were counted once and no others
LEMMA SumOfOnes ==
  ASSUME NEW r \in Readers, NEW D \in SUBSET Tids,
         \A t \in Tids : Counted(r, t) = IF t \in D THEN 1 ELSE 0
  PROVE  Total(r) = Cardinality(D)
<1> DEFINE Eq(f) == f = [S \in SUBSET Tids |->
                           IF S = {} THEN 0
                           ELSE LET t == CHOOSE x \in S : TRUE
                                IN Counted(r, t) + f[S \ {t}]]
           card == [S \in SUBSET Tids |-> Cardinality(S \cap D)]
           sum == CHOOSE f : Eq(f)
<1>1. Total(r) = sum[Tids]
  BY DEF Total
<1>2. ASSUME NEW S \in SUBSET Tids
      PROVE  IsFiniteSet(S) /\ IsFiniteSet(S \cap D) /\ Cardinality(S \cap D) \in Nat
             /\ Cardinality(S) \in Nat
  <2>1. IsFiniteSet(S) BY TidsAssumption, FS_Subset
  <2>2. IsFiniteSet(S \cap D) BY <2>1, FS_Subset
  <2> QED BY <2>1, <2>2, FS_CardinalityType
<1>3. ASSUME NEW S \in SUBSET Tids, NEW t \in S
      PROVE  /\ Cardinality(S \ {t}) = Cardinality(S) - 1
             /\ Cardinality(S \cap D) = Counted(r, t) + Cardinality((S \ {t}) \cap D)
  <2>1. Cardinality(S \ {t}) = Cardinality(S) - 1
    BY <1>2, FS_RemoveElement
  <2>2. (S \ {t}) \cap D = (S \cap D) \ {t}
    OBVIOUS
  <2>3. Cardinality((S \cap D) \ {t}) = IF t \in S \cap D THEN Cardinality(S \cap D) - 1
                                        ELSE Cardinality(S \cap D)
    BY <1>2, FS_RemoveElement
  <2>4. Cardinality((S \ {t}) \cap D) = IF t \in D THEN Cardinality(S \cap D) - 1
                                        ELSE Cardinality(S \cap D)
    BY <2>2, <2>3
  <2>5. Cardinality(S \cap D) \in Nat
    BY <1>2
  <2> QED BY <2>1, <2>4, <2>5
<1>4. Cardinality({} \cap D) = 0
  <2>1. {} \cap D = {} OBVIOUS
  <2> QED BY <2>1, FS_EmptySet
<1>5. \E f : Eq(f)
  <2>1. ASSUME NEW S \in SUBSET Tids
        PROVE  card[S] = IF S = {} THEN 0
                         ELSE LET t == CHOOSE x \in S : TRUE
                              IN Counted(r, t) + card[S \ {t}]
    <3>1. CASE S = {} BY <1>4, <3>1
    <3>2. CASE S # {}
      <4>1. PICK t : t = CHOOSE x \in S : TRUE OBVIOUS
      <4>2. t \in S BY <3>2, <4>1
      <4>3. card[S] = Cardinality(S \cap D) /\ S \ {t} \in SUBSET Tids
            /\ card[S \ {t}] = Cardinality((S \ {t}) \cap D)
        OBVIOUS
      <4>4. card[S] = Counted(r, t) + card[S \ {t}]
        BY <1>3, <4>2, <4>3
      <4> HIDE DEF card
      <4> QED BY <3>2, <4>1, <4>4
    <3> QED BY <3>1, <3>2
  <2>2. card = [S \in SUBSET Tids |-> card[S]]
    OBVIOUS
  <2> HIDE DEF card
  <2>3. Eq(card)
    BY <2>1, <2>2
  <2> QED BY <2>3
<1>6. Eq(sum)
  BY <1>5
<1>7. ASSUME NEW f, Eq(f) PROVE f[Tids] = Cardinality(D)
  <2> DEFINE U == {n \in Nat : \A S \in SUBSET Tids :
                     Cardinality(S) = n => f[S] = Cardinality(S \cap D)}
  <2>1. ASSUME NEW S \in SUBSET Tids
        PROVE  /\ S = {} => f[S] = 0
               /\ S # {} => \E t \in S : f[S] = Counted(r, t) + f[S \ {t}]
    <3>1. f[S] = IF S = {} THEN 0
                 ELSE LET t == CHOOSE x \in S : TRUE
                      IN Counted(r, t) + f[S \ {t}]
      BY <1>7
    <3>2. S # {} => (CHOOSE x \in S : TRUE) \in S
      OBVIOUS
    <3> QED BY <3>1, <3>2
  <2>2. 0 \in U
    <3>1. SUFFICES ASSUME NEW S \in SUBSET Tids, Cardinality(S) = 0
                   PROVE  f[S] = Cardinality(S \cap D)
      OBVIOUS
    <3>2. S = {} BY <1>2, <3>1, FS_EmptySet
    <3> QED BY <1>4, <2>1, <3>2
  <2>3. ASSUME NEW n \in U PROVE n + 1 \in U
    <3>1. SUFFICES ASSUME NEW S \in SUBSET Tids, Cardinality(S) = n + 1
                   PROVE  f[S] = Cardinality(S \cap D)
      OBVIOUS
    <3>2. S # {} BY <3>1, FS_EmptySet
    <3>3. PICK t \in S : f[S] = Counted(r, t) + f[S \ {t}]
      BY <2>1, <3>2
    <3>4. Cardinality(S \ {t}) = n /\ S \ {t} \in SUBSET Tids
      <4>1. Cardinality(S \ {t}) = Cardinality(S) - 1
        BY <1>3
      <4>2. n \in Nat BY <2>3
      <4> QED BY <3>1, <4>1, <4>2
    <3>5. f[S \ {t}] = Cardinality((S \ {t}) \cap D)
      BY <2>3, <3>4
    <3> QED BY <1>3, <3>3, <3>5
  <2>4. U = Nat
    <3>1. U \in SUBSET Nat OBVIOUS
    <3> HIDE DEF U
    <3> QED BY <2>2, <2>3, <3>1, NatSet
  <2>5. Tids \cap D = D OBVIOUS
  <2>6. Cardinality(Tids) \in U
    <3> HIDE DEF U
    <3> QED BY <1>2, <2>4
  <2> QED BY <2>5, <2>6
<1> HIDE DEF Eq, sum
<1> QED BY <1>1, <1>6, <1>7

\* the abstract count's variables: what a snapshot taken now sees, and for each
\* session what it is to count, where it stands and what it was told
Visible == {t \in Tids : row[t] = "live"}
Asked == [r \in Readers |-> Window(r, snap[r])]
Status == [r \in Readers |-> CASE pc[r] = "idle" -> "idle"
                               [] pc[r] = "recheck" -> "answered"
                               [] OTHER -> "asked"]
Told == [r \in Readers |-> IF pc[r] = "recheck" THEN Total(r) ELSE 0]

\* an exact count's answer is the number of rows it was asked for
Answers ==
  /\ SessionTypes /\ ReaderTypes
  /\ \A r \in Readers : pc[r] = "recheck" => Total(r) = Cardinality(Asked[r])
  /\ \A r \in Readers : pc[r] = "idle" => snap[r] = {}

LEMMA ExactAnswers == CountInv(TRUE) => Answers
<1> SUFFICES ASSUME CountInv(TRUE) PROVE Answers
  OBVIOUS
<1>1. SessionTypes /\ ReaderTypes
  BY DEF CountInv, Inv
<1>2. ASSUME NEW r \in Readers, pc[r] = "recheck"
      PROVE  Total(r) = Cardinality(Asked[r])
  <2>1. Exact(r)
    BY WalkedExact
  <2>2. Window(r, snap[r]) \in SUBSET Tids
    BY <1>1 DEF Window, SessionTypes
  <2>3. \A t \in Tids : Counted(r, t) = IF t \in Window(r, snap[r]) THEN 1 ELSE 0
    BY <1>2, <2>1 DEF Exact
  <2>4. Total(r) = Cardinality(Window(r, snap[r]))
    BY <2>2, <2>3, SumOfOnes
  <2> QED BY <2>4 DEF Asked
<1> QED BY <1>1, <1>2 DEF Answers, ReaderTypes

\* sessions that write, and VACUUM, make a row visible or remove one
LEMMA AsideWrites ==
  ASSUME Inv, Aside
  PROVE  \/ Visible' = Visible
         \/ \E t \in Tids : Visible' \in {Visible \cup {t}, Visible \ {t}}
<1>0. row \in [Tids -> {"unused", "doing", "live", "gone"}]
  BY DEF Inv, SessionTypes
<1>1. CASE \E t \in Tids : HeapInsert(t) \/ Commit(t) \/ Abort(t) \/ Delete(t)
  <2>1. PICK t \in Tids : HeapInsert(t) \/ Commit(t) \/ Abort(t) \/ Delete(t)
    BY <1>1
  <2>2. \/ row[t] = "unused" /\ row' = [row EXCEPT ![t] = "doing"]
        \/ row' = [row EXCEPT ![t] = "live"]
        \/ row' = [row EXCEPT ![t] = "gone"]
    BY <2>1 DEF HeapInsert, Commit, Abort, Delete
  <2>3. Visible' \in {Visible, Visible \cup {t}, Visible \ {t}}
    <3>1. CASE row[t] = "unused" /\ row' = [row EXCEPT ![t] = "doing"]
      BY <1>0, <3>1 DEF Visible
    <3>2. CASE row' = [row EXCEPT ![t] = "live"]
      BY <1>0, <3>2 DEF Visible
    <3>3. CASE row' = [row EXCEPT ![t] = "gone"]
      BY <1>0, <3>3 DEF Visible
    <3> QED BY <2>2, <3>1, <3>2, <3>3
  <2> QED BY <2>3
<1>2. CASE \/ \E t \in Tids : IndexInsertBegin(t)
           \/ \E b \in Blocks : SetAllVisible(b)
           \/ IndexInsertStep
           \/ UNCHANGED vars
  BY <1>2 DEF IndexInsertBegin, SetAllVisible, IndexInsertStep, vars, heapVars,
     Visible
<1>3. CASE IndexInsertFails
  <2>1. /\ row' = [row EXCEPT ![ins] = "gone"] /\ ins # NoTid
        /\ row[ins] = "doing"
    BY <1>3 DEF IndexInsertFails, InsertFails, Inv, Heap
  <2> QED BY <1>0, <2>1 DEF Visible
<1>4. CASE VacuumReap
  <2>1. /\ row' = [t \in Tids |-> IF t \in vdead THEN "unused" ELSE row[t]]
        /\ \A t \in vdead : row[t] = "gone"
    BY <1>4 DEF VacuumReap, Inv, Heap
  <2> QED BY <1>0, <2>1 DEF Visible
<1>5. CASE \/ VacuumBegin \/ VacuumEntry \/ VacuumRoot \/ VacuumRestart
           \/ VacuumPage \/ VacuumUnlink \/ VacuumDelete \/ VacuumFails
           \/ \E p \in Pages : VacuumFree(p)
  <2>1. row' = row
    BY <1>5 DEF VacuumBegin, VacuumEntry, PassEntry, VacuumRoot, PassRoot,
       VacuumRestart, PassRestart, VacuumPage, PassPage, VacuumUnlink, VacuumDelete,
       PassDelete, VacuumFails, VacuumFree, heapVars
  <2> QED BY <2>1 DEF Visible
<1> QED BY <1>1, <1>2, <1>3, <1>4, <1>5 DEF Aside, HeapStep, VacuumStep

\* the steps of the abstract count, of its variables as they are here
AskStep(r) ==
  /\ Status[r] = "idle" /\ Status' = [Status EXCEPT ![r] = "asked"]
  /\ \E k \in Froms : Asked' = [Asked EXCEPT ![r] =
                                  Visible \cap {t \in Tids : BlockOf[t] >= k}]
  /\ UNCHANGED <<Visible, Told>>

AnswerStep(r) ==
  /\ Status[r] = "asked" /\ Status' = [Status EXCEPT ![r] = "answered"]
  /\ Told' = [Told EXCEPT ![r] = Cardinality(Asked[r])]
  /\ UNCHANGED <<Visible, Asked>>

ForgetStep(r) ==
  /\ Status[r] # "idle" /\ Status' = [Status EXCEPT ![r] = "idle"]
  /\ Asked' = [Asked EXCEPT ![r] = {}]
  /\ Told' = [Told EXCEPT ![r] = 0]
  /\ UNCHANGED Visible

\* what the answers are, once they are exact
Answer == [r \in Readers |-> IF pc[r] = "recheck" THEN Cardinality(Asked[r]) ELSE 0]
LEMMA ToldAnswers == Answers => Told = Answer
BY DEF Answers, Told, Answer

\* each step of a count is one of those, or none
LEMMA ReaderSimulates ==
  ASSUME Answers, Answers', NEW r \in Readers, ReaderStep(r)
  PROVE  \/ AskStep(r) \/ AnswerStep(r) \/ ForgetStep(r)
         \/ UNCHANGED <<Visible, Asked, Status, Told>>
<1>1. Told = Answer /\ Told' = Answer'
  <2>1. Told = Answer BY ToldAnswers
  <2>2. (Told = Answer)' BY ToldAnswers, PTL
  <2> QED BY <2>1, <2>2
<1>2. /\ SessionTypes /\ ReaderTypes
      /\ \A x \in Readers : pc[x] = "idle" => snap[x] = {}
  BY DEF Answers
<1>3. Visible' = Visible
  BY DEF ReaderStep, Begin, Locate, LocateEntry, ReadRoot, VisitRoot, ReadLeaf,
     VisitLeaf, CountContainer, Unpin, ReadNext, VisitNext, Return, Leave, heapVars,
     Visible
<1>4. CASE Begin(r)
  <2>1. PICK k \in Froms :
          /\ pc[r] = "idle" /\ pc' = [pc EXCEPT ![r] = "locate"]
          /\ snap' = [snap EXCEPT ![r] = Visible]
          /\ from' = [from EXCEPT ![r] = k]
    BY <1>4 DEF Begin, Visible
  <2>2. /\ pc'[r] = "locate" /\ snap'[r] = Visible /\ from'[r] = k
        /\ \A x \in Readers \ {r} : /\ pc'[x] = pc[x] /\ snap'[x] = snap[x]
                                    /\ from'[x] = from[x]
    BY <1>2, <2>1 DEF SessionTypes, ReaderTypes
  <2>3. Status[r] = "idle" /\ Status' = [Status EXCEPT ![r] = "asked"]
    BY <2>1, <2>2 DEF Status
  <2>4. Asked' = [Asked EXCEPT ![r] = Visible \cap {t \in Tids : BlockOf[t] >= k}]
    <3>1. Asked'[r] = Visible \cap {t \in Tids : BlockOf[t] >= k}
      BY <2>2 DEF Asked, Window, Visible
    <3>2. \A x \in Readers \ {r} : Asked'[x] = Asked[x]
      BY <2>2 DEF Asked, Window
    <3> QED BY <3>1, <3>2 DEF Asked
  <2>5. Answer' = Answer
    <3>1. \A x \in Readers \ {r} : Asked'[x] = Asked[x]
      BY <2>2 DEF Asked, Window
    <3> QED BY <2>1, <2>2, <3>1 DEF Answer
  <2> QED BY <1>1, <1>3, <2>3, <2>4, <2>5 DEF AskStep
<1>5. CASE Return(r)
  <2>1. /\ pc[r] = "recheck" /\ pc' = [pc EXCEPT ![r] = "idle"]
        /\ snap' = [snap EXCEPT ![r] = {}]
        /\ from' = [from EXCEPT ![r] = 0]
    BY <1>5 DEF Return, Leave
  <2>2. /\ pc'[r] = "idle" /\ snap'[r] = {}
        /\ \A x \in Readers \ {r} : /\ pc'[x] = pc[x] /\ snap'[x] = snap[x]
                                    /\ from'[x] = from[x]
    BY <1>2, <2>1 DEF SessionTypes, ReaderTypes
  <2>3. Asked'[r] = {} /\ \A x \in Readers \ {r} : Asked'[x] = Asked[x]
    BY <2>2 DEF Asked, Window
  <2>4. Asked' = [Asked EXCEPT ![r] = {}]
    BY <2>3 DEF Asked
  <2>5. Status[r] # "idle" /\ Status' = [Status EXCEPT ![r] = "idle"]
    BY <2>1, <2>2 DEF Status
  <2>6. Answer' = [Answer EXCEPT ![r] = 0]
    BY <2>1, <2>2, <2>3 DEF Answer
  <2> QED BY <1>1, <1>3, <2>4, <2>5, <2>6 DEF ForgetStep
<1>6. CASE \/ Locate(r) \/ ReadRoot(r) \/ ReadLeaf(r) \/ CountContainer(r)
           \/ Unpin(r) \/ ReadNext(r)
  <2>1. UNCHANGED <<snap, from>>
    BY <1>6 DEF Locate, LocateEntry, ReadRoot, VisitRoot, ReadLeaf, VisitLeaf,
       CountContainer, Unpin, ReadNext, VisitNext
  <2>2. Asked' = Asked
    BY <2>1 DEF Asked, Window
  <2>3. /\ pc[r] \in {"locate", "root", "leaf", "items", "next"}
        /\ pc'[r] \in {"root", "leaf", "items", "next", "recheck"}
        /\ \A x \in Readers \ {r} : pc'[x] = pc[x]
    <3>1. CASE Locate(r) \/ Unpin(r) \/ CountContainer(r)
      BY <1>2, <3>1 DEF Locate, LocateEntry, CountContainer, Unpin, SessionTypes
    <3>2. CASE ReadRoot(r) \/ ReadLeaf(r) \/ ReadNext(r)
      BY <1>2, <3>2 DEF ReadRoot, VisitRoot, ReadLeaf, VisitLeaf, ReadNext, VisitNext,
         LandOn, TakeLeaf, EndOfSet, SessionTypes
    <3> QED BY <1>6, <3>1, <3>2
  <2>4. CASE pc'[r] = "recheck"
    <3>1. Status[r] = "asked" /\ Status' = [Status EXCEPT ![r] = "answered"]
      BY <2>3, <2>4 DEF Status
    <3>2. Answer' = [Answer EXCEPT ![r] = Cardinality(Asked[r])]
      BY <2>2, <2>3, <2>4 DEF Answer
    <3> QED BY <1>1, <1>3, <2>2, <3>1, <3>2 DEF AnswerStep
  <2>5. CASE pc'[r] # "recheck"
    <3>1. Status' = Status
      BY <2>3, <2>5 DEF Status
    <3>2. Answer' = Answer
      BY <2>2, <2>3, <2>5 DEF Answer
    <3> QED BY <1>1, <1>3, <2>2, <3>1, <3>2
  <2> QED BY <2>4, <2>5
<1> QED BY <1>4, <1>5, <1>6 DEF ReaderStep

\* the rest of the system only writes
LEMMA AsideSimulates ==
  ASSUME Answers, Answers', Inv, Aside
  PROVE  /\ \/ Visible' = Visible
            \/ \E t \in Tids : Visible' \in {Visible \cup {t}, Visible \ {t}}
         /\ UNCHANGED <<Asked, Status, Told>>
<1>1. Told = Answer /\ Told' = Answer'
  <2>1. Told = Answer BY ToldAnswers
  <2>2. (Told = Answer)' BY ToldAnswers, PTL
  <2> QED BY <2>1, <2>2
<1>2. UNCHANGED <<pc, snap, from>>
  BY AsideSteps DEF readerVars
<1>3. Asked' = Asked
  BY <1>2 DEF Asked, Window
<1>4. Status' = Status /\ Answer' = Answer
  BY <1>2, <1>3 DEF Status, Answer
<1> QED BY <1>1, <1>3, <1>4, AsideWrites

\* the abstract count numbers sets as this module does
LEMMA SameNumber == \A S : Atomic!Cardinality(S) = Cardinality(S)
BY DEF Cardinality, Atomic!Cardinality

(* Every count returns the number of rows its snapshot saw, as if it had      *)
(* counted them at the one moment it was taken (AtomicCount): the walk, the   *)
(* map's word and the recheck implement that, step by step, beside every      *)
(* insertion, deletion and VACUUM (lion_count_one_set()).                     *)
THEOREM CountsAtOnce == SoundCountSpec => CountsAtomically
<1>1. Init => Atomic!AInit
  <2> SUFFICES ASSUME Init PROVE Atomic!AInit
    OBVIOUS
  <2>1. /\ row = [t \in Tids |-> "unused"]
        /\ pc = [r \in Readers |-> "idle"] /\ snap = [r \in Readers |-> {}]
    BY DEF Init, RestInit
  <2>2. {t \in Tids : row[t] = "live"} \in SUBSET Tids
    OBVIOUS
  <2>3. [r \in Readers |-> Window(r, snap[r])] = [r \in Readers |-> {}]
    BY <2>1 DEF Window
  <2>4. Status = [r \in Readers |-> "idle"] /\ Told = [r \in Readers |-> 0]
    BY <2>1 DEF Status, Told
  <2> QED BY <2>2, <2>3, <2>4 DEF Atomic!AInit, Status, Told
<1>2. ASSUME CountInv(TRUE), CountInv(TRUE)', Answers, Answers', [Next]_vars
      PROVE  [Atomic!ANext]_(Atomic!avars)
  <2>1. CASE Aside
    <3>1. Inv BY <1>2 DEF CountInv
    <3>2. /\ \/ Visible' = Visible
             \/ \E t \in Tids : Visible' \in {Visible \cup {t}, Visible \ {t}}
          /\ UNCHANGED <<Asked, Status, Told>>
      BY <1>2, <2>1, <3>1, AsideSimulates
    <3>3. CASE Visible' = Visible
      BY <3>2, <3>3 DEF Atomic!avars, Visible, Asked, Status, Told
    <3>4. CASE \E t \in Tids : Visible' \in {Visible \cup {t}, Visible \ {t}}
      <4>1. Atomic!Write
        BY <3>2, <3>4 DEF Atomic!Write, Visible, Asked, Status, Told
      <4> QED BY <4>1 DEF Atomic!ANext
    <3> QED BY <3>2, <3>3, <3>4
  <2>2. CASE \E r \in Readers : ReaderStep(r)
    <3>1. PICK r \in Readers : ReaderStep(r) BY <2>2
    <3>2. \/ AskStep(r) \/ AnswerStep(r) \/ ForgetStep(r)
          \/ UNCHANGED <<Visible, Asked, Status, Told>>
      BY <1>2, <3>1, ReaderSimulates
    <3>3. CASE AskStep(r)
      <4>1. PICK part \in {{t \in Tids : BlockOf[t] >= k} : k \in Froms} :
              Asked' = [Asked EXCEPT ![r] = Visible \cap part]
        BY <3>3 DEF AskStep
      <4>2. Atomic!Ask(r)
        BY <3>3, <4>1 DEF AskStep, Atomic!Ask, Visible, Asked, Status, Told
      <4> QED BY <4>2 DEF Atomic!ANext
    <3>4. CASE AnswerStep(r)
      <4>1. Atomic!Answer(r)
        BY <3>4, SameNumber DEF AnswerStep, Atomic!Answer, Visible, Asked, Status, Told
      <4> QED BY <4>1 DEF Atomic!ANext
    <3>5. CASE ForgetStep(r)
      <4>1. Atomic!Forget(r)
        BY <3>5 DEF ForgetStep, Atomic!Forget, Visible, Asked, Status, Told
      <4> QED BY <4>1 DEF Atomic!ANext
    <3>6. CASE UNCHANGED <<Visible, Asked, Status, Told>>
      BY <3>6 DEF Atomic!avars, Visible, Asked, Status, Told
    <3> QED BY <3>2, <3>3, <3>4, <3>5, <3>6
  <2> QED BY <1>2, <2>1, <2>2 DEF Next, Aside
<1>3. [Next /\ ~PromotesBeforeEmpty]_vars => [Next]_vars
  OBVIOUS
<1> QED BY <1>1, <1>2, <1>3, SoundCountsKept, ExactAnswers, PTL
        DEF SoundCountSpec, CountsAtomically, Atomic!ASpec
=============================================================================
