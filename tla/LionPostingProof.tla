-------------------------- MODULE LionPostingProof --------------------------
(***************************************************************************)
(* What LionPosting's steps keep of a posting set, for any number of pages *)
(* and TIDs.                                                               *)
(*                                                                         *)
(* The first part is about its shape: the live leaves that carry the set's *)
(* stamp are one chain from the first leaf, and nothing is on any other    *)
(* page.  That every stamped leaf is reached from the first one is said    *)
(* with sets no right link leads out of, so that no induction over the     *)
(* chain is needed: such a set of stamped leaves that has the first leaf   *)
(* has all.                                                                *)
(*                                                                         *)
(* The second part is about where the keys are and where a descent for a   *)
(* key ends.  The order of the leaves is a witness, not a variable: pos    *)
(* gives every stamped leaf a number that ascends along the right links.   *)
(* The invariant says that such numbers exist and what holds of the keys   *)
(* and the separators by them, and every step says how it changes them.    *)
(* What the properties say of the walk Chain(FirstLeaf) follows from that. *)
(***************************************************************************)
EXTENDS LionPosting, FiniteSetTheorems, SequenceTheorems, TLAPS

\* the live leaves that carry the set's stamp
Stamped == {p \in Pages : kind[p] = "leaf" /\ owner[p] = head}

PageTypes ==
  /\ form \in {"absent", "inline", "chain"}
  /\ inl \in SUBSET Tids
  /\ head \in Links
  /\ kind \in [Pages -> {"new", "leaf", "inner", "unlinked", "deleted"}]
  /\ owner \in [Pages -> Links]
  /\ items \in [Pages -> SUBSET Tids]
  /\ right \in [Pages -> Links]
  /\ DOMAIN down = Pages
  /\ ins \in Tids \cup {NoTid}

\* what the entry, the stamps and the pages have to do with each other
Ownership ==
  /\ form # "inline" => inl = {}
  /\ \A p \in Pages : kind[p] # "new" =>
       owner[p] \in Pages /\ kind[owner[p]] # "new"
  /\ \A p \in Pages : items[p] # {} => form = "chain" /\ p \in Stamped
  /\ form = "chain" =>
       /\ head \in Pages
       /\ kind[head] \in {"leaf", "inner"}
       /\ owner[head] = head
       /\ kind[head] = "inner" => Len(down[head]) \in Nat \ {0}

\* every set of stamped leaves closed under right links comes to an end
Ends == \A C \in SUBSET Stamped : RightClosed(C) /\ C # {} =>
          \E p \in C : right[p] = NoPage

\* every stamped leaf is right of the first
AllReached == \A C \in SUBSET Stamped : RightClosed(C) /\ FirstLeaf \in C =>
                Stamped \subseteq C

\* no two leaves, and nothing before the first, have the same right link
OneLeft ==
  /\ \A p \in Stamped : right[p] # FirstLeaf
  /\ \A p, q \in Stamped : right[p] = right[q] => p = q \/ right[p] = NoPage

OneChain ==
  form = "chain" => /\ FirstLeaf \in Stamped
                    /\ RightClosed(Stamped)
                    /\ OneLeft
                    /\ Ends
                    /\ AllReached

Shape == PageTypes /\ Ownership /\ OneChain
-----------------------------------------------------------------------------
(* The walk along the right links finds exactly the stamped leaves.        *)
LEMMA LeavesStamped ==
  ASSUME Shape, form = "chain"
  PROVE  Leaves = Stamped
<1>1. Leaves \subseteq Stamped
  <2>1. FirstLeaf \in Stamped /\ RightClosed(Stamped) /\ Stamped \in SUBSET Pages
    BY DEF Shape, OneChain, Stamped
  <2> QED BY <2>1 DEF Leaves
<1>2. ASSUME NEW p \in Stamped, NEW C \in SUBSET Pages,
             FirstLeaf \in C, RightClosed(C)
      PROVE  p \in C
  <2>1. RightClosed(C \cap Stamped)
    BY <1>2 DEF Shape, OneChain, RightClosed
  <2>2. FirstLeaf \in C \cap Stamped
    BY <1>2 DEF Shape, OneChain
  <2>3. C \cap Stamped \in SUBSET Stamped
    OBVIOUS
  <2> QED BY <2>1, <2>2, <2>3 DEF Shape, OneChain, AllReached
<1>3. Stamped \subseteq Leaves
  BY <1>2 DEF Leaves, Stamped
<1> QED BY <1>1, <1>3

Everywhere == Indexed = inl \cup UNION {items[p] : p \in Pages}

(* The TIDs of the set are the entry's and everything that is on a page.   *)
LEMMA IndexedEverywhere == Shape => Everywhere
<1> SUFFICES ASSUME Shape
             PROVE  Indexed = inl \cup UNION {items[p] : p \in Pages}
  BY DEF Everywhere
<1>1. CASE form = "chain"
  <2>1. Leaves = Stamped BY <1>1, LeavesStamped
  <2>2. inl = {} BY <1>1 DEF Shape, Ownership
  <2>3. Indexed = UNION {items[p] : p \in Stamped}
    BY <1>1, <2>1 DEF Indexed
  <2>4. ASSUME NEW p \in Pages, items[p] # {} PROVE p \in Stamped
    BY <2>4 DEF Shape, Ownership
  <2>5. Stamped \subseteq Pages BY DEF Stamped
  <2> QED BY <2>2, <2>3, <2>4, <2>5
<1>2. CASE form # "chain"
  <2>1. \A p \in Pages : items[p] = {} BY <1>2 DEF Shape, Ownership
  <2>2. form = "inline" => Indexed = inl BY DEF Indexed
  <2>3. form # "inline" => Indexed = {} /\ inl = {}
    BY <1>2, <2>1 DEF Indexed, Leaves, Shape, Ownership
  <2> QED BY <2>1, <2>2, <2>3
<1> QED BY <1>1, <1>2

(* Nothing in a chain that changes, changes: steps that leave the links    *)
(* and the kinds of the pages alone.                                       *)
LEMMA ChainUnchanged ==
  ASSUME OneChain, UNCHANGED <<form, head, kind, owner, right, down>>
  PROVE  OneChain'
<1>1. Stamped' = Stamped BY DEF Stamped
<1>2. FirstLeaf' = FirstLeaf BY DEF FirstLeaf, Flat
<1>3. \A C \in SUBSET Stamped : RightClosed(C)' <=> RightClosed(C)
  BY DEF RightClosed
<1> QED BY <1>1, <1>2, <1>3 DEF OneChain, OneLeft, Ends, AllReached, RightClosed
-----------------------------------------------------------------------------
(* Steps that leave the chain's links alone *)

\* Taking the directory leaf for an insertion touches no page.
LEMMA BeginShape ==
  ASSUME Shape, NEW t \in Tids, InsertBegin(t)
  PROVE  Shape'
<1> USE DEF InsertBegin, entryVars, pageVars
<1>1. PageTypes' BY DEF Shape, PageTypes
<1>2. Ownership' BY DEF Shape, Ownership, Stamped
<1>3. OneChain' BY ChainUnchanged DEF Shape
<1> QED BY <1>1, <1>2, <1>3 DEF Shape

\* An insertion that ends between two records leaves every page as it is.
LEMMA FailsShape ==
  ASSUME Shape, InsertFails
  PROVE  Shape'
<1> USE DEF InsertFails, entryVars, pageVars
<1>1. PageTypes' BY DEF Shape, PageTypes
<1>2. Ownership' BY DEF Shape, Ownership, Stamped
<1>3. OneChain' BY ChainUnchanged DEF Shape
<1> QED BY <1>1, <1>2, <1>3 DEF Shape

\* A key's first row and a row added to an INLINE payload touch no page.
LEMMA InlineShape ==
  ASSUME Shape, InsertNewEntry \/ InsertInline \/ \E gone : FilterInline(gone)
  PROVE  Shape'
<1> USE DEF InsertNewEntry, InsertInline, FilterInline, pageVars
<1>1. form # "chain" /\ form' = "inline" /\ UNCHANGED <<head, pageVars>>
  OBVIOUS
<1>2. PageTypes'
  <2>1. inl' \in SUBSET Tids BY DEF Shape, PageTypes
  <2>2. ins' \in Tids \cup {NoTid} BY DEF Shape, PageTypes
  <2> QED BY <1>1, <2>1, <2>2 DEF Shape, PageTypes
<1>3. Ownership' BY <1>1 DEF Shape, Ownership, Stamped
<1>4. OneChain' BY <1>1 DEF OneChain
<1> QED BY <1>2, <1>3, <1>4 DEF Shape

\* A TID that joins a leaf changes neither the links nor the stamps.
LEMMA PutOnShape ==
  ASSUME Shape, NEW p \in Stamped, form = "chain", ins # NoTid, PutOn(p)
  PROVE  Shape'
<1> USE DEF PutOn, entryVars
<1>1. PageTypes' BY DEF Shape, PageTypes, Stamped
<1>2. Ownership'
  <2>1. \A x \in Pages : items'[x] # {} => x \in Stamped
    BY DEF Shape, PageTypes, Ownership
  <2> QED BY <2>1 DEF Shape, Ownership, Stamped
<1>3. OneChain' BY ChainUnchanged DEF Shape
<1> QED BY <1>1, <1>2, <1>3 DEF Shape

\* What VACUUM filters, an INLINE payload or a page, loses items and nothing
\* else changes.
LEMMA FilterShape ==
  ASSUME Shape, NEW p \in Pages, NEW gone, FilterPage(p, gone)
  PROVE  Shape'
<1> USE DEF FilterPage, entryVars
<1>1. PageTypes' BY DEF Shape, PageTypes
<1>2. Ownership'
  <2>1. \A x \in Pages : items'[x] # {} => items[x] # {}
    BY DEF Shape, PageTypes
  <2> QED BY <2>1 DEF Shape, Ownership, Stamped
<1>3. OneChain' BY ChainUnchanged DEF Shape
<1> QED BY <1>1, <1>2, <1>3 DEF Shape

\* Clearing a split flag changes neither the links nor the items.
LEMMA ClearShape ==
  ASSUME Shape, NEW p \in Pages, ClearSplit(p)
  PROVE  Shape'
<1> USE DEF ClearSplit, entryVars
<1>1. PageTypes' BY DEF Shape, PageTypes
<1>2. Ownership' BY DEF Shape, Ownership, Stamped
<1>3. OneChain' BY ChainUnchanged DEF Shape
<1> QED BY <1>1, <1>2, <1>3 DEF Shape

\* An entry goes only when its set is empty, so nothing is left on a page that
\* no entry heads.
LEMMA DeleteShape ==
  ASSUME Shape, DeleteEntry
  PROVE  Shape'
<1> USE DEF DeleteEntry, pageVars
<1>1. \A p \in Pages : items[p] = {}
  BY IndexedEverywhere DEF Everywhere
<1>2. PageTypes' BY DEF Shape, PageTypes, Links
<1>3. Ownership' BY <1>1 DEF Shape, Ownership
<1>4. OneChain' BY DEF OneChain
<1> QED BY <1>2, <1>3, <1>4 DEF Shape

(* A freed page is on no chain. *)
LEMMA FreeShape ==
  ASSUME Shape, NEW p \in Pages, NEW live, FreePage(p, live)
  PROVE  Shape'
<1> USE DEF FreePage, Orphan, entryVars
<1>1. PageTypes'
  BY DEF Shape, PageTypes, Links
<1>2. CASE form = "chain"
  <2>1. p # head /\ p \notin Stamped
    BY <1>2 DEF Shape, Ownership, Stamped
  <2>2. Stamped' = Stamped
    BY <2>1, <1>2 DEF Stamped, Shape, PageTypes
  <2>3. FirstLeaf' = FirstLeaf
    BY <2>1, <1>2 DEF FirstLeaf, Flat, Shape, PageTypes
  <2>4. \A x \in Stamped : right'[x] = right[x]
    BY <2>1 DEF Shape, PageTypes, Stamped
  <2>5. Ownership'
    BY <1>2, <2>1, <2>2 DEF Shape, Ownership, PageTypes
  <2>6. \A C \in SUBSET Stamped : RightClosed(C)' <=> RightClosed(C)
    BY <2>4 DEF RightClosed
  <2>7. OneChain'
    BY <1>2, <2>2, <2>3, <2>4, <2>6
    DEF Shape, OneChain, OneLeft, Ends, AllReached, RightClosed
  <2> QED BY <1>1, <2>5, <2>7 DEF Shape
<1>3. CASE form # "chain"
  <2>1. Ownership'
    BY <1>3 DEF Shape, Ownership, PageTypes
  <2>2. OneChain' BY <1>3 DEF OneChain
  <2> QED BY <1>1, <2>1, <2>2 DEF Shape
<1> QED BY <1>2, <1>3
-----------------------------------------------------------------------------
(* Steps that change the chain *)

\* a page that may be handed out is on no chain and heads no set
LEMMA RecyclableUnused ==
  ASSUME Shape, NEW q \in Pages, NEW live, Recyclable(q, live)
  PROVE  /\ kind[q] \notin {"leaf", "inner"}
         /\ q \notin Stamped
         /\ items[q] = {}
         /\ form = "chain" => q # head
BY DEF Recyclable, Shape, Ownership, Stamped

(* The first leaf: a chain of one page, on a page never stamped before. *)
LEMMA SpillShape ==
  ASSUME Shape, NEW q \in Pages, Spill(q)
  PROVE  Shape'
<1> USE DEF Spill, NewLeaf
<1>1. PageTypes' BY DEF Shape, PageTypes, Links
<1>2. kind' = [kind EXCEPT ![q] = "leaf"] /\ kind[q] = "new" /\ head' = q
  OBVIOUS
<1>3. \A x \in Pages : x # q => kind[x] = "new" \/ owner[x] # q
  BY <1>2 DEF Shape, Ownership
<1>4. Stamped' = {q}
  BY <1>3 DEF Stamped, Shape, PageTypes
<1>5. \A x \in Pages : items[x] = {}
  BY DEF Shape, Ownership
<1>6. Ownership'
  <2>1. \A x \in Pages : items'[x] # {} => x = q
    BY <1>5 DEF Shape, PageTypes
  <2>2. \A x \in Pages : kind'[x] # "new" =>
          owner'[x] \in Pages /\ kind'[owner'[x]] # "new"
    BY DEF Shape, PageTypes, Ownership
  <2>3. kind'[q] = "leaf" /\ owner'[q] = q
    BY DEF Shape, PageTypes
  <2> QED BY <1>4, <2>1, <2>2, <2>3 DEF Ownership
<1>7. OneChain'
  <2>1. FirstLeaf' = q BY DEF FirstLeaf, Flat, Shape, PageTypes
  <2>2. right'[q] = NoPage BY DEF Shape, PageTypes
  <2> QED
    BY <1>4, <2>1, <2>2, NoPageAssumption
    DEF OneChain, RightClosed, OneLeft, Ends, AllReached
<1> QED BY <1>1, <1>6, <1>7 DEF Shape

(* A split puts one new leaf right of the one it splits. *)
LEMMA SplitShape ==
  ASSUME Shape, NEW p \in Leaves, NEW q \in Pages, NEW live, Split(p, q, live)
  PROVE  /\ Shape'
         /\ Stamped' = Stamped \cup {q}
         /\ p \in Stamped /\ q \notin Stamped /\ q # head
         /\ right' = [right EXCEPT ![q] = right[p], ![p] = q]
<1>1. form = "chain" /\ p \in Stamped
  BY LeavesStamped DEF Split, SplitTarget
<1>2. /\ kind[q] \notin {"leaf", "inner"} /\ q \notin Stamped
      /\ q # head /\ items[q] = {}
  BY <1>1, RecyclableUnused DEF Split
<1> DEFINE moved == {x \in items[p] : BlockOf[x] > BlockOf[ins]}
           new == IF moved = {} THEN {ins} ELSE moved
<1>3. /\ UNCHANGED <<form, inl, head, down>>
      /\ kind' = [kind EXCEPT ![q] = "leaf"]
      /\ owner' = [owner EXCEPT ![q] = head]
      /\ right' = [right EXCEPT ![q] = right[p], ![p] = q]
      /\ ins' \in {ins, NoTid}
      /\ ins \in Tids
      /\ items' = [items EXCEPT ![q] = new,
                                ![p] = IF moved = {} THEN @
                                       ELSE (@ \ moved) \cup {ins}]
  BY DEF Split, SplitTarget, Shape, PageTypes
<1>4. new \in SUBSET Tids
  BY <1>1, <1>3 DEF Shape, PageTypes, Stamped
<1> HIDE DEF moved, new
<1>5. PageTypes'
  <2>1. items' \in [Pages -> SUBSET Tids]
    BY <1>1, <1>3, <1>4 DEF Shape, PageTypes, Stamped
  <2> QED BY <1>1, <1>2, <1>3, <2>1 DEF Shape, PageTypes, Stamped, Links
<1>6. Stamped' = Stamped \cup {q}
  BY <1>1, <1>2, <1>3 DEF Stamped, Shape, PageTypes
<1>7. FirstLeaf' = FirstLeaf
  BY <1>1, <1>2, <1>3 DEF FirstLeaf, Flat, Shape, PageTypes, Ownership
<1>8. Ownership'
  <2>1. \A x \in Pages : items'[x] # {} => x \in Stamped'
    BY <1>1, <1>3, <1>6 DEF Shape, PageTypes, Ownership
  <2>2. \A x \in Pages : kind'[x] # "new" =>
          owner'[x] \in Pages /\ kind'[owner'[x]] # "new"
    BY <1>1, <1>3 DEF Shape, PageTypes, Ownership
  <2> QED BY <1>1, <1>2, <1>3, <2>1, <2>2 DEF Shape, PageTypes, Ownership
<1>9. OneChain'
  <2>1. /\ FirstLeaf \in Stamped /\ RightClosed(Stamped) /\ OneLeft
        /\ Ends /\ AllReached
    BY <1>1 DEF Shape, OneChain
  <2>2. /\ right'[q] = right[p]
        /\ right'[p] = q
        /\ \A x \in Stamped : x # p => right'[x] = right[x]
    BY <1>1, <1>2, <1>3 DEF Shape, PageTypes, Stamped
  <2>3. q # NoPage /\ \A x \in Stamped : right[x] # q
    BY <1>2, <2>1, NoPageAssumption DEF RightClosed
  <2>4. RightClosed(Stamped)'
    BY <1>1, <1>6, <2>1, <2>2 DEF RightClosed
  <2>5. OneLeft'
    BY <1>1, <1>2, <1>6, <1>7, <2>1, <2>2, <2>3 DEF OneLeft
  <2>6. ASSUME NEW C \in SUBSET Stamped', RightClosed(C)'
        PROVE  RightClosed(C \ {q}) /\ C \ {q} \in SUBSET Stamped
    BY <1>1, <1>6, <2>2, <2>3, <2>6 DEF RightClosed
  <2>7. Ends'
    <3>1. SUFFICES ASSUME NEW C \in SUBSET Stamped', RightClosed(C)', C # {}
                   PROVE  \E x \in C : right'[x] = NoPage
      BY DEF Ends
    <3>2. CASE C \ {q} = {}
      BY <1>1, <1>2, <2>2, <3>1, <3>2, <2>1 DEF RightClosed
    <3>3. CASE C \ {q} # {}
      <4>1. PICK x \in C \ {q} : right[x] = NoPage
        BY <2>1, <2>6, <3>1, <3>3 DEF Ends
      <4>2. CASE x = p
        BY <2>2, <2>3, <3>1, <4>1, <4>2 DEF RightClosed
      <4>3. CASE x # p
        BY <1>6, <2>2, <4>1, <4>3
      <4> QED BY <4>2, <4>3
    <3> QED BY <3>2, <3>3
  <2>8. AllReached'
    <3>1. SUFFICES ASSUME NEW C \in SUBSET Stamped', RightClosed(C)',
                          FirstLeaf \in C
                   PROVE  Stamped' \subseteq C
      BY <1>7 DEF AllReached
    <3>2. Stamped \subseteq C \ {q}
      BY <1>2, <2>1, <2>6, <3>1 DEF AllReached
    <3>3. q \in C
      BY <1>1, <2>2, <2>3, <3>1, <3>2 DEF RightClosed
    <3> QED BY <1>6, <3>2, <3>3
  <2> QED BY <1>6, <1>7, <2>1, <2>4, <2>5, <2>7, <2>8 DEF OneChain
<1> QED BY <1>1, <1>2, <1>3, <1>5, <1>6, <1>8, <1>9 DEF Shape

(* A promotion puts a new leaf in the place of the head.                   *)
LEMMA PromoteShape ==
  ASSUME Shape, NEW p \in Leaves, NEW q \in Pages, NEW live,
         Promote(p, q, live)
  PROVE  /\ Shape'
         /\ head \in Stamped /\ q \notin Stamped
         /\ Stamped' = (Stamped \ {head}) \cup {q}
         /\ kind'[head] = "inner" /\ UNCHANGED <<form, head>>
         /\ \A x \in Stamped : x # head => right'[x] = right[x]
         /\ right'[q] = right[head]
         /\ items' = [items EXCEPT ![q] = items[head], ![head] = {}]
<1>1. form = "chain" /\ kind[head] = "leaf" /\ head \in Stamped
  BY DEF Promote, SplitTarget, PromoteFirst, Flat, Shape, Ownership, Stamped
<1>2. /\ kind[q] \notin {"leaf", "inner"} /\ q \notin Stamped
      /\ q # head /\ items[q] = {}
  BY <1>1, RecyclableUnused DEF Promote
<1> DEFINE child(i) == IF i = 1 THEN q ELSE Chain(head)[i]
           links == [i \in 1..Len(Chain(head)) |->
                       [sep |-> FlatSeps(Chain(head))[i], child |-> child(i)]]
<1>3. /\ UNCHANGED <<form, inl, head, ins>>
      /\ kind' = [kind EXCEPT ![head] = "inner", ![q] = "leaf"]
      /\ owner' = [owner EXCEPT ![q] = head]
      /\ right' = [right EXCEPT ![q] = right[head], ![head] = NoPage]
      /\ items' = [items EXCEPT ![q] = items[head], ![head] = {}]
      /\ down' = [down EXCEPT ![head] = links]
  BY DEF Promote
<1>4. Len(Chain(head)) \in Nat \ {0}
  <2> DEFINE more == {n \in 1..Cardinality(Pages) : StepsRight(head)[n] # NoPage}
  <2>1. Cardinality(Pages) \in Nat
    BY PagesAssumption, FS_CardinalityType
  <2>2. IsFiniteSet(1..Cardinality(Pages))
    BY <2>1, FS_Interval
  <2>3. IsFiniteSet(more)
    BY <2>2, FS_Subset
  <2>4. Cardinality(more) \in Nat
    BY <2>3, FS_CardinalityType
  <2>5. Chain(head) = [i \in 1..(1 + Cardinality(more)) |->
                         StepsRight(head)[i - 1]]
    BY DEF Chain
  <2> HIDE DEF more
  <2> QED BY <2>4, <2>5
<1>5. /\ Len(down'[head]) \in Nat \ {0}
      /\ down'[head][1].child = q
  <2>1. down'[head] = links
    BY <1>1, <1>3 DEF Shape, PageTypes, Stamped
  <2> QED BY <1>4, <2>1
<1> HIDE DEF links
<1>6. PageTypes'
  BY <1>1, <1>2, <1>3 DEF Shape, PageTypes, Stamped, Links
<1>7. /\ Stamped' = (Stamped \ {head}) \cup {q}
      /\ kind'[head] = "inner"
  BY <1>1, <1>2, <1>3 DEF Stamped, Shape, PageTypes
<1>8. FirstLeaf = head /\ FirstLeaf' = q
  BY <1>1, <1>3, <1>5, <1>7 DEF FirstLeaf, Flat
<1>9. Ownership'
  <2>1. \A x \in Pages : items'[x] # {} => x \in Stamped'
    BY <1>1, <1>3, <1>7 DEF Shape, PageTypes, Ownership
  <2>2. \A x \in Pages : kind'[x] # "new" =>
          owner'[x] \in Pages /\ kind'[owner'[x]] # "new"
    BY <1>1, <1>3 DEF Shape, PageTypes, Ownership
  <2> QED BY <1>1, <1>2, <1>3, <1>5, <1>7, <2>1, <2>2
          DEF Shape, PageTypes, Ownership
<1>10. /\ right'[q] = right[head]
       /\ \A x \in Stamped : x # head => right'[x] = right[x]
  BY <1>1, <1>2, <1>3 DEF Shape, PageTypes, Stamped
<1>11. OneChain'
  <2>1. /\ FirstLeaf \in Stamped /\ RightClosed(Stamped) /\ OneLeft
        /\ Ends /\ AllReached
    BY <1>1 DEF Shape, OneChain
  <2>2. q # NoPage /\ head # NoPage /\ \A x \in Stamped : right[x] \notin {q, head}
    BY <1>1, <1>2, <1>8, <2>1, NoPageAssumption DEF RightClosed, OneLeft, Stamped
  <2>3. RightClosed(Stamped)'
    BY <1>1, <1>7, <1>10, <2>1, <2>2 DEF RightClosed
  <2>4. OneLeft'
    BY <1>1, <1>2, <1>7, <1>8, <1>10, <2>1, <2>2 DEF OneLeft
  <2> DEFINE old(C) == IF q \in C THEN (C \ {q}) \cup {head} ELSE C
  <2>5. ASSUME NEW C \in SUBSET Stamped', RightClosed(C)'
        PROVE  RightClosed(old(C)) /\ old(C) \in SUBSET Stamped
    BY <1>1, <1>2, <1>7, <1>10, <2>2, <2>5 DEF RightClosed
  <2>6. Ends'
    <3>1. SUFFICES ASSUME NEW C \in SUBSET Stamped', RightClosed(C)', C # {}
                   PROVE  \E x \in C : right'[x] = NoPage
      BY DEF Ends
    <3>2. PICK x \in old(C) : right[x] = NoPage
      <4>1. old(C) # {} BY <3>1
      <4> HIDE DEF old
      <4> QED BY <2>1, <2>5, <3>1, <4>1 DEF Ends
    <3> QED BY <1>7, <1>10, <3>1, <3>2
  <2>7. AllReached'
    <3>1. SUFFICES ASSUME NEW C \in SUBSET Stamped', RightClosed(C)', q \in C
                   PROVE  Stamped' \subseteq C
      BY <1>8 DEF AllReached
    <3>2. Stamped \subseteq old(C)
      <4>1. head \in old(C) BY <3>1
      <4> HIDE DEF old
      <4> QED BY <1>8, <2>1, <2>5, <3>1, <4>1 DEF AllReached
    <3> QED BY <1>7, <3>1, <3>2
  <2> QED BY <1>7, <1>8, <2>3, <2>4, <2>6, <2>7 DEF OneChain
<1> QED BY <1>1, <1>2, <1>3, <1>6, <1>7, <1>9, <1>10, <1>11 DEF Shape

(* A downlink is put behind another one: the first leaf stays the first.   *)
LEMMA DownlinkShape ==
  ASSUME Shape, NEW p \in Pages, PlaceDownlink(p)
  PROVE  /\ Shape'
         /\ UNCHANGED <<kind, owner, items, right, form, head>>
<1> USE DEF PlaceDownlink, ToFinish, entryVars
<1>1. PageTypes' BY DEF Shape, PageTypes
<1>2. form = "chain" /\ head \in Pages /\ kind[head] \in {"leaf", "inner"}
  BY DEF Shape, Ownership
<1> DEFINE n == Len(down[head])
           at == DownlinkAt(p)
           e == [sep |-> SplitSep(p), child |-> right[p]]
<1>3. /\ down'[head] = [j \in 1..(n + 1) |->
                          IF j <= at THEN down[head][j]
                          ELSE IF j = at + 1 THEN e ELSE down[head][j - 1]]
  BY <1>2 DEF InsertAt, Shape, PageTypes
<1>4. at \in 1..n
  BY DEF HasDownlink, DownlinkAt
<1> HIDE DEF e, at
<1>5. CASE kind[head] = "inner"
  <2>1. n \in Nat \ {0}
    BY <1>2, <1>5 DEF Shape, Ownership
  <2>2. Len(down'[head]) = n + 1 /\ down'[head][1] = down[head][1]
    BY <1>3, <1>4, <2>1
  <2>3. Ownership'
    BY <1>2, <2>1, <2>2 DEF Shape, Ownership, Stamped
  <2>4. Stamped' = Stamped /\ FirstLeaf' = FirstLeaf
    BY <1>5, <2>2 DEF Stamped, FirstLeaf, Flat
  <2>5. \A C : RightClosed(C)' <=> RightClosed(C)
    BY DEF RightClosed
  <2>6. OneChain'
    BY <1>2, <2>4, <2>5 DEF Shape, OneChain, OneLeft, Ends, AllReached
  <2> QED BY <1>1, <2>3, <2>6 DEF Shape
<1>6. CASE kind[head] = "leaf"
  <2>1. Ownership'
    BY <1>2, <1>6 DEF Shape, Ownership, Stamped
  <2>2. Stamped' = Stamped /\ FirstLeaf' = FirstLeaf
    BY <1>6 DEF Stamped, FirstLeaf, Flat
  <2>3. \A C : RightClosed(C)' <=> RightClosed(C)
    BY DEF RightClosed
  <2>4. OneChain'
    BY <1>2, <2>2, <2>3 DEF Shape, OneChain, OneLeft, Ends, AllReached
  <2> QED BY <1>1, <2>1, <2>4 DEF Shape
<1> QED BY <1>2, <1>5, <1>6

(* An unlinked leaf leaves the chain, and its left neighbour, or the first *)
(* downlink, takes over its right link.                                    *)
LEMMA UnlinkShape ==
  ASSUME Shape, NEW p \in Leaves, NEW live, UnlinkLeaf(p, live)
  PROVE  /\ Shape'
         /\ Stamped' = Stamped \ {p}
         /\ items[p] = {} /\ UNCHANGED <<items, inl, form, head>>
<1>1. /\ form = "chain" /\ p \in Stamped /\ p # head /\ items[p] = {}
      /\ right[p] # NoPage /\ p \in Pages
  BY LeavesStamped DEF UnlinkLeaf, MayUnlink, Stamped
<1>2. LeftOf(p) = {x \in Stamped : right[x] = p}
  BY <1>1, LeavesStamped DEF LeftOf
<1>3. /\ UNCHANGED <<form, inl, head, owner, items, ins>>
      /\ kind' = [kind EXCEPT ![p] = "unlinked"]
      /\ right' = [x \in Pages |-> IF x \in LeftOf(p) THEN right[p]
                                   ELSE right[x]]
  BY DEF UnlinkLeaf, entryVars
<1>4. /\ FirstLeaf \in Stamped /\ RightClosed(Stamped) /\ OneLeft
      /\ Ends /\ AllReached
  BY <1>1 DEF Shape, OneChain
<1>5. /\ \A x \in Stamped : right[x] = p => right'[x] = right[p]
      /\ \A x \in Stamped : right[x] # p => right'[x] = right[x]
  BY <1>2, <1>3 DEF Stamped
<1>6. Stamped' = Stamped \ {p}
  BY <1>3 DEF Stamped, Shape, PageTypes
<1>7. right[p] # p /\ right[p] \in Stamped'
  <2>1. {p} \in SUBSET Stamped /\ {p} # {}
    BY <1>1
  <2>2. right[p] = p => RightClosed({p})
    BY DEF RightClosed
  <2>3. right[p] # p
    BY <1>1, <1>4, <2>1, <2>2 DEF Ends
  <2> QED BY <1>1, <1>4, <1>6, <2>3 DEF RightClosed
<1>8. /\ FirstLeaf' = IF FirstLeaf = p THEN right[p] ELSE FirstLeaf
      /\ kind[head] = "inner" => Len(down'[head]) \in Nat \ {0}
      /\ DOMAIN down' = Pages
  <2>1. CASE Flat
    BY <1>1, <1>3, <2>1 DEF Flat, FirstLeaf, UnlinkLeaf, Shape, PageTypes,
       Ownership
  <2>2. CASE ~Flat
    <3> DEFINE s == down[head]
               i == DownlinkAt(p)
    <3>1. kind[head] = "inner" /\ head \in Pages
      BY <1>1, <2>2 DEF Flat, Shape, Ownership
    <3>2. Len(s) \in Nat \ {0}
      BY <1>1, <3>1 DEF Shape, Ownership
    <3>3. /\ i \in 1..Len(s) /\ i < Len(s) /\ s[i].child = p
          /\ s[i + 1].child = right[p]
      BY <2>2 DEF UnlinkLeaf, MayUnlink, HasDownlink, DownlinkAt
    <3>4. /\ DOMAIN down' = Pages
          /\ down'[head] = Retarget(s, i)
      BY <2>2, <3>1 DEF UnlinkLeaf, Shape, PageTypes
    <3> HIDE DEF i
    <3>5. /\ Len(down'[head]) = Len(s) - 1
          /\ down'[head][1].child = IF i = 1 THEN s[2].child ELSE s[1].child
      BY <3>2, <3>3, <3>4 DEF Retarget
    <3>6. FirstLeaf = s[1].child /\ FirstLeaf' = down'[head][1].child
      BY <1>1, <1>3, <2>2 DEF FirstLeaf, Flat, Shape, PageTypes
    <3>7. FirstLeaf = p => i = 1
      BY <3>6 DEF DownlinkAt, i
    <3> QED BY <3>1, <3>2, <3>3, <3>4, <3>5, <3>6, <3>7
  <2> QED BY <2>1, <2>2
<1>9. PageTypes'
  BY <1>1, <1>3, <1>8 DEF Shape, PageTypes
<1>10. Ownership'
  <2>1. \A x \in Pages : items'[x] # {} => x \in Stamped'
    BY <1>1, <1>3, <1>6 DEF Shape, Ownership
  <2>2. \A x \in Pages : kind'[x] # "new" =>
          owner'[x] \in Pages /\ kind'[owner'[x]] # "new"
    BY <1>1, <1>3 DEF Shape, PageTypes, Ownership, Stamped
  <2>3. kind'[head] = kind[head]
    BY <1>1, <1>3 DEF Shape, PageTypes
  <2> QED BY <1>1, <1>3, <1>8, <2>1, <2>2, <2>3 DEF Shape, Ownership
<1>11. OneChain'
  <2>1. RightClosed(Stamped)'
    BY <1>1, <1>4, <1>5, <1>6, <1>7 DEF RightClosed
  <2>2. OneLeft'
    <3>1. \A x \in Stamped : right[x] # FirstLeaf
      BY <1>4 DEF OneLeft
    <3>2. \A x, y \in Stamped : right[x] = right[y] => x = y \/ right[x] = NoPage
      BY <1>4 DEF OneLeft
    <3>3. \A x \in Stamped' : right'[x] # FirstLeaf'
      BY <1>1, <1>5, <1>6, <1>8, <3>1, <3>2
    <3>4. \A x, y \in Stamped' :
            right'[x] = right'[y] => x = y \/ right'[x] = NoPage
      BY <1>1, <1>5, <1>6, <3>2, NoPageAssumption
    <3> QED BY <3>3, <3>4 DEF OneLeft
  <2> DEFINE old(C) == IF \E x \in C : right[x] = p THEN C \cup {p} ELSE C
  <2>3. ASSUME NEW C \in SUBSET Stamped', RightClosed(C)'
        PROVE  RightClosed(old(C)) /\ old(C) \in SUBSET Stamped
    BY <1>1, <1>4, <1>5, <1>6, <2>3 DEF RightClosed
  <2>4. Ends'
    <3>1. SUFFICES ASSUME NEW C \in SUBSET Stamped', RightClosed(C)', C # {}
                   PROVE  \E x \in C : right'[x] = NoPage
      BY DEF Ends
    <3>2. PICK x \in old(C) : right[x] = NoPage
      <4>1. old(C) # {} BY <3>1
      <4> HIDE DEF old
      <4> QED BY <1>4, <2>3, <3>1, <4>1 DEF Ends
    <3> QED BY <1>1, <1>5, <1>6, <3>1, <3>2, NoPageAssumption DEF Stamped
  <2>5. AllReached'
    <3>1. SUFFICES ASSUME NEW C \in SUBSET Stamped', RightClosed(C)',
                          FirstLeaf' \in C
                   PROVE  Stamped' \subseteq C
      BY DEF AllReached
    <3>2. CASE FirstLeaf # p
      <4>1. FirstLeaf \in old(C) BY <1>8, <3>1, <3>2
      <4>2. Stamped \subseteq old(C)
        <5> HIDE DEF old
        <5> QED BY <1>4, <2>3, <3>1, <4>1 DEF AllReached
      <4> QED BY <1>6, <4>2
    <3>3. CASE FirstLeaf = p
      <4>1. RightClosed(C \cup {p})
        BY <1>4, <1>5, <1>6, <1>8, <3>1, <3>3 DEF RightClosed, OneLeft
      <4>2. C \cup {p} \in SUBSET Stamped
        BY <1>1, <1>6
      <4> QED BY <1>4, <1>6, <3>3, <4>1, <4>2 DEF AllReached
    <3> QED BY <3>2, <3>3
  <2>6. FirstLeaf' \in Stamped'
    BY <1>4, <1>6, <1>7, <1>8
  <2> QED BY <2>1, <2>2, <2>4, <2>5, <2>6 DEF OneChain
<1> QED BY <1>1, <1>3, <1>6, <1>9, <1>10, <1>11 DEF Shape
-----------------------------------------------------------------------------
(* Every step of an insertion keeps the shape.                             *)
LEMMA InsertShape ==
  ASSUME Shape, NEW live, InsertStep(live)
  PROVE  Shape'
<1>1. CASE InsertNewEntry \/ InsertInline
  BY <1>1, InlineShape
<1>2. CASE \E q \in Pages : Spill(q)
  BY <1>2, SpillShape
<1>3. CASE InsertOnTail
  <2>1. tail \in Stamped /\ form = "chain" /\ ins # NoTid /\ PutOn(tail)
    BY <1>3 DEF InsertOnTail, OwnsLeaf, Shape, Ownership
  <2> QED BY <2>1, PutOnShape
<1>4. CASE \E p \in Leaves : InsertOnLeaf(p)
  <2>1. PICK p \in Leaves : InsertOnLeaf(p) BY <1>4
  <2>2. p \in Stamped /\ form = "chain" /\ ins # NoTid /\ PutOn(p)
    BY <2>1, LeavesStamped DEF InsertOnLeaf
  <2> QED BY <2>2, PutOnShape
<1>5. CASE \E p \in Leaves, q \in Pages : Promote(p, q, live)
  BY <1>5, PromoteShape
<1>6. CASE \E p \in Leaves, q \in Pages : Split(p, q, live)
  BY <1>6, SplitShape
<1>7. Leaves \subseteq Pages
  BY DEF Leaves
<1>8. CASE \E p \in Leaves : PlaceDownlink(p) \/ ClearSplit(p)
  BY <1>7, <1>8, DownlinkShape, ClearShape
<1> QED BY <1>1, <1>2, <1>3, <1>4, <1>5, <1>6, <1>8 DEF InsertStep

\* Every step of the set on its own, the inserter's and VACUUM's, keeps the
\* shape.
LEMMA NextShape ==
  ASSUME Shape, [PostingNext]_postingVars
  PROVE  Shape'
<1>1. CASE \E t \in Tids \ Indexed : InsertBegin(t)
  BY <1>1, BeginShape
<1>2. CASE InsertStep({})
  BY <1>2, InsertShape
<1>3. CASE InsertFails
  BY <1>3, FailsShape
<1>4. CASE \E gone \in SUBSET inl \ {{}} : FilterInline(gone)
  BY <1>4, InlineShape
<1>5. Leaves \subseteq Pages
  BY DEF Leaves
<1>6. CASE \E p \in Leaves : \E gone \in SUBSET items[p] \ {{}} :
             FilterPage(p, gone)
  BY <1>5, <1>6, FilterShape
<1>7. CASE \E p \in Leaves : UnlinkLeaf(p, {})
  BY <1>7, UnlinkShape
<1>8. CASE DeleteEntry
  BY <1>8, DeleteShape
<1>9. CASE \E p \in Pages : FreePage(p, {})
  BY <1>9, FreeShape
<1>10. CASE UNCHANGED postingVars
  <2>1. PageTypes' BY <1>10 DEF postingVars, Shape, PageTypes
  <2>2. Ownership' BY <1>10 DEF postingVars, Shape, Ownership, Stamped
  <2>3. OneChain'
    BY <1>10, ChainUnchanged DEF postingVars, Shape
  <2> QED BY <2>1, <2>2, <2>3 DEF Shape
<1> QED
  BY <1>1, <1>2, <1>3, <1>4, <1>6, <1>7, <1>8, <1>9, <1>10 DEF PostingNext

\* An index without the key has the shape.
LEMMA InitShape == PostingInit => Shape
<1> SUFFICES ASSUME PostingInit PROVE Shape
  OBVIOUS
<1>1. PageTypes
  BY DEF PostingInit, PageTypes, Links
<1>2. Ownership
  BY DEF PostingInit, Ownership
<1>3. OneChain
  BY DEF PostingInit, OneChain
<1> QED BY <1>1, <1>2, <1>3 DEF Shape

(* In every state of the set's life its leaves are one chain: whatever     *)
(* order insertions, splits, promotions, unlinks and failures between two  *)
(* records come in, a walk along the right links from the first leaf ends, *)
(* passes every live leaf that carries the set's stamp and no other page,  *)
(* and no TID is anywhere else (lion_posting_put.c, lion_posting_delete.c).*)
THEOREM ShapeInvariant == PostingSpec => []Shape
<1>1. Shape /\ [PostingNext]_postingVars => Shape'
  BY NextShape
<1> QED BY InitShape, <1>1, PTL DEF PostingSpec

-----------------------------------------------------------------------------
(* A step that changes the shape and leaves the inserter's TID alone leaves *)
(* all of them alone.                                                      *)
LEMMA StepKeepsMembers ==
  ASSUME Shape, PostingNext,
         <<kind, right, down, flagged, head>>'
           # <<kind, right, down, flagged, head>>
  PROVE  Indexed \subseteq Indexed' /\ Indexed' \subseteq Indexed \cup {ins}
<1>1. Shape' BY NextShape
<1> DEFINE all == inl \cup UNION {items[p] : p \in Pages}
<1>2. Everywhere BY IndexedEverywhere
<1>3. Everywhere' BY IndexedEverywhere, <1>1, PTL
<1>4. SUFFICES all \subseteq all' /\ all' \subseteq all \cup {ins}
  BY <1>2, <1>3 DEF Everywhere
<1>5. CASE \E q \in Pages : Spill(q)
  <2>1. PICK q \in Pages : Spill(q) BY <1>5
  <2>2. inl' = {} /\ items' = [items EXCEPT ![q] = inl] /\ items[q] = {}
    BY <2>1 DEF Spill, NewLeaf, Shape, Ownership
  <2> QED BY <2>1, <2>2 DEF Shape, PageTypes
<1>6. CASE \E p \in Leaves, q \in Pages : Promote(p, q, {})
  <2>1. PICK p \in Leaves, q \in Pages : Promote(p, q, {}) BY <1>6
  <2>2. /\ head \in Pages /\ q # head /\ inl' = inl /\ items[q] = {}
        /\ items' = [items EXCEPT ![q] = items[head], ![head] = {}]
    BY <2>1, PromoteShape DEF Promote, Stamped, Shape, Ownership
  <2> QED BY <2>1, <2>2 DEF Shape, PageTypes
<1>7. CASE \E p \in Leaves, q \in Pages : Split(p, q, {})
  <2>1. PICK p \in Leaves, q \in Pages : Split(p, q, {}) BY <1>7
  <2>2. p \in Pages /\ q # p /\ items[q] = {} /\ inl' = inl
    BY <2>1, SplitShape DEF Split, Stamped, Shape, Ownership
  <2> DEFINE moved == {x \in items[p] : BlockOf[x] > BlockOf[ins]}
  <2>3. /\ items'[q] = IF moved = {} THEN {ins} ELSE moved
        /\ items'[p] = IF moved = {} THEN items[p]
                       ELSE (items[p] \ moved) \cup {ins}
        /\ \A x \in Pages \ {p, q} : items'[x] = items[x]
    BY <2>1, <2>2 DEF Split, Shape, PageTypes
  <2>4. moved \subseteq items[p]
    OBVIOUS
  <2> HIDE DEF moved
  <2> QED BY <2>1, <2>2, <2>3, <2>4
<1>8. CASE \E p \in Leaves : PlaceDownlink(p) \/ ClearSplit(p)
  BY <1>8 DEF PlaceDownlink, ClearSplit, entryVars
<1>9. CASE \E p \in Leaves : UnlinkLeaf(p, {})
  BY <1>9 DEF UnlinkLeaf, entryVars
<1>10. CASE DeleteEntry
  BY <1>2, <1>10 DEF Everywhere, DeleteEntry, pageVars
<1>11. CASE \E p \in Pages : FreePage(p, {})
  BY <1>11 DEF FreePage, entryVars
<1>12. CASE \/ \E t \in Tids \ Indexed : InsertBegin(t)
            \/ InsertFails
            \/ \E gone \in SUBSET inl \ {{}} : FilterInline(gone)
            \/ \E p \in Leaves : \E gone \in SUBSET items[p] \ {{}} :
                 FilterPage(p, gone)
  BY <1>12 DEF InsertBegin, InsertFails, FilterInline, FilterPage, entryVars,
     pageVars
<1>13. CASE \/ InsertNewEntry \/ InsertInline \/ InsertOnTail
            \/ \E p \in Leaves : InsertOnLeaf(p)
  BY <1>13 DEF InsertNewEntry, InsertInline, InsertOnTail, InsertOnLeaf, PutOn,
     entryVars, pageVars
<1> QED BY <1>5, <1>6, <1>7, <1>8, <1>9, <1>10, <1>11, <1>12, <1>13
        DEF PostingNext, InsertStep

(* No spill, promotion, split, downlink, unlink, deletion or freed page    *)
(* loses a TID of the set or adds one that is not being inserted.          *)
THEOREM MembersKept == PostingSpec => ShapeKeepsMembers
<1>1. Shape /\ [PostingNext]_postingVars =>
        [<<kind, right, down, flagged, head>>'
           # <<kind, right, down, flagged, head>> =>
           /\ Indexed \subseteq Indexed'
           /\ Indexed' \subseteq Indexed \cup {ins}]_postingVars
  BY StepKeepsMembers
<1> QED BY ShapeInvariant, <1>1, PTL DEF PostingSpec, ShapeKeepsMembers

-----------------------------------------------------------------------------
(* Induction, said with a set of numbers: a set that has 0 and, with a     *)
(* number, the next one, has them all.  Were k missing, "one more, below   *)
(* the first gap" would map 0..k into 1..k without two equal values.       *)
LEMMA NatSet ==
  ASSUME NEW U \in SUBSET Nat, 0 \in U, \A n \in U : n + 1 \in U
  PROVE  U = Nat
<1> DEFINE D == {n \in Nat : \A m \in 0..n : m \in U}
<1>1. 0 \in D /\ \A n \in D : n + 1 \in D
  <2>1. 0 \in D
    OBVIOUS
  <2>2. ASSUME NEW n \in D PROVE n + 1 \in D
    <3>1. \A m \in 0..(n + 1) : m \in 0..n \/ m = n + 1
      OBVIOUS
    <3>2. n + 1 \in U
      OBVIOUS
    <3> QED BY <3>1, <3>2
  <2> QED BY <2>1, <2>2
<1>2. \A n \in D : \A m \in 0..n : m \in D
  OBVIOUS
<1>3. SUFFICES ASSUME NEW k \in Nat, k \notin D PROVE FALSE
  <2>1. ASSUME NEW m \in Nat, m \in D PROVE m \in U
    <3>1. m \in 0..m
      OBVIOUS
    <3> QED BY <2>1, <3>1
  <2> HIDE DEF D
  <2> QED BY <2>1
<1> DEFINE f == [n \in 0..k |-> IF n \in D THEN n + 1 ELSE n]
<1> HIDE DEF D
<1>4. \A n \in 0..k : n \in D => n < k
  BY <1>2, <1>3
<1>5. f \in [0..k -> 1..k]
  <2>1. ASSUME NEW n \in 0..k PROVE f[n] \in 1..k
    BY <1>1, <1>4
  <2> QED BY <2>1
<1>6. \A x, y \in 0..k : f[x] = f[y] => x = y
  <2>1. ASSUME NEW x \in 0..k, NEW y \in 0..k, x \in D, y \notin D PROVE x + 1 # y
    BY <1>1, <2>1
  <2> QED BY <2>1
<1>7. /\ IsFiniteSet(0..k) /\ Cardinality(0..k) = k + 1
      /\ IsFiniteSet(1..k) /\ Cardinality(1..k) = k
  BY FS_Interval
<1>8. \E x, y \in 0..k : x # y /\ f[x] = f[y]
  <2> HIDE DEF f
  <2>1. Cardinality(1..k) < Cardinality(0..k)
    BY <1>7
  <2> QED BY <1>5, <1>7, <2>1, FS_PigeonHole
<1> QED BY <1>6, <1>8

(* A set of numbers has a least one.                                       *)
LEMMA LeastOf ==
  ASSUME NEW T \in SUBSET Nat, T # {}
  PROVE  \E n \in T : \A m \in T : n <= m
<1>1. SUFFICES ASSUME \A n \in T : \E m \in T : m < n PROVE FALSE
  OBVIOUS
<1> DEFINE U == {n \in Nat : \A m \in T : n <= m}
<1>2. 0 \in U
  OBVIOUS
<1>3. \A n \in U : n + 1 \in U
  <2>1. SUFFICES ASSUME NEW n \in U, NEW m \in T PROVE n + 1 <= m
    OBVIOUS
  <2>2. n # m BY <1>1, <2>1
  <2> QED BY <2>1, <2>2
<1>4. U = Nat
  <2> HIDE DEF U
  <2>1. U \in SUBSET Nat BY DEF U
  <2> QED BY <1>2, <1>3, <2>1, NatSet
<1>5. PICK t \in T : TRUE
  OBVIOUS
<1>6. t + 1 \in U
  <2> HIDE DEF U
  <2> QED BY <1>4
<1> QED BY <1>6

\* f is the sequence that starts with a and goes on as g says
Steps(g, S) == g \in [Nat -> [S -> S]]
Follows(f, g, a, S, N) ==
  /\ f \in [0..N -> S]
  /\ f[0] = a
  /\ \A n \in 1..N : f[n] = g[n][f[n - 1]]

(* There is one: what a recursive function needs to be the function its    *)
(* definition says.                                                        *)
LEMMA Recursion ==
  ASSUME NEW S, NEW a \in S, NEW g, Steps(g, S), NEW N \in Nat
  PROVE  \E f : Follows(f, g, a, S, N)
<1> USE DEF Steps
<1> DEFINE Computes(n, f) == f[0] = a /\ \A i \in 1..n : f[i] = g[i][f[i - 1]]
           U == {n \in Nat : \E f \in [0..n -> S] : Computes(n, f)}
<1>1. 0 \in U
  <2>1. [i \in 0..0 |-> a] \in [0..0 -> S] /\ Computes(0, [i \in 0..0 |-> a])
    OBVIOUS
  <2> QED BY <2>1
<1>2. ASSUME NEW n \in U PROVE n + 1 \in U
  <2>1. PICK f \in [0..n -> S] : Computes(n, f)
    OBVIOUS
  <2> DEFINE last == g[n + 1][f[n]]
             e == [i \in 0..(n + 1) |-> IF i = n + 1 THEN last ELSE f[i]]
  <2>2. n \in Nat /\ n \in 0..n /\ f[n] \in S /\ g[n + 1] \in [S -> S]
    OBVIOUS
  <2>3. last \in S
    BY <2>2
  <2>4. e \in [0..(n + 1) -> S]
    <3> HIDE DEF last
    <3> QED BY <2>2, <2>3
  <2>5. e[0] = f[0] /\ e[n + 1] = last /\ \A i \in 0..n : e[i] = f[i]
    <3> HIDE DEF last
    <3> QED BY <2>2
  <2>6. Computes(n + 1, e)
    <3> HIDE DEF e
    <3>1. ASSUME NEW i \in 1..(n + 1) PROVE e[i] = g[i][e[i - 1]]
      <4>1. CASE i = n + 1
        <5>1. i - 1 = n BY <2>2, <4>1
        <5> QED BY <2>2, <2>5, <4>1, <5>1
      <4>2. CASE i \in 1..n
        <5>1. i \in 0..n /\ i - 1 \in 0..n BY <2>2, <4>2
        <5> QED BY <2>1, <2>5, <4>2, <5>1
      <4> QED BY <2>2, <4>1, <4>2
    <3> QED BY <2>1, <2>5, <3>1
  <2> HIDE DEF e, Computes
  <2>7. n + 1 \in Nat
    BY <2>2
  <2> QED BY <2>4, <2>6, <2>7
<1>3. U = Nat
  <2> HIDE DEF U
  <2>1. U \in SUBSET Nat BY DEF U
  <2> QED BY <1>1, <1>2, <2>1, NatSet
<1>4. N \in U
  <2> HIDE DEF U
  <2> QED BY <1>3
<1> QED BY <1>4 DEF Follows

(* The n-th page right of p is what its definition says: each is the right *)
(* link of the one before, until there is none.                            *)
LEMMA StepsAre ==
  ASSUME right \in [Pages -> Links], NEW p \in Pages
  PROVE  LET at == StepsRight(p)
         IN /\ at \in [0..Cardinality(Pages) -> Links]
            /\ at[0] = p
            /\ \A n \in 1..Cardinality(Pages) :
                 at[n] = IF at[n - 1] = NoPage THEN NoPage ELSE right[at[n - 1]]
<1> DEFINE N == Cardinality(Pages)
           next == [x \in Links |-> IF x = NoPage THEN NoPage ELSE right[x]]
           g == [n \in Nat |-> next]
           at == StepsRight(p)
<1>1. N \in Nat
  BY PagesAssumption, FS_CardinalityType
<1>2. next \in [Links -> Links]
  BY DEF Links
<1>3. p \in Links /\ g \in [Nat -> [Links -> Links]]
  <2> HIDE DEF next
  <2> QED BY <1>2 DEF Links
<1>4. PICK f : Follows(f, g, p, Links, N)
  <2>1. Steps(g, Links) BY <1>3 DEF Steps
  <2> HIDE DEF N, g
  <2> QED BY <1>1, <1>3, <2>1, Recursion
<1>5. \A n \in 1..N :
        f[n] = IF f[n - 1] = NoPage THEN NoPage ELSE right[f[n - 1]]
  <2> HIDE DEF N
  <2>1. \A n \in 1..N : f[n - 1] \in Links /\ n \in Nat
    BY <1>1, <1>4 DEF Follows
  <2> QED BY <1>4, <2>1 DEF Follows
<1>6. f = [n \in 0..N |->
             IF n = 0 THEN p
             ELSE IF f[n - 1] = NoPage THEN NoPage ELSE right[f[n - 1]]]
  <2> HIDE DEF N, g
  <2>1. \A n \in 0..N : n = 0 \/ n \in 1..N
    BY <1>1
  <2> QED BY <1>1, <1>4, <1>5, <2>1 DEF Follows
<1>7. at = [n \in 0..N |->
             IF n = 0 THEN p
             ELSE IF at[n - 1] = NoPage THEN NoPage ELSE right[at[n - 1]]]
  <2> HIDE DEF g
  <2> QED BY <1>6 DEF StepsRight
<1> HIDE DEF at, N
<1>8. /\ at[0] = p
      /\ \A n \in 1..N :
           at[n] = IF at[n - 1] = NoPage THEN NoPage ELSE right[at[n - 1]]
  BY <1>1, <1>7
<1>9. \A n \in Nat : n \in 0..N => at[n] \in Links
  <2> DEFINE U == {n \in Nat : n \in 0..N => at[n] \in Links}
  <2>1. 0 \in U
    BY <1>3, <1>8
  <2>2. ASSUME NEW n \in U PROVE n + 1 \in U
    <3>1. SUFFICES ASSUME n + 1 \in 0..N PROVE at[n + 1] \in Links
      OBVIOUS
    <3>2. n \in 0..N /\ n + 1 \in 1..N /\ (n + 1) - 1 = n
      BY <1>1, <3>1
    <3> QED BY <1>8, <3>2 DEF Links
  <2>3. U = Nat
    <3> HIDE DEF U
    <3>1. U \in SUBSET Nat BY DEF U
    <3> QED BY <2>1, <2>2, <3>1, NatSet
  <2> QED BY <2>3
<1> QED BY <1>1, <1>7, <1>8, <1>9 DEF at, N
-----------------------------------------------------------------------------
(* The order of the leaves *)

Positions == 1..Len(down[head])
Child(i) == down[head][i].child
Sep(i) == down[head][i].sep

\* pos numbers the stamped leaves, ascending along the right links
Ordered(pos) ==
  /\ pos \in [Pages -> Nat]
  /\ \A p, q \in Stamped : pos[p] = pos[q] => p = q
  /\ \A p \in Stamped : right[p] # NoPage => pos[p] < pos[right[p]]
  /\ \A p, q \in Stamped : pos[p] < pos[q] =>
       right[p] # NoPage /\ pos[right[p]] <= pos[q]

(* The first leaf has the least number: the leaves at or right of it are   *)
(* closed under right links, hence all.                                    *)
LEMMA FirstLowest ==
  ASSUME Shape, form = "chain", NEW pos, Ordered(pos), NEW p \in Stamped
  PROVE  pos[FirstLeaf] <= pos[p]
<1> DEFINE C == {x \in Stamped : pos[FirstLeaf] <= pos[x]}
<1>1. FirstLeaf \in Stamped /\ RightClosed(Stamped) /\ AllReached
  BY DEF Shape, OneChain
<1>2. \A x \in Stamped : pos[x] \in Nat
  BY DEF Ordered, Stamped
<1>3. RightClosed(C)
  BY <1>1, <1>2 DEF RightClosed, Ordered
<1>4. FirstLeaf \in C /\ C \in SUBSET Stamped
  BY <1>1, <1>2
<1> HIDE DEF C
<1>5. Stamped \subseteq C
  BY <1>1, <1>3, <1>4 DEF AllReached
<1> QED BY <1>5 DEF C

\* c is the walk along the right links from the first leaf to the last: every
\* stamped leaf once, in order
Enumerates(c, pos) ==
  /\ Len(c) \in Nat \ {0}
  /\ c \in [1..Len(c) -> Stamped]
  /\ c[1] = FirstLeaf
  /\ \A i \in 1..(Len(c) - 1) : right[c[i]] = c[i + 1]
  /\ right[c[Len(c)]] = NoPage
  /\ \A p \in Stamped : \E i \in 1..Len(c) : c[i] = p
  /\ \A i, j \in 1..Len(c) : i < j => pos[c[i]] < pos[c[j]]

(* Chain walks it to the end: as many steps as there are pages are enough, *)
(* since no page comes twice.                                              *)
LEMMA ChainEnumerates ==
  ASSUME Shape, form = "chain", NEW pos, Ordered(pos)
  PROVE  Enumerates(Chain(FirstLeaf), pos)
<1> DEFINE N == Cardinality(Pages)
           at == StepsRight(FirstLeaf)
           more == {n \in 1..N : at[n] # NoPage}
           c == Chain(FirstLeaf)
<1>1. N \in Nat
  BY PagesAssumption, FS_CardinalityType
<1>2. /\ FirstLeaf \in Stamped /\ RightClosed(Stamped) /\ AllReached
      /\ Stamped \subseteq Pages /\ NoPage \notin Stamped
  BY NoPageAssumption DEF Shape, OneChain, Stamped
<1>3. /\ at[0] = FirstLeaf
      /\ \A n \in 1..N :
           at[n] = IF at[n - 1] = NoPage THEN NoPage ELSE right[at[n - 1]]
  BY <1>2, StepsAre DEF Shape, PageTypes
<1> HIDE DEF at, N
<1>4. ASSUME NEW n \in 0..N PROVE at[n] \in Stamped \cup {NoPage}
  <2> DEFINE U == {m \in Nat : m \in 0..N => at[m] \in Stamped \cup {NoPage}}
  <2>1. 0 \in U
    BY <1>2, <1>3
  <2>2. ASSUME NEW m \in U PROVE m + 1 \in U
    <3>1. SUFFICES ASSUME m + 1 \in 0..N
                   PROVE  at[m + 1] \in Stamped \cup {NoPage}
      OBVIOUS
    <3>2. m \in 0..N /\ m + 1 \in 1..N /\ (m + 1) - 1 = m
      BY <1>1, <3>1
    <3> QED BY <1>2, <1>3, <3>2 DEF RightClosed
  <2>3. U = Nat
    <3> HIDE DEF U
    <3>1. U \in SUBSET Nat BY DEF U
    <3> QED BY <2>1, <2>2, <3>1, NatSet
  <2> QED BY <1>1, <2>3
<1>5. ASSUME NEW m \in 0..N, at[m] = NoPage, NEW n \in m..N
      PROVE  at[n] = NoPage
  <2> DEFINE U == {d \in Nat : m + d <= N => at[m + d] = NoPage}
  <2>1. 0 \in U
    BY <1>1, <1>5
  <2>2. ASSUME NEW d \in U PROVE d + 1 \in U
    <3>1. SUFFICES ASSUME m + (d + 1) <= N PROVE at[m + (d + 1)] = NoPage
      OBVIOUS
    <3>2. at[m + d] = NoPage /\ m + (d + 1) \in 1..N
          /\ (m + (d + 1)) - 1 = m + d
      BY <1>1, <3>1
    <3> QED BY <1>3, <3>2
  <2>3. U = Nat
    <3> HIDE DEF U
    <3>1. U \in SUBSET Nat BY DEF U
    <3> QED BY <2>1, <2>2, <3>1, NatSet
  <2>4. n - m \in U
    <3>1. n - m \in Nat BY <1>1
    <3> HIDE DEF U
    <3> QED BY <2>3, <3>1
  <2> QED BY <1>1, <2>4
<1>6. ASSUME NEW m \in 0..N, NEW n \in 0..N, m < n, at[n] # NoPage
      PROVE  pos[at[m]] < pos[at[n]]
  <2> DEFINE U == {d \in Nat : m + (d + 1) <= N /\ at[m + (d + 1)] # NoPage =>
                                 pos[at[m]] < pos[at[m + (d + 1)]]}
  <2>0. ASSUME NEW d \in Nat, m + (d + 1) <= N, at[m + (d + 1)] # NoPage
        PROVE  /\ at[m + d] \in Stamped /\ at[m + (d + 1)] \in Stamped
               /\ pos[at[m + d]] < pos[at[m + (d + 1)]]
    <3>1. m + (d + 1) \in 1..N /\ m + d \in 0..N /\ (m + (d + 1)) - 1 = m + d
          /\ m + (d + 1) \in 0..N
      BY <1>1, <2>0
    <3>2. at[m + d] # NoPage /\ at[m + (d + 1)] = right[at[m + d]]
      BY <1>3, <2>0, <3>1
    <3>3. at[m + d] \in Stamped /\ at[m + (d + 1)] \in Stamped
      BY <1>4, <2>0, <3>1, <3>2
    <3> QED BY <2>0, <3>2, <3>3 DEF Ordered
  <2>1. 0 \in U
    BY <1>1, <2>0
  <2>2. ASSUME NEW d \in U PROVE d + 1 \in U
    <3>1. SUFFICES ASSUME m + ((d + 1) + 1) <= N, at[m + ((d + 1) + 1)] # NoPage
                   PROVE  pos[at[m]] < pos[at[m + ((d + 1) + 1)]]
      OBVIOUS
    <3>2. d + 1 \in Nat /\ m + (d + 1) <= N
      BY <1>1, <3>1
    <3>3. /\ at[m + (d + 1)] \in Stamped /\ at[m + ((d + 1) + 1)] \in Stamped
          /\ pos[at[m + (d + 1)]] < pos[at[m + ((d + 1) + 1)]]
      BY <2>0, <3>1, <3>2
    <3>4. pos[at[m]] < pos[at[m + (d + 1)]] /\ at[m] \in Stamped
      <4>1. at[m + (d + 1)] # NoPage BY <1>2, <3>3
      <4>2. pos[at[m]] < pos[at[m + (d + 1)]] BY <3>2, <4>1
      <4>3. at[m] # NoPage
        BY <1>1, <1>5, <3>2, <4>1
      <4> QED BY <1>4, <4>2, <4>3
    <3>5. /\ pos[at[m]] \in Nat /\ pos[at[m + (d + 1)]] \in Nat
          /\ pos[at[m + ((d + 1) + 1)]] \in Nat
      BY <1>2, <3>3, <3>4 DEF Ordered
    <3> QED BY <3>3, <3>4, <3>5
  <2>3. U = Nat
    <3> HIDE DEF U
    <3>1. U \in SUBSET Nat BY DEF U
    <3> QED BY <2>1, <2>2, <3>1, NatSet
  <2>4. n - m - 1 \in U /\ m + ((n - m - 1) + 1) = n
    <3>1. n - m - 1 \in Nat /\ m + ((n - m - 1) + 1) = n
      BY <1>1, <1>6
    <3> HIDE DEF U
    <3> QED BY <2>3, <3>1
  <2> QED BY <1>1, <1>6, <2>4
<1>7. \E n \in 0..N : at[n] = NoPage
  <2>1. SUFFICES ASSUME \A n \in 0..N : at[n] # NoPage PROVE FALSE
    OBVIOUS
  <2> DEFINE f == [n \in 0..N |-> at[n]]
  <2>2. f \in [0..N -> Pages]
    BY <1>2, <1>4, <2>1
  <2>3. \A x, y \in 0..N : f[x] = f[y] => x = y
    <3>1. SUFFICES ASSUME NEW x \in 0..N, NEW y \in 0..N, x < y
                   PROVE  f[x] # f[y]
      BY <1>1
    <3>2. pos[at[x]] < pos[at[y]] /\ at[x] \in Stamped
      BY <1>4, <1>6, <2>1, <3>1
    <3>3. pos[at[x]] \in Nat
      BY <1>2, <3>2 DEF Ordered
    <3> QED BY <3>2, <3>3
  <2>4. IsFiniteSet(0..N) /\ Cardinality(0..N) = N + 1
    BY <1>1, FS_Interval
  <2>5. Cardinality(Pages) < Cardinality(0..N)
    BY <1>1, <2>4 DEF N
  <2> HIDE DEF f
  <2> QED BY <2>2, <2>3, <2>4, <2>5, PagesAssumption, FS_PigeonHole
<1>8. PICK e \in 0..N : /\ at[e] = NoPage
                        /\ \A n \in 0..N : at[n] = NoPage => e <= n
  <2> DEFINE T == {n \in 0..N : at[n] = NoPage}
  <2>1. T \in SUBSET Nat /\ T # {}
    BY <1>1, <1>7
  <2>2. PICK e \in T : \A m \in T : e <= m
    <3> HIDE DEF T
    <3> QED BY <2>1, LeastOf
  <2> QED BY <2>2
<1>9. e \in 1..N
  BY <1>1, <1>2, <1>3, <1>8
<1>10. more = 1..(e - 1)
  <2>1. ASSUME NEW n \in 1..N PROVE at[n] # NoPage <=> n < e
    <3>1. at[n] = NoPage => e <= n
      BY <1>1, <1>8
    <3>2. e <= n => at[n] = NoPage
      BY <1>1, <1>5, <1>8, <1>9
    <3> QED BY <1>1, <1>9, <3>1, <3>2
  <2> QED BY <1>1, <1>9, <2>1
<1>11. Cardinality(more) = e - 1
  <2>1. e - 1 \in Nat BY <1>1, <1>9
  <2> HIDE DEF more
  <2>2. Cardinality(1..(e - 1)) = e - 1
    BY <2>1, FS_Interval
  <2> QED BY <1>10, <2>2
<1>12. c = [i \in 1..e |-> at[i - 1]]
  <2>1. c = [i \in 1..(1 + Cardinality(more)) |-> at[i - 1]]
    BY DEF Chain, at, N
  <2> HIDE DEF more, c
  <2> QED BY <1>1, <1>9, <1>11, <2>1
<1> HIDE DEF c, more
<1>13. Len(c) = e /\ e \in Nat \ {0}
  BY <1>1, <1>9, <1>12
<1>14. \A i \in 1..e : i - 1 \in 0..N /\ at[i - 1] # NoPage /\ c[i] = at[i - 1]
  <2>1. ASSUME NEW i \in 1..e PROVE i - 1 \in 0..N /\ ~(e <= i - 1)
    BY <1>1, <1>9
  <2> QED BY <1>8, <1>12, <2>1
<1>15. c \in [1..e -> Stamped]
  BY <1>4, <1>12, <1>14
<1>16. \A i \in 1..(e - 1) : right[c[i]] = c[i + 1]
  <2>1. ASSUME NEW i \in 1..(e - 1)
        PROVE  i \in 1..e /\ i + 1 \in 1..e /\ i \in 1..N /\ (i + 1) - 1 = i
    BY <1>1, <1>9
  <2>2. ASSUME NEW i \in 1..(e - 1) PROVE right[c[i]] = c[i + 1]
    <3>1. c[i] = at[i - 1] /\ c[i + 1] = at[i] /\ at[i - 1] # NoPage
      BY <1>14, <2>1
    <3> QED BY <1>3, <2>1, <3>1
  <2> QED BY <2>2
<1>17. right[c[e]] = NoPage
  BY <1>1, <1>3, <1>8, <1>9, <1>14
<1>18. c[1] = FirstLeaf
  BY <1>1, <1>3, <1>9, <1>14
<1>19. \A p \in Stamped : \E i \in 1..e : c[i] = p
  <2> DEFINE C == {c[i] : i \in 1..e}
  <2>1. C \in SUBSET Stamped /\ FirstLeaf \in C
    BY <1>13, <1>15, <1>18
  <2>2. RightClosed(C)
    <3>1. ASSUME NEW i \in 1..e PROVE right[c[i]] \in C \cup {NoPage}
      <4>1. CASE i = e
        BY <1>17, <4>1
      <4>2. CASE i # e
        <5>1. i \in 1..(e - 1) /\ i + 1 \in 1..e BY <1>13, <4>2
        <5> QED BY <1>16, <5>1
      <4> QED BY <4>1, <4>2
    <3> QED BY <3>1 DEF RightClosed
  <2>3. Stamped \subseteq C
    <3> HIDE DEF C
    <3> QED BY <1>2, <2>1, <2>2 DEF AllReached
  <2> QED BY <2>3
<1>20. \A i, j \in 1..e : i < j => pos[c[i]] < pos[c[j]]
  <2>1. SUFFICES ASSUME NEW i \in 1..e, NEW j \in 1..e, i < j
                 PROVE  pos[at[i - 1]] < pos[at[j - 1]]
    BY <1>14
  <2>2. i - 1 < j - 1 BY <1>1, <1>9, <2>1
  <2> QED BY <1>6, <1>14, <2>1, <2>2
<1> QED
  BY <1>13, <1>15, <1>16, <1>17, <1>18, <1>19, <1>20 DEF Enumerates, c
-----------------------------------------------------------------------------
(* Keys and separators *)

(* A finite set of numbers has a greatest one.                             *)
LEMMA GreatestOf ==
  ASSUME NEW T \in SUBSET Nat, IsFiniteSet(T), T # {}
  PROVE  \E n \in T : \A m \in T : m <= n
<1> DEFINE Bounded(S) == \E n \in S : \A m \in S : m <= n
           U == {d \in Nat : \A S \in SUBSET Nat :
                   IsFiniteSet(S) /\ Cardinality(S) = d + 1 => Bounded(S)}
<1>1. 0 \in U
  <2>1. ASSUME NEW S \in SUBSET Nat, IsFiniteSet(S), Cardinality(S) = 1
        PROVE  Bounded(S)
    <3>1. PICK n : S = {n}
      BY <2>1, FS_Singleton
    <3> QED BY <3>1
  <2> HIDE DEF Bounded
  <2> QED BY <2>1
<1>2. ASSUME NEW d \in U PROVE d + 1 \in U
  <2>1. ASSUME NEW S \in SUBSET Nat, IsFiniteSet(S),
               Cardinality(S) = (d + 1) + 1
        PROVE  Bounded(S)
    <3>1. d \in Nat
      OBVIOUS
    <3>2. S # {}
      BY <2>1, <3>1, FS_EmptySet
    <3>3. PICK s \in S : TRUE
      BY <3>2
    <3>4. IsFiniteSet(S \ {s}) /\ Cardinality(S \ {s}) = d + 1
      <4>1. /\ IsFiniteSet(S \ {s})
            /\ Cardinality(S \ {s}) = Cardinality(S) - 1
        BY <2>1, FS_RemoveElement
      <4> QED BY <2>1, <3>1, <4>1
    <3>5. Bounded(S \ {s})
      <4> HIDE DEF Bounded
      <4> QED BY <3>4
    <3>6. PICK n \in S \ {s} : \A m \in S \ {s} : m <= n
      BY <3>5
    <3>7. CASE s <= n
      BY <3>6, <3>7
    <3>8. CASE ~(s <= n)
      <4>1. \A m \in S : m <= s
        BY <3>6, <3>8
      <4> QED BY <4>1
    <3> QED BY <3>7, <3>8
  <2>2. d + 1 \in Nat
    OBVIOUS
  <2> HIDE DEF Bounded
  <2> QED BY <2>1, <2>2
<1>3. U = Nat
  <2> HIDE DEF U
  <2>1. U \in SUBSET Nat BY DEF U
  <2> QED BY <1>1, <1>2, <2>1, NatSet
<1>4. Cardinality(T) \in Nat /\ Cardinality(T) # 0
  BY FS_CardinalityType, FS_EmptySet
<1>5. Cardinality(T) - 1 \in U /\ Cardinality(T) = (Cardinality(T) - 1) + 1
  <2>1. Cardinality(T) - 1 \in Nat BY <1>4
  <2> HIDE DEF U
  <2> QED BY <1>3, <1>4, <2>1
<1> QED BY <1>5

\* the greatest of some positions
LEMMA LastPosition ==
  ASSUME NEW n \in Nat, NEW T \in SUBSET (1..n), T # {}
  PROVE  LET last == CHOOSE i \in T : \A j \in T : j <= i
         IN last \in T /\ \A j \in T : j <= last
<1>1. IsFiniteSet(1..n)
  BY FS_Interval
<1>2. IsFiniteSet(T)
  BY <1>1, FS_Subset
<1>3. T \in SUBSET Nat
  OBVIOUS
<1> QED BY <1>2, <1>3, GreatestOf

\* the first key of a page is one of its keys, and none is below it
LEMMA FirstKey ==
  ASSUME PageTypes, NEW p \in Pages, items[p] # {}
  PROVE  /\ MinKey(p) \in KeysOf(items[p])
         /\ \A x \in items[p] : MinKey(p) <= BlockOf[x]
         /\ MinKey(p) \in Nat \ {0}
<1>1. items[p] \in SUBSET Tids
  BY DEF PageTypes
<1>2. KeysOf(items[p]) \in SUBSET (Nat \ {0}) /\ KeysOf(items[p]) # {}
  BY <1>1, BlockAssumption DEF KeysOf
<1>3. \E k \in KeysOf(items[p]) : \A j \in KeysOf(items[p]) : k <= j
  BY <1>2, LeastOf
<1>4. /\ MinKey(p) \in KeysOf(items[p])
      /\ \A j \in KeysOf(items[p]) : MinKey(p) <= j
  BY <1>3 DEF MinKey
<1> QED BY <1>2, <1>4 DEF KeysOf

\* the last key of a page is one of its keys, and none is above it
LEMMA LastKey ==
  ASSUME PageTypes, NEW p \in Pages, items[p] # {},
         IsFiniteSet(KeysOf(items[p]))
  PROVE  /\ MaxKey(p) \in KeysOf(items[p])
         /\ \A x \in items[p] : BlockOf[x] <= MaxKey(p)
         /\ MaxKey(p) \in Nat \ {0}
<1>1. items[p] \in SUBSET Tids
  BY DEF PageTypes
<1>2. KeysOf(items[p]) \in SUBSET (Nat \ {0}) /\ KeysOf(items[p]) # {}
  BY <1>1, BlockAssumption DEF KeysOf
<1>3. \E k \in KeysOf(items[p]) : \A j \in KeysOf(items[p]) : j <= k
  BY <1>2, GreatestOf
<1>4. /\ MaxKey(p) \in KeysOf(items[p])
      /\ \A j \in KeysOf(items[p]) : j <= MaxKey(p)
  <2>1. \E k \in KeysOf(items[p]) : \A j \in KeysOf(items[p]) : k >= j
    BY <1>2, <1>3
  <2>2. /\ MaxKey(p) \in KeysOf(items[p])
        /\ \A j \in KeysOf(items[p]) : MaxKey(p) >= j
    BY <2>1 DEF MaxKey
  <2> QED BY <1>2, <2>2
<1> QED BY <1>2, <1>4 DEF KeysOf

(* The separators a promotion makes are what their definition says.        *)
LEMMA FlatSepsAre ==
  ASSUME NEW c, Len(c) \in Nat \ {0}, \A i \in 1..Len(c) : FlatSep(c, i) \in Nat
  PROVE  LET sep == FlatSeps(c)
         IN /\ sep \in [1..Len(c) -> Nat]
            /\ sep[1] = 0
            /\ \A i \in 2..Len(c) :
                 sep[i] = IF FlatSep(c, i) < sep[i - 1] THEN sep[i - 1]
                          ELSE FlatSep(c, i)
<1> DEFINE N == Len(c)
           one(n, v) == IF n + 1 \in 1..N /\ ~(FlatSep(c, n + 1) < v)
                        THEN FlatSep(c, n + 1) ELSE v
           g == [n \in Nat |-> [v \in Nat |-> one(n, v)]]
           sep == FlatSeps(c)
<1>1. N - 1 \in Nat /\ N \in Nat \ {0}
  OBVIOUS
<1>2. Steps(g, Nat)
  BY DEF Steps
<1>3. PICK f : Follows(f, g, 0, Nat, N - 1)
  <2> HIDE DEF N, g
  <2> QED BY <1>1, <1>2, Recursion
<1> DEFINE s == [i \in 1..N |-> f[i - 1]]
<1>4. \A i \in 1..N : s[i] \in Nat /\ s[i] = f[i - 1]
  BY <1>1, <1>3 DEF Follows
<1>5. s[1] = 0
  BY <1>1, <1>3, <1>4 DEF Follows
<1>6. ASSUME NEW i \in 2..N
      PROVE  s[i] = IF FlatSep(c, i) < s[i - 1] THEN s[i - 1] ELSE FlatSep(c, i)
  <2>1. i - 1 \in 1..(N - 1) /\ i - 1 \in 1..N /\ i \in 1..N /\ i - 1 \in Nat
        /\ (i - 1) + 1 = i
    BY <1>1
  <2>2. f[i - 1] = g[i - 1][f[(i - 1) - 1]]
    BY <1>3, <2>1 DEF Follows
  <2>3. s[i] = g[i - 1][s[i - 1]] /\ s[i - 1] \in Nat
    <3> HIDE DEF s, g
    <3> QED BY <1>4, <2>1, <2>2
  <2>4. s[i] = one(i - 1, s[i - 1])
    <3> HIDE DEF s, one
    <3> QED BY <2>1, <2>3
  <2> HIDE DEF s
  <2> QED BY <2>1, <2>4
<1> HIDE DEF g
<1>7. s = [i \in 1..N |-> IF i = 1 THEN 0
                          ELSE IF FlatSep(c, i) < s[i - 1] THEN s[i - 1]
                          ELSE FlatSep(c, i)]
  <2>1. \A i \in 1..N : i = 1 \/ i \in 2..N
    BY <1>1
  <2>2. s = [i \in 1..N |-> s[i]]
    OBVIOUS
  <2> HIDE DEF s
  <2> QED BY <1>5, <1>6, <2>1, <2>2
<1>8. sep = [i \in 1..N |-> IF i = 1 THEN 0
                            ELSE IF FlatSep(c, i) < sep[i - 1] THEN sep[i - 1]
                            ELSE FlatSep(c, i)]
  <2> HIDE DEF s
  <2> QED BY <1>7 DEF FlatSeps
<1> HIDE DEF sep, s
<1>9. /\ sep[1] = 0
      /\ \A i \in 2..N :
           sep[i] = IF FlatSep(c, i) < sep[i - 1] THEN sep[i - 1] ELSE FlatSep(c, i)
  <2>1. \A i \in 2..N : i \in 1..N /\ i # 1
    BY <1>1
  <2> HIDE DEF N
  <2> QED BY <1>1, <1>8, <2>1
<1>10. \A i \in 1..N : sep[i] \in Nat
  <2> DEFINE U == {d \in Nat : d + 1 \in 1..N => sep[d + 1] \in Nat}
  <2>1. 0 \in U
    BY <1>9
  <2>2. ASSUME NEW d \in U PROVE d + 1 \in U
    <3>1. SUFFICES ASSUME (d + 1) + 1 \in 1..N PROVE sep[(d + 1) + 1] \in Nat
      OBVIOUS
    <3>2. (d + 1) + 1 \in 2..N /\ d + 1 \in 1..N /\ ((d + 1) + 1) - 1 = d + 1
      BY <1>1, <3>1
    <3> QED BY <1>9, <3>2
  <2>3. U = Nat
    <3> HIDE DEF U
    <3>1. U \in SUBSET Nat BY DEF U
    <3> QED BY <2>1, <2>2, <3>1, NatSet
  <2>4. ASSUME NEW i \in 1..N PROVE sep[i] \in Nat
    <3>1. i - 1 \in Nat /\ (i - 1) + 1 = i BY <1>1
    <3>2. i - 1 \in U
      <4> HIDE DEF U
      <4> QED BY <2>3, <3>1
    <3> QED BY <3>1, <3>2
  <2> QED BY <2>4
<1>11. sep \in [1..N -> Nat]
  BY <1>8, <1>10
<1> QED BY <1>9, <1>11 DEF sep
-----------------------------------------------------------------------------
(* The invariant *)

\* what holds whatever the keys are
Base ==
  /\ tail \in Links
  /\ held \in Links
  /\ flagged \in [Pages -> BOOLEAN]
  /\ \A p \in Pages : kind[p] \in {"new", "deleted", "unlinked"} => ~flagged[p]
  /\ form = "chain" /\ kind[head] = "leaf" => \A p \in Stamped : ~flagged[p]
  /\ form = "chain" => tail \in Stamped /\ right[tail] = NoPage
  /\ \A p \in Pages : IsFiniteSet(KeysOf(items[p])) /\ Fits(items[p], PageCap)
  /\ IsFiniteSet(KeysOf(inl)) /\ Fits(inl, InlineCap)
  /\ held # NoPage => form = "chain" /\ ins # NoTid

\* the downlinks are in the leaves' order, and a leaf has none exactly as long
\* as the split that made it is unfinished
Downlinks(pos) ==
  kind[head] = "inner" =>
    /\ down[head] \in Seq([sep : Nat, child : Pages])
    /\ \A i \in Positions : Child(i) \in Stamped
    /\ \A i, j \in Positions : i < j => pos[Child(i)] < pos[Child(j)]
    /\ \A p \in Stamped :
         right[p] # NoPage /\ ~HasDownlink(right[p]) => flagged[p]
    /\ \A p \in Stamped : flagged[p] => HasDownlink(p) /\ right[p] # NoPage

\* no downlink a descent for key k may take is right of a leaf with such a key
Lands(pos, k) ==
  kind[head] = "inner" =>
    \A i \in Positions : Sep(i) <= k =>
      \A p \in Stamped : pos[p] < pos[Child(i)] =>
        \A x \in items[p] : BlockOf[x] < k

HeldOn ==
  held # NoPage =>
    /\ held \in Stamped
    /\ kind[head] = "inner"
    /\ HasDownlink(held)

Linked(pos) == Ordered(pos) /\ Downlinks(pos) /\ Lands(pos, 0) /\ HeldOn

\* the leaves hold disjoint ranges of keys, in order
Sorted(pos) ==
  \A p, q \in Stamped : pos[p] < pos[q] =>
    \A x \in items[p], y \in items[q] : BlockOf[x] < BlockOf[y]

\* a separator is above the keys left of its leaf and not above the others
Separated(pos) ==
  kind[head] = "inner" =>
    /\ Sep(1) = 0
    /\ \A i, j \in Positions : i < j => Sep(i) <= Sep(j)
    /\ \A i \in Positions : \A p \in Stamped : \A x \in items[p] :
         IF pos[p] < pos[Child(i)] THEN BlockOf[x] < Sep(i)
         ELSE BlockOf[x] >= Sep(i)

\* key k belongs on leaf p: between the keys of the leaves left and right of p
\* and between the separators there
Belongs(pos, p, k) ==
  /\ \A q \in Stamped : \A x \in items[q] :
       /\ pos[q] < pos[p] => BlockOf[x] < k
       /\ pos[q] > pos[p] => BlockOf[x] > k
  /\ kind[head] = "inner" => \A i \in Positions :
       IF pos[p] < pos[Child(i)] THEN k < Sep(i) ELSE k >= Sep(i)

\* the page a writer keeps from one record to the next is where its TID goes,
\* or what it has put its TID on already
HeldFits(pos) ==
  held # NoPage =>
    IF flagged[held] THEN ins \in Indexed ELSE Belongs(pos, held, BlockOf[ins])

Routed(pos) == Sorted(pos) /\ Separated(pos) /\ HeldFits(pos)

LinkedBy(pos) == Shape /\ Base /\ (form = "chain" => Linked(pos))
RoutedBy(pos) == form = "chain" => Routed(pos)

LinkInv == \E pos : LinkedBy(pos)
RouteInv == \E pos : LinkedBy(pos) /\ RoutedBy(pos)
-----------------------------------------------------------------------------
(* Where a descent ends *)

\* the head is a leaf while the set is flat, the level above after that
LEMMA HeadKind ==
  ASSUME Shape, form = "chain"
  PROVE  /\ head \in Pages /\ kind[head] \in {"leaf", "inner"}
         /\ Flat <=> kind[head] = "leaf"
         /\ ~Flat <=> kind[head] = "inner"
         /\ Flat => FirstLeaf = head /\ head \in Stamped
         /\ ~Flat => Len(down[head]) \in Nat \ {0} /\ FirstLeaf = Child(1)
                     /\ 1 \in Positions
BY DEF Shape, Ownership, Flat, FirstLeaf, Stamped, Child, Positions

\* separators are numbers and downlinks name leaves
LEMMA DownTypes ==
  ASSUME Shape, form = "chain", kind[head] = "inner", NEW pos, Downlinks(pos)
  PROVE  /\ 1 \in Positions /\ Len(down[head]) \in Nat
         /\ \A i \in Positions : i \in Nat /\ Sep(i) \in Nat /\ Child(i) \in Stamped
<1>1. 1 \in Positions /\ Len(down[head]) \in Nat
  BY HeadKind
<1>2. ASSUME NEW i \in Positions PROVE i \in Nat /\ Sep(i) \in Nat
  <2> DEFINE R == [sep : Nat, child : Pages]
  <2>1. down[head] \in Seq(R)
    BY DEF Downlinks
  <2>2. i \in 1..Len(down[head]) /\ i \in Nat
    BY <1>1 DEF Positions
  <2> HIDE DEF R
  <2>3. down[head][i] \in R
    BY <2>1, <2>2, ElementOfSeq
  <2> QED BY <2>2, <2>3 DEF R, Sep
<1> QED BY <1>1, <1>2 DEF Downlinks

\* the downlink of a child
LEMMA DownlinkOfChild ==
  ASSUME Shape, form = "chain", kind[head] = "inner", NEW pos, Ordered(pos),
         Downlinks(pos), NEW p, HasDownlink(p)
  PROVE  /\ p \in Stamped
         /\ DownlinkAt(p) \in Positions
         /\ Child(DownlinkAt(p)) = p
         /\ \A i \in Positions : Child(i) = p => i = DownlinkAt(p)
<1>1. 1 \in Positions /\ Len(down[head]) \in Nat
  BY HeadKind
<1>2. DownlinkAt(p) \in Positions /\ Child(DownlinkAt(p)) = p
  BY <1>1 DEF HasDownlink, DownlinkAt, Positions, Child
<1>3. p \in Stamped
  BY <1>2 DEF Downlinks
<1>4. ASSUME NEW i \in Positions, Child(i) = p PROVE i = DownlinkAt(p)
  <2> DEFINE d == DownlinkAt(p)
  <2> HIDE DEF d
  <2>1. d \in Positions /\ Child(d) = p /\ pos[p] \in Nat
    BY <1>2, <1>3 DEF d, Ordered, Stamped
  <2>2. ~(i < d) /\ ~(d < i)
    BY <1>4, <2>1 DEF Downlinks
  <2>3. i \in Nat /\ d \in Nat
    BY <1>1, <2>1 DEF Positions
  <2> QED BY <2>2, <2>3 DEF d
<1> QED BY <1>2, <1>3, <1>4

\* through the level above: the last separator at or below the key
LEMMA TreeRoute ==
  ASSUME Shape, form = "chain", kind[head] = "inner", NEW pos, Downlinks(pos),
         NEW k \in Nat
  PROVE  \E n \in Positions :
           /\ WriterLeaf(k) = Child(n)
           /\ HasDownlink(WriterLeaf(k))
           /\ WriterLeaf(k) \in Stamped
           /\ \A i \in Positions : Sep(i) <= k => Sep(n) <= k /\ i <= n
<1>1. 1 \in Positions /\ Len(down[head]) \in Nat /\ ~Flat
  BY HeadKind
<1> DEFINE at == {i \in 1..Len(down[head]) : down[head][i].sep <= k}
           n == DownlinkOff(down[head], k)
<1>2. n = IF at = {} THEN 1 ELSE CHOOSE i \in at : \A j \in at : j <= i
  BY DEF DownlinkOff
<1>3. CASE at = {}
  <2>1. n = 1 /\ n \in Positions BY <1>1, <1>2, <1>3
  <2>2. \A i \in Positions : ~(Sep(i) <= k)
    BY <1>3 DEF Positions, Sep
  <2>3. WriterLeaf(k) = Child(n)
    BY <1>1 DEF WriterLeaf, Child
  <2> QED BY <2>1, <2>2, <2>3 DEF Downlinks, HasDownlink, Child, Positions
<1>4. CASE at # {}
  <2>1. at \in SUBSET (1..Len(down[head]))
    OBVIOUS
  <2> HIDE DEF at, n
  <2>2. n \in at /\ \A j \in at : j <= n
    BY <1>1, <1>2, <1>4, <2>1, LastPosition
  <2>3. n \in Positions /\ Sep(n) <= k
    BY <2>2 DEF at, Positions, Sep
  <2>4. \A i \in Positions : Sep(i) <= k => i <= n
    BY <2>2 DEF at, Positions, Sep
  <2>5. WriterLeaf(k) = Child(n)
    BY <1>1 DEF WriterLeaf, Child, n
  <2> QED BY <2>3, <2>4, <2>5 DEF Downlinks, HasDownlink, Child, Positions
<1> QED BY <1>3, <1>4

\* along a flat chain: the last leaf that begins at or below the key
LEMMA ChainRoute ==
  ASSUME Shape, form = "chain", kind[head] = "leaf", NEW pos, Ordered(pos),
         NEW k \in Nat
  PROVE  LET leaf == WriterLeaf(k)
         IN /\ leaf \in Stamped
            /\ leaf = head \/ (items[leaf] # {} /\ MinKey(leaf) <= k)
            /\ \A q \in Stamped :
                 items[q] # {} /\ MinKey(q) <= k => pos[q] <= pos[leaf]
<1>1. Flat /\ FirstLeaf = head /\ head \in Stamped
  BY HeadKind
<1> DEFINE c == Chain(head)
           at == {i \in 1..Len(c) : items[c[i]] # {} /\ MinKey(c[i]) <= k}
           leaf == WriterLeaf(k)
<1>2. Enumerates(c, pos)
  BY <1>1, ChainEnumerates
<1>3. leaf = IF at = {} THEN head ELSE c[CHOOSE i \in at : \A j \in at : j <= i]
  BY <1>1 DEF WriterLeaf, FlatRoute
<1> HIDE DEF c, leaf
<1>4. CASE at = {}
  <2>1. leaf = head BY <1>3, <1>4
  <2>2. \A q \in Stamped : ~(items[q] # {} /\ MinKey(q) <= k)
    BY <1>2, <1>4 DEF Enumerates
  <2> QED BY <1>1, <2>1, <2>2 DEF leaf
<1>5. CASE at # {}
  <2>1. at \in SUBSET (1..Len(c)) /\ Len(c) \in Nat
    BY <1>2 DEF Enumerates
  <2> DEFINE n == CHOOSE i \in at : \A j \in at : j <= i
  <2> HIDE DEF at
  <2>2. n \in at /\ \A j \in at : j <= n
    BY <1>5, <2>1, LastPosition
  <2> HIDE DEF n
  <2>3. leaf = c[n] BY <1>3, <1>5 DEF n
  <2>4. n \in 1..Len(c) /\ items[c[n]] # {} /\ MinKey(c[n]) <= k
    BY <2>2 DEF at
  <2>5. leaf \in Stamped
    BY <1>2, <2>3, <2>4 DEF Enumerates
  <2>6. ASSUME NEW q \in Stamped, items[q] # {}, MinKey(q) <= k
        PROVE  pos[q] <= pos[leaf]
    <3>1. PICK j \in 1..Len(c) : c[j] = q
      BY <1>2 DEF Enumerates
    <3>2. j \in at BY <2>6, <3>1 DEF at
    <3>3. j <= n BY <2>2, <3>2
    <3>4. j = n \/ pos[c[j]] < pos[c[n]]
      BY <1>2, <2>1, <2>4, <3>3 DEF Enumerates
    <3>5. pos[q] \in Nat /\ pos[leaf] \in Nat
      BY <2>5 DEF Ordered, Stamped
    <3> QED BY <2>3, <3>1, <3>4, <3>5
  <2> QED BY <2>3, <2>4, <2>5, <2>6 DEF leaf
<1> QED BY <1>4, <1>5

\* where a descent ends is a leaf of the set, with a downlink of its own in a
\* tree
LEMMA RouteStamped ==
  ASSUME Shape, form = "chain", NEW pos, Ordered(pos), Downlinks(pos),
         NEW k \in Nat
  PROVE  /\ WriterLeaf(k) \in Stamped
         /\ kind[head] = "inner" => HasDownlink(WriterLeaf(k))
<1>1. CASE kind[head] = "inner"
  BY <1>1, TreeRoute
<1>2. CASE kind[head] = "leaf"
  BY <1>2, ChainRoute
<1> QED BY <1>1, <1>2, HeadKind

(* A key belongs on the leaf its descent ends on, unless that leaf has an  *)
(* unfinished split.                                                       *)
LEMMA RouteBelongs ==
  ASSUME Shape, Base, form = "chain", NEW pos, Linked(pos), Sorted(pos),
         Separated(pos), NEW k \in Nat, ~flagged[WriterLeaf(k)]
  PROVE  Belongs(pos, WriterLeaf(k), k)
<1> DEFINE p == WriterLeaf(k)
<1>1. Ordered(pos) /\ Downlinks(pos)
  BY DEF Linked
<1>2. \A q \in Stamped : /\ pos[q] \in Nat /\ q \in Pages
                         /\ \A x \in items[q] : BlockOf[x] \in Nat
  BY <1>1, BlockAssumption DEF Ordered, Stamped, Shape, PageTypes
<1>3. CASE kind[head] = "inner"
  <2>1. PICK n \in Positions :
          /\ p = Child(n)
          /\ p \in Stamped
          /\ \A i \in Positions : Sep(i) <= k => Sep(n) <= k /\ i <= n
    BY <1>1, <1>3, TreeRoute
  <2> HIDE DEF p
  <2>2. /\ Sep(1) = 0 /\ 1 \in Positions
        /\ \A i \in Positions : Sep(i) \in Nat /\ i \in Nat
        /\ \A i, j \in Positions : i < j => Sep(i) <= Sep(j)
        /\ \A i, j \in Positions : i < j => pos[Child(i)] < pos[Child(j)]
        /\ \A i \in Positions : Child(i) \in Stamped
    BY <1>1, <1>3, DownTypes DEF Separated, Downlinks
  <2>3. Sep(n) <= k
    BY <2>1, <2>2
  <2>4. ASSUME NEW i \in Positions
        PROVE  IF pos[p] < pos[Child(i)] THEN k < Sep(i) ELSE k >= Sep(i)
    <3>1. CASE i <= n
      BY <1>2, <2>1, <2>2, <2>3, <3>1
    <3>2. CASE n < i
      BY <1>2, <2>1, <2>2, <3>2
    <3> QED BY <2>2, <3>1, <3>2
  <2>5. ASSUME NEW q \in Stamped, NEW x \in items[q], pos[q] < pos[p]
        PROVE  BlockOf[x] < k
    <3>1. BlockOf[x] < Sep(n)
      BY <1>3, <2>1, <2>5 DEF Separated
    <3> QED BY <1>2, <2>2, <2>3, <3>1
  <2>6. ASSUME NEW q \in Stamped, NEW x \in items[q], pos[q] > pos[p]
        PROVE  BlockOf[x] > k
    <3>1. right[p] # NoPage /\ pos[right[p]] <= pos[q] /\ pos[p] < pos[right[p]]
      BY <1>1, <1>2, <2>1, <2>6 DEF Ordered
    <3>2. HasDownlink(right[p])
      BY <1>1, <1>3, <2>1, <3>1 DEF Downlinks, p
    <3>3. PICK m \in Positions : Child(m) = right[p]
      BY <3>2 DEF HasDownlink, Positions, Child
    <3>4. n < m
      <4>1. m # n BY <1>2, <2>1, <3>1, <3>3
      <4>2. ~(m < n) BY <1>2, <2>1, <2>2, <3>1, <3>3
      <4> QED BY <2>2, <4>1, <4>2
    <3>5. Sep(m) > k
      BY <2>1, <2>2, <3>4
    <3>6. ~(pos[q] < pos[Child(m)])
      BY <1>2, <2>2, <3>1, <3>3
    <3>7. BlockOf[x] >= Sep(m)
      BY <1>3, <3>6 DEF Separated
    <3> QED BY <1>2, <2>2, <3>5, <3>7
  <2> QED BY <2>4, <2>5, <2>6 DEF Belongs, p
<1>4. CASE kind[head] = "leaf"
  <2>1. /\ p \in Stamped
        /\ p = head \/ (items[p] # {} /\ MinKey(p) <= k)
        /\ \A q \in Stamped :
             items[q] # {} /\ MinKey(q) <= k => pos[q] <= pos[p]
    BY <1>1, <1>4, ChainRoute
  <2> HIDE DEF p
  <2>2. ASSUME NEW q \in Stamped, NEW x \in items[q], pos[q] < pos[p]
        PROVE  BlockOf[x] < k
    <3>1. p # head
      BY <1>1, <1>2, <1>4, <2>1, <2>2, FirstLowest, HeadKind
    <3>2. items[p] # {} /\ MinKey(p) <= k
      BY <2>1, <3>1
    <3>3. MinKey(p) \in KeysOf(items[p]) /\ MinKey(p) \in Nat
      BY <1>2, <2>1, <3>2, FirstKey DEF Shape
    <3>4. PICK y \in items[p] : MinKey(p) = BlockOf[y]
      BY <3>3 DEF KeysOf
    <3>5. BlockOf[x] < BlockOf[y]
      BY <2>1, <2>2 DEF Sorted
    <3> QED BY <1>2, <2>1, <3>2, <3>4, <3>5
  <2>3. ASSUME NEW q \in Stamped, NEW x \in items[q], pos[q] > pos[p]
        PROVE  BlockOf[x] > k
    <3>1. items[q] # {} /\ ~(MinKey(q) <= k)
      BY <1>2, <2>1, <2>3
    <3>2. MinKey(q) <= BlockOf[x] /\ MinKey(q) \in Nat
      BY <1>2, <3>1, FirstKey DEF Shape
    <3> QED BY <1>2, <3>1, <3>2
  <2> QED BY <1>4, <2>2, <2>3 DEF Belongs, p
<1> QED BY <1>3, <1>4, HeadKind
-----------------------------------------------------------------------------
(* What the invariant says of the walk along the right links *)

\* the walk along the right links meets the keys in order
LEMMA SortedChain ==
  ASSUME Shape, form = "chain", NEW pos, Ordered(pos), Sorted(pos)
  PROVE  ChainSorted
<1> DEFINE c == Chain(FirstLeaf)
<1>1. Enumerates(c, pos)
  BY ChainEnumerates
<1> HIDE DEF c
<1>2. ASSUME NEW i \in 1..Len(c), NEW j \in 1..Len(c), i < j,
             NEW x \in items[c[i]], NEW y \in items[c[j]]
      PROVE  BlockOf[x] < BlockOf[y]
  <2>1. c[i] \in Stamped /\ c[j] \in Stamped /\ pos[c[i]] < pos[c[j]]
    BY <1>1, <1>2 DEF Enumerates
  <2> QED BY <2>1 DEF Sorted
<1> QED BY <1>2 DEF ChainSorted, c

\* the walk ends at the append hint and meets leaves of the set only
LEMMA OwnedChain ==
  ASSUME Shape, Base, form = "chain", NEW pos, Ordered(pos)
  PROVE  ChainOwned
<1> DEFINE c == Chain(FirstLeaf)
<1>1. Enumerates(c, pos)
  BY ChainEnumerates
<1> HIDE DEF c
<1>2. \A i \in 1..Len(c) : kind[c[i]] = "leaf" /\ owner[c[i]] = head
  BY <1>1 DEF Enumerates, Stamped
<1>3. tail \in Stamped /\ right[tail] = NoPage
  BY DEF Base
<1>4. PICK i \in 1..Len(c) : c[i] = tail
  BY <1>1, <1>3 DEF Enumerates
<1>5. i = Len(c)
  <2>1. SUFFICES ASSUME i # Len(c) PROVE FALSE
    OBVIOUS
  <2>2. i \in 1..(Len(c) - 1) /\ i + 1 \in 1..Len(c)
    <3>1. Len(c) \in Nat
      BY <1>1 DEF Enumerates
    <3> QED BY <2>1, <3>1
  <2>3. right[c[i]] = c[i + 1] /\ c[i + 1] \in Stamped
    BY <1>1, <2>2 DEF Enumerates
  <2> QED BY <1>3, <1>4, <2>3, NoPageAssumption DEF Stamped
<1> QED BY <1>2, <1>4, <1>5 DEF ChainOwned, c

\* a descent ends on the key's leaf, or left of it behind unfinished splits
LEMMA RoutedChain ==
  ASSUME Shape, Base, form = "chain", NEW pos, Linked(pos), Sorted(pos),
         Separated(pos)
  PROVE  RoutesToOwner
<1> DEFINE c == Chain(FirstLeaf)
<1>1. Ordered(pos) /\ Downlinks(pos)
  BY DEF Linked
<1>2. Enumerates(c, pos)
  BY <1>1, ChainEnumerates
<1> HIDE DEF c
<1>3. \A q \in Stamped : /\ pos[q] \in Nat /\ q \in Pages
                         /\ \A x \in items[q] : BlockOf[x] \in Nat
  BY <1>1, BlockAssumption DEF Ordered, Stamped, Shape, PageTypes
<1>4. SUFFICES ASSUME NEW j \in 1..Len(c), NEW x \in items[c[j]]
               PROVE  \E i \in 1..j : /\ c[i] = WriterLeaf(BlockOf[x])
                                      /\ \A n \in i..(j - 1) : flagged[c[n]]
  BY DEF RoutesToOwner, KeysOf, c
<1> DEFINE k == BlockOf[x]
           leaf == WriterLeaf(k)
<1>5. /\ c[j] \in Stamped /\ k \in Nat /\ Len(c) \in Nat
      /\ \A i \in 1..Len(c) : c[i] \in Stamped
  BY <1>2, <1>3 DEF Enumerates
<1>6. leaf \in Stamped
  BY <1>1, <1>5, RouteStamped
<1>7. PICK i \in 1..Len(c) : c[i] = leaf
  BY <1>2, <1>6 DEF Enumerates
<1> HIDE DEF k, leaf
<1>8. \A a, b \in 1..Len(c) : pos[c[a]] <= pos[c[b]] <=> a <= b
  <2>1. SUFFICES ASSUME NEW a \in 1..Len(c), NEW b \in 1..Len(c)
                 PROVE  pos[c[a]] <= pos[c[b]] <=> a <= b
    OBVIOUS
  <2>2. pos[c[a]] \in Nat /\ pos[c[b]] \in Nat /\ a \in Nat /\ b \in Nat
    BY <1>3, <1>5
  <2>3. (a < b => pos[c[a]] < pos[c[b]]) /\ (b < a => pos[c[b]] < pos[c[a]])
    BY <1>2 DEF Enumerates
  <2> QED BY <2>2, <2>3
<1>9. CASE kind[head] = "leaf"
  <2>1. /\ leaf = head \/ (items[leaf] # {} /\ MinKey(leaf) <= k)
        /\ \A q \in Stamped :
             items[q] # {} /\ MinKey(q) <= k => pos[q] <= pos[leaf]
    BY <1>1, <1>5, <1>9, ChainRoute DEF leaf
  <2>2. items[c[j]] # {} /\ MinKey(c[j]) <= k
    BY <1>3, <1>5, FirstKey DEF Shape, k
  <2>3. pos[c[j]] <= pos[c[i]]
    BY <1>5, <1>7, <2>1, <2>2
  <2>4. i = j
    <3>1. SUFFICES ASSUME i # j PROVE FALSE
      OBVIOUS
    <3>2. j < i
      BY <1>5, <1>8, <2>3, <3>1
    <3>3. pos[c[j]] < pos[c[i]]
      BY <1>2, <3>2 DEF Enumerates
    <3>4. leaf # head
      BY <1>1, <1>3, <1>5, <1>7, <1>9, <3>3, FirstLowest, HeadKind
    <3>5. items[leaf] # {} /\ MinKey(leaf) <= k
      BY <2>1, <3>4
    <3>6. PICK y \in items[leaf] : MinKey(leaf) = BlockOf[y]
      BY <1>3, <1>6, <3>5, FirstKey DEF Shape, KeysOf
    <3>7. k < BlockOf[y]
      BY <1>5, <1>6, <1>7, <3>3, <3>6 DEF Sorted, k
    <3> QED BY <1>3, <1>5, <1>6, <3>5, <3>6, <3>7
  <2> QED BY <1>5, <1>7, <2>4 DEF leaf, k
<1>10. CASE kind[head] = "inner"
  <2>1. PICK n \in Positions :
          /\ leaf = Child(n)
          /\ \A a \in Positions : Sep(a) <= k => Sep(n) <= k /\ a <= n
    BY <1>1, <1>5, <1>10, TreeRoute DEF leaf
  <2>2. /\ Sep(1) = 0 /\ 1 \in Positions
        /\ \A a \in Positions : Sep(a) \in Nat /\ a \in Nat
        /\ \A a \in Positions : Child(a) \in Stamped
    BY <1>1, <1>10, DownTypes DEF Separated, Downlinks
  <2>3. Sep(n) <= k
    BY <1>5, <2>1, <2>2
  <2>4. \A a \in Positions : Sep(a) <= k <=> pos[Child(a)] <= pos[c[j]]
    <3>1. SUFFICES ASSUME NEW a \in Positions
                   PROVE  Sep(a) <= k <=> pos[Child(a)] <= pos[c[j]]
      OBVIOUS
    <3>2. IF pos[c[j]] < pos[Child(a)] THEN k < Sep(a) ELSE k >= Sep(a)
      BY <1>5, <1>10 DEF Separated, k
    <3> QED BY <1>3, <1>5, <2>2, <3>2
  <2>5. i <= j
    <3>1. pos[c[i]] <= pos[c[j]]
      BY <1>7, <2>1, <2>3, <2>4
    <3> QED BY <1>8, <3>1
  <2>6. ASSUME NEW m \in i..(j - 1) PROVE flagged[c[m]]
    <3>1. /\ m \in 1..(Len(c) - 1) /\ m \in 1..Len(c) /\ m + 1 \in 1..Len(c)
          /\ m + 1 <= j /\ i <= m
      BY <1>5, <2>6
    <3>2. right[c[m]] = c[m + 1] /\ c[m] \in Stamped /\ c[m + 1] \in Stamped
      BY <1>2, <1>5, <3>1 DEF Enumerates
    <3>3. ~HasDownlink(c[m + 1])
      <4>1. SUFFICES ASSUME NEW a \in Positions, Child(a) = c[m + 1] PROVE FALSE
        BY DEF HasDownlink, Positions, Child
      <4>2. Sep(a) <= k
        BY <1>8, <2>4, <3>1, <4>1
      <4>3. a <= n
        BY <2>1, <4>2
      <4>4. pos[Child(a)] <= pos[Child(n)]
        <5>1. a = n \/ a < n BY <2>2, <4>3
        <5> QED BY <1>1, <1>3, <1>10, <2>2, <5>1 DEF Downlinks
      <4>5. m + 1 <= i
        BY <1>7, <1>8, <2>1, <3>1, <4>1, <4>4
      <4> QED BY <1>5, <3>1, <4>5
    <3> QED BY <1>1, <1>10, <3>2, <3>3, NoPageAssumption DEF Downlinks, Stamped
  <2> QED BY <1>5, <1>7, <2>5, <2>6 DEF leaf, k
<1> QED BY <1>9, <1>10, HeadKind

\* the separators as the binary search reads them
LEMMA AscendingSeparators ==
  ASSUME Shape, form = "chain", NEW pos, Separated(pos)
  PROVE  SeparatorsAscend
BY HeadKind DEF Separated, SeparatorsAscend, Positions, Sep
-----------------------------------------------------------------------------
(* The steps, and the order of the leaves *)

\* the numbers after a split of p that makes q, and after a promotion of h to q
AfterSplit(pos, p, q) ==
  [x \in Pages |-> IF x = q THEN 2 * pos[p] + 1 ELSE 2 * pos[x]]
AfterPromote(pos, h, q) ==
  [x \in Pages |-> IF x = q THEN pos[h] ELSE pos[x]]
OnePage == [x \in Pages |-> 0]

\* what is taken off a page leaves it in its bounds
LEMMA FewerKeys ==
  ASSUME NEW S, NEW T \in SUBSET S, NEW cap \in Nat, IsFiniteSet(KeysOf(S)),
         Fits(S, cap)
  PROVE  IsFiniteSet(KeysOf(T)) /\ Fits(T, cap)
<1>1. KeysOf(T) \subseteq KeysOf(S)
  BY DEF KeysOf
<1>2. IsFiniteSet(KeysOf(T)) /\ Cardinality(KeysOf(T)) <= Cardinality(KeysOf(S))
  BY <1>1, FS_Subset
<1>3. Cardinality(KeysOf(T)) \in Nat /\ Cardinality(KeysOf(S)) \in Nat
  BY <1>2, FS_CardinalityType
<1> QED BY <1>2, <1>3 DEF Fits

\* one more TID is at most one more key
LEMMA OneKeyMore ==
  ASSUME NEW S, NEW t, IsFiniteSet(KeysOf(S))
  PROVE  /\ KeysOf(S \cup {t}) = KeysOf(S) \cup {BlockOf[t]}
         /\ IsFiniteSet(KeysOf(S \cup {t}))
<1>1. KeysOf(S \cup {t}) = KeysOf(S) \cup {BlockOf[t]}
  BY DEF KeysOf
<1>2. IsFiniteSet(KeysOf(S) \cup {BlockOf[t]})
  BY FS_AddElement
<1> QED BY <1>1, <1>2

\* a page of one TID is in its bounds
LEMMA OneKey ==
  ASSUME NEW t, NEW cap \in Nat \ {0}
  PROVE  IsFiniteSet(KeysOf({t})) /\ Fits({t}, cap)
<1>1. KeysOf({t}) = {BlockOf[t]}
  BY DEF KeysOf
<1>2. IsFiniteSet({BlockOf[t]}) /\ Cardinality({BlockOf[t]}) = 1
  BY FS_Singleton
<1> QED BY <1>1, <1>2 DEF Fits

\* the bounds are numbers, and an INLINE payload fits a page
LEMMA Caps ==
  PageCap \in Nat \ {0} /\ InlineCap \in Nat \ {0} /\ InlineCap <= PageCap
BY CapAssumption

\* steps that leave the links, the downlinks and the flags alone and add no key
LEMMA QuietLinked ==
  ASSUME form = "chain", NEW pos, Linked(pos),
         UNCHANGED <<form, head, kind, owner, right, down, flagged>>,
         \A p \in Stamped : items'[p] \subseteq items[p],
         held' \in {held, NoPage}
  PROVE  Linked(pos)'
<1>1. Stamped' = Stamped /\ Positions' = Positions
  BY DEF Stamped, Positions
<1>2. /\ \A i : Child(i)' = Child(i) /\ Sep(i)' = Sep(i)
      /\ \A p : HasDownlink(p)' <=> HasDownlink(p)
  BY DEF Child, Sep, HasDownlink
<1>3. Ordered(pos)'
  BY <1>1 DEF Linked, Ordered
<1>4. Downlinks(pos)'
  BY <1>1, <1>2 DEF Linked, Downlinks
<1>5. Lands(pos, 0)'
  BY <1>1, <1>2 DEF Linked, Lands
<1>6. HeldOn'
  BY <1>1, <1>2 DEF Linked, HeldOn
<1> QED BY <1>3, <1>4, <1>5, <1>6 DEF Linked

\* the entry's lock is taken: no page is held
LEMMA BeginLinks ==
  ASSUME NEW pos, LinkedBy(pos), NEW t \in Tids, InsertBegin(t)
  PROVE  LinkedBy(pos)' /\ held' = NoPage
<1> USE DEF InsertBegin, entryVars, pageVars
<1>1. Shape' BY BeginShape DEF LinkedBy
<1>2. t # NoTid BY NoTidAssumption
<1>3. Base'
  BY <1>2 DEF LinkedBy, Base, Stamped
<1>4. form' = "chain" => Linked(pos)'
  BY QuietLinked DEF LinkedBy
<1> QED BY <1>1, <1>3, <1>4 DEF LinkedBy, Base

\* the locks go and what is written stays
LEMMA FailsLinks ==
  ASSUME NEW pos, LinkedBy(pos), InsertFails
  PROVE  LinkedBy(pos)' /\ held' = NoPage
<1> USE DEF InsertFails, entryVars, pageVars
<1>1. Shape' BY FailsShape DEF LinkedBy
<1>2. Base'
  BY DEF LinkedBy, Base, Stamped, Links
<1>3. form' = "chain" => Linked(pos)'
  BY QuietLinked DEF LinkedBy
<1> QED BY <1>1, <1>2, <1>3 DEF LinkedBy

\* an entry without a tree has no leaf to number
LEMMA InlineLinks ==
  ASSUME NEW pos, LinkedBy(pos),
         InsertNewEntry \/ InsertInline \/ \E gone : FilterInline(gone)
  PROVE  LinkedBy(pos)' /\ form' # "chain"
<1> USE DEF InsertNewEntry, InsertInline, FilterInline, pageVars
<1>1. Shape' BY InlineShape DEF LinkedBy
<1>2. /\ form # "chain" /\ form' = "inline"
      /\ UNCHANGED <<head, tail, kind, owner, right, flagged, down, items, held>>
  OBVIOUS
<1>3. IsFiniteSet(KeysOf(inl))' /\ Fits(inl, InlineCap)'
  <2>1. CASE inl' = {ins}
    BY <2>1, OneKey, Caps DEF KeysOf, Fits
  <2>2. CASE inl' = inl \cup {ins} /\ Fits(inl \cup {ins}, InlineCap)
    BY <2>2, OneKeyMore DEF LinkedBy, Base, KeysOf, Fits
  <2>3. CASE \E gone : inl' = inl \ gone
    <3>1. inl' \in SUBSET inl BY <2>3
    <3>2. InlineCap \in Nat BY Caps
    <3> QED BY <3>1, <3>2, FewerKeys DEF LinkedBy, Base, KeysOf, Fits
  <2> QED BY <2>1, <2>2, <2>3
<1>4. Base'
  BY <1>2, <1>3 DEF LinkedBy, Base, Stamped, KeysOf, Fits
<1> QED BY <1>1, <1>2, <1>4 DEF LinkedBy

\* TIDs that VACUUM removes leave the order alone
LEMMA FilterLinks ==
  ASSUME NEW pos, LinkedBy(pos), NEW p \in Pages, NEW gone, FilterPage(p, gone)
  PROVE  LinkedBy(pos)'
<1> USE DEF FilterPage, entryVars
<1>1. Shape' BY FilterShape DEF LinkedBy
<1>2. \A x \in Pages : items'[x] \subseteq items[x]
  BY DEF LinkedBy, Shape, PageTypes
<1>3. \A x \in Pages : (IsFiniteSet(KeysOf(items[x])) /\ Fits(items[x], PageCap))'
  <2>1. SUFFICES ASSUME NEW x \in Pages
                 PROVE  IsFiniteSet(KeysOf(items'[x])) /\ Fits(items'[x], PageCap)
    BY DEF KeysOf, Fits
  <2> QED BY <1>2, FewerKeys, Caps DEF LinkedBy, Base
<1>4. Base'
  BY <1>3 DEF LinkedBy, Base, Stamped, KeysOf, Fits
<1>5. form' = "chain" => Linked(pos)'
  BY <1>2, QuietLinked DEF LinkedBy, Stamped
<1> QED BY <1>1, <1>4, <1>5 DEF LinkedBy

\* nor has an entry that is gone
LEMMA DeleteLinks ==
  ASSUME NEW pos, LinkedBy(pos), DeleteEntry
  PROVE  LinkedBy(pos)' /\ form' # "chain"
<1> USE DEF DeleteEntry, pageVars
<1>1. Shape' BY DeleteShape DEF LinkedBy
<1>2. IsFiniteSet(KeysOf({})) /\ Fits({}, InlineCap)
  <2>1. KeysOf({}) = {} BY DEF KeysOf
  <2> QED BY <2>1, FS_EmptySet, Caps DEF Fits
<1>3. Base'
  BY <1>2 DEF LinkedBy, Base, Links, KeysOf, Fits
<1> QED BY <1>1, <1>3 DEF LinkedBy

\* a page that is freed is not of the set
LEMMA FreeLinks ==
  ASSUME NEW pos, LinkedBy(pos), NEW p \in Pages, NEW live, FreePage(p, live)
  PROVE  LinkedBy(pos)'
<1> USE DEF FreePage, Orphan, entryVars
<1>1. Shape' BY FreeShape DEF LinkedBy
<1>2. /\ \A x \in Pages \ {p} : /\ kind'[x] = kind[x] /\ right'[x] = right[x]
                                /\ flagged'[x] = flagged[x]
                                /\ down'[x] = down[x]
      /\ kind'[p] = "deleted" /\ ~flagged'[p]
      /\ UNCHANGED <<form, inl, head, tail, owner, items, ins, held>>
  BY DEF LinkedBy, Shape, PageTypes, Base
<1>3. form = "chain" => p # head /\ p \notin Stamped /\ Stamped' = Stamped
                        /\ head \in Pages
  BY <1>2 DEF LinkedBy, Shape, Ownership, Stamped
<1>4. Base'
  <2>1. flagged' \in [Pages -> BOOLEAN]
    BY DEF LinkedBy, Base
  <2>2. \A x \in Pages : kind'[x] \in {"new", "deleted", "unlinked"} => ~flagged'[x]
    BY <1>2 DEF LinkedBy, Base
  <2>3. form' = "chain" /\ kind'[head'] = "leaf" => \A x \in Stamped' : ~flagged'[x]
    BY <1>2, <1>3 DEF LinkedBy, Base, Stamped
  <2>4. form' = "chain" => tail' \in Stamped' /\ right'[tail'] = NoPage
    BY <1>2, <1>3 DEF LinkedBy, Base, Stamped
  <2> QED BY <1>2, <2>1, <2>2, <2>3, <2>4 DEF LinkedBy, Base, KeysOf, Fits
<1>5. ASSUME form = "chain" PROVE Linked(pos)'
  <2>1. Linked(pos) BY <1>5 DEF LinkedBy
  <2>2. /\ Stamped' = Stamped /\ head' = head /\ kind'[head] = kind[head]
        /\ down'[head] = down[head]
        /\ \A x \in Stamped : right'[x] = right[x] /\ flagged'[x] = flagged[x]
    BY <1>2, <1>3, <1>5 DEF Stamped
  <2>3. Positions' = Positions /\ \A i : Child(i)' = Child(i) /\ Sep(i)' = Sep(i)
    BY <2>2 DEF Positions, Child, Sep
  <2>4. \A x : HasDownlink(x)' <=> HasDownlink(x)
    BY <2>2 DEF HasDownlink
  <2>5. Ordered(pos)'
    BY <2>1, <2>2 DEF Linked, Ordered
  <2>6. Downlinks(pos)'
    BY <2>1, <2>2, <2>3, <2>4 DEF Linked, Downlinks
  <2>7. Lands(pos, 0)'
    BY <1>2, <2>1, <2>2, <2>3 DEF Linked, Lands
  <2>8. HeldOn'
    BY <1>2, <2>1, <2>2, <2>4 DEF Linked, HeldOn
  <2> QED BY <2>5, <2>6, <2>7, <2>8 DEF Linked
<1> QED BY <1>1, <1>2, <1>4, <1>5 DEF LinkedBy

\* a first leaf is numbered zero
LEMMA SpillLinks ==
  ASSUME NEW pos, LinkedBy(pos), NEW q \in Pages, Spill(q)
  PROVE  LinkedBy(OnePage)' /\ Stamped' = {q} /\ head' = q /\ held' = NoPage
         /\ form' = "chain" /\ kind'[q] = "leaf" /\ items'[q] = inl
<1> USE DEF Spill, NewLeaf
<1>1. Shape' BY SpillShape DEF LinkedBy
<1>2. /\ form' = "chain" /\ head' = q /\ tail' = q /\ held' = held /\ inl' = {}
      /\ kind'[q] = "leaf" /\ right'[q] = NoPage /\ items'[q] = inl
      /\ flagged' = flagged /\ kind[q] = "new" /\ form = "inline"
      /\ \A x \in Pages \ {q} : kind'[x] = kind[x] /\ owner'[x] = owner[x]
                                /\ items'[x] = items[x]
      /\ owner'[q] = q
  BY DEF LinkedBy, Shape, PageTypes
<1>3. Stamped' = {q}
  <2>1. \A x \in Pages : x # q => kind[x] = "new" \/ owner[x] # q
    BY <1>2 DEF LinkedBy, Shape, Ownership
  <2> QED BY <1>2, <2>1 DEF Stamped
<1>4. held = NoPage
  BY <1>2 DEF LinkedBy, Base
<1>5. Base'
  <2>1. IsFiniteSet(KeysOf({})) /\ Fits({}, InlineCap)
    <3>1. KeysOf({}) = {} BY DEF KeysOf
    <3> QED BY <3>1, FS_EmptySet, Caps DEF Fits
  <2>2. IsFiniteSet(KeysOf(inl)) /\ Fits(inl, PageCap)
    <3>1. IsFiniteSet(KeysOf(inl)) /\ Cardinality(KeysOf(inl)) <= InlineCap
      BY DEF LinkedBy, Base, Fits
    <3> QED BY <3>1, FS_CardinalityType, Caps DEF Fits
  <2>3. \A x \in Pages : (IsFiniteSet(KeysOf(items[x])) /\ Fits(items[x], PageCap))'
    BY <1>2, <2>2 DEF LinkedBy, Base, KeysOf, Fits
  <2>4. \A x \in Pages : kind'[x] \in {"new", "deleted", "unlinked"} => ~flagged'[x]
    BY <1>2 DEF LinkedBy, Base
  <2>5. ~flagged'[q]
    BY <1>2 DEF LinkedBy, Base
  <2>6. tail' \in Links /\ held' \in Links
    BY <1>2 DEF LinkedBy, Base, Links
  <2> QED BY <1>2, <1>3, <1>4, <2>1, <2>3, <2>4, <2>5, <2>6
          DEF LinkedBy, Base, KeysOf, Fits
<1>6. Linked(OnePage)'
  <2>1. Ordered(OnePage)'
    BY <1>2, <1>3 DEF Ordered, OnePage
  <2> QED BY <1>2, <1>3, <1>4, <2>1 DEF Linked, Downlinks, Lands, HeldOn
<1> QED BY <1>1, <1>2, <1>3, <1>4, <1>5, <1>6 DEF LinkedBy
-----------------------------------------------------------------------------
(* A TID that joins a leaf *)

\* p is at or right of every leaf a descent may pass over for the key 0
AfterZero(pos, p) ==
  kind[head] = "inner" =>
    \A i \in Positions : Sep(i) <= 0 => ~(pos[p] < pos[Child(i)])

\* a TID joins a leaf that is not left of a zero separator's
LEMMA PutLinks ==
  ASSUME NEW pos, LinkedBy(pos), NEW p \in Stamped, form = "chain",
         ins # NoTid, held = NoPage, Fits(items[p] \cup {ins}, PageCap),
         AfterZero(pos, p), PutOn(p)
  PROVE  LinkedBy(pos)'
<1> USE DEF PutOn, entryVars
<1>1. Shape' BY PutOnShape DEF LinkedBy
<1>2. /\ items'[p] = items[p] \cup {ins}
      /\ \A x \in Pages \ {p} : items'[x] = items[x]
      /\ p \in Pages
  BY DEF LinkedBy, Shape, PageTypes, Stamped
<1>3. IsFiniteSet(KeysOf(items[p] \cup {ins}))
  BY <1>2, OneKeyMore DEF LinkedBy, Base
<1>4. \A x \in Pages : (IsFiniteSet(KeysOf(items[x])) /\ Fits(items[x], PageCap))'
  <2>1. SUFFICES ASSUME NEW x \in Pages
                 PROVE  IsFiniteSet(KeysOf(items'[x])) /\ Fits(items'[x], PageCap)
    BY DEF KeysOf, Fits
  <2> QED BY <1>2, <1>3 DEF LinkedBy, Base
<1>5. Base'
  BY <1>4 DEF LinkedBy, Base, Stamped, KeysOf, Fits
<1>6. Linked(pos) BY DEF LinkedBy
<1>7. /\ Stamped' = Stamped /\ Positions' = Positions
      /\ \A i : Child(i)' = Child(i) /\ Sep(i)' = Sep(i)
      /\ \A x : HasDownlink(x)' <=> HasDownlink(x)
  BY DEF Stamped, Positions, Child, Sep, HasDownlink
<1>8. Lands(pos, 0)'
  BY <1>2, <1>6, <1>7 DEF Linked, Lands, AfterZero, Stamped
<1>9. Ordered(pos)' /\ Downlinks(pos)'
  BY <1>6, <1>7 DEF Linked, Ordered, Downlinks
<1>10. HeldOn'
  BY <1>6, <1>7 DEF Linked, HeldOn
<1> QED BY <1>1, <1>5, <1>8, <1>9, <1>10 DEF LinkedBy, Linked

\* the tail is the last leaf
LEMMA TailLast ==
  ASSUME NEW pos, LinkedBy(pos), form = "chain", NEW p \in Stamped
  PROVE  tail \in Stamped /\ pos[p] <= pos[tail]
<1>1. tail \in Stamped /\ right[tail] = NoPage
  BY DEF LinkedBy, Base
<1>2. ~(pos[tail] < pos[p]) /\ pos[tail] \in Nat /\ pos[p] \in Nat
  BY <1>1 DEF LinkedBy, Linked, Ordered, Stamped
<1> QED BY <1>1, <1>2

\* the tail is not
LEMMA TailAfterZero ==
  ASSUME NEW pos, LinkedBy(pos), form = "chain"
  PROVE  AfterZero(pos, tail)
<1> SUFFICES ASSUME kind[head] = "inner", NEW i \in Positions
             PROVE  ~(pos[tail] < pos[Child(i)])
  BY DEF AfterZero
<1>1. Child(i) \in Stamped
  BY DEF LinkedBy, Linked, Downlinks
<1>2. pos[Child(i)] <= pos[tail] /\ tail \in Stamped
  BY <1>1, TailLast
<1>3. pos[Child(i)] \in Nat /\ pos[tail] \in Nat
  BY <1>1, <1>2 DEF LinkedBy, Linked, Ordered, Stamped
<1> QED BY <1>2, <1>3

\* nor is the leaf where a descent for the key ends
LEMMA RouteAfterZero ==
  ASSUME NEW pos, LinkedBy(pos), form = "chain", NEW k \in Nat
  PROVE  AfterZero(pos, WriterLeaf(k))
<1> SUFFICES ASSUME kind[head] = "inner", NEW i \in Positions, Sep(i) <= 0
             PROVE  ~(pos[WriterLeaf(k)] < pos[Child(i)])
  BY DEF AfterZero
<1>1. Ordered(pos) /\ Downlinks(pos) /\ Shape
  BY DEF LinkedBy, Linked
<1>2. PICK n \in Positions :
        /\ WriterLeaf(k) = Child(n)
        /\ \A j \in Positions : Sep(j) <= k => Sep(n) <= k /\ j <= n
  BY <1>1, TreeRoute
<1>3. i \in Nat /\ n \in Nat /\ Sep(i) \in Nat /\ Child(i) \in Stamped
      /\ Child(n) \in Stamped
  BY <1>1, DownTypes
<1>4. i <= n
  BY <1>2, <1>3
<1>5. pos[Child(i)] \in Nat /\ pos[Child(n)] \in Nat
  BY <1>1, <1>3 DEF Ordered, Stamped
<1>6. i = n \/ pos[Child(i)] < pos[Child(n)]
  BY <1>1, <1>3, <1>4 DEF Downlinks
<1> QED BY <1>2, <1>5, <1>6

\* the append path
LEMMA OnTailLinks ==
  ASSUME NEW pos, LinkedBy(pos), InsertOnTail
  PROVE  /\ LinkedBy(pos)' /\ tail \in Stamped /\ form = "chain" /\ ins \in Tids
         /\ held = NoPage
<1>1. tail \in Stamped /\ form = "chain" /\ ins # NoTid /\ PutOn(tail)
      /\ held = NoPage /\ Fits(items[tail] \cup {ins}, PageCap)
  BY TailLast DEF InsertOnTail, LinkedBy, Base
<1> QED BY <1>1, TailAfterZero, PutLinks DEF LinkedBy, Shape, PageTypes

\* the path by a descent
LEMMA OnLeafLinks ==
  ASSUME NEW pos, LinkedBy(pos), NEW p \in Leaves, InsertOnLeaf(p)
  PROVE  /\ LinkedBy(pos)' /\ p \in Stamped /\ form = "chain" /\ ins \in Tids
         /\ held = NoPage
<1>1. p \in Stamped /\ form = "chain" /\ ins # NoTid /\ PutOn(p)
      /\ held = NoPage /\ Fits(items[p] \cup {ins}, PageCap)
      /\ p = WriterLeaf(BlockOf[ins])
  BY LeavesStamped DEF InsertOnLeaf, LinkedBy
<1>2. ins \in Tids /\ BlockOf[ins] \in Nat
  BY <1>1, BlockAssumption DEF LinkedBy, Shape, PageTypes
<1>3. AfterZero(pos, p)
  BY <1>1, <1>2, RouteAfterZero
<1> QED BY <1>1, <1>2, <1>3, PutLinks

-----------------------------------------------------------------------------
(* The end of a split *)

\* an unfinished split is in a tree, and the leaf it was made on has a downlink
LEMMA FinishOn ==
  ASSUME NEW pos, LinkedBy(pos), NEW p, ToFinish(p)
  PROVE  /\ form = "chain" /\ p \in Stamped /\ kind[head] = "inner"
         /\ HasDownlink(p) /\ right[p] # NoPage /\ right[p] \in Stamped
         /\ held \in {p, NoPage} /\ ins \in Tids
<1>1. form = "chain" /\ flagged[p] /\ Linked(pos) /\ ins \in Tids
      /\ Ordered(pos) /\ Downlinks(pos) /\ HeldOn /\ Shape
  BY DEF ToFinish, LinkedBy, Linked, Shape, PageTypes
<1>2. BlockOf[ins] \in Nat
  BY <1>1, BlockAssumption
<1>3. p \in Stamped /\ held \in {p, NoPage}
  BY <1>1, <1>2, RouteStamped DEF ToFinish, HeldOn
<1>4. kind[head] = "inner"
  BY <1>1, <1>3, HeadKind DEF LinkedBy, Base
<1>5. HasDownlink(p) /\ right[p] # NoPage
  BY <1>1, <1>3, <1>4 DEF Downlinks
<1>6. right[p] \in Stamped
  BY <1>1, <1>3, <1>5 DEF Shape, OneChain, RightClosed
<1> QED BY <1>1, <1>3, <1>4, <1>5, <1>6

\* the flag goes only after the right sibling has its downlink
LEMMA ClearLinks ==
  ASSUME NEW pos, LinkedBy(pos), NEW p \in Pages, ClearSplit(p)
  PROVE  LinkedBy(pos)'
<1> USE DEF ClearSplit, entryVars
<1>1. Shape' BY ClearShape DEF LinkedBy
<1>2. /\ form = "chain" /\ p \in Stamped /\ kind[head] = "inner"
      /\ HasDownlink(right[p])
  BY FinishOn
<1>3. /\ flagged' = [flagged EXCEPT ![p] = FALSE]
      /\ UNCHANGED <<form, inl, head, tail, kind, owner, items, right, down>>
      /\ \/ ins' = NoTid /\ held' = NoPage
         \/ UNCHANGED <<ins, held>>
  OBVIOUS
<1>4. Base'
  BY <1>2, <1>3 DEF LinkedBy, Base, Stamped, Links, KeysOf, Fits
<1>5. Linked(pos) BY <1>2 DEF LinkedBy
<1>6. /\ Stamped' = Stamped /\ Positions' = Positions
      /\ \A i : Child(i)' = Child(i) /\ Sep(i)' = Sep(i)
      /\ \A x : HasDownlink(x)' <=> HasDownlink(x)
  BY <1>3 DEF Stamped, Positions, Child, Sep, HasDownlink
<1>7. Downlinks(pos)'
  <2>1. \A x \in Stamped : flagged'[x] <=> flagged[x] /\ x # p
    BY <1>2, <1>3 DEF LinkedBy, Base, Stamped
  <2>2. \A x \in Stamped :
          right[x] # NoPage /\ ~HasDownlink(right[x]) => flagged'[x]
    BY <1>2, <1>5, <2>1 DEF Linked, Downlinks
  <2> QED BY <1>3, <1>5, <1>6, <2>1, <2>2 DEF Linked, Downlinks
<1>8. Ordered(pos)' /\ Lands(pos, 0)'
  BY <1>3, <1>5, <1>6 DEF Linked, Ordered, Lands
<1>9. HeldOn'
  BY <1>3, <1>5, <1>6 DEF Linked, HeldOn
<1> QED BY <1>1, <1>4, <1>7, <1>8, <1>9 DEF LinkedBy, Linked

\* the separator of a new right sibling
LEMMA SplitSepIs ==
  ASSUME NEW pos, LinkedBy(pos), form = "chain", kind[head] = "inner",
         NEW p \in Stamped, HasDownlink(p), right[p] \in Stamped
  PROVE  LET left == Sep(DownlinkAt(p))
             s == SplitSep(p)
         IN /\ s \in Nat /\ left \in Nat /\ left <= s
            /\ items[right[p]] # {} => MinKey(right[p]) <= s
            /\ items[right[p]] = {} /\ items[p] # {} => MaxKey(p) + 1 <= s
            /\ \/ s = left
               \/ items[right[p]] # {} /\ s = MinKey(right[p])
               \/ items[right[p]] = {} /\ items[p] # {} /\ s = MaxKey(p) + 1
<1>1. Sep(DownlinkAt(p)) \in Nat
  BY DownlinkOfChild, DownTypes DEF LinkedBy, Linked
<1>2. p \in Pages /\ right[p] \in Pages /\ IsFiniteSet(KeysOf(items[p]))
  BY DEF Stamped, LinkedBy, Base
<1>3. items[right[p]] # {} => MinKey(right[p]) \in Nat
  BY <1>2, FirstKey DEF LinkedBy, Shape
<1>4. items[p] # {} => MaxKey(p) \in Nat
  BY <1>2, LastKey DEF LinkedBy, Shape
<1> DEFINE left == down[head][DownlinkAt(p)].sep
           want == IF items[right[p]] # {} THEN MinKey(right[p])
                   ELSE IF items[p] # {} THEN MaxKey(p) + 1 ELSE left
<1>5. SplitSep(p) = IF want < left THEN left ELSE want
  BY DEF SplitSep
<1> QED BY <1>1, <1>3, <1>4, <1>5 DEF Sep

\* the downlinks after one more was placed behind that of p
LEMMA PlacedDownlink ==
  ASSUME NEW pos, LinkedBy(pos), NEW p \in Pages, PlaceDownlink(p)
  PROVE  LET at == DownlinkAt(p)
             n == Len(down[head])
         IN /\ at \in Positions /\ n \in Nat /\ Child(at) = p
            /\ Positions' = 1..(n + 1)
            /\ down'[head] \in Seq([sep : Nat, child : Pages])
            /\ \A i \in 1..at : Child(i)' = Child(i) /\ Sep(i)' = Sep(i)
            /\ \A i : i = at + 1 =>
                 Child(i)' = right[p] /\ Sep(i)' = SplitSep(p)
            /\ \A i \in (at + 2)..(n + 1) :
                 Child(i)' = Child(i - 1) /\ Sep(i)' = Sep(i - 1)
<1> DEFINE n == Len(down[head])
           at == DownlinkAt(p)
           s == down[head]
           e == [sep |-> SplitSep(p), child |-> right[p]]
<1>1. /\ form = "chain" /\ p \in Stamped /\ kind[head] = "inner"
      /\ HasDownlink(p) /\ right[p] # NoPage /\ right[p] \in Stamped
  BY FinishOn DEF PlaceDownlink
<1>2. head \in Pages /\ Len(s) \in Nat /\ s \in Seq([sep : Nat, child : Pages])
      /\ head' = head
  BY <1>1, HeadKind, DownTypes
     DEF LinkedBy, Linked, Downlinks, PlaceDownlink, entryVars
<1>3. at \in 1..n /\ Child(at) = p
  BY <1>1, DownlinkOfChild DEF LinkedBy, Linked, Positions
<1>4. down'[head] = [j \in 1..(n + 1) |->
                       IF j <= at THEN s[j] ELSE IF j = at + 1 THEN e ELSE s[j - 1]]
  BY <1>2 DEF PlaceDownlink, InsertAt, LinkedBy, Shape, PageTypes
<1>5. e \in [sep : Nat, child : Pages]
  BY <1>1, SplitSepIs DEF Stamped
<1> HIDE DEF e, at, s
<1>6. \A j \in 1..n : s[j] \in [sep : Nat, child : Pages]
  <2> DEFINE R == [sep : Nat, child : Pages]
  <2> HIDE DEF R
  <2> QED BY <1>2, ElementOfSeq DEF R, s
<1>7. \A j \in 1..(n + 1) : down'[head][j] \in [sep : Nat, child : Pages]
  <2> DEFINE R == [sep : Nat, child : Pages]
  <2> SUFFICES ASSUME NEW j \in 1..(n + 1) PROVE down'[head][j] \in R
    OBVIOUS
  <2>1. j <= at => j \in 1..n BY <1>2, <1>3 DEF s
  <2>2. ~(j <= at) /\ j # at + 1 => j - 1 \in 1..n BY <1>2, <1>3 DEF s
  <2> HIDE DEF R
  <2> QED BY <1>4, <1>5, <1>6, <2>1, <2>2 DEF R
<1>8. Len(down'[head]) = n + 1 /\ down'[head] \in Seq([sep : Nat, child : Pages])
  <2>1. n + 1 \in Nat BY <1>2 DEF s
  <2> DEFINE R == [sep : Nat, child : Pages]
  <2> HIDE DEF R, n
  <2>2. down'[head] \in [1..(n + 1) -> R]
    BY <1>4, <1>7 DEF R
  <2>3. down'[head] \in Seq(R)
    BY <2>1, <2>2, SeqDef
  <2> QED BY <1>4, <2>1, <2>3 DEF R
<1>9. /\ \A i \in 1..at : down'[head][i] = s[i]
      /\ down'[head][at + 1] = e
      /\ \A i \in (at + 2)..(n + 1) : down'[head][i] = s[i - 1]
  BY <1>2, <1>3, <1>4 DEF s
<1>10. /\ \A i \in 1..at : Child(i)' = Child(i) /\ Sep(i)' = Sep(i)
       /\ \A i : i = at + 1 => Child(i)' = right[p] /\ Sep(i)' = SplitSep(p)
       /\ \A i \in (at + 2)..(n + 1) :
                 Child(i)' = Child(i - 1) /\ Sep(i)' = Sep(i - 1)
  BY <1>2, <1>9 DEF Child, Sep, s, e
<1> QED BY <1>2, <1>3, <1>8, <1>10 DEF at, s, Positions

\* the new downlink is where its leaf is in the order
LEMMA PlaceLinks ==
  ASSUME NEW pos, LinkedBy(pos), NEW p \in Pages, PlaceDownlink(p)
  PROVE  LinkedBy(pos)'
<1> DEFINE n == Len(down[head])
           at == DownlinkAt(p)
<1>1. /\ form = "chain" /\ p \in Stamped /\ kind[head] = "inner"
      /\ HasDownlink(p) /\ right[p] # NoPage /\ right[p] \in Stamped
      /\ ~HasDownlink(right[p])
  BY FinishOn DEF PlaceDownlink
<1>2. Shape' /\ UNCHANGED <<form, head, kind, owner, items, right>>
  BY DownlinkShape DEF LinkedBy
<1>3. UNCHANGED <<inl, tail, flagged, ins, held>>
  BY DEF PlaceDownlink, entryVars
<1>4. Base'
  BY <1>2, <1>3 DEF LinkedBy, Base, Stamped, KeysOf, Fits
<1>5. Linked(pos) /\ Shape /\ Ordered(pos) /\ Downlinks(pos) /\ Lands(pos, 0)
  BY <1>1 DEF LinkedBy, Linked
<1>6. /\ at \in Positions /\ n \in Nat /\ Child(at) = p
      /\ Positions' = 1..(n + 1)
      /\ down'[head] \in Seq([sep : Nat, child : Pages])
      /\ \A i \in 1..at : Child(i)' = Child(i) /\ Sep(i)' = Sep(i)
      /\ \A i : i = at + 1 => Child(i)' = right[p] /\ Sep(i)' = SplitSep(p)
      /\ \A i \in (at + 2)..(n + 1) :
           Child(i)' = Child(i - 1) /\ Sep(i)' = Sep(i - 1)
  BY PlacedDownlink
<1> HIDE DEF at, n
<1>7. Stamped' = Stamped
  BY <1>2 DEF Stamped
<1>8. Positions = 1..n /\ at \in 1..n /\ \A i \in Positions : i \in Nat
  BY <1>6 DEF Positions, n
<1>9. \A i \in 1..(n + 1) : \/ i \in 1..at
                            \/ i = at + 1
                            \/ i \in (at + 2)..(n + 1) /\ i - 1 \in 1..n /\ at < i - 1
  BY <1>6, <1>8
<1>10. \A i \in 1..at : i \in Positions
  BY <1>6, <1>8
<1>11. \A x \in Stamped : pos[x] \in Nat
  BY <1>5 DEF Ordered, Stamped
<1>12. \A i \in Positions : Child(i) \in Stamped /\ Sep(i) \in Nat
  BY <1>1, <1>5, DownTypes
<1>13. \A i \in Positions' : Child(i)' \in Stamped
  BY <1>1, <1>6, <1>8, <1>9, <1>10, <1>12
<1>14. \A i, j \in Positions : i < j => pos[Child(i)] < pos[Child(j)]
  BY <1>1, <1>5 DEF Downlinks
<1>15. \A j \in Positions : at < j => pos[right[p]] < pos[Child(j)]
  <2>1. SUFFICES ASSUME NEW j \in Positions, at < j
                 PROVE  pos[right[p]] < pos[Child(j)]
    OBVIOUS
  <2>2. pos[p] < pos[Child(j)]
    BY <1>6, <1>14, <2>1
  <2>3. pos[right[p]] <= pos[Child(j)]
    BY <1>1, <1>5, <1>12, <2>2 DEF Ordered
  <2>4. right[p] # Child(j)
    BY <1>1, <1>8 DEF HasDownlink, Child, n, Positions
  <2>5. pos[right[p]] # pos[Child(j)]
    BY <1>1, <1>5, <1>12, <2>4 DEF Ordered
  <2> QED BY <1>1, <1>11, <1>12, <2>3, <2>5
<1>16. \A i \in 1..at : pos[Child(i)] < pos[right[p]]
  <2>1. SUFFICES ASSUME NEW i \in 1..at PROVE pos[Child(i)] < pos[right[p]]
    OBVIOUS
  <2>2. pos[p] < pos[right[p]]
    BY <1>1, <1>5 DEF Ordered
  <2>3. i = at \/ pos[Child(i)] < pos[p]
    BY <1>6, <1>8, <1>10, <1>14
  <2> QED BY <1>1, <1>6, <1>10, <1>11, <1>12, <2>2, <2>3
<1>17. \A i, j \in Positions' : i < j => pos[Child(i)'] < pos[Child(j)']
  <2>1. SUFFICES ASSUME NEW i \in 1..(n + 1), NEW j \in 1..(n + 1), i < j
                 PROVE  pos[Child(i)'] < pos[Child(j)']
    BY <1>6
  <2>2. CASE j \in 1..at
    <3>1. i \in 1..at BY <1>8, <2>1, <2>2
    <3> QED BY <1>6, <1>10, <1>14, <2>1, <2>2, <3>1
  <2>3. CASE j = at + 1
    <3>1. i \in 1..at BY <1>8, <2>1, <2>3
    <3> QED BY <1>6, <1>16, <2>3, <3>1
  <2>4. CASE j \in (at + 2)..(n + 1) /\ j - 1 \in 1..n /\ at < j - 1
    <3>1. Child(j)' = Child(j - 1) BY <1>6, <2>4
    <3>2. CASE i \in 1..at
      <4>1. Child(i)' = Child(i) /\ i \in Positions /\ i < j - 1
        BY <1>6, <1>8, <1>10, <2>4, <3>2
      <4> QED BY <1>8, <1>14, <2>4, <3>1, <4>1
    <3>3. CASE i = at + 1
      BY <1>6, <1>8, <1>15, <2>4, <3>1, <3>3
    <3>4. CASE i \in (at + 2)..(n + 1) /\ i - 1 \in 1..n /\ at < i - 1
      <4>1. Child(i)' = Child(i - 1) /\ i - 1 < j - 1
        BY <1>6, <1>8, <2>1, <3>4
      <4> QED BY <1>8, <1>14, <2>4, <3>1, <3>4, <4>1
    <3> QED BY <1>9, <3>2, <3>3, <3>4
  <2> QED BY <1>9, <2>2, <2>3, <2>4
<1>18. \A x : HasDownlink(x)' <=> HasDownlink(x) \/ x = right[p]
  <2>1. SUFFICES ASSUME NEW x PROVE HasDownlink(x)' <=> HasDownlink(x) \/ x = right[p]
    OBVIOUS
  <2>2. HasDownlink(x)' <=> \E i \in Positions' : Child(i)' = x
    BY DEF HasDownlink, Positions, Child
  <2>3. HasDownlink(x) <=> \E i \in Positions : Child(i) = x
    BY DEF HasDownlink, Positions, Child
  <2>4. ASSUME NEW i \in Positions' PROVE HasDownlink(x) \/ Child(i)' # x \/ x = right[p]
    BY <1>6, <1>8, <1>9, <1>10, <2>3, <2>4
  <2>5. right[p] = x => HasDownlink(x)'
    <3>1. at + 1 \in Positions' BY <1>6, <1>8
    <3> QED BY <1>6, <2>2, <3>1
  <2>6. ASSUME NEW i \in Positions, Child(i) = x PROVE HasDownlink(x)'
    <3>1. CASE i \in 1..at
      <4>1. i \in Positions' BY <1>6, <1>8, <3>1
      <4> QED BY <1>6, <2>2, <2>6, <3>1, <4>1
    <3>2. CASE ~(i \in 1..at)
      <4>1. i + 1 \in (at + 2)..(n + 1) /\ i + 1 \in Positions' /\ (i + 1) - 1 = i
        BY <1>6, <1>8, <3>2
      <4> QED BY <1>6, <2>2, <2>6, <4>1
    <3> QED BY <3>1, <3>2
  <2> QED BY <2>2, <2>3, <2>4, <2>5, <2>6
<1>19. Downlinks(pos)'
  <2>1. \A x \in Stamped :
          right[x] # NoPage /\ ~HasDownlink(right[x])' => flagged[x]
    BY <1>1, <1>2, <1>5, <1>18 DEF Downlinks
  <2>2. \A x \in Stamped : flagged[x] => HasDownlink(x)' /\ right[x] # NoPage
    BY <1>1, <1>5, <1>18 DEF Downlinks
  <2>4. \A x \in Stamped : flagged'[x] => HasDownlink(x)' /\ right'[x] # NoPage
    BY <1>2, <1>3, <2>2
  <2>5. down'[head'] \in Seq([sep : Nat, child : Pages])
    BY <1>2, <1>6
  <2>6. (\A i, j \in Positions : i < j => pos[Child(i)] < pos[Child(j)])'
    BY <1>17
  <2>7. (\A x \in Stamped :
          right[x] # NoPage /\ ~HasDownlink(right[x]) => flagged[x])'
    BY <1>2, <1>3, <1>7, <2>1 DEF HasDownlink
  <2>8. (\A i \in Positions : Child(i) \in Stamped)'
    BY <1>7, <1>13
  <2> QED BY <1>7, <2>4, <2>5, <2>6, <2>7, <2>8 DEF Downlinks
<1>20. Ordered(pos)'
  BY <1>2, <1>5, <1>7 DEF Ordered
<1>21. Lands(pos, 0)'
  <2>1. SUFFICES ASSUME NEW i \in Positions', Sep(i)' <= 0, NEW x \in Stamped,
                        pos[x] < pos[Child(i)'], NEW y \in items[x]
                 PROVE  BlockOf[y] < 0
    BY <1>2, <1>7 DEF Lands
  <2>2. \A j \in Positions : Sep(j) <= 0 /\ pos[x] < pos[Child(j)] => BlockOf[y] < 0
    BY <1>1, <1>5 DEF Lands
  <2>3. CASE i \in 1..at
    BY <1>6, <1>10, <2>1, <2>2, <2>3
  <2>4. CASE i \in (at + 2)..(n + 1) /\ i - 1 \in 1..n /\ at < i - 1
    BY <1>6, <1>8, <2>1, <2>2, <2>4
  <2>5. CASE i = at + 1
    <3>1. SplitSep(p) <= 0 /\ pos[x] < pos[right[p]]
      BY <1>6, <2>1, <2>5
    <3>2. /\ SplitSep(p) \in Nat /\ Sep(at) \in Nat /\ Sep(at) <= SplitSep(p)
          /\ items[right[p]] # {} => MinKey(right[p]) <= SplitSep(p)
          /\ items[right[p]] = {} /\ items[p] # {} => MaxKey(p) + 1 <= SplitSep(p)
      BY <1>1, SplitSepIs DEF at
    <3>3. items[p] = {}
      <4>1. p \in Pages /\ right[p] \in Pages /\ IsFiniteSet(KeysOf(items[p]))
        BY <1>1 DEF Stamped, LinkedBy, Base
      <4>2. items[right[p]] # {} => MinKey(right[p]) \in Nat \ {0}
        BY <4>1, FirstKey DEF LinkedBy, Shape
      <4>3. items[p] # {} => MaxKey(p) \in Nat
        BY <4>1, LastKey DEF LinkedBy, Shape
      <4> QED BY <3>1, <3>2, <4>2, <4>3
    <3>4. pos[x] < pos[p]
      <4>1. x # p BY <3>3
      <4>2. ~(pos[p] < pos[x])
        BY <1>1, <1>5, <1>11, <3>1 DEF Ordered
      <4>3. pos[x] # pos[p] BY <1>1, <1>5, <4>1 DEF Ordered
      <4> QED BY <1>1, <1>11, <4>2, <4>3
    <3> QED BY <1>6, <2>2, <3>1, <3>2, <3>4
  <2> QED BY <1>6, <1>9, <2>3, <2>4, <2>5
<1>22. HeldOn'
  BY <1>1, <1>2, <1>3, <1>5, <1>7, <1>18 DEF Linked, HeldOn
<1> QED BY <1>2, <1>4, <1>19, <1>20, <1>21, <1>22 DEF LinkedBy, Linked
-----------------------------------------------------------------------------
(* A split *)

\* the leaf a split is made on
LEMMA SplitOn ==
  ASSUME NEW pos, LinkedBy(pos), NEW p, SplitTarget(p)
  PROVE  /\ form = "chain" /\ p \in Stamped /\ ~flagged[p] /\ ins \in Tids
         /\ kind[head] = "inner" => HasDownlink(p)
         /\ held \in {p, NoPage}
         /\ BlockOf[ins] \notin KeysOf(items[p])
         /\ items[p] # {}
<1>1. form = "chain" /\ ~flagged[p] /\ Linked(pos) /\ ins \in Tids
      /\ Ordered(pos) /\ Downlinks(pos) /\ HeldOn /\ Shape
  BY DEF SplitTarget, LinkedBy, Linked, Shape, PageTypes
<1>2. BlockOf[ins] \in Nat
  BY <1>1, BlockAssumption
<1>3. p \in Stamped /\ held \in {p, NoPage} /\ (kind[head] = "inner" => HasDownlink(p))
  BY <1>1, <1>2, RouteStamped DEF SplitTarget, HeldOn
<1>4. ~Fits(items[p] \cup {ins}, PageCap) /\ p \in Pages
  BY <1>3 DEF SplitTarget, Stamped
<1>5. BlockOf[ins] \notin KeysOf(items[p])
  <2>1. SUFFICES ASSUME BlockOf[ins] \in KeysOf(items[p]) PROVE FALSE
    OBVIOUS
  <2>2. KeysOf(items[p] \cup {ins}) = KeysOf(items[p])
    BY <2>1 DEF KeysOf
  <2> QED BY <1>4, <2>2 DEF LinkedBy, Base, Fits
<1>6. items[p] # {}
  <2>1. SUFFICES ASSUME items[p] = {} PROVE FALSE
    OBVIOUS
  <2>2. items[p] \cup {ins} = {ins} BY <2>1
  <2> QED BY <1>4, <2>2, OneKey, Caps
<1> QED BY <1>1, <1>3, <1>5, <1>6

\* what a split does to the pages' items, all of it between the keys of p and
\* the new one
LEMMA SplitItems ==
  ASSUME NEW pos, LinkedBy(pos), NEW p \in Leaves, NEW q \in Pages, NEW live,
         Split(p, q, live)
  PROVE  LET moved == {x \in items[p] : BlockOf[x] > BlockOf[ins]}
         IN /\ items'[q] = IF moved = {} THEN {ins} ELSE moved
            /\ items'[p] = IF moved = {} THEN items[p]
                           ELSE (items[p] \ moved) \cup {ins}
            /\ \A x \in Pages \ {p, q} : items'[x] = items[x]
            /\ \A x \in Pages : IsFiniteSet(KeysOf(items'[x]))
                                /\ Fits(items'[x], PageCap)
            /\ \A y \in items'[q] : y \in items[p] \/ y = ins
            /\ \A y \in items'[p] : y \in items[p] \/ y = ins
            /\ \A y \in items'[p] : BlockOf[y] <= BlockOf[ins]
            /\ \A y \in items'[q] : BlockOf[y] >= BlockOf[ins]
            /\ \A y \in items'[p], z \in items'[q] : BlockOf[y] < BlockOf[z]
            /\ ins \in items'[p] \cup items'[q]
<1> DEFINE moved == {x \in items[p] : BlockOf[x] > BlockOf[ins]}
<1>1. SplitTarget(p)
  BY DEF Split
<1>2. /\ form = "chain" /\ p \in Stamped /\ ins \in Tids /\ items[p] # {}
      /\ BlockOf[ins] \notin KeysOf(items[p]) /\ p \in Pages
  BY <1>1, SplitOn DEF Stamped
<1>3. q # p /\ q \notin Stamped /\ items[q] = {}
  BY <1>2, RecyclableUnused DEF Split, LinkedBy
<1>4. /\ items'[q] = IF moved = {} THEN {ins} ELSE moved
      /\ items'[p] = IF moved = {} THEN items[p]
                     ELSE (items[p] \ moved) \cup {ins}
      /\ \A x \in Pages \ {p, q} : items'[x] = items[x]
  BY <1>2, <1>3 DEF Split, LinkedBy, Shape, PageTypes
<1>5. \A x \in items[p] : BlockOf[x] \in Nat /\ BlockOf[x] # BlockOf[ins]
  BY <1>2, BlockAssumption DEF LinkedBy, Shape, PageTypes, KeysOf
<1>6. BlockOf[ins] \in Nat
  BY <1>2, BlockAssumption
<1>7. /\ moved \in SUBSET items[p]
      /\ \A x \in moved : BlockOf[x] > BlockOf[ins]
      /\ \A x \in items[p] \ moved : BlockOf[x] < BlockOf[ins]
  BY <1>5, <1>6
<1>8. IsFiniteSet(KeysOf(items[p])) /\ Fits(items[p], PageCap)
  BY <1>2 DEF LinkedBy, Base
<1> HIDE DEF moved
<1>9. IsFiniteSet(KeysOf(items'[q])) /\ Fits(items'[q], PageCap)
  <2>1. CASE moved = {}
    BY <1>4, <2>1, OneKey, Caps
  <2>2. CASE moved # {}
    BY <1>4, <1>7, <1>8, <2>2, FewerKeys, Caps
  <2> QED BY <2>1, <2>2
<1>10. IsFiniteSet(KeysOf(items'[p])) /\ Fits(items'[p], PageCap)
  <2>1. CASE moved = {}
    BY <1>4, <1>8, <2>1
  <2>2. CASE moved # {}
    <3>1. PICK m \in moved : TRUE
      BY <2>2
    <3> DEFINE K == KeysOf(items[p])
               L == K \ {BlockOf[m]}
    <3>2. BlockOf[m] \in K
      BY <1>7, <3>1 DEF KeysOf
    <3>3. IsFiniteSet(L) /\ Cardinality(L) = Cardinality(K) - 1
      <4> HIDE DEF K
      <4> QED BY <1>8, <3>2, FS_RemoveElement DEF K
    <3>4. BlockOf[ins] \notin L
      BY <1>2
    <3>5. /\ IsFiniteSet(L \cup {BlockOf[ins]})
          /\ Cardinality(L \cup {BlockOf[ins]}) = Cardinality(L) + 1
      <4> HIDE DEF L
      <4> QED BY <3>3, <3>4, FS_AddElement
    <3>6. KeysOf(items'[p]) \subseteq L \cup {BlockOf[ins]}
      <4>1. SUFFICES ASSUME NEW y \in items'[p], y # ins
                     PROVE  BlockOf[y] \in L
        BY DEF KeysOf
      <4>2. y \in items[p] \ moved
        BY <1>4, <2>2, <4>1
      <4>3. BlockOf[y] < BlockOf[ins] /\ BlockOf[ins] < BlockOf[m]
            /\ BlockOf[y] \in Nat /\ BlockOf[m] \in Nat
        BY <1>5, <1>7, <3>1, <4>2
      <4>4. BlockOf[y] # BlockOf[m]
        BY <1>6, <4>3
      <4> QED BY <4>2, <4>4 DEF KeysOf
    <3>7. /\ IsFiniteSet(KeysOf(items'[p]))
          /\ Cardinality(KeysOf(items'[p])) <= Cardinality(L \cup {BlockOf[ins]})
      <4> HIDE DEF L
      <4> QED BY <3>5, <3>6, FS_Subset
    <3>8. Cardinality(K) \in Nat /\ Cardinality(L) \in Nat
          /\ Cardinality(KeysOf(items'[p])) \in Nat
      BY <1>8, <3>3, <3>7, FS_CardinalityType
    <3>9. Cardinality(K) <= PageCap
      BY <1>8 DEF Fits
    <3> HIDE DEF K, L
    <3> QED BY <3>3, <3>5, <3>7, <3>8, <3>9, Caps DEF Fits
  <2> QED BY <2>1, <2>2
<1>11. \A x \in Pages : IsFiniteSet(KeysOf(items'[x])) /\ Fits(items'[x], PageCap)
  BY <1>4, <1>9, <1>10 DEF LinkedBy, Base
<1>12. /\ \A y \in items'[q] : y \in items[p] \/ y = ins
       /\ \A y \in items'[p] : y \in items[p] \/ y = ins
       /\ ins \in items'[p] \cup items'[q]
  BY <1>4, <1>7
<1>13. \A y \in items'[p] : /\ BlockOf[y] \in Nat /\ BlockOf[y] <= BlockOf[ins]
                            /\ moved = {} => BlockOf[y] < BlockOf[ins]
  <2>1. CASE moved = {}
    BY <1>4, <1>5, <1>6, <1>7, <2>1
  <2>2. CASE moved # {}
    BY <1>4, <1>5, <1>6, <1>7, <2>2
  <2> QED BY <2>1, <2>2
<1>14. \A y \in items'[q] : /\ BlockOf[y] \in Nat /\ BlockOf[y] >= BlockOf[ins]
                            /\ moved # {} => BlockOf[y] > BlockOf[ins]
  BY <1>4, <1>5, <1>6, <1>7
<1>15. \A y \in items'[p], z \in items'[q] : BlockOf[y] < BlockOf[z]
  BY <1>6, <1>13, <1>14
<1> QED BY <1>4, <1>11, <1>12, <1>13, <1>14, <1>15 DEF moved

\* the order of the leaves after a split
LEMMA SplitOrders ==
  ASSUME NEW pos, LinkedBy(pos), NEW p \in Leaves, NEW q \in Pages, NEW live,
         Split(p, q, live), NEW pos2, pos2 = AfterSplit(pos, p, q)
  PROVE  /\ \A x \in Stamped : /\ pos[x] \in Nat /\ x # q
                               /\ pos2[x] = 2 * pos[x]
         /\ pos2[q] = 2 * pos[p] + 1
         /\ right'[q] = right[p] /\ right'[p] = q
         /\ \A x \in Stamped : x # p => right'[x] = right[x]
         /\ p \in Stamped /\ Stamped' = Stamped \cup {q} /\ q # head /\ Shape'
         /\ Ordered(pos2)'
<1>1. /\ Shape' /\ Stamped' = Stamped \cup {q} /\ p \in Stamped
      /\ q \notin Stamped /\ q # head
      /\ right' = [right EXCEPT ![q] = right[p], ![p] = q]
  BY SplitShape DEF LinkedBy
<1>2. Ordered(pos) /\ Shape /\ RightClosed(Stamped)
  BY DEF LinkedBy, Linked, Split, SplitTarget, Shape, OneChain
<1>3. /\ \A x \in Stamped : pos[x] \in Nat /\ x # q /\ x \in Pages
                            /\ pos2[x] = 2 * pos[x]
      /\ pos2[q] = 2 * pos[p] + 1
  BY <1>1, <1>2 DEF Ordered, Stamped, AfterSplit
<1>4. /\ right'[q] = right[p] /\ right'[p] = q
      /\ \A x \in Stamped : x # p => right'[x] = right[x]
  BY <1>1, <1>2, <1>3 DEF Shape, PageTypes
<1>5. pos2 \in [Pages -> Nat]
  <2>1. \A x \in Pages : 2 * pos[x] \in Nat
    BY <1>2 DEF Ordered
  <2> QED BY <1>1, <1>3, <2>1 DEF AfterSplit
<1>6. \A x, y \in Stamped' : pos2[x] = pos2[y] => x = y
  <2>1. \A x, y \in Stamped : pos[x] = pos[y] => x = y
    BY <1>2 DEF Ordered
  <2>2. \A x \in Stamped : 2 * pos[x] # 2 * pos[p] + 1
    BY <1>1, <1>3
  <2> QED BY <1>1, <1>3, <2>1, <2>2
<1>7. \A x \in Stamped : right[x] # NoPage =>
        right[x] \in Stamped /\ pos[x] < pos[right[x]]
  BY <1>2 DEF Ordered, RightClosed
<1>8. \A x \in Stamped' : right'[x] # NoPage => pos2[x] < pos2[right'[x]]
  <2>1. SUFFICES ASSUME NEW x \in Stamped', right'[x] # NoPage
                 PROVE  pos2[x] < pos2[right'[x]]
    OBVIOUS
  <2>2. CASE x = q
    <3>1. right[p] \in Stamped /\ pos[p] < pos[right[p]]
      BY <1>1, <1>4, <1>7, <2>1, <2>2
    <3> QED BY <1>1, <1>3, <1>4, <2>2, <3>1
  <2>3. CASE x = p
    BY <1>1, <1>3, <1>4, <2>3
  <2>4. CASE x \in Stamped /\ x # p
    <3>1. right[x] \in Stamped /\ pos[x] < pos[right[x]] /\ right'[x] = right[x]
      BY <1>4, <1>7, <2>1, <2>4
    <3> QED BY <1>3, <2>4, <3>1
  <2> QED BY <1>1, <2>2, <2>3, <2>4
<1>9. \A x, y \in Stamped : pos[x] < pos[y] =>
        right[x] # NoPage /\ pos[right[x]] <= pos[y] /\ right[x] \in Stamped
  BY <1>2, <1>7 DEF Ordered
<1>10. \A x, y \in Stamped' : pos2[x] < pos2[y] =>
         right'[x] # NoPage /\ pos2[right'[x]] <= pos2[y]
  <2>1. SUFFICES ASSUME NEW x \in Stamped', NEW y \in Stamped', pos2[x] < pos2[y]
                 PROVE  right'[x] # NoPage /\ pos2[right'[x]] <= pos2[y]
    OBVIOUS
  <2>2. CASE x = q
    <3>1. y \in Stamped BY <1>1, <1>5, <2>1, <2>2
    <3>2. pos[p] < pos[y] BY <1>1, <1>3, <2>1, <2>2, <3>1
    <3>3. right[p] # NoPage /\ pos[right[p]] <= pos[y] /\ right[p] \in Stamped
      BY <1>1, <1>9, <3>1, <3>2
    <3> QED BY <1>3, <1>4, <2>2, <3>1, <3>3
  <2>3. CASE x = p
    <3>1. q # NoPage BY NoPageAssumption
    <3>2. CASE y = q
      BY <1>1, <1>3, <1>4, <2>3, <3>1, <3>2
    <3>3. CASE y \in Stamped
      <4>1. pos[p] < pos[y] BY <1>1, <1>3, <2>1, <2>3, <3>3
      <4> QED BY <1>1, <1>3, <1>4, <2>3, <3>1, <3>3, <4>1
    <3> QED BY <1>1, <3>2, <3>3
  <2>4. CASE x \in Stamped /\ x # p
    <3>1. right'[x] = right[x] BY <1>4, <2>4
    <3>2. CASE y = q
      <4>1. pos[x] <= pos[p] /\ pos[x] # pos[p]
        BY <1>1, <1>2, <1>3, <2>1, <2>4, <3>2 DEF Ordered
      <4>2. pos[x] < pos[p] BY <1>1, <1>3, <2>4, <4>1
      <4>3. right[x] # NoPage /\ pos[right[x]] <= pos[p] /\ right[x] \in Stamped
        BY <1>1, <1>9, <2>4, <4>2
      <4> QED BY <1>1, <1>3, <3>1, <3>2, <4>3
    <3>3. CASE y \in Stamped
      <4>1. pos[x] < pos[y] BY <1>3, <2>1, <2>4, <3>3
      <4>2. right[x] # NoPage /\ pos[right[x]] <= pos[y] /\ right[x] \in Stamped
        BY <1>9, <2>4, <3>3, <4>1
      <4> QED BY <1>3, <3>1, <3>3, <4>2
    <3> QED BY <1>1, <3>2, <3>3
  <2> QED BY <1>1, <2>2, <2>3, <2>4
<1>11. Ordered(pos2)'
  BY <1>5, <1>6, <1>8, <1>10 DEF Ordered
<1> QED BY <1>1, <1>3, <1>4, <1>11

\* a split numbers the new leaf right behind the one it splits
LEMMA SplitLinks ==
  ASSUME NEW pos, LinkedBy(pos), NEW p \in Leaves, NEW q \in Pages, NEW live,
         Split(p, q, live), NEW pos2, pos2 = AfterSplit(pos, p, q)
  PROVE  LinkedBy(pos2)'
<1>1. /\ \A x \in Stamped : pos[x] \in Nat /\ x # q /\ pos2[x] = 2 * pos[x]
      /\ pos2[q] = 2 * pos[p] + 1
      /\ right'[q] = right[p] /\ right'[p] = q
      /\ \A x \in Stamped : x # p => right'[x] = right[x]
      /\ p \in Stamped /\ Stamped' = Stamped \cup {q} /\ q # head /\ Shape'
      /\ Ordered(pos2)'
  BY SplitOrders
<1>2. /\ form = "chain" /\ ~flagged[p] /\ ins \in Tids /\ items[p] # {}
      /\ kind[head] = "inner" => HasDownlink(p)
      /\ Linked(pos) /\ Downlinks(pos) /\ Lands(pos, 0) /\ Shape
  BY SplitOn DEF LinkedBy, Linked, Split
<1>3. /\ UNCHANGED <<form, inl, head, down>>
      /\ kind' = [kind EXCEPT ![q] = "leaf"]
      /\ flagged' = [flagged EXCEPT ![p] = ~Flat]
      /\ tail' = TailAfterSplit(p, q)
      /\ held' = IF Flat THEN NoPage ELSE p
      /\ ins' = IF Flat THEN NoTid ELSE ins
  BY DEF Split
<1>4. /\ head \in Pages /\ (Flat <=> kind[head] = "leaf")
      /\ (~Flat <=> kind[head] = "inner") /\ kind'[head] = kind[head]
      /\ p \in Pages /\ Stamped \subseteq Pages
  BY <1>1, <1>2, <1>3, HeadKind DEF Shape, PageTypes, Stamped
<1>5. /\ \A x \in Pages \ {p} : flagged'[x] = flagged[x]
      /\ flagged'[p] = ~Flat /\ flagged'[q] = FALSE
      /\ flagged' \in [Pages -> BOOLEAN]
  <2>1. flagged \in [Pages -> BOOLEAN] BY DEF LinkedBy, Base
  <2>2. kind[q] \in {"new", "deleted", "unlinked"}
    BY DEF Split, Recyclable
  <2>3. ~flagged[q] BY <2>2 DEF LinkedBy, Base
  <2> QED BY <1>1, <1>3, <1>4, <2>1, <2>3
<1>6. /\ \A x \in Pages \ {p, q} : items'[x] = items[x]
      /\ \A x \in Pages : IsFiniteSet(KeysOf(items'[x]))
                          /\ Fits(items'[x], PageCap)
  BY SplitItems
<1>7. q \in Links /\ p \in Links /\ NoPage \in Links /\ q # NoPage /\ p # NoPage
  BY <1>4, NoPageAssumption DEF Links
<1>8. Base'
  <2>1. tail' \in Links /\ held' \in Links
    BY <1>3, <1>7 DEF LinkedBy, Base, TailAfterSplit
  <2>2. \A x \in Pages : kind'[x] \in {"new", "deleted", "unlinked"} => ~flagged'[x]
    <3>1. kind[p] = "leaf" BY <1>1 DEF Stamped
    <3> QED BY <1>1, <1>2, <1>3, <1>4, <1>5, <3>1 DEF LinkedBy, Base, Shape, PageTypes
  <2>3. kind'[head] = "leaf" => \A x \in Stamped' : ~flagged'[x]
    BY <1>1, <1>2, <1>4, <1>5 DEF LinkedBy, Base
  <2>4. tail' \in Stamped' /\ right'[tail'] = NoPage
    BY <1>1, <1>2, <1>3 DEF LinkedBy, Base, TailAfterSplit
  <2>5. \A x \in Pages : (IsFiniteSet(KeysOf(items[x])) /\ Fits(items[x], PageCap))'
    BY <1>6 DEF KeysOf, Fits
  <2>6. held' # NoPage => ins' # NoTid
    BY <1>2, <1>3, NoTidAssumption
  <2> QED BY <1>2, <1>3, <1>5, <2>1, <2>2, <2>3, <2>4, <2>5, <2>6
          DEF LinkedBy, Base, KeysOf, Fits
<1>9. /\ Positions' = Positions
      /\ \A i : Child(i)' = Child(i) /\ Sep(i)' = Sep(i)
      /\ \A x : HasDownlink(x)' <=> HasDownlink(x)
  BY <1>3 DEF Positions, Child, Sep, HasDownlink
<1>10. Downlinks(pos2)'
  <2>1. SUFFICES ASSUME kind[head] = "inner"
        PROVE  /\ down[head] \in Seq([sep : Nat, child : Pages])
               /\ \A i \in Positions : Child(i) \in Stamped'
               /\ \A i, j \in Positions : i < j => pos2[Child(i)] < pos2[Child(j)]
               /\ \A x \in Stamped' :
                    right'[x] # NoPage /\ ~HasDownlink(right'[x]) => flagged'[x]
               /\ \A x \in Stamped' : flagged'[x] => HasDownlink(x) /\ right'[x] # NoPage
    BY <1>3, <1>4, <1>9 DEF Downlinks, HasDownlink
  <2>2. /\ down[head] \in Seq([sep : Nat, child : Pages])
        /\ \A i \in Positions : Child(i) \in Stamped
        /\ \A i, j \in Positions : i < j => pos[Child(i)] < pos[Child(j)]
        /\ \A x \in Stamped :
             right[x] # NoPage /\ ~HasDownlink(right[x]) => flagged[x]
        /\ \A x \in Stamped : flagged[x] => HasDownlink(x) /\ right[x] # NoPage
    BY <1>2, <2>1 DEF Downlinks
  <2>3. \A i, j \in Positions : i < j => pos2[Child(i)] < pos2[Child(j)]
    BY <1>1, <2>2
  <2>4. \A x \in Stamped' :
          right'[x] # NoPage /\ ~HasDownlink(right'[x]) => flagged'[x]
    BY <1>1, <1>2, <1>4, <1>5, <2>1, <2>2
  <2>5. \A x \in Stamped' : flagged'[x] => HasDownlink(x) /\ right'[x] # NoPage
    BY <1>1, <1>2, <1>4, <1>5, <1>7, <2>1, <2>2
  <2> QED BY <1>1, <2>2, <2>3, <2>4, <2>5
<1>11. Lands(pos2, 0)'
  <2>1. SUFFICES ASSUME kind[head] = "inner", NEW i \in Positions, Sep(i) <= 0,
                        NEW x \in Stamped', pos2[x] < pos2[Child(i)]
                 PROVE  \A y \in items'[x] : BlockOf[y] < 0
    BY <1>3, <1>4, <1>9 DEF Lands
  <2>2. Child(i) \in Stamped
    BY <1>2, <2>1 DEF Downlinks
  <2>3. \A z \in Stamped : pos[z] < pos[Child(i)] =>
          \A y \in items[z] : BlockOf[y] < 0
    BY <1>2, <2>1 DEF Lands
  <2>4. ~(pos[p] < pos[Child(i)])
    <3>1. \A y \in items[p] : BlockOf[y] \in Nat
      BY <1>2, <1>4, BlockAssumption DEF Shape, PageTypes
    <3> QED BY <1>1, <1>2, <2>3, <3>1
  <2>5. x # q
    BY <1>1, <2>1, <2>2, <2>4
  <2>6. x \in Stamped /\ pos[x] < pos[Child(i)]
    BY <1>1, <2>1, <2>2, <2>5
  <2>7. items'[x] = items[x]
    BY <1>4, <1>6, <2>4, <2>5, <2>6
  <2> QED BY <2>3, <2>6, <2>7
<1>12. HeldOn'
  BY <1>1, <1>2, <1>3, <1>4, <1>9 DEF HeldOn
<1> QED BY <1>1, <1>2, <1>3, <1>8, <1>10, <1>11, <1>12 DEF LinkedBy, Linked
-----------------------------------------------------------------------------
(* A promotion *)

\* a leaf's first key, or one past the last key before it
LEMMA FlatSepIs ==
  ASSUME Shape, Base, NEW c, Len(c) \in Nat, c \in [1..Len(c) -> Pages],
         NEW i \in 1..Len(c)
  PROVE  /\ FlatSep(c, i) \in Nat
         /\ items[c[i]] # {} => FlatSep(c, i) = MinKey(c[i])
         /\ items[c[i]] = {} /\ FilledBefore(c, i) # {} =>
              \E j \in 1..(i - 1) :
                /\ items[c[j]] # {} /\ FlatSep(c, i) = MaxKey(c[j]) + 1
                /\ \A k \in 1..(i - 1) : items[c[k]] # {} => k <= j
         /\ items[c[i]] = {} /\ FilledBefore(c, i) = {} => FlatSep(c, i) = 0
<1> DEFINE F == FilledBefore(c, i)
           j == CHOOSE n \in F : \A k \in F : k <= n
<1>1. F \in SUBSET (1..(i - 1)) /\ i - 1 \in Nat
  BY DEF FilledBefore
<1>2. \A k \in 1..(i - 1) : k \in 1..Len(c) /\ (items[c[k]] # {} <=> k \in F)
  BY DEF FilledBefore
<1> HIDE DEF F
<1>3. F # {} => j \in F /\ \A k \in F : k <= j
  BY <1>1, LastPosition
<1>4. LastBefore(c, i) = c[j]
  BY DEF LastBefore, F
<1> HIDE DEF j
<1>5. ASSUME NEW n \in 1..Len(c), items[c[n]] # {}
      PROVE  MinKey(c[n]) \in Nat /\ MaxKey(c[n]) \in Nat
  BY <1>5, FirstKey, LastKey DEF Shape, Base
<1>6. F # {} => j \in 1..(i - 1) /\ items[c[j]] # {} /\ MaxKey(c[j]) \in Nat
  BY <1>1, <1>2, <1>3, <1>5
<1>7. CASE items[c[i]] # {}
  <2>1. FlatSep(c, i) = MinKey(c[i]) BY <1>7 DEF FlatSep
  <2> QED BY <1>5, <1>7, <2>1
<1>8. CASE items[c[i]] = {} /\ F = {}
  <2>1. FlatSep(c, i) = 0 BY <1>8 DEF FlatSep, F
  <2> QED BY <1>8, <2>1 DEF F
<1>9. CASE items[c[i]] = {} /\ F # {}
  <2>1. FlatSep(c, i) = MaxKey(c[j]) + 1 BY <1>4, <1>9 DEF FlatSep, F
  <2>2. \A k \in 1..(i - 1) : items[c[k]] # {} => k <= j
    BY <1>2, <1>3, <1>9
  <2>3. FlatSep(c, i) \in Nat BY <1>6, <1>9, <2>1
  <2> QED BY <1>6, <1>9, <2>1, <2>2, <2>3 DEF F
<1> QED BY <1>7, <1>8, <1>9

(* The separators a promotion makes: none above a key at or right of its   *)
(* leaf, and each above the keys left of it.                               *)
LEMMA PromotedSeps ==
  ASSUME Shape, Base, form = "chain", kind[head] = "leaf", NEW pos, Ordered(pos)
  PROVE  LET c == Chain(head)
             sep == FlatSeps(c)
         IN /\ sep \in [1..Len(c) -> Nat]
            /\ sep[1] = 0
            /\ \A i \in 2..Len(c) : FlatSep(c, i) <= sep[i]
            /\ \A i \in 1..Len(c) : sep[i] = 0 =>
                 \A j \in 1..(i - 1) : items[c[j]] = {}
            /\ Sorted(pos) =>
                 /\ \A i, j \in 1..Len(c) : i < j => sep[i] <= sep[j]
                 /\ \A i, j \in 1..Len(c) : \A x \in items[c[j]] :
                      IF j < i THEN BlockOf[x] < sep[i] ELSE BlockOf[x] >= sep[i]
<1> DEFINE c == Chain(head)
           sep == FlatSeps(c)
           N == Len(c)
<1>1. Enumerates(c, pos)
  BY HeadKind, ChainEnumerates
<1> HIDE DEF c
<1>2. /\ N \in Nat \ {0} /\ c \in [1..N -> Pages] /\ c \in [1..N -> Stamped]
      /\ \A i, j \in 1..N : i < j => pos[c[i]] < pos[c[j]]
  BY <1>1 DEF Enumerates, Stamped
<1>3. \A i \in 1..N : FlatSep(c, i) \in Nat
  BY <1>2, FlatSepIs
<1>4. /\ sep \in [1..N -> Nat] /\ sep[1] = 0
      /\ \A i \in 2..N :
           sep[i] = IF FlatSep(c, i) < sep[i - 1] THEN sep[i - 1] ELSE FlatSep(c, i)
  BY <1>2, <1>3, FlatSepsAre
<1> HIDE DEF sep
<1>5. \A i \in 2..N : /\ i \in 1..N /\ i - 1 \in 1..N
                      /\ FlatSep(c, i) <= sep[i] /\ sep[i - 1] <= sep[i]
                      /\ sep[i] \in {FlatSep(c, i), sep[i - 1]}
  <2> SUFFICES ASSUME NEW i \in 2..N
               PROVE  /\ i \in 1..N /\ i - 1 \in 1..N
                      /\ FlatSep(c, i) <= sep[i] /\ sep[i - 1] <= sep[i]
                      /\ sep[i] \in {FlatSep(c, i), sep[i - 1]}
    OBVIOUS
  <2>1. i \in 1..N /\ i - 1 \in 1..N BY <1>2
  <2>2. FlatSep(c, i) \in Nat /\ sep[i] \in Nat /\ sep[i - 1] \in Nat
    BY <1>3, <1>4, <2>1
  <2> QED BY <1>4, <2>1, <2>2
<1>6. ASSUME NEW n \in 1..N, items[c[n]] # {}
      PROVE  /\ MinKey(c[n]) \in KeysOf(items[c[n]]) /\ MinKey(c[n]) \in Nat \ {0}
             /\ MaxKey(c[n]) \in KeysOf(items[c[n]]) /\ MaxKey(c[n]) \in Nat \ {0}
             /\ \A x \in items[c[n]] : MinKey(c[n]) <= BlockOf[x]
                                       /\ BlockOf[x] <= MaxKey(c[n])
  BY <1>2, <1>6, FirstKey, LastKey DEF Shape, Base
<1>7. ASSUME NEW i \in 1..N, sep[i] = 0, NEW j \in 1..(i - 1)
      PROVE  items[c[j]] = {}
  <2>1. i \in 2..N /\ j \in 1..N
    BY <1>2
  <2>2. FlatSep(c, i) = 0
    BY <1>3, <1>5, <1>7, <2>1
  <2>3. items[c[i]] = {}
    BY <1>2, <1>6, <2>2, FlatSepIs
  <2>4. FilledBefore(c, i) = {}
    <3>1. SUFFICES ASSUME FilledBefore(c, i) # {} PROVE FALSE
      OBVIOUS
    <3>2. PICK n \in 1..(i - 1) : items[c[n]] # {} /\ FlatSep(c, i) = MaxKey(c[n]) + 1
      BY <1>2, <2>3, <3>1, FlatSepIs
    <3>3. n \in 1..N BY <1>2
    <3> QED BY <1>6, <2>2, <3>2, <3>3
  <2> QED BY <2>4 DEF FilledBefore
<1>8. ASSUME Sorted(pos), NEW i \in 1..N, NEW j \in 1..N, i < j,
             NEW x \in items[c[i]], NEW y \in items[c[j]]
      PROVE  BlockOf[x] < BlockOf[y]
  BY <1>2, <1>8 DEF Sorted
<1>9. \A n \in 1..N : \A x \in items[c[n]] : BlockOf[x] \in Nat
  BY <1>2, BlockAssumption DEF Shape, PageTypes
<1>10. ASSUME NEW i \in 1..N, NEW j \in 1..N, i < j PROVE sep[i] <= sep[j]
  <2> DEFINE U == {d \in Nat : i + d <= N => sep[i] <= sep[i + d]}
  <2>1. 0 \in U
    BY <1>4
  <2>2. ASSUME NEW d \in U PROVE d + 1 \in U
    <3>1. SUFFICES ASSUME i + (d + 1) <= N PROVE sep[i] <= sep[i + (d + 1)]
      OBVIOUS
    <3>2. i + (d + 1) \in 2..N /\ (i + (d + 1)) - 1 = i + d /\ i + d \in 1..N
      BY <1>2, <3>1
    <3>3. sep[i + d] <= sep[i + (d + 1)] /\ sep[i] <= sep[i + d]
      BY <1>2, <1>5, <3>2
    <3>4. sep[i] \in Nat /\ sep[i + d] \in Nat /\ sep[i + (d + 1)] \in Nat
      BY <1>4, <1>5, <3>2
    <3> QED BY <3>3, <3>4
  <2>3. U = Nat
    <3> HIDE DEF U
    <3>1. U \in SUBSET Nat BY DEF U
    <3> QED BY <2>1, <2>2, <3>1, NatSet
  <2>4. j - i \in U /\ i + (j - i) = j
    <3>1. j - i \in Nat /\ i + (j - i) = j BY <1>2, <1>10
    <3> HIDE DEF U
    <3> QED BY <2>3, <3>1
  <2> QED BY <1>2, <2>4
<1>11. ASSUME Sorted(pos), NEW i \in 1..N, NEW j \in 1..N, j < i,
              NEW x \in items[c[j]]
       PROVE  BlockOf[x] < sep[i]
  <2>1. i \in 2..N /\ j \in 1..(i - 1)
    BY <1>2, <1>11
  <2>2. FlatSep(c, i) <= sep[i] /\ sep[i] \in Nat /\ FlatSep(c, i) \in Nat
    BY <1>3, <1>4, <1>5, <2>1
  <2>3. BlockOf[x] < FlatSep(c, i)
    <3>1. CASE items[c[i]] # {}
      <4>1. FlatSep(c, i) = MinKey(c[i])
        BY <1>2, <3>1, FlatSepIs
      <4>2. PICK y \in items[c[i]] : MinKey(c[i]) = BlockOf[y]
        BY <1>6, <3>1 DEF KeysOf
      <4> QED BY <1>8, <1>11, <4>1, <4>2
    <3>2. CASE items[c[i]] = {}
      <4>1. FilledBefore(c, i) # {}
        BY <1>11, <2>1 DEF FilledBefore
      <4>2. PICK n \in 1..(i - 1) :
              /\ items[c[n]] # {} /\ FlatSep(c, i) = MaxKey(c[n]) + 1
              /\ \A k \in 1..(i - 1) : items[c[k]] # {} => k <= n
        BY <1>2, <3>2, <4>1, FlatSepIs
      <4>3. n \in 1..N /\ j <= n
        <5>1. items[c[j]] # {} BY <1>11
        <5>2. j <= n BY <2>1, <4>2, <5>1
        <5> QED BY <1>2, <2>1, <5>2
      <4>4. PICK y \in items[c[n]] : MaxKey(c[n]) = BlockOf[y]
        BY <1>6, <4>2, <4>3 DEF KeysOf
      <4>5. BlockOf[x] <= MaxKey(c[n]) /\ MaxKey(c[n]) \in Nat /\ BlockOf[x] \in Nat
        <5>1. j = n \/ j < n BY <1>2, <4>3
        <5>2. CASE j = n
          BY <1>6, <1>9, <1>11, <4>2, <4>3, <5>2
        <5>3. CASE j < n
          <6>1. BlockOf[x] < BlockOf[y] BY <1>8, <1>11, <4>3, <5>3
          <6> QED BY <1>6, <1>9, <1>11, <4>2, <4>3, <4>4, <6>1
        <5> QED BY <5>1, <5>2, <5>3
      <4> QED BY <4>2, <4>5
    <3> QED BY <3>1, <3>2
  <2> QED BY <1>9, <1>11, <2>2, <2>3
<1>12. ASSUME Sorted(pos), NEW j \in 1..N, NEW x \in items[c[j]]
       PROVE  \A i \in 1..N : i <= j => sep[i] <= BlockOf[x]
  <2> DEFINE U == {d \in Nat : d + 1 <= j => sep[d + 1] <= BlockOf[x]}
  <2>0. BlockOf[x] \in Nat
    BY <1>9, <1>12
  <2>1. 0 \in U
    BY <1>4, <2>0
  <2>2. ASSUME NEW d \in U PROVE d + 1 \in U
    <3>1. SUFFICES ASSUME (d + 1) + 1 <= j PROVE sep[(d + 1) + 1] <= BlockOf[x]
      OBVIOUS
    <3> DEFINE i == (d + 1) + 1
    <3>2. i \in 2..N /\ i \in 1..N /\ i <= j /\ i - 1 = d + 1 /\ d + 1 <= j /\ i \in Nat
      BY <1>2, <3>1
    <3>3. sep[i - 1] <= BlockOf[x]
      BY <3>2
    <3> HIDE DEF i
    <3>4. FlatSep(c, i) <= BlockOf[x]
      <4>1. CASE items[c[i]] # {}
        <5>1. FlatSep(c, i) = MinKey(c[i])
          BY <1>2, <3>2, <4>1, FlatSepIs
        <5>2. PICK y \in items[c[i]] : MinKey(c[i]) = BlockOf[y]
          BY <1>6, <3>2, <4>1 DEF KeysOf
        <5>3. CASE i = j
          BY <1>6, <1>12, <3>2, <5>1, <5>3
        <5>4. CASE i < j
          <6>1. BlockOf[y] < BlockOf[x] BY <1>8, <1>12, <3>2, <5>4
          <6> QED BY <1>9, <2>0, <3>2, <5>1, <5>2, <6>1
        <5> QED BY <1>2, <3>2, <5>3, <5>4
      <4>2. CASE items[c[i]] = {} /\ FilledBefore(c, i) # {}
        <5>1. PICK n \in 1..(i - 1) :
                items[c[n]] # {} /\ FlatSep(c, i) = MaxKey(c[n]) + 1
          BY <1>2, <3>2, <4>2, FlatSepIs
        <5>2. n \in 1..N /\ n < j
          BY <1>2, <3>2
        <5>3. PICK y \in items[c[n]] : MaxKey(c[n]) = BlockOf[y]
          BY <1>6, <5>1, <5>2 DEF KeysOf
        <5>4. BlockOf[y] < BlockOf[x] BY <1>8, <1>12, <5>2
        <5>5. MaxKey(c[n]) \in Nat BY <1>6, <5>1, <5>2
        <5> QED BY <2>0, <5>1, <5>3, <5>4, <5>5
      <4>3. CASE items[c[i]] = {} /\ FilledBefore(c, i) = {}
        <5>1. FlatSep(c, i) = 0 BY <1>2, <3>2, <4>3, FlatSepIs
        <5> QED BY <2>0, <5>1
      <4> QED BY <4>1, <4>2, <4>3
    <3> QED BY <1>5, <3>2, <3>3, <3>4 DEF i
  <2>3. U = Nat
    <3> HIDE DEF U
    <3>1. U \in SUBSET Nat BY DEF U
    <3> QED BY <2>1, <2>2, <3>1, NatSet
  <2>4. ASSUME NEW i \in 1..N, i <= j PROVE sep[i] <= BlockOf[x]
    <3>1. i - 1 \in U /\ (i - 1) + 1 = i
      <4>1. i - 1 \in Nat /\ (i - 1) + 1 = i BY <1>2
      <4> HIDE DEF U
      <4> QED BY <2>3, <4>1
    <3> QED BY <2>4, <3>1
  <2> QED BY <2>4
<1>13. ASSUME Sorted(pos), NEW i \in 1..N, NEW j \in 1..N, NEW x \in items[c[j]]
       PROVE  IF j < i THEN BlockOf[x] < sep[i] ELSE BlockOf[x] >= sep[i]
  <2>1. ~(j < i) => i <= j BY <1>2
  <2>2. ~(j < i) => sep[i] <= BlockOf[x] BY <1>12, <1>13, <2>1
  <2>3. j < i => BlockOf[x] < sep[i] BY <1>11, <1>13
  <2>4. sep[i] \in Nat /\ BlockOf[x] \in Nat BY <1>4, <1>9, <1>13
  <2> QED BY <2>2, <2>3, <2>4
<1> QED BY <1>4, <1>5, <1>7, <1>10, <1>13 DEF sep, c

\* the level above after a promotion, and the leaves below it
LEMMA PromotedTree ==
  ASSUME NEW pos, LinkedBy(pos), NEW p \in Leaves, NEW q \in Pages, NEW live,
         Promote(p, q, live), NEW pos2, pos2 = AfterPromote(pos, head, q),
         NEW c, c = Chain(head), NEW N, N = Len(c)
  PROVE  /\ Enumerates(c, pos) /\ c[1] = head /\ kind[head] = "leaf"
         /\ down'[head] \in Seq([sep : Nat, child : Pages])
         /\ Positions' = 1..N
         /\ \A i \in 1..N : /\ Sep(i)' = FlatSeps(c)[i]
                            /\ Child(i)' = IF i = 1 THEN q ELSE c[i]
                            /\ Child(i)' \in Stamped'
                            /\ pos2[Child(i)'] = pos[c[i]]
                            /\ items'[Child(i)'] = items[c[i]]
         /\ \A x \in Stamped' : \E i \in 1..N : Child(i)' = x
<1> DEFINE links == [i \in 1..N |-> [sep |-> FlatSeps(c)[i],
                                     child |-> IF i = 1 THEN q ELSE c[i]]]
<1>1. form = "chain" /\ kind[head] = "leaf" /\ Ordered(pos) /\ Shape /\ Base
      /\ FirstLeaf = head
  BY HeadKind DEF Promote, SplitTarget, PromoteFirst, LinkedBy, Linked
<1>2. Enumerates(c, pos)
  BY <1>1, ChainEnumerates
<1>3. /\ head \in Stamped /\ q \notin Stamped /\ head' = head
      /\ Stamped' = (Stamped \ {head}) \cup {q}
      /\ items' = [items EXCEPT ![q] = items[head], ![head] = {}]
  BY <1>1, PromoteShape
<1>4. down' = [down EXCEPT ![head] = links]
  BY DEF Promote
<1>5. down'[head] = links
  BY <1>1, <1>3, <1>4 DEF Shape, PageTypes, Stamped
<1>6. FlatSeps(c) \in [1..N -> Nat]
  BY <1>1, PromotedSeps
<1> HIDE DEF links
<1>7. /\ N \in Nat \ {0} /\ c \in [1..N -> Stamped] /\ c[1] = head
      /\ \A i, j \in 1..N : i < j => pos[c[i]] < pos[c[j]]
      /\ \A x \in Stamped : \E i \in 1..N : c[i] = x
  BY <1>1, <1>2 DEF Enumerates
<1>8. \A i \in 1..N : i # 1 => c[i] # head
  <2>1. SUFFICES ASSUME NEW i \in 1..N, i # 1 PROVE c[i] # head
    OBVIOUS
  <2>2. 1 < i /\ 1 \in 1..N BY <1>7, <2>1
  <2>3. pos[c[1]] < pos[c[i]] BY <1>7, <2>1, <2>2
  <2>4. pos[head] \in Nat BY <1>1, <1>3 DEF Ordered, Stamped
  <2> QED BY <1>7, <2>3, <2>4
<1>9. Len(links) = N /\ links \in Seq([sep : Nat, child : Pages])
  <2> DEFINE R == [sep : Nat, child : Pages]
  <2>1. \A i \in 1..N : [sep |-> FlatSeps(c)[i], child |-> IF i = 1 THEN q ELSE c[i]] \in R
    BY <1>6, <1>7 DEF Stamped
  <2> HIDE DEF R
  <2>2. links \in [1..N -> R] BY <2>1 DEF links
  <2>3. links \in Seq(R) BY <1>7, <2>2, SeqDef
  <2>4. DOMAIN links = 1..N BY <2>2
  <2>5. Len(links) = N BY <1>7, <2>3, <2>4, LenProperties
  <2> QED BY <2>3, <2>5 DEF R
<1>10. Positions' = 1..N
  BY <1>3, <1>5, <1>9 DEF Positions
<1>11. \A i \in 1..N : /\ Sep(i)' = FlatSeps(c)[i]
                       /\ Child(i)' = IF i = 1 THEN q ELSE c[i]
  BY <1>3, <1>5 DEF Sep, Child, links
<1>12. \A x \in Stamped : x # head => items'[x] = items[x] /\ x \in Stamped' /\ x # q
  BY <1>1, <1>3 DEF Shape, PageTypes, Stamped
<1>13. items'[q] = items[head] /\ q \in Stamped'
  BY <1>1, <1>3 DEF Shape, PageTypes, Stamped
<1>14. ASSUME NEW i \in 1..N
       PROVE  /\ Child(i)' \in Stamped'
              /\ pos2[Child(i)'] = pos[c[i]]
              /\ items'[Child(i)'] = items[c[i]]
  <2>1. CASE i = 1
    BY <1>7, <1>11, <1>13, <2>1 DEF AfterPromote
  <2>2. CASE i # 1
    <3>1. Child(i)' = c[i] /\ c[i] \in Stamped /\ c[i] # head /\ c[i] \in Pages
      BY <1>7, <1>8, <1>11, <2>2 DEF Stamped
    <3> QED BY <1>12, <3>1 DEF AfterPromote
  <2> QED BY <2>1, <2>2
<1>15. \A x \in Stamped' : \E i \in 1..N : Child(i)' = x
  <2>1. SUFFICES ASSUME NEW x \in Stamped' PROVE \E i \in 1..N : Child(i)' = x
    OBVIOUS
  <2>2. CASE x = q
    BY <1>7, <1>11, <2>2
  <2>3. CASE x \in Stamped /\ x # head
    BY <1>7, <1>11, <2>3
  <2> QED BY <1>3, <2>1, <2>2, <2>3
<1>16. down'[head] \in Seq([sep : Nat, child : Pages])
  BY <1>5, <1>9
<1> QED BY <1>1, <1>2, <1>7, <1>10, <1>11, <1>14, <1>15, <1>16

\* the order of the leaves after it
LEMMA PromoteOrders ==
  ASSUME NEW pos, LinkedBy(pos), NEW p \in Leaves, NEW q \in Pages, NEW live,
         Promote(p, q, live), NEW pos2, pos2 = AfterPromote(pos, head, q)
  PROVE  Ordered(pos2)'
<1>1. form = "chain" /\ kind[head] = "leaf" /\ Ordered(pos) /\ Shape
      /\ FirstLeaf = head
  BY HeadKind DEF Promote, SplitTarget, PromoteFirst, LinkedBy, Linked
<1>2. /\ head \in Stamped /\ q \notin Stamped
      /\ Stamped' = (Stamped \ {head}) \cup {q}
      /\ \A x \in Stamped : x # head => right'[x] = right[x]
      /\ right'[q] = right[head]
  BY <1>1, PromoteShape
<1>3. \A x \in Stamped : /\ right[x] # head /\ pos[x] \in Nat /\ x # NoPage
                         /\ right[x] # NoPage => right[x] \in Stamped
  BY <1>1, NoPageAssumption DEF Shape, OneChain, OneLeft, RightClosed, Ordered, Stamped
<1>4. pos2[q] = pos[head] /\ \A x \in Stamped : pos2[x] = pos[x]
  BY <1>2 DEF AfterPromote, Stamped
<1>5. pos2 \in [Pages -> Nat]
  BY <1>1, <1>2, <1>3 DEF AfterPromote, Ordered
<1> DEFINE old(x) == IF x = q THEN head ELSE x
<1>6. /\ \A x \in Stamped' : /\ old(x) \in Stamped /\ pos2[x] = pos[old(x)]
                             /\ right'[x] = right[old(x)]
      /\ \A x, y \in Stamped' : old(x) = old(y) => x = y
  BY <1>2, <1>4
<1> HIDE DEF old
<1>7. \A x, y \in Stamped' : pos2[x] = pos2[y] => x = y
  BY <1>1, <1>6 DEF Ordered
<1>8. \A x \in Stamped' : right'[x] # NoPage =>
        pos2[right'[x]] = pos[right[old(x)]] /\ pos2[x] < pos2[right'[x]]
  BY <1>1, <1>3, <1>4, <1>6 DEF Ordered
<1>9. \A x, y \in Stamped' : pos2[x] < pos2[y] =>
        right'[x] # NoPage /\ pos2[right'[x]] <= pos2[y]
  BY <1>1, <1>6, <1>8 DEF Ordered
<1> QED BY <1>5, <1>7, <1>8, <1>9 DEF Ordered

\* a promotion gives the head's new child the head's number
LEMMA PromoteLinks ==
  ASSUME NEW pos, LinkedBy(pos), NEW p \in Leaves, NEW q \in Pages, NEW live,
         Promote(p, q, live), NEW pos2, pos2 = AfterPromote(pos, head, q)
  PROVE  LinkedBy(pos2)'
<1>0. PICK c, N : c = Chain(head) /\ N = Len(c)
  OBVIOUS
<1>1. /\ Enumerates(c, pos) /\ c[1] = head /\ kind[head] = "leaf"
      /\ down'[head] \in Seq([sep : Nat, child : Pages])
      /\ Positions' = 1..N
      /\ \A i \in 1..N : /\ Sep(i)' = FlatSeps(c)[i]
                         /\ Child(i)' = IF i = 1 THEN q ELSE c[i]
                         /\ Child(i)' \in Stamped'
                         /\ pos2[Child(i)'] = pos[c[i]]
                         /\ items'[Child(i)'] = items[c[i]]
      /\ \A x \in Stamped' : \E i \in 1..N : Child(i)' = x
  <2>1. /\ Enumerates(c, pos) /\ c[1] = head /\ kind[head] = "leaf"
        /\ down'[head] \in Seq([sep : Nat, child : Pages])
    BY <1>0, PromotedTree
  <2>2. Positions' = 1..N
    BY <1>0, PromotedTree
  <2>3. \A i \in 1..N : Sep(i)' = FlatSeps(c)[i]
    BY <1>0, PromotedTree
  <2>4. \A i \in 1..N : Child(i)' = IF i = 1 THEN q ELSE c[i]
    BY <1>0, PromotedTree
  <2>5. \A i \in 1..N : Child(i)' \in Stamped'
    BY <1>0, PromotedTree
  <2>6. \A i \in 1..N : pos2[Child(i)'] = pos[c[i]]
    BY <1>0, PromotedTree
  <2>7. \A i \in 1..N : items'[Child(i)'] = items[c[i]]
    BY <1>0, PromotedTree
  <2>8. \A x \in Stamped' : \E i \in 1..N : Child(i)' = x
    BY <1>0, PromotedTree
  <2> QED BY <2>1, <2>2, <2>3, <2>4, <2>5, <2>6, <2>7, <2>8
<1>2. /\ Shape' /\ head \in Stamped /\ q \notin Stamped
      /\ Stamped' = (Stamped \ {head}) \cup {q}
      /\ kind'[head] = "inner" /\ UNCHANGED <<form, head>>
      /\ \A x \in Stamped : x # head => right'[x] = right[x]
      /\ right'[q] = right[head]
      /\ items' = [items EXCEPT ![q] = items[head], ![head] = {}]
  BY PromoteShape DEF LinkedBy
<1>3. /\ tail' = IF N = 1 THEN q ELSE tail
      /\ held' = IF p = head THEN q ELSE p
      /\ kind' = [kind EXCEPT ![head] = "inner", ![q] = "leaf"]
      /\ UNCHANGED <<form, inl, head, flagged, ins>>
      /\ Recyclable(q, live)
  BY <1>0 DEF Promote
<1>4. /\ form = "chain" /\ p \in Stamped /\ ins \in Tids
      /\ Shape /\ Base /\ Linked(pos) /\ Ordered(pos)
  BY SplitOn DEF Promote, LinkedBy, Linked
<1>5. /\ N \in Nat \ {0} /\ c \in [1..N -> Stamped]
      /\ \A i, j \in 1..N : i < j => pos[c[i]] < pos[c[j]]
      /\ right[c[N]] = NoPage
      /\ \A i \in 1..(N - 1) : right[c[i]] = c[i + 1]
  BY <1>0, <1>1 DEF Enumerates
<1>6. \A x \in Stamped' : ~flagged'[x]
  <2>1. kind[q] \in {"new", "deleted", "unlinked"} BY <1>3 DEF Recyclable
  <2> QED BY <1>1, <1>2, <1>3, <1>4, <2>1 DEF Base
<1>7. Base'
  <2>1. tail' \in Links /\ held' \in Links
    BY <1>3, <1>4 DEF Base, Links, Stamped
  <2>2. \A x \in Pages : kind'[x] \in {"new", "deleted", "unlinked"} => ~flagged'[x]
    BY <1>3, <1>4 DEF Base, Shape, PageTypes
  <2>3. tail' \in Stamped' /\ right'[tail'] = NoPage
    <3>1. CASE N = 1
      BY <1>1, <1>2, <1>3, <1>5, <3>1
    <3>2. CASE N # 1
      <4>1. 1 \in 1..(N - 1) /\ 1 + 1 \in 1..N BY <1>5, <3>2
      <4>2. right[head] = c[1 + 1] /\ c[1 + 1] \in Stamped BY <1>1, <1>5, <4>1
      <4>3. right[head] # NoPage BY <4>2, NoPageAssumption DEF Stamped
      <4>4. tail # head /\ tail \in Stamped /\ right[tail] = NoPage
        BY <1>4, <4>3 DEF Base
      <4> QED BY <1>2, <1>3, <3>2, <4>4
    <3> QED BY <3>1, <3>2
  <2>4. ASSUME NEW x \in Pages
        PROVE  IsFiniteSet(KeysOf(items'[x])) /\ Fits(items'[x], PageCap)
    <3>1. IsFiniteSet(KeysOf({})) /\ Fits({}, PageCap)
      <4>1. KeysOf({}) = {} BY DEF KeysOf
      <4> QED BY <4>1, FS_EmptySet, Caps DEF Fits
    <3>2. items'[x] \in {{}, items[x], items[head]} /\ head \in Pages
      BY <1>2, <1>4 DEF Shape, PageTypes, Stamped
    <3> QED BY <1>4, <3>1, <3>2 DEF Base
  <2>5. \A x \in Pages : (IsFiniteSet(KeysOf(items[x])) /\ Fits(items[x], PageCap))'
    BY <2>4 DEF KeysOf, Fits
  <2>6. ins' # NoTid
    BY <1>3, <1>4, NoTidAssumption
  <2> QED BY <1>2, <1>3, <1>4, <2>1, <2>2, <2>3, <2>5, <2>6 DEF Base, KeysOf, Fits
<1>8. \A x : HasDownlink(x)' <=> \E i \in Positions' : Child(i)' = x
  BY DEF HasDownlink, Positions, Child
<1>9. \A x \in Stamped' : HasDownlink(x)'
  BY <1>1, <1>8
<1>10. Downlinks(pos2)'
  <2>1. \A i, j \in 1..N : i < j => pos2[Child(i)'] < pos2[Child(j)']
    BY <1>1, <1>5
  <2>2. (\A i, j \in Positions : i < j => pos2[Child(i)] < pos2[Child(j)])'
    BY <1>1, <2>1
  <2>3. \A x \in Stamped' : right'[x] # NoPage => right'[x] \in Stamped'
    BY <1>2, <1>4 DEF Shape, OneChain, RightClosed
  <2>4. (\A x \in Stamped :
           right[x] # NoPage /\ ~HasDownlink(right[x]) => flagged[x])'
    <3>1. \A y : y \in Stamped' => HasDownlink(y)' BY <1>9
    <3>2. SUFFICES ASSUME NEW x \in Stamped', right'[x] # NoPage
                   PROVE  HasDownlink(right[x])'
      OBVIOUS
    <3>3. \E i \in 1..N : Child(i)' = right'[x] BY <1>1, <2>3, <3>2
    <3> QED BY <1>1, <3>3 DEF HasDownlink, Positions, Child
  <2>5. (\A i \in Positions : Child(i) \in Stamped)'
    BY <1>1
  <2>6. (down[head] \in Seq([sep : Nat, child : Pages]))'
    BY <1>1, <1>2
  <2> QED BY <1>6, <2>2, <2>4, <2>5, <2>6 DEF Downlinks
<1>11. Lands(pos2, 0)'
  <2>1. SUFFICES ASSUME NEW i \in 1..N, Sep(i)' <= 0, NEW x \in Stamped',
                        pos2[x] < pos2[Child(i)'], NEW y \in items'[x]
                 PROVE  FALSE
    BY <1>1 DEF Lands
  <2>2. PICK j \in 1..N : Child(j)' = x
    BY <1>1
  <2>3. FlatSeps(c)[i] = 0
    <3>1. FlatSeps(c)[i] \in Nat
      BY <1>1, <1>4, <1>0, PromotedSeps
    <3> QED BY <1>1, <2>1, <3>1
  <2>4. pos[c[j]] < pos[c[i]]
    BY <1>1, <2>1, <2>2
  <2>5. j < i
    <3>1. pos[c[j]] \in Nat /\ pos[c[i]] \in Nat
      BY <1>4, <1>5 DEF Ordered, Stamped
    <3>2. i = j \/ i < j \/ j < i BY <1>5
    <3> QED BY <1>5, <2>4, <3>1, <3>2
  <2>6. items[c[j]] = {}
    <3>1. j \in 1..(i - 1) BY <1>5, <2>5
    <3> QED BY <1>1, <1>4, <2>3, <3>1, <1>0, PromotedSeps
  <2> QED BY <1>1, <2>1, <2>2, <2>6
<1>12. HeldOn'
  <2>1. held' \in Stamped'
    BY <1>2, <1>3, <1>4
  <2> QED BY <1>2, <1>9, <2>1 DEF HeldOn, HasDownlink
<1>13. Ordered(pos2)'
  BY PromoteOrders
<1> QED BY <1>2, <1>4, <1>7, <1>10, <1>11, <1>12, <1>13 DEF LinkedBy, Linked
-----------------------------------------------------------------------------
(* A leaf that VACUUM unlinks *)

\* what unlinking does to the links
LEMMA UnlinkOn ==
  ASSUME NEW pos, LinkedBy(pos), NEW p \in Leaves, NEW live, UnlinkLeaf(p, live)
  PROVE  /\ form = "chain" /\ p \in Stamped /\ p # head /\ items[p] = {}
         /\ right[p] # NoPage /\ right[p] \in Stamped /\ right[p] # p
         /\ ~flagged[p] /\ held' = NoPage /\ Shape'
         /\ Stamped' = Stamped \ {p}
         /\ \A x \in Stamped : right'[x] = IF right[x] = p THEN right[p] ELSE right[x]
         /\ kind'[head] = kind[head] /\ (Flat <=> kind[head] = "leaf")
         /\ UNCHANGED <<form, inl, head, tail, owner, items, flagged, ins, held>>
<1>1. /\ form = "chain" /\ p \in Stamped /\ p # head /\ items[p] = {}
      /\ right[p] # NoPage /\ ~flagged[p] /\ ins = NoTid
  BY LeavesStamped DEF UnlinkLeaf, MayUnlink, LinkedBy
<1>2. /\ Shape' /\ Stamped' = Stamped \ {p}
      /\ UNCHANGED <<form, inl, head, tail, owner, items, flagged, ins, held>>
      /\ kind' = [kind EXCEPT ![p] = "unlinked"]
      /\ right' = [x \in Pages |-> IF x \in LeftOf(p) THEN right[p] ELSE right[x]]
  BY UnlinkShape DEF LinkedBy, UnlinkLeaf, entryVars
<1>3. held' = NoPage
  BY <1>1, <1>2 DEF LinkedBy, Base
<1>4. LeftOf(p) = {x \in Stamped : right[x] = p}
  BY <1>1, LeavesStamped DEF LeftOf, LinkedBy
<1>5. right[p] \in Stamped /\ right[p] # p
  <2>1. right[p] \in Stamped /\ Ordered(pos)
    BY <1>1 DEF LinkedBy, Linked, Shape, OneChain, RightClosed
  <2>2. pos[p] < pos[right[p]] /\ pos[p] \in Nat
    BY <1>1, <2>1 DEF Ordered, Stamped
  <2> QED BY <2>1, <2>2
<1>6. kind'[head] = kind[head] /\ (Flat <=> kind[head] = "leaf")
  BY <1>1, <1>2, HeadKind DEF LinkedBy, Shape, PageTypes
<1> QED BY <1>1, <1>2, <1>3, <1>4, <1>5, <1>6 DEF Stamped

\* its downlink goes to its right neighbour, whose own goes
LEMMA UnlinkedDownlinks ==
  ASSUME NEW pos, LinkedBy(pos), NEW p \in Leaves, NEW live, UnlinkLeaf(p, live),
         kind[head] = "inner", NEW n, n = Len(down[head]), NEW at,
         at = DownlinkAt(p)
  PROVE  /\ n \in Nat /\ at \in 1..(n - 1) /\ Positions = 1..n
         /\ Child(at) = p /\ (\A i : i = at + 1 => Child(i) = right[p])
         /\ Positions' = 1..(n - 1)
         /\ down'[head] \in Seq([sep : Nat, child : Pages])
         /\ \A i \in 1..(at - 1) : Child(i)' = Child(i) /\ Sep(i)' = Sep(i)
         /\ \A i : i = at => Child(i)' = Child(i + 1) /\ Sep(i)' = Sep(i)
         /\ \A i \in (at + 1)..(n - 1) :
              Child(i)' = Child(i + 1) /\ Sep(i)' = Sep(i + 1)
<1> DEFINE s == down[head]
<1>1. /\ form = "chain" /\ p \in Stamped /\ ~Flat /\ head \in Pages
      /\ head' = head
  BY UnlinkOn, HeadKind DEF LinkedBy
<1>2. HasDownlink(p) /\ at < n /\ s[at + 1].child = right[p]
  BY <1>1 DEF UnlinkLeaf, MayUnlink
<1>3. down' = [down EXCEPT ![head] = Retarget(@, at)]
  BY <1>1 DEF UnlinkLeaf
<1>4. /\ n \in Nat /\ s \in Seq([sep : Nat, child : Pages]) /\ Positions = 1..n
      /\ at \in Positions /\ Child(at) = p
  BY <1>1, <1>2, DownTypes, DownlinkOfChild
     DEF LinkedBy, Linked, Downlinks, Positions
<1>5. at \in 1..(n - 1) /\ n - 1 \in Nat
  BY <1>2, <1>4
<1> HIDE DEF s
<1>6. down'[head] = Retarget(s, at) /\ Len(s) = n
  BY <1>1, <1>3 DEF LinkedBy, Shape, PageTypes, s
<1>7. down'[head] = [j \in 1..(n - 1) |->
                       IF j < at THEN s[j]
                       ELSE IF j = at THEN [sep |-> s[at].sep, child |-> s[at + 1].child]
                       ELSE s[j + 1]]
  BY <1>6 DEF Retarget
<1>8. Len(down'[head]) = n - 1 /\ down'[head] \in Seq([sep : Nat, child : Pages])
  <2> DEFINE R == [sep : Nat, child : Pages]
  <2>0. [sep |-> s[at].sep, child |-> s[at + 1].child] \in R
    <3>1. at \in 1..n /\ at + 1 \in 1..n BY <1>4, <1>5
    <3>2. s[at] \in R /\ s[at + 1] \in R
      <4> HIDE DEF R
      <4> QED BY <1>4, <1>6, <3>1, ElementOfSeq DEF R
    <3> QED BY <3>2
  <2>1. ASSUME NEW j \in 1..(n - 1) PROVE down'[head][j] \in R
    <3>1. j \in 1..n /\ j + 1 \in 1..n BY <1>4
    <3> HIDE DEF R
    <3>2. s[j] \in R /\ s[j + 1] \in R
      BY <1>4, <1>6, <3>1, ElementOfSeq DEF R
    <3> QED BY <1>7, <2>0, <3>2
  <2> HIDE DEF R
  <2>2. down'[head] \in [1..(n - 1) -> R]
    BY <1>7, <2>1
  <2>3. down'[head] \in Seq(R)
    BY <1>5, <2>2, SeqDef
  <2>4. DOMAIN down'[head] = 1..(n - 1) BY <2>2
  <2>5. Len(down'[head]) = n - 1 BY <1>5, <2>3, <2>4, LenProperties
  <2> QED BY <2>3, <2>5 DEF R
<1>9. /\ \A i \in 1..(at - 1) : down'[head][i] = s[i]
      /\ down'[head][at] = [sep |-> s[at].sep, child |-> s[at + 1].child]
      /\ \A i \in (at + 1)..(n - 1) : down'[head][i] = s[i + 1]
  BY <1>4, <1>5, <1>7
<1>10. Positions' = 1..(n - 1)
  BY <1>1, <1>8 DEF Positions
<1>11. \A i : i = at + 1 => Child(i) = right[p]
  BY <1>2 DEF Child, s
<1>12. \A i \in 1..(at - 1) : Child(i)' = Child(i) /\ Sep(i)' = Sep(i)
  BY <1>1, <1>9 DEF Child, Sep, s
<1>13. \A i : i = at => Child(i)' = Child(i + 1) /\ Sep(i)' = Sep(i)
  BY <1>1, <1>9 DEF Child, Sep, s
<1>14. \A i \in (at + 1)..(n - 1) :
         Child(i)' = Child(i + 1) /\ Sep(i)' = Sep(i + 1)
  BY <1>1, <1>9 DEF Child, Sep, s
<1> QED BY <1>4, <1>5, <1>8, <1>10, <1>11, <1>12, <1>13, <1>14

\* which downlink each of those left was
LEMMA UnlinkedPositions ==
  ASSUME NEW pos, LinkedBy(pos), NEW p \in Leaves, NEW live, UnlinkLeaf(p, live),
         kind[head] = "inner", NEW n, n = Len(down[head]), NEW at,
         at = DownlinkAt(p)
  PROVE  \A i \in 1..(n - 1) :
           \/ /\ i < at /\ i \in 1..n
              /\ Child(i)' = Child(i) /\ Sep(i)' = Sep(i)
           \/ /\ i = at /\ i + 1 \in 1..n /\ i \in 1..n
              /\ Child(i)' = Child(i + 1) /\ Child(i)' = right[p]
              /\ Sep(i)' = Sep(i)
           \/ /\ i > at /\ i + 1 \in 1..n
              /\ Child(i)' = Child(i + 1) /\ Sep(i)' = Sep(i + 1)
<1>1. /\ n \in Nat /\ at \in 1..(n - 1) /\ Positions = 1..n
      /\ Child(at) = p /\ Positions' = 1..(n - 1)
  BY UnlinkedDownlinks
<1>2. \A i : i = at + 1 => Child(i) = right[p]
  BY UnlinkedDownlinks
<1>3. \A i \in 1..(at - 1) : Child(i)' = Child(i) /\ Sep(i)' = Sep(i)
  BY UnlinkedDownlinks
<1>4. \A i : i = at => Child(i)' = Child(i + 1) /\ Sep(i)' = Sep(i)
  BY UnlinkedDownlinks
<1>5. \A i \in (at + 1)..(n - 1) : Child(i)' = Child(i + 1) /\ Sep(i)' = Sep(i + 1)
  BY UnlinkedDownlinks
<1> SUFFICES ASSUME NEW i \in 1..(n - 1)
             PROVE  \/ /\ i < at /\ i \in 1..n
                       /\ Child(i)' = Child(i) /\ Sep(i)' = Sep(i)
                    \/ /\ i = at /\ i + 1 \in 1..n /\ i \in 1..n
                       /\ Child(i)' = Child(i + 1) /\ Child(i)' = right[p]
                       /\ Sep(i)' = Sep(i)
                    \/ /\ i > at /\ i + 1 \in 1..n
                       /\ Child(i)' = Child(i + 1) /\ Sep(i)' = Sep(i + 1)
  OBVIOUS
<1>6. i \in 1..n /\ i + 1 \in 1..n /\ i \in Nat /\ at \in Nat
  BY <1>1
<1>7. CASE i < at
  <2>1. i \in 1..(at - 1) BY <1>1, <1>6, <1>7
  <2> QED BY <1>3, <1>6, <1>7, <2>1
<1>8. CASE i = at
  <2>1. Child(i + 1) = right[p] BY <1>2, <1>8
  <2> QED BY <1>4, <1>6, <1>8, <2>1
<1>9. CASE i > at
  <2>1. i \in (at + 1)..(n - 1) BY <1>1, <1>6, <1>9
  <2> QED BY <1>5, <1>6, <1>9, <2>1
<1> QED BY <1>6, <1>7, <1>8, <1>9

\* nothing is between a leaf and the one it links
LEMMA BetweenNeighbours ==
  ASSUME NEW pos, Ordered(pos), NEW p \in Stamped, right[p] \in Stamped
  PROVE  \A x \in Stamped : pos[x] < pos[right[p]] /\ x # p => pos[x] < pos[p]
<1>1. \A x \in Stamped : pos[x] \in Nat
  BY DEF Ordered, Stamped
<1>2. SUFFICES ASSUME NEW x \in Stamped, pos[x] < pos[right[p]], x # p,
                      ~(pos[x] < pos[p])
               PROVE  FALSE
  OBVIOUS
<1>3. pos[x] # pos[p] BY <1>2 DEF Ordered
<1>4. pos[p] < pos[x] BY <1>1, <1>2, <1>3
<1>5. pos[right[p]] <= pos[x] BY <1>4 DEF Ordered
<1> QED BY <1>1, <1>2, <1>5

\* the leaves that stay keep their numbers
LEMMA UnlinkLinks ==
  ASSUME NEW pos, LinkedBy(pos), NEW p \in Leaves, NEW live, UnlinkLeaf(p, live)
  PROVE  LinkedBy(pos)'
<1>1. /\ form = "chain" /\ p \in Stamped /\ p # head /\ items[p] = {}
      /\ right[p] # NoPage /\ right[p] \in Stamped /\ right[p] # p
      /\ ~flagged[p] /\ held' = NoPage /\ Shape'
      /\ Stamped' = Stamped \ {p}
      /\ \A x \in Stamped : right'[x] = IF right[x] = p THEN right[p] ELSE right[x]
      /\ kind'[head] = kind[head] /\ (Flat <=> kind[head] = "leaf")
      /\ UNCHANGED <<form, inl, head, tail, owner, items, flagged, ins, held>>
  BY UnlinkOn
<1>2. /\ Shape /\ Base /\ Linked(pos) /\ Ordered(pos) /\ Downlinks(pos)
      /\ Lands(pos, 0)
      /\ \A x \in Stamped : /\ pos[x] \in Nat
                            /\ right[x] # NoPage => right[x] \in Stamped
  BY <1>1 DEF LinkedBy, Linked, Ordered, Stamped, Shape, OneChain, RightClosed
<1>3. Base'
  <2>1. tail \in Stamped /\ right[tail] = NoPage /\ tail # p
    BY <1>1, <1>2 DEF Base
  <2>2. tail' \in Stamped' /\ right'[tail'] = NoPage
    BY <1>1, <2>1, NoPageAssumption DEF Stamped
  <2>3. kind' = [kind EXCEPT ![p] = "unlinked"] BY DEF UnlinkLeaf
  <2>4. \A x \in Pages : kind'[x] \in {"new", "deleted", "unlinked"} => ~flagged'[x]
    BY <1>1, <1>2, <2>3 DEF Base, Shape, PageTypes
  <2> QED BY <1>1, <1>2, <2>2, <2>4 DEF Base, KeysOf, Fits
<1>4. \A x \in Stamped : pos[x] < pos[right[p]] /\ x # p => pos[x] < pos[p]
  BY <1>1, <1>2, BetweenNeighbours
<1>5. Ordered(pos)'
  <2>1. \A x, y \in Stamped' : pos[x] = pos[y] => x = y
    BY <1>1, <1>2 DEF Ordered
  <2>2. ASSUME NEW x \in Stamped', right'[x] # NoPage
        PROVE  pos[x] < pos[right'[x]]
    <3>1. x \in Stamped BY <1>1
    <3>2. right[x] # NoPage => pos[x] < pos[right[x]] /\ right[x] \in Stamped
      BY <1>2, <3>1 DEF Ordered
    <3>3. pos[p] < pos[right[p]] BY <1>1, <1>2 DEF Ordered
    <3> QED BY <1>1, <1>2, <2>2, <3>1, <3>2, <3>3, NoPageAssumption DEF Stamped
  <2>3. ASSUME NEW x \in Stamped', NEW y \in Stamped', pos[x] < pos[y]
        PROVE  right'[x] # NoPage /\ pos[right'[x]] <= pos[y]
    <3>1. x \in Stamped /\ y \in Stamped /\ y # p BY <1>1
    <3>2. right[x] # NoPage /\ pos[right[x]] <= pos[y]
      BY <1>2, <2>3, <3>1 DEF Ordered
    <3>3. CASE right[x] = p
      <4>1. pos[p] # pos[y] BY <1>1, <1>2, <3>1 DEF Ordered
      <4>2. pos[p] < pos[y] BY <1>1, <1>2, <3>1, <3>2, <3>3, <4>1
      <4>3. pos[right[p]] <= pos[y] BY <1>1, <1>2, <3>1, <4>2 DEF Ordered
      <4> QED BY <1>1, <3>1, <3>3, <4>3
    <3>4. CASE right[x] # p
      BY <1>1, <3>1, <3>2, <3>4
    <3> QED BY <3>3, <3>4
  <2> QED BY <1>2, <2>1, <2>2, <2>3 DEF Ordered
<1>6. CASE kind[head] = "leaf"
  BY <1>1, <1>2, <1>3, <1>5, <1>6, NoPageAssumption
     DEF LinkedBy, Linked, Downlinks, Lands, HeldOn
<1>7. CASE kind[head] = "inner"
  <2>0. PICK n, at : n = Len(down[head]) /\ at = DownlinkAt(p)
    OBVIOUS
  <2>1. /\ n \in Nat /\ at \in 1..(n - 1) /\ Positions = 1..n
        /\ Child(at) = p /\ (\A i : i = at + 1 => Child(i) = right[p])
        /\ Positions' = 1..(n - 1)
        /\ down'[head] \in Seq([sep : Nat, child : Pages])
    <3>1. /\ n \in Nat /\ at \in 1..(n - 1) /\ Positions = 1..n
          /\ Child(at) = p /\ Positions' = 1..(n - 1)
          /\ down'[head] \in Seq([sep : Nat, child : Pages])
      BY <1>7, <2>0, UnlinkedDownlinks
    <3>2. \A i : i = at + 1 => Child(i) = right[p]
      BY <1>7, <2>0, UnlinkedDownlinks
    <3> QED BY <3>1, <3>2
  <2>2. \A i \in Positions : Child(i) \in Stamped
    BY <1>2, <1>7 DEF Downlinks
  <2>3. \A i \in 1..(n - 1) :
          \/ /\ i < at /\ i \in 1..n
             /\ Child(i)' = Child(i) /\ Sep(i)' = Sep(i)
          \/ /\ i = at /\ i + 1 \in 1..n /\ i \in 1..n
             /\ Child(i)' = Child(i + 1) /\ Child(i)' = right[p] /\ Sep(i)' = Sep(i)
          \/ /\ i > at /\ i + 1 \in 1..n
             /\ Child(i)' = Child(i + 1) /\ Sep(i)' = Sep(i + 1)
    BY <1>7, <2>0, UnlinkedPositions
  <2>4. \A i, j \in 1..n : i < j => pos[Child(i)] < pos[Child(j)]
    BY <1>2, <1>7, <2>1 DEF Downlinks
  <2>5. \A i \in 1..n : i # at => Child(i) # p
    <3>1. SUFFICES ASSUME NEW i \in 1..n, i # at, Child(i) = p PROVE FALSE
      OBVIOUS
    <3>2. i < at \/ at < i BY <2>1, <3>1
    <3>3. at \in 1..n BY <2>1
    <3> QED BY <1>1, <1>2, <2>1, <2>4, <3>1, <3>2, <3>3
  <2>6. \A i, j \in 1..(n - 1) : i < j => pos[Child(i)'] < pos[Child(j)']
    <3>1. SUFFICES ASSUME NEW i \in 1..(n - 1), NEW j \in 1..(n - 1), i < j
                   PROVE  pos[Child(i)'] < pos[Child(j)']
      OBVIOUS
    <3>2. \E a, b \in 1..n : a < b /\ Child(i)' = Child(a) /\ Child(j)' = Child(b)
      <4>1. i \in Nat /\ j \in Nat /\ at \in Nat BY <2>1
      <4>2. CASE i < at
        <5>1. i \in 1..n /\ Child(i)' = Child(i) BY <2>3, <4>1, <4>2
        <5>2. CASE j < at
          <6>1. j \in 1..n /\ Child(j)' = Child(j) BY <2>3, <4>1, <5>2
          <6> QED BY <3>1, <5>1, <6>1
        <5>3. CASE ~(j < at)
          <6>1. j + 1 \in 1..n /\ Child(j)' = Child(j + 1) /\ i < j + 1
            BY <2>3, <3>1, <4>1, <5>3
          <6> QED BY <5>1, <6>1
        <5> QED BY <5>2, <5>3
      <4>3. CASE ~(i < at)
        <5>1. i + 1 \in 1..n /\ Child(i)' = Child(i + 1) BY <2>3, <4>1, <4>3
        <5>2. j + 1 \in 1..n /\ Child(j)' = Child(j + 1) /\ i + 1 < j + 1
          BY <2>3, <3>1, <4>1, <4>3
        <5> QED BY <5>1, <5>2
      <4> QED BY <4>2, <4>3
    <3> QED BY <2>4, <3>2
  <2>7. \A x : HasDownlink(x)' <=> HasDownlink(x) /\ x # p
    <3>1. SUFFICES ASSUME NEW x PROVE HasDownlink(x)' <=> HasDownlink(x) /\ x # p
      OBVIOUS
    <3>2. HasDownlink(x)' <=> \E i \in 1..(n - 1) : Child(i)' = x
      BY <2>1 DEF HasDownlink, Positions, Child
    <3>3. HasDownlink(x) <=> \E i \in 1..n : Child(i) = x
      BY <2>1 DEF HasDownlink, Positions, Child
    <3>4. ASSUME NEW i \in 1..(n - 1), Child(i)' = x
          PROVE  \E j \in 1..n : j # at /\ Child(j) = x
      <4>1. at \in Nat /\ i \in Nat BY <2>1
      <4>2. CASE i < at
        BY <2>3, <3>4, <4>1, <4>2
      <4>3. CASE ~(i < at)
        <5>1. i + 1 \in 1..n /\ i + 1 # at /\ Child(i + 1) = x
          BY <2>3, <3>4, <4>1, <4>3
        <5> QED BY <5>1
      <4> QED BY <4>2, <4>3
    <3>5. ASSUME NEW i \in 1..n, Child(i) = x, x # p
          PROVE  \E j \in 1..(n - 1) : Child(j)' = x
      <4>1. i # at /\ at \in Nat /\ i \in Nat BY <2>1, <3>5
      <4>2. CASE i < at
        <5>1. i \in 1..(n - 1) BY <2>1, <4>1, <4>2
        <5> QED BY <2>3, <3>5, <4>1, <4>2, <5>1
      <4>3. CASE i > at
        <5>1. i - 1 \in 1..(n - 1) /\ ~(i - 1 < at) /\ (i - 1) + 1 = i
          BY <2>1, <4>1, <4>3
        <5>2. Child(i - 1)' = Child((i - 1) + 1)
          BY <2>1, <2>3, <5>1
        <5> QED BY <3>5, <5>1, <5>2
      <4> QED BY <4>1, <4>2, <4>3
    <3> QED BY <2>5, <3>2, <3>3, <3>4, <3>5
  <2>8. HasDownlink(right[p])
    <3>1. at + 1 \in 1..n /\ Child(at + 1) = right[p] BY <2>1
    <3> QED BY <2>1, <3>1 DEF HasDownlink, Positions, Child
  <2>9. Downlinks(pos)'
    <3>1. (\A i, j \in Positions : i < j => pos[Child(i)] < pos[Child(j)])'
      BY <2>1, <2>6
    <3>2. \A i \in 1..(n - 1) : Child(i)' \in Stamped'
      <4>1. SUFFICES ASSUME NEW i \in 1..(n - 1) PROVE Child(i)' \in Stamped'
        OBVIOUS
      <4>2. HasDownlink(Child(i)')
        <5>1. PICK y : y = Child(i)' OBVIOUS
        <5>2. HasDownlink(y)'
          BY <2>1, <5>1 DEF HasDownlink, Positions, Child
        <5> QED BY <2>7, <5>1, <5>2
      <4>3. Child(i)' # p
        <5>1. PICK y : y = Child(i)' OBVIOUS
        <5>2. HasDownlink(y)'
          BY <2>1, <5>1 DEF HasDownlink, Positions, Child
        <5> QED BY <2>7, <5>1, <5>2
      <4>4. Child(i)' \in Stamped
        BY <2>1, <2>2, <4>2 DEF HasDownlink, Positions, Child
      <4> QED BY <1>1, <4>3, <4>4
    <3>3. (\A i \in Positions : Child(i) \in Stamped)'
      BY <2>1, <3>2
    <3>4. \A x \in Stamped' : right'[x] # NoPage =>
            \/ right'[x] = right[x] /\ right[x] # p
            \/ right'[x] = right[p]
      BY <1>1
    <3>5. (\A x \in Stamped :
             right[x] # NoPage /\ ~HasDownlink(right[x]) => flagged[x])'
      <4>1. SUFFICES ASSUME NEW x \in Stamped', NEW y, y = right'[x], y # NoPage,
                            ~HasDownlink(y)'
                     PROVE  flagged[x]
        BY <1>1 DEF HasDownlink
      <4>2. x \in Stamped BY <1>1
      <4>3. y = right[x] /\ y # p
        BY <1>1, <2>7, <2>8, <3>4, <4>1
      <4>4. ~HasDownlink(y) BY <2>7, <4>1, <4>3
      <4> QED BY <1>2, <1>7, <4>1, <4>2, <4>3, <4>4 DEF Downlinks
    <3>6. \A x \in Stamped' : flagged'[x] => HasDownlink(x)' /\ right'[x] # NoPage
      <4>1. \A x \in Stamped : flagged[x] => HasDownlink(x) /\ right[x] # NoPage
        BY <1>2, <1>7 DEF Downlinks
      <4> QED BY <1>1, <2>7, <4>1
    <3>7. (down[head] \in Seq([sep : Nat, child : Pages]))'
      BY <1>1, <2>1
    <3> QED BY <3>1, <3>3, <3>5, <3>6, <3>7 DEF Downlinks
  <2>10. Lands(pos, 0)'
    <3>1. SUFFICES ASSUME NEW i \in 1..(n - 1), Sep(i)' <= 0, NEW x \in Stamped',
                          pos[x] < pos[Child(i)'], NEW y \in items[x]
                   PROVE  BlockOf[y] < 0
      BY <1>1, <2>1 DEF Lands
    <3>2. \A j \in 1..n : Sep(j) <= 0 /\ pos[x] < pos[Child(j)] => BlockOf[y] < 0
      BY <1>1, <1>2, <1>7, <2>1, <3>1 DEF Lands
    <3>3. CASE i = at
      <4>1. Child(i)' = right[p] /\ Sep(i)' = Sep(i) /\ i \in 1..n
        BY <2>1, <2>3, <3>3
      <4>2. pos[x] < pos[p] BY <1>1, <1>4, <3>1, <4>1
      <4> QED BY <2>1, <3>1, <3>2, <3>3, <4>1, <4>2
    <3>4. CASE i # at
      BY <2>1, <2>3, <3>1, <3>2, <3>4
    <3> QED BY <3>3, <3>4
  <2>11. HeldOn'
    BY <1>1 DEF HeldOn
  <2> QED BY <1>1, <1>3, <1>5, <2>9, <2>10, <2>11 DEF LinkedBy, Linked
<1> QED BY <1>1, <1>2, <1>6, <1>7, HeadKind
-----------------------------------------------------------------------------
(* The steps, and where the keys are *)

\* a step that moves no TID
LEMMA SameMembers ==
  ASSUME Shape, Shape', UNCHANGED <<inl, items>>
  PROVE  Indexed' = Indexed
<1>1. Everywhere BY IndexedEverywhere
<1>2. Everywhere' BY IndexedEverywhere, PTL
<1> QED BY <1>1, <1>2 DEF Everywhere

\* the numbers and keys are numbers
LEMMA RouteTypes ==
  ASSUME NEW pos, LinkedBy(pos), form = "chain"
  PROVE  /\ Shape /\ Base /\ Linked(pos) /\ Ordered(pos) /\ Downlinks(pos)
         /\ \A x \in Stamped : pos[x] \in Nat /\ x \in Pages
         /\ \A x \in Pages : \A y \in items[x] : y \in Tids /\ BlockOf[y] \in Nat
         /\ \A t \in Tids : BlockOf[t] \in Nat
         /\ kind[head] = "inner" =>
              \A i \in Positions : i \in Nat /\ Sep(i) \in Nat /\ Child(i) \in Stamped
BY DownTypes, BlockAssumption
   DEF LinkedBy, Linked, Ordered, Stamped, Shape, PageTypes

\* keys that go and keys that stay are where the separators say
LEMMA QuietRoutes ==
  ASSUME form = "chain", NEW pos, Sorted(pos), Separated(pos),
         UNCHANGED <<form, head, kind, owner, right, down>>,
         \A p \in Stamped : items'[p] \subseteq items[p]
  PROVE  Sorted(pos)' /\ Separated(pos)'
<1>1. Stamped' = Stamped /\ Positions' = Positions
      /\ \A i : Child(i)' = Child(i) /\ Sep(i)' = Sep(i)
  BY DEF Stamped, Positions, Child, Sep
<1>2. Sorted(pos)'
  BY <1>1 DEF Sorted
<1>3. Separated(pos)'
  BY <1>1 DEF Separated
<1> QED BY <1>2, <1>3

\* the locks an insertion begins and fails with have no say in it
LEMMA BeginRoutes ==
  ASSUME NEW pos, LinkedBy(pos), RoutedBy(pos),
         (\E t \in Tids : InsertBegin(t)) \/ InsertFails
  PROVE  RoutedBy(pos)'
<1>1. /\ held' = NoPage
      /\ UNCHANGED <<form, head, kind, owner, right, down, items>>
  BY BeginLinks, FailsLinks DEF InsertBegin, InsertFails, entryVars, pageVars
<1> QED BY <1>1, QuietRoutes DEF RoutedBy, Routed, HeldFits

\* what VACUUM takes away, it takes while nobody inserts
LEMMA FilterRoutes ==
  ASSUME NEW pos, LinkedBy(pos), RoutedBy(pos), NEW p \in Pages, NEW gone,
         FilterPage(p, gone)
  PROVE  RoutedBy(pos)'
<1>1. UNCHANGED <<form, inl, head, tail, kind, owner, right, flagged, down, ins, held>>
  BY DEF FilterPage, entryVars
<1>2. \A x \in Pages : items'[x] \subseteq items[x]
  BY DEF FilterPage, LinkedBy, Shape, PageTypes
<1>3. SUFFICES ASSUME form = "chain" PROVE Routed(pos)'
  BY <1>1 DEF RoutedBy
<1>4. Sorted(pos)' /\ Separated(pos)'
  BY <1>1, <1>2, <1>3, QuietRoutes DEF RoutedBy, Routed, Stamped
<1>5. CASE items[p] \cap gone # {}
  <2>1. held' = NoPage
    BY <1>1, <1>5 DEF FilterPage, LinkedBy, Base
  <2> QED BY <1>4, <2>1 DEF Routed, HeldFits
<1>6. CASE items[p] \cap gone = {}
  <2>1. items' = items
    BY <1>6 DEF FilterPage, LinkedBy, Shape, PageTypes
  <2>2. Shape' BY FilterShape DEF LinkedBy
  <2>3. Indexed' = Indexed BY <1>1, <2>1, <2>2, SameMembers DEF LinkedBy
  <2>4. HeldFits(pos)'
    <3>1. Stamped' = Stamped /\ Positions' = Positions
          /\ \A i : Child(i)' = Child(i) /\ Sep(i)' = Sep(i)
      BY <1>1 DEF Stamped, Positions, Child, Sep
    <3>2. held # NoPage /\ ~flagged[held] =>
            Belongs(pos, held, BlockOf[ins])'
      BY <1>1, <1>3, <2>1, <3>1 DEF RoutedBy, Routed, HeldFits, Belongs
    <3> QED BY <1>1, <1>3, <2>3, <3>2 DEF RoutedBy, Routed, HeldFits
  <2> QED BY <1>4, <2>4 DEF Routed
<1> QED BY <1>5, <1>6

\* a freed page is not of the set and has no key
LEMMA FreeRoutes ==
  ASSUME NEW pos, LinkedBy(pos), RoutedBy(pos), NEW p \in Pages, NEW live,
         FreePage(p, live)
  PROVE  RoutedBy(pos)'
<1>1. /\ UNCHANGED <<form, inl, head, tail, owner, items, ins, held>>
      /\ \A x \in Pages \ {p} : /\ kind'[x] = kind[x] /\ right'[x] = right[x]
                                /\ flagged'[x] = flagged[x]
                                /\ down'[x] = down[x]
      /\ kind'[p] = "deleted"
  BY DEF FreePage, entryVars, LinkedBy, Shape, PageTypes, Base
<1>2. SUFFICES ASSUME form = "chain" PROVE Routed(pos)'
  BY <1>1 DEF RoutedBy
<1>3. p # head /\ p \notin Stamped /\ head \in Pages
  BY <1>2 DEF FreePage, Orphan, LinkedBy, Shape, Ownership, Stamped
<1>4. /\ Stamped' = Stamped /\ kind'[head] = kind[head] /\ down'[head] = down[head]
      /\ \A x \in Stamped : flagged'[x] = flagged[x]
  BY <1>1, <1>3 DEF Stamped
<1>5. Positions' = Positions /\ \A i : Child(i)' = Child(i) /\ Sep(i)' = Sep(i)
  BY <1>1, <1>4 DEF Positions, Child, Sep
<1>6. Sorted(pos)' /\ Separated(pos)'
  BY <1>1, <1>2, <1>4, <1>5 DEF RoutedBy, Routed, Sorted, Separated
<1>7. HeldFits(pos)'
  <2>1. Indexed' = Indexed
    BY <1>1, FreeShape, SameMembers DEF LinkedBy
  <2>2. held # NoPage => held \in Stamped
    BY <1>2 DEF LinkedBy, Linked, HeldOn
  <2>3. held # NoPage /\ ~flagged[held] => Belongs(pos, held, BlockOf[ins])'
    BY <1>1, <1>2, <1>4, <1>5 DEF RoutedBy, Routed, HeldFits, Belongs
  <2> QED BY <1>1, <1>2, <1>4, <2>1, <2>2, <2>3 DEF RoutedBy, Routed, HeldFits
<1> QED BY <1>6, <1>7 DEF Routed

\* a chain of one leaf is sorted
LEMMA SpillRoutes ==
  ASSUME NEW pos, LinkedBy(pos), NEW q \in Pages, Spill(q)
  PROVE  RoutedBy(OnePage)'
<1>1. Stamped' = {q} /\ head' = q /\ held' = NoPage /\ kind'[q] = "leaf"
  BY SpillLinks
<1>2. Sorted(OnePage)'
  BY <1>1 DEF Sorted, OnePage
<1> QED BY <1>1, <1>2 DEF RoutedBy, Routed, Separated, HeldFits

\* a TID that joins the leaf it belongs on
LEMMA PutRoutes ==
  ASSUME NEW pos, LinkedBy(pos), RoutedBy(pos), form = "chain", NEW p \in Stamped,
         ins \in Tids, held = NoPage, Belongs(pos, p, BlockOf[ins]), PutOn(p)
  PROVE  RoutedBy(pos)'
<1>1. /\ items'[p] = items[p] \cup {ins}
      /\ \A x \in Pages \ {p} : items'[x] = items[x]
      /\ p \in Pages /\ held' = NoPage
      /\ UNCHANGED <<form, head, kind, owner, right, down>>
  BY DEF PutOn, entryVars, LinkedBy, Shape, PageTypes, Stamped
<1>2. Stamped' = Stamped /\ Positions' = Positions
      /\ \A i : Child(i)' = Child(i) /\ Sep(i)' = Sep(i)
  BY <1>1 DEF Stamped, Positions, Child, Sep
<1>3. \A x \in Stamped : \A y \in items'[x] : y \in items[x] \/ (x = p /\ y = ins)
  BY <1>1 DEF Stamped
<1>4. \A x \in Stamped : pos[x] \in Nat
  BY RouteTypes
<1>5. Sorted(pos)'
  <2>1. SUFFICES ASSUME NEW x \in Stamped, NEW y \in Stamped, pos[x] < pos[y],
                        NEW s \in items'[x], NEW t \in items'[y]
                 PROVE  BlockOf[s] < BlockOf[t]
    BY <1>2 DEF Sorted
  <2>2. ~(x = p /\ y = p) BY <1>4, <2>1
  <2>3. BlockOf[ins] \in Nat /\ \A r \in Stamped : \A u \in items[r] : BlockOf[u] \in Nat
    BY RouteTypes
  <2>4. CASE s \in items[x] /\ t \in items[y]
    BY <2>1, <2>4 DEF RoutedBy, Routed, Sorted
  <2>5. CASE x = p /\ s = ins /\ t \in items[y]
    BY <1>4, <2>1, <2>3, <2>5 DEF Belongs
  <2>6. CASE y = p /\ t = ins /\ s \in items[x]
    BY <2>1, <2>6 DEF Belongs
  <2> QED BY <1>3, <2>1, <2>2, <2>4, <2>5, <2>6
<1>6. Separated(pos)'
  <2>1. ASSUME kind[head] = "inner", NEW i \in Positions, NEW x \in Stamped,
               NEW y \in items'[x]
        PROVE  IF pos[x] < pos[Child(i)] THEN BlockOf[y] < Sep(i)
               ELSE BlockOf[y] >= Sep(i)
    <3>1. CASE y \in items[x]
      BY <2>1, <3>1 DEF RoutedBy, Routed, Separated
    <3>2. CASE x = p /\ y = ins
      BY <2>1, <3>2 DEF Belongs
    <3> QED BY <1>3, <2>1, <3>1, <3>2
  <2> QED BY <1>1, <1>2, <2>1 DEF RoutedBy, Routed, Separated
<1> QED BY <1>1, <1>5, <1>6 DEF RoutedBy, Routed, HeldFits

\* a key at or past the tail's first belongs on the tail
LEMMA OnTailRoutes ==
  ASSUME NEW pos, LinkedBy(pos), RoutedBy(pos), InsertOnTail
  PROVE  RoutedBy(pos)'
<1>1. tail \in Stamped /\ form = "chain" /\ ins \in Tids /\ held = NoPage
      /\ items[tail] # {} /\ BlockOf[ins] >= MinKey(tail) /\ PutOn(tail)
  BY OnTailLinks DEF InsertOnTail
<1>2. /\ \A x \in Stamped : pos[x] \in Nat /\ x \in Pages
      /\ \A x \in Stamped : \A y \in items[x] : BlockOf[y] \in Nat
      /\ BlockOf[ins] \in Nat /\ Shape
      /\ kind[head] = "inner" =>
           \A i \in Positions : Sep(i) \in Nat /\ Child(i) \in Stamped
  BY <1>1, RouteTypes
<1>3. PICK y \in items[tail] : MinKey(tail) = BlockOf[y]
  BY <1>1, <1>2, FirstKey DEF Shape, KeysOf
<1>4. \A x \in Stamped : pos[x] <= pos[tail]
  BY <1>1, TailLast
<1>5. Belongs(pos, tail, BlockOf[ins])
  <2>1. ASSUME NEW x \in Stamped, NEW z \in items[x]
        PROVE  (pos[x] < pos[tail] => BlockOf[z] < BlockOf[ins])
               /\ ~(pos[x] > pos[tail])
    <3>1. pos[x] < pos[tail] => BlockOf[z] < BlockOf[y]
      BY <1>1, <1>3, <2>1 DEF RoutedBy, Routed, Sorted
    <3> QED BY <1>1, <1>2, <1>3, <1>4, <2>1, <3>1
  <2>2. ASSUME kind[head] = "inner", NEW i \in Positions
        PROVE  ~(pos[tail] < pos[Child(i)]) /\ BlockOf[ins] >= Sep(i)
    <3>1. ~(pos[tail] < pos[Child(i)])
      BY <1>1, <1>2, <1>4, <2>2
    <3>2. BlockOf[y] >= Sep(i)
      BY <1>1, <1>3, <2>2, <3>1 DEF RoutedBy, Routed, Separated
    <3> QED BY <1>1, <1>2, <1>3, <2>2, <3>1, <3>2
  <2> QED BY <2>1, <2>2 DEF Belongs
<1> QED BY <1>1, <1>5, PutRoutes

\* and any key on the unflagged leaf its descent ends on
LEMMA OnLeafRoutes ==
  ASSUME NEW pos, LinkedBy(pos), RoutedBy(pos), NEW p \in Leaves, InsertOnLeaf(p)
  PROVE  RoutedBy(pos)'
<1>1. p \in Stamped /\ form = "chain" /\ ins \in Tids /\ held = NoPage
      /\ PutOn(p) /\ p = WriterLeaf(BlockOf[ins]) /\ ~flagged[p]
  BY OnLeafLinks DEF InsertOnLeaf
<1>2. BlockOf[ins] \in Nat /\ Shape /\ Base /\ Linked(pos)
  BY <1>1, RouteTypes
<1>3. Belongs(pos, p, BlockOf[ins])
  BY <1>1, <1>2, RouteBelongs DEF RoutedBy, Routed
<1> QED BY <1>1, <1>3, PutRoutes

\* the new TID belongs on the leaf that is split, or promoted for
LEMMA SplitBelongs ==
  ASSUME NEW pos, LinkedBy(pos), RoutedBy(pos), NEW p, SplitTarget(p)
  PROVE  Belongs(pos, p, BlockOf[ins])
<1>1. form = "chain" /\ ~flagged[p] /\ ins \in Tids
  BY SplitOn
<1>2. BlockOf[ins] \in Nat /\ Shape /\ Base /\ Linked(pos) /\ Routed(pos)
  BY <1>1, RouteTypes DEF RoutedBy
<1>3. CASE held # NoPage
  BY <1>1, <1>2, <1>3 DEF SplitTarget, Routed, HeldFits
<1>4. CASE held = NoPage
  BY <1>1, <1>2, <1>4, RouteBelongs DEF SplitTarget, Routed
<1> QED BY <1>3, <1>4

\* a split divides the keys between the leaf and its new neighbour
LEMMA SplitRoutes ==
  ASSUME NEW pos, LinkedBy(pos), RoutedBy(pos), NEW p \in Leaves, NEW q \in Pages,
         NEW live, Split(p, q, live), NEW pos2, pos2 = AfterSplit(pos, p, q)
  PROVE  RoutedBy(pos2)'
<1> DEFINE k == BlockOf[ins]
<1>1. /\ \A x \in Stamped : pos[x] \in Nat /\ x # q /\ pos2[x] = 2 * pos[x]
      /\ pos2[q] = 2 * pos[p] + 1
      /\ p \in Stamped /\ Stamped' = Stamped \cup {q} /\ q # head /\ Shape'
  BY SplitOrders
<1>2. /\ form = "chain" /\ ins \in Tids /\ Belongs(pos, p, k)
      /\ Sorted(pos) /\ Separated(pos) /\ Shape /\ k \in Nat
      /\ \A x \in Pages : \A y \in items[x] : BlockOf[y] \in Nat
      /\ \A x \in Stamped : x \in Pages
      /\ kind[head] = "inner" =>
           \A i \in Positions : Sep(i) \in Nat /\ Child(i) \in Stamped
  BY SplitOn, SplitBelongs, RouteTypes DEF Split, RoutedBy, Routed
<1>3. /\ UNCHANGED <<form, inl, head, down>>
      /\ kind' = [kind EXCEPT ![q] = "leaf"]
      /\ flagged' = [flagged EXCEPT ![p] = ~Flat]
      /\ held' = IF Flat THEN NoPage ELSE p
      /\ ins' = IF Flat THEN NoTid ELSE ins
  BY DEF Split
<1>4. /\ \A x \in Pages \ {p, q} : items'[x] = items[x]
      /\ \A y \in items'[q] : y \in items[p] \/ y = ins
      /\ \A y \in items'[p] : y \in items[p] \/ y = ins
      /\ \A y \in items'[p], z \in items'[q] : BlockOf[y] < BlockOf[z]
      /\ ins \in items'[p] \cup items'[q]
  BY SplitItems
<1>5. ASSUME NEW r \in Stamped, r # p, NEW z \in items[r],
             NEW y, y \in items[p] \/ y = ins
      PROVE  /\ pos[r] < pos[p] => BlockOf[z] < BlockOf[y]
             /\ pos[p] < pos[r] => BlockOf[y] < BlockOf[z]
  <2>1. CASE y \in items[p]
    BY <1>1, <1>2, <1>5, <2>1 DEF Sorted
  <2>2. CASE y = ins
    BY <1>1, <1>2, <1>5, <2>2 DEF Belongs
  <2> QED BY <1>5, <2>1, <2>2
<1>6. Sorted(pos2)'
  <2>1. SUFFICES ASSUME NEW x \in Stamped', NEW y \in Stamped', pos2[x] < pos2[y],
                        NEW s \in items'[x], NEW t \in items'[y]
                 PROVE  BlockOf[s] < BlockOf[t]
    BY DEF Sorted
  <2>2. CASE x \in {p, q} /\ y \in {p, q}
    <3>1. x = p /\ y = q BY <1>1, <2>1, <2>2
    <3> QED BY <1>4, <2>1, <3>1
  <2>3. CASE x \in {p, q} /\ y \in Stamped \ {p}
    <3>1. s \in items[p] \/ s = ins BY <1>4, <2>1, <2>3
    <3>2. t \in items[y] BY <1>1, <1>2, <1>4, <2>1, <2>3
    <3>3. pos[p] < pos[y] BY <1>1, <2>1, <2>3
    <3> QED BY <1>5, <2>3, <3>1, <3>2, <3>3
  <2>4. CASE x \in Stamped \ {p} /\ y \in {p, q}
    <3>1. t \in items[p] \/ t = ins BY <1>4, <2>1, <2>4
    <3>2. s \in items[x] BY <1>1, <1>2, <1>4, <2>1, <2>4
    <3>3. pos[x] < pos[p]
      <4>1. pos[x] # pos[p]
        <5>1. \A a, b \in Stamped : pos[a] = pos[b] => a = b
          BY <1>2, RouteTypes DEF Ordered
        <5> QED BY <1>1, <2>4, <5>1
      <4>2. pos[x] <= pos[p] BY <1>1, <2>1, <2>4
      <4> QED BY <1>1, <2>4, <4>1, <4>2
    <3> QED BY <1>5, <2>4, <3>1, <3>2, <3>3
  <2>5. CASE x \in Stamped \ {p} /\ y \in Stamped \ {p}
    <3>1. s \in items[x] /\ t \in items[y] BY <1>1, <1>2, <1>4, <2>1, <2>5
    <3>2. pos[x] < pos[y] BY <1>1, <2>1, <2>5
    <3> QED BY <1>2, <2>5, <3>1, <3>2 DEF Sorted
  <2> QED BY <1>1, <2>1, <2>2, <2>3, <2>4, <2>5
<1>7. /\ Positions' = Positions /\ (\A i : Child(i)' = Child(i) /\ Sep(i)' = Sep(i))
      /\ kind'[head] = kind[head] /\ (Flat <=> kind[head] = "leaf")
  BY <1>1, <1>2, <1>3, HeadKind DEF Positions, Child, Sep, Shape, PageTypes
<1>8. Separated(pos2)'
  <2>1. ASSUME kind[head] = "inner", NEW i \in Positions, NEW x \in Stamped',
               NEW y \in items'[x]
        PROVE  IF pos2[x] < pos2[Child(i)] THEN BlockOf[y] < Sep(i)
               ELSE BlockOf[y] >= Sep(i)
    <3>1. Child(i) \in Stamped BY <1>2, <2>1
    <3>2. CASE x \in {p, q}
      <4>1. pos2[x] < pos2[Child(i)] <=> pos[p] < pos[Child(i)]
        BY <1>1, <3>1, <3>2
      <4>2. y \in items[p] \/ y = ins BY <1>4, <2>1, <3>2
      <4>3. IF pos[p] < pos[Child(i)] THEN BlockOf[y] < Sep(i)
            ELSE BlockOf[y] >= Sep(i)
        BY <1>1, <1>2, <2>1, <4>2 DEF Separated, Belongs
      <4> QED BY <4>1, <4>3
    <3>3. CASE x \in Stamped \ {p}
      <4>1. pos2[x] < pos2[Child(i)] <=> pos[x] < pos[Child(i)]
        BY <1>1, <3>1, <3>3
      <4>2. y \in items[x] BY <1>1, <1>2, <1>4, <2>1, <3>3
      <4> QED BY <1>2, <2>1, <3>3, <4>1, <4>2 DEF Separated
    <3> QED BY <1>1, <2>1, <3>2, <3>3
  <2>2. \A i \in Positions : \A x \in Stamped' : \A y \in items'[x] :
          kind[head] = "inner" =>
            IF pos2[x] < pos2[Child(i)] THEN BlockOf[y] < Sep(i)
            ELSE BlockOf[y] >= Sep(i)
    BY <2>1
  <2>3. kind[head] = "inner" =>
          Sep(1) = 0 /\ \A i, j \in Positions : i < j => Sep(i) <= Sep(j)
    BY <1>2 DEF Separated
  <2> QED BY <1>3, <1>7, <2>2, <2>3 DEF Separated
<1>9. HeldFits(pos2)'
  <2>1. SUFFICES ASSUME ~Flat PROVE flagged'[p] /\ held' = p /\ ins' \in Indexed'
    BY <1>3 DEF HeldFits
  <2>2. Everywhere' BY <1>1, IndexedEverywhere, PTL
  <2>3. ins \in Indexed' BY <1>1, <1>2, <1>4, <2>2 DEF Everywhere
  <2>4. flagged'[p] BY <1>1, <1>2, <1>3, <2>1 DEF LinkedBy, Base
  <2> QED BY <1>3, <2>1, <2>3, <2>4
<1> QED BY <1>6, <1>8, <1>9 DEF RoutedBy, Routed

\* a leaf in a flat chain that a promotion is made for starts at or below the
\* new key, and what comes after it above
LEMMA PromoteRoutes ==
  ASSUME NEW pos, LinkedBy(pos), RoutedBy(pos), NEW p \in Leaves, NEW q \in Pages,
         NEW live, Promote(p, q, live), ~PromotesBeforeEmpty,
         NEW pos2, pos2 = AfterPromote(pos, head, q)
  PROVE  RoutedBy(pos2)'
<1> DEFINE k == BlockOf[ins]
<1>0. PICK c, N, sep : c = Chain(head) /\ N = Len(c) /\ sep = FlatSeps(c)
  OBVIOUS
<1>1. Enumerates(c, pos) /\ c[1] = head /\ kind[head] = "leaf"
  BY <1>0, PromotedTree
<1>2. Positions' = 1..N /\ \A i \in 1..N : Sep(i)' = sep[i]
  BY <1>0, PromotedTree
<1>3. \A i \in 1..N : Child(i)' = IF i = 1 THEN q ELSE c[i]
  BY <1>0, PromotedTree
<1>4. \A i \in 1..N : Child(i)' \in Stamped' /\ pos2[Child(i)'] = pos[c[i]]
  BY <1>0, PromotedTree
<1>5. \A i \in 1..N : items'[Child(i)'] = items[c[i]]
  BY <1>0, PromotedTree
<1>6. \A x \in Stamped' : \E i \in 1..N : Child(i)' = x
  BY <1>0, PromotedTree
<1>7. /\ form = "chain" /\ p \in Stamped /\ ins \in Tids /\ Belongs(pos, p, k)
      /\ SplitTarget(p) /\ held = NoPage
      /\ Shape /\ Base /\ Ordered(pos) /\ k \in Nat /\ Sorted(pos)
      /\ \A x \in Pages : \A y \in items[x] : BlockOf[y] \in Nat
      /\ \A x \in Stamped : x \in Pages /\ pos[x] \in Nat
  BY <1>1, SplitOn, SplitBelongs, RouteTypes
     DEF Promote, RoutedBy, Routed, LinkedBy, Linked, HeldOn
<1>8. /\ N \in Nat \ {0} /\ c \in [1..N -> Stamped]
      /\ \A i, j \in 1..N : i < j => pos[c[i]] < pos[c[j]]
      /\ \A i \in 1..(N - 1) : right[c[i]] = c[i + 1]
      /\ \A x \in Stamped : \E i \in 1..N : c[i] = x
  BY <1>0, <1>1 DEF Enumerates
<1>9. /\ sep \in [1..N -> Nat] /\ sep[1] = 0
      /\ \A i \in 2..N : FlatSep(c, i) <= sep[i]
      /\ \A i, j \in 1..N : i < j => sep[i] <= sep[j]
  BY <1>0, <1>1, <1>7, PromotedSeps
<1>10. \A i, j \in 1..N : \A x \in items[c[j]] :
         IF j < i THEN BlockOf[x] < sep[i] ELSE BlockOf[x] >= sep[i]
  BY <1>0, <1>1, <1>7, PromotedSeps
<1>11. \A i, j \in 1..N : pos[c[i]] < pos[c[j]] <=> i < j
  <2>1. SUFFICES ASSUME NEW i \in 1..N, NEW j \in 1..N, pos[c[i]] < pos[c[j]], ~(i < j)
                 PROVE  FALSE
    BY <1>8
  <2>2. i = j \/ j < i BY <1>8, <2>1
  <2>3. pos[c[i]] \in Nat /\ pos[c[j]] \in Nat BY <1>7, <1>8
  <2> QED BY <1>8, <2>1, <2>2, <2>3
<1>12. Sorted(pos2)'
  <2>1. SUFFICES ASSUME NEW x \in Stamped', NEW y \in Stamped', pos2[x] < pos2[y],
                        NEW s \in items'[x], NEW t \in items'[y]
                 PROVE  BlockOf[s] < BlockOf[t]
    BY DEF Sorted
  <2>2. PICK i \in 1..N : Child(i)' = x BY <1>6, <2>1
  <2>3. PICK j \in 1..N : Child(j)' = y BY <1>6, <2>1
  <2>4. pos[c[i]] < pos[c[j]] /\ s \in items[c[i]] /\ t \in items[c[j]]
    BY <1>4, <1>5, <2>1, <2>2, <2>3
  <2> QED BY <1>7, <1>8, <2>4 DEF Sorted
<1>13. Separated(pos2)'
  <2>1. \A i \in 1..N : \A x \in Stamped' : \A y \in items'[x] :
          IF pos2[x] < pos2[Child(i)'] THEN BlockOf[y] < sep[i]
          ELSE BlockOf[y] >= sep[i]
    <3>1. SUFFICES ASSUME NEW i \in 1..N, NEW x \in Stamped', NEW y \in items'[x]
                   PROVE  IF pos2[x] < pos2[Child(i)'] THEN BlockOf[y] < sep[i]
                          ELSE BlockOf[y] >= sep[i]
      OBVIOUS
    <3>2. PICK j \in 1..N : Child(j)' = x BY <1>6, <3>1
    <3>3. pos2[x] < pos2[Child(i)'] <=> j < i
      BY <1>4, <1>11, <3>2
    <3>4. y \in items[c[j]] BY <1>5, <3>1, <3>2
    <3> QED BY <1>10, <3>3, <3>4
  <2>2. 1 \in 1..N BY <1>8
  <2>3. Sep(1)' = 0 BY <1>2, <1>9, <2>2
  <2>4. (\A i, j \in Positions : i < j => Sep(i) <= Sep(j))'
    BY <1>2, <1>9
  <2>5. (\A i \in Positions : \A x \in Stamped : \A y \in items[x] :
           IF pos2[x] < pos2[Child(i)] THEN BlockOf[y] < Sep(i)
           ELSE BlockOf[y] >= Sep(i))'
    BY <1>2, <2>1
  <2> QED BY <2>3, <2>4, <2>5 DEF Separated
<1>14. PICK m \in 1..N : c[m] = p
  BY <1>7, <1>8
<1>15. /\ held' = Child(m)' /\ held' = IF p = head THEN q ELSE p
       /\ ins' = ins /\ flagged' = flagged
  <2>1. held' = (IF p = head THEN q ELSE p) /\ ins' = ins /\ flagged' = flagged
    BY DEF Promote
  <2>2. m = 1 <=> p = head
    <3>1. SUFFICES ASSUME m # 1, p = head PROVE FALSE
      BY <1>1, <1>14
    <3>2. 1 < m /\ 1 \in 1..N BY <1>8, <3>1
    <3>3. pos[c[1]] < pos[c[m]] BY <1>8, <3>2
    <3> QED BY <1>1, <1>7, <1>14, <3>1, <3>3
  <2> QED BY <1>3, <1>14, <2>1, <2>2
<1>16. \A i \in 1..N : i <= m => sep[i] <= k
  <2>1. sep[m] <= k
    <3>1. CASE m = 1
      BY <1>7, <1>9, <3>1
    <3>2. CASE m # 1
      <4>1. p # head
        <5>1. 1 < m /\ 1 \in 1..N BY <1>8, <3>2
        <5>2. pos[c[1]] < pos[c[m]] BY <1>8, <5>1
        <5>3. pos[head] \in Nat BY <1>1, <1>7, <1>8
        <5> QED BY <1>1, <1>14, <5>2, <5>3
      <4>2. p = WriterLeaf(k) BY <1>7 DEF SplitTarget
      <4>3. items[p] # {} /\ MinKey(p) <= k
        BY <1>1, <1>7, <4>1, <4>2, ChainRoute
      <4>4. PICK y \in items[p] : MinKey(p) = BlockOf[y]
        BY <1>7, <4>3, FirstKey DEF Shape, KeysOf
      <4>5. ~(m < m) BY <1>8
      <4>6. BlockOf[y] >= sep[m] BY <1>10, <1>14, <4>4, <4>5
      <4>7. BlockOf[y] \in Nat /\ sep[m] \in Nat BY <1>7, <1>9, <4>4
      <4> QED BY <1>7, <4>3, <4>4, <4>6, <4>7
    <3> QED BY <3>1, <3>2
  <2>2. SUFFICES ASSUME NEW i \in 1..N, i <= m PROVE sep[i] <= k
    OBVIOUS
  <2>3. i = m \/ i < m BY <1>8, <2>2
  <2>4. sep[i] \in Nat /\ sep[m] \in Nat BY <1>9
  <2> QED BY <1>7, <1>9, <2>1, <2>3, <2>4
<1>17. \A i \in 1..N : m < i => k < sep[i]
  <2>1. SUFFICES ASSUME NEW i \in 1..N, m < i PROVE k < sep[i]
    OBVIOUS
  <2>2. m \in 1..(N - 1) /\ m + 1 \in 2..N /\ m + 1 \in 1..N /\ m < m + 1
        /\ m + 1 # 1 /\ (i = m + 1 \/ m + 1 < i)
    BY <1>8, <2>1
  <2>3. right[c[m]] = c[m + 1] /\ c[m + 1] \in Stamped
    BY <1>8, <2>2
  <2>4. right'[held'] = c[m + 1]
    <3>1. /\ \A x \in Stamped : x # head => right'[x] = right[x]
          /\ right'[q] = right[head]
      BY <1>7, PromoteShape
    <3> QED BY <1>7, <1>14, <1>15, <2>3, <3>1
  <2>5. items'[c[m + 1]] = items[c[m + 1]]
    <3>1. PICK j : j = m + 1 OBVIOUS
    <3>2. Child(j)' = c[j] /\ items'[Child(j)'] = items[c[j]]
      BY <1>3, <1>5, <2>2, <3>1
    <3> QED BY <3>1, <3>2
  <2>6. items[c[m + 1]] # {}
    <3>1. kind'[head] = "inner" BY <1>7, PromoteShape
    <3>2. right'[held'] # NoPage BY <2>3, <2>4, NoPageAssumption DEF Stamped
    <3> QED BY <1>1, <1>7, <2>4, <2>5, <3>1, <3>2 DEF PromotesBeforeEmpty
  <2>7. FlatSep(c, m + 1) = MinKey(c[m + 1]) BY <2>6 DEF FlatSep
  <2>8. MinKey(c[m + 1]) \in KeysOf(items[c[m + 1]]) /\ MinKey(c[m + 1]) \in Nat
    BY <1>7, <2>3, <2>6, FirstKey DEF Shape
  <2>9. PICK y \in items[c[m + 1]] : MinKey(c[m + 1]) = BlockOf[y]
    BY <2>8 DEF KeysOf
  <2>10. pos[p] < pos[c[m + 1]] BY <1>8, <1>14, <2>2
  <2>11. BlockOf[y] > k BY <1>7, <2>3, <2>9, <2>10 DEF Belongs
  <2>12. FlatSep(c, m + 1) <= sep[m + 1] /\ sep[m + 1] \in Nat BY <1>9, <2>2
  <2>13. k < sep[m + 1] BY <1>7, <2>7, <2>8, <2>9, <2>11, <2>12
  <2>14. i = m + 1 \/ sep[m + 1] <= sep[i] BY <1>9, <2>1, <2>2
  <2>15. sep[i] \in Nat BY <1>9, <2>1
  <2> QED BY <1>7, <2>12, <2>13, <2>14, <2>15
<1>18. Belongs(pos2, held, BlockOf[ins])'
  <2>1. ASSUME NEW x \in Stamped', NEW y \in items'[x]
        PROVE  /\ pos2[x] < pos2[held'] => BlockOf[y] < k
               /\ pos2[x] > pos2[held'] => BlockOf[y] > k
    <3>1. PICK j \in 1..N : Child(j)' = x BY <1>6, <2>1
    <3>2. pos2[x] = pos[c[j]] /\ pos2[held'] = pos[p] /\ y \in items[c[j]]
      BY <1>4, <1>5, <1>14, <1>15, <2>1, <3>1
    <3>3. c[j] \in Stamped BY <1>8
    <3> QED BY <1>7, <3>2, <3>3 DEF Belongs
  <2>2. ASSUME NEW i \in 1..N
        PROVE  IF pos2[held'] < pos2[Child(i)'] THEN k < sep[i] ELSE k >= sep[i]
    <3>0. pos2[held'] = pos[c[m]] /\ pos2[Child(i)'] = pos[c[i]]
      BY <1>4, <1>15
    <3>1. pos2[held'] < pos2[Child(i)'] <=> m < i
      BY <1>11, <3>0
    <3>2. ~(m < i) => i <= m BY <1>8
    <3>3. sep[i] \in Nat BY <1>9
    <3> QED BY <1>7, <1>16, <1>17, <3>1, <3>2, <3>3
  <2>3. (\A i \in Positions :
           IF pos2[held] < pos2[Child(i)] THEN BlockOf[ins] < Sep(i)
           ELSE BlockOf[ins] >= Sep(i))'
    BY <1>2, <1>15, <2>2
  <2>4. (\A x \in Stamped : \A y \in items[x] :
           /\ pos2[x] < pos2[held] => BlockOf[y] < BlockOf[ins]
           /\ pos2[x] > pos2[held] => BlockOf[y] > BlockOf[ins])'
    BY <1>15, <2>1
  <2> QED BY <2>3, <2>4 DEF Belongs
<1>19. HeldFits(pos2)'
  <2>1. ~flagged'[held']
    <3>1. kind[q] \in {"new", "deleted", "unlinked"} BY DEF Promote, Recyclable
    <3> QED BY <1>1, <1>7, <1>15, <3>1 DEF Base
  <2> QED BY <1>18, <2>1 DEF HeldFits
<1> QED BY <1>12, <1>13, <1>19 DEF RoutedBy, Routed

\* the new separator is above the left leaf's keys and not above its own
LEMMA PlaceRoutes ==
  ASSUME NEW pos, LinkedBy(pos), RoutedBy(pos), NEW p \in Pages, PlaceDownlink(p)
  PROVE  RoutedBy(pos)'
<1> DEFINE n == Len(down[head])
           at == DownlinkAt(p)
           s == SplitSep(p)
<1>1. /\ form = "chain" /\ p \in Stamped /\ kind[head] = "inner"
      /\ HasDownlink(p) /\ right[p] # NoPage /\ right[p] \in Stamped
      /\ ~HasDownlink(right[p]) /\ flagged[p] /\ held \in {p, NoPage}
  BY FinishOn DEF PlaceDownlink, ToFinish
<1>2. Shape' /\ UNCHANGED <<form, head, kind, owner, items, right, inl, flagged,
                            ins, held>>
  BY DownlinkShape DEF LinkedBy, PlaceDownlink, entryVars
<1>3. /\ Shape /\ Base /\ Ordered(pos) /\ Downlinks(pos)
      /\ Sorted(pos) /\ Separated(pos) /\ HeldFits(pos)
      /\ \A x \in Stamped : pos[x] \in Nat /\ x \in Pages
      /\ \A x \in Pages : \A y \in items[x] : BlockOf[y] \in Nat
      /\ \A i \in Positions : i \in Nat /\ Sep(i) \in Nat /\ Child(i) \in Stamped
  BY <1>1, RouteTypes DEF RoutedBy, Routed
<1>4. at \in Positions /\ n \in Nat /\ Child(at) = p /\ Positions' = 1..(n + 1)
  BY PlacedDownlink
<1>5. \A i \in 1..at : Child(i)' = Child(i) /\ Sep(i)' = Sep(i)
  BY PlacedDownlink
<1>6. \A i : i = at + 1 => Child(i)' = right[p] /\ Sep(i)' = s
  BY PlacedDownlink
<1>7. \A i \in (at + 2)..(n + 1) : Child(i)' = Child(i - 1) /\ Sep(i)' = Sep(i - 1)
  BY PlacedDownlink
<1>8. /\ s \in Nat /\ Sep(at) \in Nat /\ Sep(at) <= s
      /\ items[right[p]] # {} => MinKey(right[p]) <= s
      /\ items[right[p]] = {} /\ items[p] # {} => MaxKey(p) + 1 <= s
      /\ \/ s = Sep(at)
         \/ items[right[p]] # {} /\ s = MinKey(right[p])
         \/ items[right[p]] = {} /\ items[p] # {} /\ s = MaxKey(p) + 1
  BY <1>1, SplitSepIs
<1> HIDE DEF n, at, s
<1>9. Positions = 1..n /\ at \in 1..n
  BY <1>4 DEF Positions, n
<1>10. \A i \in 1..(n + 1) :
         \/ i \in 1..at /\ i \in 1..n /\ Child(i)' = Child(i) /\ Sep(i)' = Sep(i)
         \/ i = at + 1 /\ Child(i)' = right[p] /\ Sep(i)' = s
         \/ /\ i > at + 1 /\ i - 1 \in 1..n /\ at < i - 1
            /\ Child(i)' = Child(i - 1) /\ Sep(i)' = Sep(i - 1)
  <2> SUFFICES ASSUME NEW i \in 1..(n + 1)
               PROVE  \/ /\ i \in 1..at /\ i \in 1..n
                         /\ Child(i)' = Child(i) /\ Sep(i)' = Sep(i)
                      \/ i = at + 1 /\ Child(i)' = right[p] /\ Sep(i)' = s
                      \/ /\ i > at + 1 /\ i - 1 \in 1..n /\ at < i - 1
                         /\ Child(i)' = Child(i - 1) /\ Sep(i)' = Sep(i - 1)
    OBVIOUS
  <2>1. i \in Nat /\ at \in Nat BY <1>4, <1>9
  <2>2. CASE i <= at
    <3>1. i \in 1..at /\ i \in 1..n BY <1>4, <1>9, <2>2
    <3> QED BY <1>5, <3>1
  <2>3. CASE i = at + 1
    BY <1>6, <2>3
  <2>4. CASE i > at + 1
    <3>1. i \in (at + 2)..(n + 1) /\ i - 1 \in 1..n /\ at < i - 1
      BY <1>4, <1>9, <2>1, <2>4
    <3> QED BY <1>7, <2>4, <3>1
  <2> QED BY <2>1, <2>2, <2>3, <2>4
<1>11. /\ items[right[p]] # {} =>
            /\ MinKey(right[p]) \in Nat
            /\ \A y \in items[right[p]] : MinKey(right[p]) <= BlockOf[y]
            /\ \E y \in items[right[p]] : MinKey(right[p]) = BlockOf[y]
       /\ items[p] # {} =>
            /\ MaxKey(p) \in Nat
            /\ \A y \in items[p] : BlockOf[y] <= MaxKey(p)
            /\ \E y \in items[p] : MaxKey(p) = BlockOf[y]
  BY <1>1, <1>3, FirstKey, LastKey DEF Shape, Base, KeysOf
<1>12. pos[p] < pos[right[p]] /\ \A x \in Stamped :
         /\ pos[x] < pos[right[p]] => x = p \/ pos[x] < pos[p]
         /\ ~(pos[x] < pos[right[p]]) => x = right[p] \/ pos[right[p]] < pos[x]
  <2>1. pos[p] < pos[right[p]] BY <1>1, <1>3 DEF Ordered
  <2>2. ASSUME NEW x \in Stamped
        PROVE  /\ pos[x] < pos[right[p]] => x = p \/ pos[x] < pos[p]
               /\ ~(pos[x] < pos[right[p]]) => x = right[p] \/ pos[right[p]] < pos[x]
    <3>1. pos[p] < pos[x] => pos[right[p]] <= pos[x] BY <1>1, <1>3 DEF Ordered
    <3>2. (pos[x] = pos[p] => x = p) /\ (pos[x] = pos[right[p]] => x = right[p])
      BY <1>1, <1>3 DEF Ordered
    <3> QED BY <1>1, <1>3, <3>1, <3>2
  <2> QED BY <2>1, <2>2
<1>13. \A x \in Stamped : \A y \in items[x] :
         IF pos[x] < pos[right[p]] THEN BlockOf[y] < s ELSE BlockOf[y] >= s
  <2> SUFFICES ASSUME NEW x \in Stamped, NEW y \in items[x]
               PROVE  IF pos[x] < pos[right[p]] THEN BlockOf[y] < s
                      ELSE BlockOf[y] >= s
    OBVIOUS
  <2>0. BlockOf[y] \in Nat BY <1>3
  <2>1. IF pos[x] < pos[p] THEN BlockOf[y] < Sep(at) ELSE BlockOf[y] >= Sep(at)
    BY <1>1, <1>3, <1>4 DEF Separated
  <2>2. CASE pos[x] < pos[right[p]]
    <3>1. CASE items[right[p]] # {}
      <4>1. PICK z \in items[right[p]] : MinKey(right[p]) = BlockOf[z] BY <1>11, <3>1
      <4>2. BlockOf[y] < BlockOf[z] BY <1>1, <1>3, <2>2, <4>1 DEF Sorted
      <4>3. MinKey(right[p]) \in Nat BY <1>11, <3>1
      <4> QED BY <1>8, <2>0, <2>2, <3>1, <4>1, <4>2, <4>3
    <3>2. CASE items[right[p]] = {} /\ items[p] # {}
      <4>1. PICK z \in items[p] : MaxKey(p) = BlockOf[z] BY <1>11, <3>2
      <4>2. BlockOf[y] <= MaxKey(p)
        <5>1. CASE x = p BY <1>11, <3>2, <5>1
        <5>2. CASE pos[x] < pos[p]
          <6>1. BlockOf[y] < BlockOf[z] BY <1>1, <1>3, <4>1, <5>2 DEF Sorted
          <6> QED BY <1>11, <2>0, <3>2, <4>1, <6>1
        <5> QED BY <1>12, <2>2, <5>1, <5>2
      <4>3. MaxKey(p) \in Nat BY <1>11, <3>2
      <4> QED BY <1>8, <2>0, <2>2, <3>2, <4>2, <4>3
    <3>3. CASE items[right[p]] = {} /\ items[p] = {}
      <4>1. pos[x] < pos[p] BY <1>12, <2>2, <3>3
      <4> QED BY <1>8, <2>0, <2>1, <2>2, <4>1
    <3> QED BY <3>1, <3>2, <3>3
  <2>3. CASE ~(pos[x] < pos[right[p]])
    <3>0. ~(pos[x] < pos[p]) /\ pos[p] < pos[x]
      BY <1>1, <1>3, <1>12, <2>3
    <3>1. CASE s = Sep(at)
      BY <2>1, <2>3, <3>0, <3>1
    <3>2. CASE items[right[p]] # {} /\ s = MinKey(right[p])
      <4>1. PICK z \in items[right[p]] : MinKey(right[p]) = BlockOf[z] BY <1>11, <3>2
      <4>2. CASE x = right[p] BY <1>8, <1>11, <2>0, <2>3, <3>2, <4>2
      <4>3. CASE pos[right[p]] < pos[x]
        <5>1. BlockOf[z] < BlockOf[y] BY <1>1, <1>3, <4>1, <4>3 DEF Sorted
        <5> QED BY <1>8, <2>0, <2>3, <3>2, <4>1, <5>1
      <4> QED BY <1>12, <2>3, <4>2, <4>3
    <3>3. CASE items[p] # {} /\ s = MaxKey(p) + 1
      <4>1. PICK z \in items[p] : MaxKey(p) = BlockOf[z] BY <1>11, <3>3
      <4>2. BlockOf[z] < BlockOf[y] BY <1>1, <1>3, <3>0, <4>1 DEF Sorted
      <4>3. MaxKey(p) \in Nat BY <1>11, <3>3
      <4> QED BY <2>0, <2>3, <3>3, <4>1, <4>2, <4>3
    <3> QED BY <1>8, <3>1, <3>2, <3>3
  <2> QED BY <2>2, <2>3
<1>14. \A j \in 1..n : at < j => s <= Sep(j)
  <2> SUFFICES ASSUME NEW j \in 1..n, at < j PROVE s <= Sep(j)
    OBVIOUS
  <2>0. Sep(j) \in Nat /\ Child(j) \in Stamped BY <1>3, <1>9
  <2>1. Sep(at) <= Sep(j) BY <1>1, <1>3, <1>9 DEF Separated
  <2>2. pos[p] < pos[Child(j)] BY <1>1, <1>3, <1>4, <1>9 DEF Downlinks
  <2>3. pos[right[p]] < pos[Child(j)]
    <3>1. Child(j) # right[p] BY <1>1, <1>9 DEF HasDownlink, Positions, Child
    <3>2. ~(pos[Child(j)] < pos[right[p]])
      <4>1. Child(j) # p BY <1>1, <1>3, <2>2
      <4>2. ~(pos[Child(j)] < pos[p]) BY <1>1, <1>3, <2>0, <2>2
      <4> QED BY <1>12, <2>0, <4>1, <4>2
    <3> QED BY <1>12, <2>0, <3>1, <3>2
  <2>4. \A y \in items[p] \cup items[right[p]] : BlockOf[y] < Sep(j)
    BY <1>1, <1>3, <1>9, <2>2, <2>3 DEF Separated
  <2>5. CASE s = Sep(at) BY <2>1, <2>5
  <2>6. CASE items[right[p]] # {} /\ s = MinKey(right[p])
    BY <1>8, <1>11, <2>0, <2>4, <2>6
  <2>7. CASE items[p] # {} /\ s = MaxKey(p) + 1
    <3>1. PICK z \in items[p] : MaxKey(p) = BlockOf[z] BY <1>11, <2>7
    <3>2. BlockOf[z] < Sep(j) /\ BlockOf[z] \in Nat BY <1>1, <1>3, <2>4, <3>1
    <3> QED BY <2>0, <2>7, <3>1, <3>2
  <2> QED BY <1>8, <2>5, <2>6, <2>7
<1>15. Stamped' = Stamped BY <1>2 DEF Stamped
<1>16. Sorted(pos)' BY <1>2, <1>3, <1>15 DEF Sorted
<1>17. \A i, j \in 1..n : i < j => Sep(i) <= Sep(j)
  BY <1>1, <1>3, <1>9 DEF Separated
<1>18. \A i, j \in 1..(n + 1) : i < j => Sep(i)' <= Sep(j)'
  <2> SUFFICES ASSUME NEW i \in 1..(n + 1), NEW j \in 1..(n + 1), i < j
               PROVE  Sep(i)' <= Sep(j)'
    OBVIOUS
  <2>0. i \in Nat /\ j \in Nat /\ at \in Nat BY <1>4, <1>9
  <2>1. CASE j <= at
    BY <1>10, <1>17, <2>0, <2>1
  <2>2. CASE j = at + 1
    <3>1. Sep(j)' = s /\ Sep(i)' = Sep(i) /\ i \in 1..n /\ i <= at
      BY <1>10, <2>0, <2>2
    <3>2. Sep(i) <= Sep(at) /\ Sep(i) \in Nat
      BY <1>3, <1>8, <1>9, <1>17, <3>1, <2>0
    <3> QED BY <1>8, <3>1, <3>2
  <2>3. CASE j > at + 1
    <3>1. Sep(j)' = Sep(j - 1) /\ j - 1 \in 1..n /\ at < j - 1
      BY <1>10, <2>0, <2>3
    <3>2. CASE i <= at
      <4>1. Sep(i)' = Sep(i) /\ i \in 1..n /\ i < j - 1 BY <1>10, <2>0, <2>3, <3>2
      <4> QED BY <1>17, <3>1, <4>1
    <3>3. CASE i = at + 1
      BY <1>10, <1>14, <2>0, <3>1, <3>3
    <3>4. CASE i > at + 1
      <4>1. Sep(i)' = Sep(i - 1) /\ i - 1 \in 1..n /\ i - 1 < j - 1
        BY <1>10, <2>0, <3>4
      <4> QED BY <1>17, <3>1, <4>1
    <3> QED BY <2>0, <3>2, <3>3, <3>4
  <2> QED BY <2>0, <2>1, <2>2, <2>3
<1>19. \A i \in 1..(n + 1) : \A x \in Stamped : \A y \in items[x] :
         IF pos[x] < pos[Child(i)'] THEN BlockOf[y] < Sep(i)'
         ELSE BlockOf[y] >= Sep(i)'
  <2> SUFFICES ASSUME NEW i \in 1..(n + 1), NEW x \in Stamped, NEW y \in items[x]
               PROVE  IF pos[x] < pos[Child(i)'] THEN BlockOf[y] < Sep(i)'
                      ELSE BlockOf[y] >= Sep(i)'
    OBVIOUS
  <2>1. \A j \in 1..n : IF pos[x] < pos[Child(j)] THEN BlockOf[y] < Sep(j)
                        ELSE BlockOf[y] >= Sep(j)
    BY <1>1, <1>3, <1>9 DEF Separated
  <2>2. \/ Child(i)' = right[p] /\ Sep(i)' = s
        \/ \E j \in 1..n : Child(i)' = Child(j) /\ Sep(i)' = Sep(j)
    BY <1>10
  <2> QED BY <1>13, <2>1, <2>2
<1>20. Separated(pos)'
  <2>1. Sep(1)' = 0
    <3>1. 1 \in 1..at BY <1>9
    <3> QED BY <1>1, <1>3, <1>5, <3>1 DEF Separated
  <2>2. (\A i, j \in Positions : i < j => Sep(i) <= Sep(j))'
    BY <1>4, <1>18
  <2>3. (\A i \in Positions : \A x \in Stamped : \A y \in items[x] :
           IF pos[x] < pos[Child(i)] THEN BlockOf[y] < Sep(i)
           ELSE BlockOf[y] >= Sep(i))'
    BY <1>2, <1>4, <1>15, <1>19
  <2> QED BY <2>1, <2>2, <2>3 DEF Separated
<1>21. HeldFits(pos)'
  <2>1. Indexed' = Indexed BY <1>2, <1>3, SameMembers
  <2> QED BY <1>1, <1>2, <1>3, <2>1 DEF HeldFits
<1> QED BY <1>16, <1>20, <1>21 DEF RoutedBy, Routed

\* the flag goes; the writer whose TID is in the set lets its page go with it
LEMMA ClearRoutes ==
  ASSUME NEW pos, LinkedBy(pos), RoutedBy(pos), NEW p \in Pages, ClearSplit(p)
  PROVE  RoutedBy(pos)'
<1>1. form = "chain" /\ flagged[p] /\ p # NoPage
  BY NoPageAssumption DEF ClearSplit, ToFinish
<1>2. UNCHANGED <<form, head, kind, owner, right, down, items>>
  BY DEF ClearSplit, entryVars
<1>3. Sorted(pos)' /\ Separated(pos)'
  BY <1>1, <1>2, QuietRoutes DEF RoutedBy, Routed
<1>4. held' = NoPage
  <2>1. CASE held # NoPage
    <3>1. p = held BY <2>1 DEF ClearSplit, ToFinish
    <3>2. ins \in Indexed BY <1>1, <2>1, <3>1 DEF RoutedBy, Routed, HeldFits
    <3> QED BY <3>1, <3>2 DEF ClearSplit
  <2>2. CASE held = NoPage
    BY <1>1, <2>2 DEF ClearSplit
  <2> QED BY <2>1, <2>2
<1> QED BY <1>3, <1>4 DEF RoutedBy, Routed, HeldFits

\* an unlinked leaf has no key, so its separator is as good for its neighbour
LEMMA UnlinkRoutes ==
  ASSUME NEW pos, LinkedBy(pos), RoutedBy(pos), NEW p \in Leaves, NEW live,
         UnlinkLeaf(p, live)
  PROVE  RoutedBy(pos)'
<1>1. /\ form = "chain" /\ p \in Stamped
      /\ right[p] # NoPage /\ right[p] \in Stamped /\ right[p] # p
      /\ held' = NoPage /\ Stamped' = Stamped \ {p}
      /\ kind'[head] = kind[head]
      /\ UNCHANGED <<form, head, items>>
  BY UnlinkOn
<1>2. /\ Ordered(pos) /\ Downlinks(pos) /\ Sorted(pos) /\ Separated(pos)
      /\ \A x \in Stamped : pos[x] \in Nat
      /\ \A x \in Stamped : \A y \in items[x] : BlockOf[y] \in Nat
  BY <1>1, RouteTypes DEF RoutedBy, Routed, Stamped
<1>3. Sorted(pos)'
  BY <1>1, <1>2 DEF Sorted
<1>4. \A x \in Stamped : pos[x] < pos[right[p]] /\ x # p => pos[x] < pos[p]
  BY <1>1, <1>2, BetweenNeighbours
<1>5. Separated(pos)'
  <2>1. SUFFICES ASSUME kind[head] = "inner" PROVE Separated(pos)'
    BY <1>1 DEF Separated
  <2>2. PICK n, at : n = Len(down[head]) /\ at = DownlinkAt(p)
    OBVIOUS
  <2>3. /\ n \in Nat /\ at \in 1..(n - 1) /\ Positions = 1..n
        /\ Child(at) = p /\ Positions' = 1..(n - 1)
    BY <2>1, <2>2, UnlinkedDownlinks
  <2>4. \A i \in 1..(n - 1) :
          \/ /\ i < at /\ i \in 1..n
             /\ Child(i)' = Child(i) /\ Sep(i)' = Sep(i)
          \/ /\ i = at /\ i + 1 \in 1..n /\ i \in 1..n
             /\ Child(i)' = Child(i + 1) /\ Child(i)' = right[p] /\ Sep(i)' = Sep(i)
          \/ /\ i > at /\ i + 1 \in 1..n
             /\ Child(i)' = Child(i + 1) /\ Sep(i)' = Sep(i + 1)
    BY <2>1, <2>2, UnlinkedPositions
  <2>5. /\ \A i \in 1..n : Sep(i) \in Nat /\ Child(i) \in Stamped
        /\ \A i, j \in 1..n : i < j => Sep(i) <= Sep(j)
        /\ Sep(1) = 0
        /\ \A i \in 1..n : \A x \in Stamped : \A y \in items[x] :
             IF pos[x] < pos[Child(i)] THEN BlockOf[y] < Sep(i)
             ELSE BlockOf[y] >= Sep(i)
    BY <1>1, <1>2, <2>1, <2>3, RouteTypes DEF Separated
  <2>6. \A i : i = 1 => Sep(i)' = 0
    BY <2>3, <2>4, <2>5
  <2>7. ASSUME NEW i \in 1..(n - 1), NEW j \in 1..(n - 1), i < j
        PROVE  Sep(i)' <= Sep(j)'
    BY <2>3, <2>4, <2>5, <2>7
  <2>8. ASSUME NEW i \in 1..(n - 1), NEW x \in Stamped', NEW y \in items[x],
               NEW c, c = Child(i)', NEW s, s = Sep(i)'
        PROVE  IF pos[x] < pos[c] THEN BlockOf[y] < s ELSE BlockOf[y] >= s
    <3>1. x \in Stamped /\ x # p BY <1>1
    <3>2. CASE i = at
      <4>1. c = right[p] /\ s = Sep(at) /\ at \in 1..n
        BY <2>3, <2>4, <2>8, <3>2
      <4>2. pos[p] < pos[right[p]]
        BY <1>1, <1>2 DEF Ordered
      <4>3. pos[x] < pos[c] <=> pos[x] < pos[p]
        BY <1>1, <1>2, <1>4, <3>1, <4>1, <4>2
      <4> QED BY <2>3, <2>5, <3>1, <4>1, <4>3
    <3>3. CASE i < at
      <4>1. c = Child(i) /\ s = Sep(i) /\ i \in 1..n
        BY <2>3, <2>4, <2>8, <3>3
      <4> QED BY <2>5, <3>1, <4>1
    <3>4. CASE i > at
      <4>1. c = Child(i + 1) /\ s = Sep(i + 1) /\ i + 1 \in 1..n
        BY <2>3, <2>4, <2>8, <3>4
      <4> QED BY <2>5, <3>1, <4>1
    <3> QED BY <2>3, <3>2, <3>3, <3>4
  <2>9. (Sep(1) = 0)'
    BY <2>6
  <2> QED BY <1>1, <2>1, <2>3, <2>7, <2>8, <2>9 DEF Separated
<1> QED BY <1>1, <1>3, <1>5 DEF RoutedBy, Routed, HeldFits
-----------------------------------------------------------------------------
(* Every step *)

(* Each step of an inserter leaves the leaves numbered: by the old numbers,  *)
(* or by those the split, promotion or spill makes of them.                 *)
LEMMA InsertFollows ==
  ASSUME NEW pos, LinkedBy(pos), NEW live, InsertStep(live)
  PROVE  \E pos2 : /\ LinkedBy(pos2)'
                   /\ RoutedBy(pos) /\ ~PromotesBeforeEmpty => RoutedBy(pos2)'
<1>1. CASE InsertNewEntry \/ InsertInline
  BY <1>1, InlineLinks DEF RoutedBy
<1>2. CASE \E q \in Pages : Spill(q)
  BY <1>2, SpillLinks, SpillRoutes
<1>3. CASE InsertOnTail
  BY <1>3, OnTailLinks, OnTailRoutes
<1>4. CASE \E p \in Leaves : InsertOnLeaf(p)
  BY <1>4, OnLeafLinks, OnLeafRoutes
<1>5. CASE \E p \in Leaves, q \in Pages : Promote(p, q, live)
  BY <1>5, PromoteLinks, PromoteRoutes
<1>6. CASE \E p \in Leaves, q \in Pages : Split(p, q, live)
  BY <1>6, SplitLinks, SplitRoutes
<1>7. Leaves \subseteq Pages
  BY DEF Leaves
<1>8. CASE \E p \in Leaves : PlaceDownlink(p)
  BY <1>7, <1>8, PlaceLinks, PlaceRoutes
<1>9. CASE \E p \in Leaves : ClearSplit(p)
  BY <1>7, <1>9, ClearLinks, ClearRoutes
<1> QED BY <1>1, <1>2, <1>3, <1>4, <1>5, <1>6, <1>8, <1>9 DEF InsertStep

\* a step that leaves the set alone
LEMMA IdleFollows ==
  ASSUME NEW pos, LinkedBy(pos), UNCHANGED postingVars
  PROVE  LinkedBy(pos)' /\ (RoutedBy(pos) => RoutedBy(pos)')
<1> USE DEF postingVars
<1>1. Shape'
  BY NextShape DEF LinkedBy
<1>2. /\ Stamped' = Stamped /\ Positions' = Positions /\ Indexed' = Indexed
      /\ \A i : Child(i)' = Child(i) /\ Sep(i)' = Sep(i)
      /\ \A p : HasDownlink(p)' <=> HasDownlink(p)
  <2>1. Indexed' = Indexed BY <1>1, SameMembers DEF LinkedBy
  <2> QED BY <2>1 DEF Stamped, Positions, Child, Sep, HasDownlink
<1>3. Base'
  BY <1>2 DEF LinkedBy, Base, KeysOf, Fits
<1>4. form = "chain" => Linked(pos)'
  BY QuietLinked DEF LinkedBy
<1>5. RoutedBy(pos) => RoutedBy(pos)'
  <2>1. SUFFICES ASSUME form = "chain", Routed(pos) PROVE Routed(pos)'
    BY DEF RoutedBy
  <2>2. Sorted(pos)' /\ Separated(pos)'
    BY <2>1, QuietRoutes DEF Routed
  <2>3. held # NoPage /\ ~flagged[held] => Belongs(pos, held, BlockOf[ins])'
    BY <1>2, <2>1 DEF Routed, HeldFits, Belongs
  <2>4. HeldFits(pos)'
    BY <1>2, <2>1, <2>3 DEF Routed, HeldFits
  <2> QED BY <2>2, <2>4 DEF Routed
<1> QED BY <1>1, <1>3, <1>4, <1>5 DEF LinkedBy

\* Every step of the set on its own, the inserter's and VACUUM's.
LEMMA NextFollows ==
  ASSUME NEW pos, LinkedBy(pos), [PostingNext]_postingVars
  PROVE  \E pos2 : /\ LinkedBy(pos2)'
                   /\ RoutedBy(pos) /\ ~PromotesBeforeEmpty => RoutedBy(pos2)'
<1>1. CASE (\E t \in Tids \ Indexed : InsertBegin(t)) \/ InsertFails
  BY <1>1, BeginLinks, FailsLinks, BeginRoutes
<1>2. CASE InsertStep({})
  BY <1>2, InsertFollows
<1>3. CASE \E gone \in SUBSET inl \ {{}} : FilterInline(gone)
  BY <1>3, InlineLinks DEF RoutedBy
<1>4. Leaves \subseteq Pages
  BY DEF Leaves
<1>5. CASE \E p \in Leaves : \E gone \in SUBSET items[p] \ {{}} :
             FilterPage(p, gone)
  BY <1>4, <1>5, FilterLinks, FilterRoutes
<1>6. CASE \E p \in Leaves : UnlinkLeaf(p, {})
  BY <1>6, UnlinkLinks, UnlinkRoutes
<1>7. CASE DeleteEntry
  BY <1>7, DeleteLinks DEF RoutedBy
<1>8. CASE \E p \in Pages : FreePage(p, {})
  BY <1>8, FreeLinks, FreeRoutes
<1>9. CASE UNCHANGED postingVars
  BY <1>9, IdleFollows
<1> QED
  BY <1>1, <1>2, <1>3, <1>5, <1>6, <1>7, <1>8, <1>9 DEF PostingNext

\* An index without the key has no leaf to number.
LEMMA InitFollows == PostingInit => RouteInv
<1> SUFFICES ASSUME PostingInit PROVE RouteInv
  OBVIOUS
<1>1. Shape /\ form # "chain"
  BY InitShape DEF PostingInit
<1>2. IsFiniteSet(KeysOf({})) /\ Fits({}, PageCap) /\ Fits({}, InlineCap)
  <2>1. KeysOf({}) = {} BY DEF KeysOf
  <2>2. IsFiniteSet({}) /\ Cardinality({}) = 0 BY FS_EmptySet
  <2> QED BY <2>1, <2>2, Caps DEF Fits
<1>3. Base
  BY <1>2 DEF PostingInit, Base, Links
<1> QED BY <1>1, <1>3 DEF RouteInv, LinkedBy, RoutedBy
-----------------------------------------------------------------------------
(* The theorems *)

(* In every state the leaves of a set have an order the right links follow, *)
(* the downlinks of the level above are in that order, and only a leaf with  *)
(* an unfinished split lacks a downlink of its own (lion_posting_put.c,     *)
(* lion_posting_delete.c).                                                  *)
THEOREM LinksInvariant == PostingSpec => []LinkInv
<1>1. LinkInv /\ [PostingNext]_postingVars => LinkInv'
  BY NextFollows DEF LinkInv
<1>2. PostingInit => LinkInv
  BY InitFollows DEF RouteInv, LinkInv
<1> QED BY <1>1, <1>2, PTL DEF PostingSpec

(* The append hint is the last leaf and every leaf of the chain is live and  *)
(* the set's own, in every state an inserter, an ERROR between two of its    *)
(* records or VACUUM reaches (lion_insert_lock_chain_page()).               *)
THEOREM TailIsLast == PostingSpec => []ChainOwned
<1>1. LinkInv => ChainOwned
  BY OwnedChain DEF LinkInv, LinkedBy, Linked, ChainOwned
<1> QED BY <1>1, LinksInvariant, PTL

(* Without the promotion that SeparatorsAscend's counterexample takes, the   *)
(* keys are where the separators say, in every state (lion_posting.c,       *)
(* lion_posting_put.c).                                                     *)
THEOREM RoutesInvariant == SoundSpec => []RouteInv
<1>1. RouteInv /\ [SoundNext]_postingVars => RouteInv'
  <2>1. SUFFICES ASSUME NEW pos, LinkedBy(pos), RoutedBy(pos),
                        [SoundNext]_postingVars
                 PROVE  RouteInv'
    BY DEF RouteInv
  <2>2. CASE SoundNext
    BY <2>1, <2>2, NextFollows DEF SoundNext, RouteInv
  <2>3. CASE UNCHANGED postingVars
    BY <2>1, <2>3, IdleFollows DEF RouteInv
  <2> QED BY <2>1, <2>2, <2>3
<1> QED BY <1>1, InitFollows, PTL DEF SoundSpec

(* Such a set's leaves hold ascending, disjoint ranges of keys: a walk that  *)
(* reads each leaf once reads each key once, and in order (lion_posting.c).  *)
THEOREM LeavesSorted == SoundSpec => []ChainSorted
<1>1. RouteInv => ChainSorted
  BY SortedChain DEF RouteInv, LinkedBy, RoutedBy, Routed, Linked, ChainSorted
<1> QED BY <1>1, RoutesInvariant, PTL

(* Such a set's descents end on the leaf with the key, or left of it with    *)
(* unfinished splits between (lion_posting_downlink_off(),                  *)
(* lion_posting_flat_route()).                                              *)
THEOREM DescentsArrive == SoundSpec => []RoutesToOwner
<1>1. RouteInv => RoutesToOwner
  BY RoutedChain DEF RouteInv, LinkedBy, RoutedBy, Routed, RoutesToOwner
<1> QED BY <1>1, RoutesInvariant, PTL

(* And its separators never decrease: the binary search of                  *)
(* lion_posting_downlink_off() is right on every level above.               *)
THEOREM SeparatorsOrdered == SoundSpec => []SeparatorsAscend
<1>1. RouteInv => SeparatorsAscend
  BY AscendingSeparators
     DEF RouteInv, LinkedBy, RoutedBy, Routed, SeparatorsAscend
<1> QED BY <1>1, RoutesInvariant, PTL
=============================================================================
