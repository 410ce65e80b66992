--------------------------- MODULE LionPartsProof ---------------------------
(***************************************************************************)
(* Two of the parts that MCLionParts runs, which share nothing.            *)
(*                                                                         *)
(* The ring's hash finds what it tracks, for any table size, any hash      *)
(* function and any blocks.  While a removal moves keys back, one slot of  *)
(* the path from a key's own slot to the key may be empty: the hole; and   *)
(* then the loop has not come to that key yet.                             *)
(*                                                                         *)
(* The visibility cache answers as its node's snapshot saw the heap when   *)
(* it was taken, for any relations, pages, line pointers and transactions: *)
(* no write, prune or use of a line pointer again changes which chains of  *)
(* a page have a version that the snapshot sees.                           *)
(***************************************************************************)
EXTENDS LionRingHash, LionVisCache, FiniteSetTheorems, WellFoundedInduction, TLAPS

-----------------------------------------------------------------------------
(* The hash of the ring.                                                   *)


\* slot t is on the way from slot h to slot s
OnPath(h, t, s) == Ahead(h, t) < Ahead(h, s)

\* what find needs, but for the hole and the keys the loop has not come to
Paths ==
  \A s, t \in Slots :
    /\ hash[s] # NoKey
    /\ OnPath(home[hash[s]], t, s)
    /\ hash[t] = NoKey
    => /\ pc = "moving"
       /\ t = hole
       /\ Ahead(hole, at) < Ahead(hole, s)

\* the keys are the tracked blocks', each in one slot
Keys ==
  /\ \A b \in tracked : \E s \in Slots : hash[s] = b
  /\ \A s \in Slots : hash[s] # NoKey => hash[s] \in tracked
  /\ \A s, t \in Slots : hash[s] # NoKey /\ hash[s] = hash[t] => s = t

\* the slots the loop has been at have keys
Looked ==
  pc = "moving" =>
    /\ hash[hole] = NoKey
    /\ \A t \in Slots : /\ t # hole
                        /\ Ahead(hole, t) <= Ahead(hole, at)
                        => hash[t] # NoKey

Inv == TypeOK /\ Paths /\ Keys /\ Looked

\* How slots lie around the table.
LEMMA Around ==
  ASSUME NEW s \in Slots, NEW t \in Slots
  PROVE  /\ Ahead(s, t) \in Slots
         /\ Ahead(s, t) = 0 <=> s = t
         /\ After(s) \in Slots
BY HashAssumption DEF Slots, Ahead, After

\* Every slot but itself is ahead of a slot.
LEMMA OthersAhead ==
  ASSUME NEW s \in Slots, NEW t \in Slots, s # t
  PROVE  Ahead(s, s) = 0 /\ Ahead(s, t) > 0 /\ Ahead(s, t) \in Int
BY HashAssumption DEF Slots, Ahead

\* One slot further around the table, unless that is where it began.
LEMMA AfterAhead ==
  ASSUME NEW i \in Slots, NEW j \in Slots
  PROVE  IF After(j) = i THEN Ahead(i, j) = Size - 1
                         ELSE Ahead(i, After(j)) = Ahead(i, j) + 1
BY HashAssumption DEF Slots, Ahead, After

\* "j's key stays if its home lies cyclically in (i, j]": the hole is then not
\* on its path, and otherwise is.
LEMMA PlaceKept ==
  ASSUME NEW i \in Slots, NEW j \in Slots, NEW h \in Slots, i # j
  PROVE  KeepsPlace(i, j, h) <=> ~OnPath(h, i, j)
BY HashAssumption DEF Slots, Ahead, KeepsPlace, OnPath

\* A path through the hole goes on through every slot up to its key.
LEMMA PathThrough ==
  ASSUME NEW h \in Slots, NEW i \in Slots, NEW s \in Slots, NEW t \in Slots,
         OnPath(h, i, s), Ahead(i, t) < Ahead(i, s)
  PROVE  OnPath(h, t, s)
BY HashAssumption DEF Slots, Ahead, OnPath

\* A path that ends where another one's way leads is a part of that one, and
\* does not have the other's end.
LEMMA PathShorter ==
  ASSUME NEW h \in Slots, NEW i \in Slots, NEW j \in Slots, NEW t \in Slots,
         OnPath(h, i, j), OnPath(h, t, i)
  PROVE  OnPath(h, t, j) /\ t # j /\ t # i
BY HashAssumption DEF Slots, Ahead, OnPath

\* An empty table has the invariant.
LEMMA InitInv == Init => Inv
BY HashAssumption DEF Init, Inv, TypeOK, Paths, Keys, Looked, Slots

\* A key that is added can be found, and is in nobody's way.
LEMMA AddInv == ASSUME Inv, NEW b \in Blocks, Add(b) PROVE Inv'
<1>1. PICK s \in Slots : /\ hash[s] = NoKey
                         /\ Reached(b, s)
                         /\ hash' = [hash EXCEPT ![s] = b]
  BY DEF Add
<1>2. /\ pc = "idle" /\ pc' = "idle" /\ b \notin tracked
      /\ tracked' = tracked \cup {b} /\ UNCHANGED <<home, hole, at>>
      /\ b # NoKey
  BY HashAssumption DEF Add
<1>3. \A t \in Slots : hash'[t] = IF t = s THEN b ELSE hash[t]
  BY <1>1 DEF Inv, TypeOK
<1>4. TypeOK'
  BY <1>1, <1>2 DEF Inv, TypeOK
<1>5. Paths'
  <2> SUFFICES ASSUME NEW u \in Slots, NEW t \in Slots, hash'[u] # NoKey,
                      OnPath(home[hash'[u]], t, u), hash'[t] = NoKey
               PROVE  FALSE
    BY <1>2 DEF Paths
  <2>1. t # s /\ hash[t] = NoKey
    BY <1>2, <1>3
  <2>2. CASE u = s
    BY <1>1, <1>3, <2>1, <2>2 DEF Reached, OnPath
  <2>3. CASE u # s
    BY <1>2, <1>3, <2>1, <2>3 DEF Inv, Paths
  <2> QED
    BY <2>2, <2>3
<1>6. Keys'
  <2>1. NoKey \notin tracked
    BY HashAssumption DEF Inv, TypeOK
  <2>2. \A c \in tracked' : \E t \in Slots : hash'[t] = c
    <3> SUFFICES ASSUME NEW c \in tracked
                 PROVE  \E t \in Slots : hash'[t] = c
      BY <1>2, <1>3
    <3>1. PICK t \in Slots : hash[t] = c
      BY DEF Inv, Keys
    <3> QED
      BY <1>1, <1>3, <2>1, <3>1
  <2>3. \A t \in Slots : hash'[t] # NoKey => hash'[t] \in tracked'
    BY <1>2, <1>3 DEF Inv, Keys
  <2>4. \A t, u \in Slots : hash'[t] # NoKey /\ hash'[t] = hash'[u] => t = u
    BY <1>2, <1>3 DEF Inv, Keys
  <2> QED
    BY <2>2, <2>3, <2>4 DEF Keys
<1> QED
  BY <1>2, <1>4, <1>5, <1>6 DEF Inv, Looked

\* A removal begins with the key's slot as the hole, which no path may miss.
LEMMA RemoveInv == ASSUME Inv, NEW b \in Blocks, RemoveKey(b) PROVE Inv'
<1>1. PICK s \in Slots : /\ hash[s] = b
                         /\ hash' = [hash EXCEPT ![s] = NoKey]
                         /\ hole' = s /\ at' = s
  BY DEF RemoveKey
<1>2. /\ pc = "idle" /\ pc' = "moving" /\ b \in tracked
      /\ tracked' = tracked \ {b} /\ home' = home /\ b # NoKey
  BY HashAssumption DEF RemoveKey
<1>3. \A t \in Slots : hash'[t] = IF t = s THEN NoKey ELSE hash[t]
  BY <1>1 DEF Inv, TypeOK
<1>4. TypeOK'
  BY <1>1, <1>2 DEF Inv, TypeOK
<1>5. Paths'
  <2> SUFFICES ASSUME NEW u \in Slots, NEW t \in Slots, hash'[u] # NoKey,
                      OnPath(home[hash'[u]], t, u), hash'[t] = NoKey
               PROVE  t = s /\ Ahead(s, s) < Ahead(s, u)
    BY <1>1, <1>2 DEF Paths
  <2>1. u # s /\ hash'[u] = hash[u]
    BY <1>3
  <2>2. t = s
    BY <1>2, <1>3, <2>1 DEF Inv, Paths
  <2>3. Ahead(s, s) < Ahead(s, u)
    BY <2>1, OthersAhead
  <2> QED
    BY <2>2, <2>3
<1>6. Keys'
  BY <1>1, <1>2, <1>3 DEF Inv, Keys
<1>7. Looked'
  <2>1. \A t \in Slots : t # s => ~(Ahead(s, t) <= Ahead(s, s))
    BY OthersAhead
  <2> QED
    BY <1>1, <1>3, <2>1 DEF Looked
<1> QED
  BY <1>4, <1>5, <1>6, <1>7 DEF Inv

\* A round of the loop: a key it leaves has a path without the hole, and one it
\* moves into the hole has the part of its path that led there.
LEMMA MoveInv == ASSUME Inv, MoveBack PROVE Inv'
<1> DEFINE j == After(at)
<1>1. /\ pc = "moving" /\ UNCHANGED <<home, tracked>>
      /\ hole \in Slots /\ at \in Slots /\ j \in Slots
      /\ hash[hole] = NoKey
  BY Around DEF MoveBack, Inv, TypeOK, Looked
<1>2. \A s, t \in Slots : Ahead(s, t) \in Int
  BY Around DEF Slots
<1>3. CASE hash[j] = NoKey
  <2>1. pc' = "idle" /\ hole' = 0 /\ at' = 0 /\ hash' = hash
    BY <1>3 DEF MoveBack
  <2>2. Paths'
    <3> SUFFICES ASSUME NEW s \in Slots, NEW t \in Slots, hash[s] # NoKey,
                        OnPath(home[hash[s]], t, s), hash[t] = NoKey
                 PROVE  FALSE
      BY <1>1, <2>1 DEF Paths
    <3>1. t = hole /\ Ahead(hole, at) < Ahead(hole, s)
      BY DEF Inv, Paths
    <3>2. home[hash[s]] \in Slots
      BY DEF Inv, TypeOK
    <3>3. j # hole
      BY <1>1, <3>1, AfterAhead, Around, HashAssumption DEF Slots
    <3>4. Ahead(hole, j) = Ahead(hole, at) + 1
      BY <1>1, <3>3, AfterAhead
    <3>5. Ahead(hole, j) # Ahead(hole, s)
      BY <1>1, <1>3, HashAssumption DEF Ahead, Slots
    <3>6. Ahead(hole, j) < Ahead(hole, s)
      BY <1>1, <1>2, <3>1, <3>4, <3>5
    <3>7. OnPath(home[hash[s]], j, s)
      BY <1>1, <3>1, <3>2, <3>6, PathThrough
    <3> QED
      BY <1>1, <1>3, <3>3, <3>7 DEF Inv, Paths
  <2> QED
    BY <1>1, <2>1, <2>2, HashAssumption DEF Inv, TypeOK, Keys, Looked, Slots
<1>4. CASE hash[j] # NoKey
  <2>1. j # hole /\ Ahead(hole, j) = Ahead(hole, at) + 1
    BY <1>1, <1>4, AfterAhead
  <2>2. home[hash[j]] \in Slots
    BY <1>1, <1>4 DEF Inv, TypeOK
  <2>3. at' = j /\ pc' = "moving"
    BY <1>1, <1>4 DEF MoveBack
  <2>4. CASE KeepsPlace(hole, j, home[hash[j]])
    <3>1. hash' = hash /\ hole' = hole
      BY <1>4, <2>4 DEF MoveBack
    <3>2. Paths'
      <4> SUFFICES ASSUME NEW s \in Slots, NEW t \in Slots, hash[s] # NoKey,
                          OnPath(home[hash[s]], t, s), hash[t] = NoKey
                   PROVE  t = hole /\ Ahead(hole, j) < Ahead(hole, s)
        BY <1>1, <2>3, <3>1 DEF Paths
      <4>1. t = hole /\ Ahead(hole, at) < Ahead(hole, s)
        BY DEF Inv, Paths
      <4>2. s # j
        BY <1>1, <2>1, <2>2, <2>4, <4>1, PlaceKept
      <4>3. Ahead(hole, j) # Ahead(hole, s)
        BY <1>1, <4>2, HashAssumption DEF Ahead, Slots
      <4> QED
        BY <1>1, <1>2, <2>1, <4>1, <4>3
    <3>3. Looked'
      <4> SUFFICES ASSUME NEW t \in Slots, t # hole,
                          Ahead(hole, t) <= Ahead(hole, j)
                   PROVE  hash[t] # NoKey
        BY <1>1, <2>3, <3>1 DEF Looked
      <4>1. t = j \/ Ahead(hole, t) # Ahead(hole, j)
        BY <1>1, HashAssumption DEF Ahead, Slots
      <4>2. t = j \/ Ahead(hole, t) <= Ahead(hole, at)
        BY <1>1, <1>2, <2>1, <4>1
      <4> QED
        BY <1>1, <1>4, <4>2 DEF Inv, Looked
    <3> QED
      BY <1>1, <2>3, <3>1, <3>2, <3>3 DEF Inv, TypeOK, Keys
  <2>5. CASE ~KeepsPlace(hole, j, home[hash[j]])
    <3>1. hash' = [hash EXCEPT ![hole] = hash[j], ![j] = NoKey] /\ hole' = j
      BY <1>4, <2>5 DEF MoveBack
    <3>2. \A t \in Slots : hash'[t] = IF t = j THEN NoKey
                                      ELSE IF t = hole THEN hash[j] ELSE hash[t]
      BY <1>1, <2>1, <3>1 DEF Inv, TypeOK
    <3>3. OnPath(home[hash[j]], hole, j)
      BY <1>1, <2>1, <2>2, <2>5, PlaceKept
    <3>4. TypeOK'
      BY <1>1, <2>3, <3>1 DEF Inv, TypeOK
    <3>5. Paths'
      <4> SUFFICES ASSUME NEW s \in Slots, NEW t \in Slots, hash'[s] # NoKey,
                          OnPath(home[hash'[s]], t, s), hash'[t] = NoKey
                   PROVE  t = j /\ Ahead(j, j) < Ahead(j, s)
        BY <1>1, <2>3, <3>1 DEF Paths
      <4>1. s # j
        BY <3>2
      <4>2. t = j
        <5>1. SUFFICES ASSUME t # j PROVE FALSE
          OBVIOUS
        <5>2. t # hole /\ hash[t] = NoKey
          BY <1>4, <3>2, <5>1
        <5>3. CASE s = hole
          <6>1. OnPath(home[hash[j]], t, j)
            BY <1>1, <2>2, <3>2, <3>3, <4>1, <5>3, PathShorter
          <6> QED
            BY <1>1, <1>4, <5>2, <6>1 DEF Inv, Paths
        <5>4. CASE s # hole
          BY <3>2, <4>1, <5>2, <5>4 DEF Inv, Paths
        <5> QED
          BY <5>3, <5>4
      <4>3. Ahead(j, j) < Ahead(j, s)
        BY <1>1, <4>1, OthersAhead
      <4> QED
        BY <4>2, <4>3
    <3>6. Keys'
      BY <1>1, <1>4, <2>1, <3>2 DEF Inv, Keys
    <3>7. Looked'
      <4>1. \A t \in Slots : t # j => ~(Ahead(j, t) <= Ahead(j, j))
        BY <1>1, OthersAhead
      <4>2. hash'[j] = NoKey
        BY <1>1, <3>2
      <4> QED
        BY <2>3, <3>1, <4>1, <4>2 DEF Looked
    <3> QED
      BY <3>4, <3>5, <3>6, <3>7 DEF Inv
  <2> QED
    BY <2>4, <2>5
<1> QED
  BY <1>3, <1>4

\* Every step keeps the invariant.
LEMMA NextInv == Inv /\ [Next]_vars => Inv'
<1> SUFFICES ASSUME Inv, [Next]_vars PROVE Inv'
  OBVIOUS
<1>1. CASE UNCHANGED vars
  BY <1>1 DEF vars, Inv, TypeOK, Paths, Keys, Looked
<1> QED
  BY <1>1, AddInv, RemoveInv, MoveInv DEF Next

\* The invariant holds in every state of the hash.
THEOREM HashInvariant == Spec => []Inv
<1> QED
  BY InitInv, NextInv, PTL DEF Spec

\* FindsTracked, for any table size and hash function: between the ring's calls
\* lion_ring_find() finds exactly the blocks that are tracked.
THEOREM HashFinds == Spec => []FindsTracked
<1>1. Inv => FindsTracked
  <2> SUFFICES ASSUME Inv, pc = "idle"
               PROVE  \A b \in tracked : \E s \in Slots : hash[s] = b /\ Reached(b, s)
    BY DEF FindsTracked, Inv, Keys
  <2>1. TAKE b \in tracked
  <2>2. PICK s \in Slots : hash[s] = b
    BY DEF Inv, Keys
  <2>3. b # NoKey
    BY HashAssumption DEF Inv, TypeOK
  <2>4. Reached(b, s)
    BY <2>2, <2>3 DEF Inv, Paths, OnPath, Reached
  <2> QED
    BY <2>2, <2>4
<1> QED
  BY <1>1, HashInvariant, PTL

-----------------------------------------------------------------------------
(* The visibility cache: heap pages.                                       *)

\* the values of a line pointer's fields when transaction n writes next
Lines(n) == [kind : {"unused", "dead", "redirect", "root", "heaponly"},
             xmin : 0 .. n - 1, xmax : (1 .. n - 1) \cup {NoXid},
             next : Lps \cup {NoLp}]

\* no two versions of a page have one writer, or one updater
OneWriter(page) ==
  \A i, j \in Versions(page) :
    \/ page[i].xmin = page[j].xmin
    \/ page[i].xmax = page[j].xmax /\ page[i].xmax # NoXid
    => i = j

\* only a committed version is updated, and by a later transaction
Updated(page, done) ==
  \A i \in Versions(page) :
    /\ page[i].next # NoLp => page[i].xmax # NoXid
    /\ page[i].xmax # NoXid => /\ page[i].xmin \in done \cup {Frozen}
                               /\ page[i].xmin < page[i].xmax

\* a redirect leads to a committed heap-only version, which no other leads to,
\* and no chain goes on into another one's first version
Led(page, done) ==
  /\ \A o \in Lps : page[o].kind = "redirect" =>
       /\ page[o].next \in Lps
       /\ page[page[o].next].kind = "heaponly"
       /\ page[page[o].next].xmin \in done
       /\ \A q \in Lps : page[q].kind = "redirect" /\ page[q].next = page[o].next => q = o
  /\ \A o \in Lps, i \in Versions(page) :
       page[o].kind \in {"root", "redirect"} => page[i].xmax # page[Leads(page, o)].xmin

Sound(page, n, done) ==
  /\ n \in 1 .. NoXid
  /\ done \subseteq 1 .. n - 1
  /\ page \in [Lps -> Lines(n)]
  /\ OneWriter(page)
  /\ Updated(page, done)
  /\ Led(page, done)

Transactions ==
  /\ nextxid \in 1 .. NoXid
  /\ committed \subseteq 1 .. nextxid - 1
  /\ aborted \subseteq 1 .. nextxid - 1
  /\ committed \cap aborted = {}

\* what the node's snapshot sees had committed, and what had ended is in it
Seeing ==
  /\ snapshot \subseteq committed \cup {Frozen}
  /\ xmin \in 1 .. nextxid
  /\ \A x \in 1 .. xmin - 1 : x \in snapshot \cup aborted
  /\ \A p \in Pages : Visible(heap[p], snapshot) = seen[p]

Cached ==
  /\ entries \in [DOMAIN entries -> [filled : BOOLEAN, vis : SUBSET Lps]]
  /\ DOMAIN entries \subseteq HeapBlocks
  /\ \A b \in DOMAIN entries : entries[b].filled =>
       node # None /\ relid \in Rels /\ entries[b].vis = seen[<<relid, b>>]

VisInv ==
  /\ Transactions
  /\ heap \in [Pages -> [Lps -> Lines(nextxid)]]
  /\ \A p \in Pages : Sound(heap[p], nextxid, committed)
  /\ node \in {None, "idle", "count"}
  /\ node # None => Seeing
  /\ Cached
  /\ todo \subseteq HeapBlocks
  /\ node = "count" => relid \in Rels

-----------------------------------------------------------------------------
(* Chains of a sound page.                                                 *)

\* The numbers of transactions and of line pointers.
LEMMA Sizes ==
  /\ NoXid \in Nat \ {0}
  /\ Xids = 1 .. NoXid - 1
  /\ NoLp \in Nat \ {0}
  /\ Lps = 1 .. NoLp - 1
<1>1. Cardinality(Xids) \in Nat /\ Cardinality(Lps) \in Nat
  BY XidsAssumption, LpsAssumption, FS_CardinalityType
<1> QED
  BY <1>1, XidsAssumption, LpsAssumption DEF NoXid, NoLp

\* Any set of naturals that is not empty has a least one.
LEMMA LeastNumber ==
  ASSUME NEW T \in SUBSET Nat, T # {}
  PROVE  \E n \in T : \A m \in T : n <= m
<1>1. PICK n \in T : \A m \in T : ~(<<m, n>> \in OpToRel(<, Nat))
  BY NatLessThanWellFounded, WFMin
<1>2. \A m \in T : ~(m < n)
  BY <1>1 DEF OpToRel
<1> QED
  BY <1>2

\* The fields of a sound page's line pointers.
LEMMA Fields ==
  ASSUME NEW page, NEW n, NEW done, Sound(page, n, done), NEW i \in Lps
  PROVE  /\ n \in Nat \ {0} /\ NoXid \in Nat /\ n <= NoXid
         /\ page[i].kind \in {"unused", "dead", "redirect", "root", "heaponly"}
         /\ page[i].xmin \in 0 .. n - 1
         /\ page[i].xmax \in (1 .. n - 1) \cup {NoXid}
         /\ page[i].next \in Lps \cup {NoLp}
         /\ NoLp \notin Lps
<1>1. page[i] \in Lines(n)
  BY DEF Sound
<1> QED
  BY <1>1, Sizes DEF Lines, Sound

\* A root or a redirect leads to a version.
LEMMA LeadsVersion ==
  ASSUME NEW page, NEW n, NEW done, Sound(page, n, done), NEW o \in Lps,
         page[o].kind \in {"root", "redirect"}
  PROVE  Leads(page, o) \in Versions(page)
<1>1. CASE page[o].kind = "root"
  BY <1>1 DEF Leads, Versions, Version
<1>2. CASE page[o].kind = "redirect"
  BY <1>2 DEF Leads, Versions, Version, Sound, Led
<1> QED
  BY <1>1, <1>2

\* What follows a version is the one its updater wrote, later than it.
LEMMA HopIs ==
  ASSUME NEW page, NEW n, NEW done, Sound(page, n, done),
         NEW i \in Versions(page), Followed(page, i)
  PROVE  /\ page[i].next \in Versions(page)
         /\ page[page[i].next].xmin = page[i].xmax
         /\ page[i].xmax \in 1 .. n - 1
         /\ page[i].xmin < page[i].xmax
         /\ page[i].xmin \in done \cup {Frozen}
<1>1. i \in Lps /\ page[i].next \in Lps
  BY Fields DEF Versions, Followed
<1>2. page[i].xmax # NoXid
  BY DEF Sound, Updated, Followed
<1>3. page[i].xmax \in 1 .. n - 1
  BY <1>1, <1>2, Fields
<1> QED
  BY <1>1, <1>2, <1>3 DEF Sound, Updated, Followed, Versions

\* No two versions are followed by one.
LEMMA FollowedOnce ==
  ASSUME NEW page, NEW n, NEW done, Sound(page, n, done),
         NEW i \in Versions(page), NEW k \in Versions(page),
         Followed(page, i), Followed(page, k), page[i].next = page[k].next
  PROVE  i = k
<1>1. page[i].xmax = page[k].xmax /\ page[i].xmax # NoXid
  BY HopIs DEF Sound, Updated, Followed
<1> QED
  BY <1>1 DEF Sound, OneWriter

\* A chain has its first version and what follows its versions, and is in
\* every set that has those.
LEMMA ChainIs ==
  ASSUME NEW page, NEW n, NEW done, Sound(page, n, done), NEW o \in Lps,
         page[o].kind \in {"root", "redirect"}
  PROVE  /\ Leads(page, o) \in Chain(page, o)
         /\ Chain(page, o) \subseteq Versions(page)
         /\ \A i \in Chain(page, o) : Followed(page, i) => page[i].next \in Chain(page, o)
         /\ \A S : /\ Leads(page, o) \in S
                   /\ \A i \in S \cap Versions(page) :
                        Followed(page, i) => page[i].next \in S
                   => Chain(page, o) \subseteq S
<1>1. Leads(page, o) \in Versions(page)
  BY LeadsVersion
<1>2. \A i \in Versions(page) : Followed(page, i) => page[i].next \in Versions(page)
  BY HopIs
<1>3. Leads(page, o) \in Chain(page, o)
  BY <1>1 DEF Chain
<1>4. Chain(page, o) \subseteq Versions(page)
  BY DEF Chain
<1>5. ASSUME NEW i \in Chain(page, o), Followed(page, i)
      PROVE  page[i].next \in Chain(page, o)
  <2>1. i \in Versions(page) /\ page[i].next \in Versions(page)
    BY <1>2, <1>4, <1>5
  <2>2. ASSUME NEW S \in SUBSET Versions(page), Leads(page, o) \in S,
               \A k \in S : Followed(page, k) => page[k].next \in S
        PROVE  page[i].next \in S
    BY <1>5, <2>2 DEF Chain
  <2> QED
    BY <2>1, <2>2 DEF Chain
<1>6. ASSUME NEW S, Leads(page, o) \in S,
             \A i \in S \cap Versions(page) : Followed(page, i) => page[i].next \in S
      PROVE  Chain(page, o) \subseteq S
  <2> DEFINE T == S \cap Versions(page)
  <2>1. Leads(page, o) \in T /\ T \in SUBSET Versions(page)
    BY <1>1, <1>6
  <2>2. \A i \in T : Followed(page, i) => page[i].next \in T
    BY <1>2, <1>6
  <2>3. Chain(page, o) \subseteq T
    BY <2>1, <2>2 DEF Chain
  <2> QED
    BY <2>3
<1> QED
  BY <1>3, <1>4, <1>5, <1>6

\* What is neither a root nor a redirect has no chain.
LEMMA NoChain ==
  ASSUME NEW page, NEW o, page[o].kind \notin {"root", "redirect"}
  PROVE  Chain(page, o) = {}
BY DEF Chain

\* A chain begins with its oldest version, and each other one follows one.
LEMMA ChainFirst ==
  ASSUME NEW page, NEW n, NEW done, Sound(page, n, done), NEW o \in Lps,
         page[o].kind \in {"root", "redirect"}, NEW i \in Chain(page, o),
         i # Leads(page, o)
  PROVE  /\ page[Leads(page, o)].xmin < page[i].xmin
         /\ \E k \in Chain(page, o) : Followed(page, k) /\ page[k].next = i
<1> DEFINE s == Leads(page, o)
           S == {s} \cup {j \in Chain(page, o) :
                  /\ page[s].xmin < page[j].xmin
                  /\ \E k \in Chain(page, o) : Followed(page, k) /\ page[k].next = j}
<1>1. s \in Chain(page, o) /\ Chain(page, o) \subseteq Versions(page)
  BY ChainIs
<1>2. S \subseteq Chain(page, o)
  BY <1>1
<1>3. ASSUME NEW j \in S \cap Versions(page), Followed(page, j) PROVE page[j].next \in S
  <2>1. j \in Chain(page, o) /\ page[j].next \in Chain(page, o)
    BY <1>2, <1>3, ChainIs
  <2>2. page[j].next \in Versions(page) /\ page[j].xmin < page[page[j].next].xmin
    BY <1>3, HopIs
  <2>3. j = s \/ page[s].xmin < page[j].xmin
    BY <1>3
  <2>4. j \in Lps /\ s \in Lps /\ page[j].next \in Lps
    BY <1>1, <1>3, <2>2 DEF Versions
  <2>5. page[s].xmin \in Nat /\ page[j].xmin \in Nat /\ page[page[j].next].xmin \in Nat
    BY <2>4, Fields
  <2>6. page[s].xmin < page[page[j].next].xmin
    BY <2>2, <2>3, <2>5
  <2> QED
    BY <1>3, <2>1, <2>6
<1>4. s \in S
  OBVIOUS
<1>5. Chain(page, o) \subseteq S
  <2> HIDE DEF S
  <2> QED
    BY <1>3, <1>4, ChainIs
<1> QED
  BY <1>5

\* A chain goes from each of its versions to the next newer one: none lies
\* between a version and the one that follows it.
LEMMA ChainLinear ==
  ASSUME NEW page, NEW n, NEW done, Sound(page, n, done), NEW o \in Lps,
         page[o].kind \in {"root", "redirect"},
         NEW i \in Chain(page, o), NEW j \in Chain(page, o),
         page[i].xmin < page[j].xmin
  PROVE  Followed(page, i) /\ page[page[i].next].xmin <= page[j].xmin
<1> DEFINE chain == Chain(page, o)
           s == Leads(page, o)
           Next2(k, m) == page[k].xmin < page[m].xmin =>
                            Followed(page, k) /\ page[page[k].next].xmin <= page[m].xmin
           S == {k \in chain : \A m \in chain : Next2(m, k) /\ Next2(k, m)}
<1>1. s \in chain /\ chain \subseteq Versions(page) /\ chain \subseteq Lps
  BY ChainIs DEF Versions
<1>2. \A k \in chain : page[k].xmin \in Nat
  BY <1>1, Fields
<1>3. \A k \in chain : k = s \/ page[s].xmin < page[k].xmin
  BY ChainFirst
<1>4. \A k \in chain : Followed(page, k) =>
        page[k].next \in chain /\ page[k].xmin < page[page[k].next].xmin
  BY <1>1, ChainIs, HopIs
<1>5. \A k, m \in chain : page[k].xmin = page[m].xmin => k = m
  BY <1>1 DEF Sound, OneWriter
<1>6. \A S2 : s \in S2 /\ (\A k \in S2 \cap Versions(page) : Followed(page, k) => page[k].next \in S2)
        => chain \subseteq S2
  BY ChainIs
<1> HIDE DEF chain, s
<1>7. s \in S
  <2> DEFINE T == {m \in chain : Next2(s, m)}
  <2>1. s \in T
    BY <1>1, <1>2
  <2>2. ASSUME NEW m \in T \cap Versions(page), Followed(page, m) PROVE page[m].next \in T
    <3>1. page[m].next \in chain /\ page[m].xmin < page[page[m].next].xmin
      BY <1>4, <2>2
    <3>2. CASE m = s
      <4>1. Next2(s, page[m].next)
        BY <1>2, <2>2, <3>1, <3>2
      <4> QED
        BY <3>1, <4>1
    <3>3. CASE m # s
      <4>1. page[s].xmin < page[m].xmin /\ m \in chain
        BY <1>3, <2>2, <3>3
      <4>2. Followed(page, s) /\ page[page[s].next].xmin <= page[m].xmin /\ page[s].next \in chain
        BY <1>1, <1>4, <2>2, <4>1
      <4>3. page[page[s].next].xmin <= page[page[m].next].xmin
        BY <1>2, <3>1, <4>1, <4>2
      <4> QED
        BY <3>1, <4>2, <4>3
    <3> QED
      BY <3>2, <3>3
  <2>3. chain \subseteq T
    <3> HIDE DEF T
    <3> QED
      BY <1>6, <2>1, <2>2
  <2>4. \A m \in chain : Next2(m, s)
    BY <1>1, <1>2, <1>3
  <2> QED
    BY <1>1, <2>3, <2>4
<1>8. ASSUME NEW k \in S \cap Versions(page), Followed(page, k) PROVE page[k].next \in S
  <2> DEFINE k2 == page[k].next
             T == {m \in chain : Next2(k2, m)}
  <2>1. k \in chain /\ k2 \in chain /\ page[k].xmin < page[k2].xmin
    BY <1>4, <1>8
  <2>2. \A m \in chain : Next2(m, k) /\ Next2(k, m)
    BY <1>8
  <2> HIDE DEF k2
  <2>3. ASSUME NEW m \in chain, page[m].xmin < page[k2].xmin
        PROVE  Followed(page, m) /\ page[page[m].next].xmin <= page[k2].xmin
    <3>1. CASE page[m].xmin < page[k].xmin
      <4>1. Followed(page, m) /\ page[page[m].next].xmin <= page[k].xmin /\ page[m].next \in chain
        BY <1>4, <2>2, <3>1
      <4> QED
        BY <1>2, <2>1, <4>1
    <3>2. CASE page[m].xmin = page[k].xmin
      <4>1. m = k
        BY <1>5, <2>1, <3>2
      <4> QED
        BY <1>2, <1>8, <2>1, <4>1 DEF k2
    <3>3. CASE page[k].xmin < page[m].xmin
      <4>1. page[k2].xmin <= page[m].xmin
        BY <2>2, <3>3 DEF k2
      <4> QED
        BY <1>2, <2>1, <2>3, <4>1
    <3> QED
      BY <1>2, <2>1, <3>1, <3>2, <3>3
  <2>4. ASSUME NEW m \in T \cap Versions(page), Followed(page, m) PROVE page[m].next \in T
    <3>1. m \in chain /\ page[m].next \in chain /\ page[m].xmin < page[page[m].next].xmin
      BY <1>4, <2>4
    <3>2. CASE page[m].xmin < page[k2].xmin
      <4>1. page[page[m].next].xmin <= page[k2].xmin
        BY <2>3, <3>1, <3>2
      <4>2. Next2(k2, page[m].next)
        BY <1>2, <2>1, <3>1, <4>1
      <4> QED
        BY <3>1, <4>2
    <3>3. CASE page[m].xmin = page[k2].xmin
      <4>1. m = k2
        BY <1>5, <2>1, <3>1, <3>3
      <4>2. Next2(k2, page[m].next)
        BY <1>2, <2>4, <3>1, <4>1
      <4> QED
        BY <3>1, <4>2
    <3>4. CASE page[k2].xmin < page[m].xmin
      <4>1. Followed(page, k2) /\ page[page[k2].next].xmin <= page[m].xmin
        BY <2>4, <3>4
      <4>2. page[k2].next \in chain
        BY <1>4, <2>1, <4>1
      <4>3. page[page[k2].next].xmin <= page[page[m].next].xmin
        BY <1>2, <3>1, <4>1, <4>2
      <4> QED
        BY <3>1, <4>1, <4>3
    <3> QED
      BY <1>2, <2>1, <3>1, <3>2, <3>3, <3>4
  <2>5. s \in T
    BY <1>1, <1>2, <1>3, <2>1
  <2>6. chain \subseteq T
    <3> HIDE DEF T
    <3> QED
      BY <1>6, <2>4, <2>5
  <2>7. k2 \in S
    BY <2>1, <2>3, <2>6
  <2> QED
    BY <2>7 DEF k2
<1>9. chain \subseteq S
  <2> HIDE DEF S
  <2> QED
    BY <1>6, <1>7, <1>8
<1> QED
  BY <1>9 DEF chain

\* No version is of two chains.
LEMMA ChainsApart ==
  ASSUME NEW page, NEW n, NEW done, Sound(page, n, done),
         NEW o \in Lps, NEW q \in Lps, o # q,
         page[o].kind \in {"root", "redirect"},
         page[q].kind \in {"root", "redirect"}
  PROVE  Chain(page, o) \cap Chain(page, q) = {}
<1> DEFINE S == Chain(page, o) \ Chain(page, q)
<1>1. Leads(page, o) # Leads(page, q)
  <2>1. CASE page[o].kind = "root" /\ page[q].kind = "root"
    BY <2>1 DEF Leads
  <2>2. CASE page[o].kind = "redirect" /\ page[q].kind = "redirect"
    BY <2>2 DEF Leads, Sound, Led
  <2>3. CASE page[o].kind = "root" /\ page[q].kind = "redirect"
    BY <2>3 DEF Leads, Sound, Led
  <2>4. CASE page[o].kind = "redirect" /\ page[q].kind = "root"
    BY <2>4 DEF Leads, Sound, Led
  <2> QED
    BY <2>1, <2>2, <2>3, <2>4
<1>2. /\ Chain(page, o) \subseteq Versions(page)
      /\ Chain(page, q) \subseteq Versions(page)
  BY ChainIs
<1>3. ASSUME NEW i \in Versions(page), Followed(page, i)
      PROVE  page[i].next # Leads(page, o) /\ page[i].next # Leads(page, q)
  <2>1. page[page[i].next].xmin = page[i].xmax
    BY <1>3, HopIs
  <2>2. /\ page[i].xmax # page[Leads(page, o)].xmin
        /\ page[i].xmax # page[Leads(page, q)].xmin
    BY DEF Sound, Led
  <2> QED
    BY <2>1, <2>2
<1>4. Leads(page, o) \in S
  <2>1. Leads(page, o) \in Chain(page, o)
    BY ChainIs
  <2>2. ASSUME Leads(page, o) \in Chain(page, q) PROVE FALSE
    <3>1. PICK k \in Chain(page, q) : Followed(page, k) /\ page[k].next = Leads(page, o)
      BY <1>1, <2>2, ChainFirst
    <3> QED
      BY <1>2, <1>3, <3>1
  <2> QED
    BY <2>1, <2>2
<1>5. ASSUME NEW i \in S \cap Versions(page), Followed(page, i) PROVE page[i].next \in S
  <2>1. page[i].next \in Chain(page, o)
    BY <1>5, ChainIs
  <2>2. ASSUME page[i].next \in Chain(page, q) PROVE FALSE
    <3>1. PICK k \in Chain(page, q) : Followed(page, k) /\ page[k].next = page[i].next
      BY <1>3, <1>5, <2>2, ChainFirst
    <3>2. k = i
      BY <1>2, <1>5, <3>1, FollowedOnce
    <3> QED
      BY <1>5, <3>1, <3>2
  <2> QED
    BY <2>1, <2>2
<1>6. Chain(page, o) \subseteq S
  <2> HIDE DEF S
  <2> QED
    BY <1>4, <1>5, ChainIs
<1> QED
  BY <1>6

\* A page answers as another did when the chain covers the other's, but for
\* versions the snapshot does not see.
LEMMA Covers ==
  ASSUME NEW page, NEW n, NEW done, Sound(page, n, done),
         NEW page2, NEW snap, NEW D, NEW o \in Lps,
         page[o].kind \in {"root", "redirect"},
         Leads(page, o) \in Chain(page2, o) \cup D,
         \A k \in (Chain(page2, o) \cup D) \cap Versions(page) :
           Followed(page, k) => page[k].next \in Chain(page2, o) \cup D,
         \A k \in D \cap Versions(page) : ~Satisfies(page[k], snap),
         \A k \in Chain(page2, o) \cap Versions(page) :
           Satisfies(page[k], snap) => Satisfies(page2[k], snap),
         HotSearch(page, o, snap)
  PROVE  HotSearch(page2, o, snap)
<1>1. Chain(page, o) \subseteq Chain(page2, o) \cup D /\ Chain(page, o) \subseteq Versions(page)
  BY ChainIs
<1>2. PICK k \in Chain(page, o) : Satisfies(page[k], snap)
  BY DEF HotSearch
<1> QED
  BY <1>1, <1>2 DEF HotSearch

\* Without a chain there is nothing to see.
LEMMA NothingThere ==
  ASSUME NEW page, NEW o, NEW snap, page[o].kind \notin {"root", "redirect"}
  PROVE  ~HotSearch(page, o, snap)
BY NoChain DEF HotSearch

-----------------------------------------------------------------------------
(* Writing: an insert, a delete or an update of a page, by transaction x:  *)
(* the line pointer it writes to, if any, and the version it ends, if any. *)

Written(page, old, new, x) ==
  [i \in Lps |->
     IF i = new THEN Line(IF old = NoLp THEN "root" ELSE "heaponly", x, NoXid, NoLp)
     ELSE IF i = old THEN [page[i] EXCEPT !.xmax = x, !.next = new]
     ELSE page[i]]

MayWrite(page, old, new, x, done, failed) ==
  /\ x \in Xids
  /\ failed \subseteq 1 .. x - 1
  /\ failed \cap done = {}
  /\ old \in Lps \cup {NoLp}
  /\ new \in Lps \cup {NoLp}
  /\ old # new
  /\ new # NoLp => page[new] = Unused
  /\ old # NoLp => /\ Version(page[old])
                   /\ page[old].xmin \in done \cup {Frozen}
                   /\ page[old].xmax \in failed \cup {NoXid}

\* What is on the page after it is written to.
LEMMA WrittenIs ==
  ASSUME NEW page, NEW x, NEW done, Sound(page, x, done),
         NEW failed, NEW old, NEW new, MayWrite(page, old, new, x, done, failed),
         NEW page2, page2 = Written(page, old, new, x)
  PROVE  /\ x \in Nat \ {0} /\ x < NoXid /\ NoLp \notin Lps
         /\ \A i \in Lps : i # old /\ i # new => page2[i] = page[i]
         /\ new \in Lps => /\ page2[new].kind = (IF old = NoLp THEN "root" ELSE "heaponly")
                           /\ page2[new].xmin = x
                           /\ page2[new].xmax = NoXid
                           /\ page2[new].next = NoLp
                           /\ page[new].kind = "unused"
         /\ old \in Lps => /\ page2[old].kind = page[old].kind
                           /\ page2[old].xmin = page[old].xmin
                           /\ page2[old].xmax = x
                           /\ page2[old].next = new
                           /\ page[old].kind \in {"root", "heaponly"}
                           /\ page[old].xmin \in done \cup {Frozen}
                           /\ page[old].xmax \in failed \cup {NoXid}
         /\ page2 \in [Lps -> Lines(x + 1)]
         /\ Versions(page2) = Versions(page) \cup ({new} \cap Lps)
         /\ new \notin Versions(page)
         /\ old \in Lps => old \in Versions(page)
<1>1. x \in Nat \ {0} /\ x < NoXid /\ NoLp \notin Lps
  BY Sizes DEF MayWrite
<1>2. \A i \in Lps : i # old /\ i # new => page2[i] = page[i]
  BY DEF Written
<1>3. new \in Lps => /\ page2[new].kind = (IF old = NoLp THEN "root" ELSE "heaponly")
                     /\ page2[new].xmin = x
                     /\ page2[new].xmax = NoXid
                     /\ page2[new].next = NoLp
                     /\ page[new].kind = "unused"
  <2> SUFFICES ASSUME new \in Lps
               PROVE  /\ page2[new].kind = (IF old = NoLp THEN "root" ELSE "heaponly")
                      /\ page2[new].xmin = x
                      /\ page2[new].xmax = NoXid
                      /\ page2[new].next = NoLp
                      /\ page[new].kind = "unused"
    OBVIOUS
  <2>1. PICK kind : kind = (IF old = NoLp THEN "root" ELSE "heaponly")
    OBVIOUS
  <2>2. page2[new] = Line(kind, x, NoXid, NoLp)
    BY <2>1 DEF Written
  <2>3. page[new] = Unused
    BY <1>1 DEF MayWrite
  <2> QED
    BY <2>1, <2>2, <2>3 DEF Line, Unused
<1>4. \A i \in Lps : /\ page[i] \in Lines(x)
                     /\ page[i].kind \in {"unused", "dead", "redirect", "root", "heaponly"}
                     /\ page[i].xmin \in 0 .. x - 1
                     /\ page[i].xmax \in (1 .. x - 1) \cup {NoXid}
                     /\ page[i].next \in Lps \cup {NoLp}
  BY Fields DEF Sound
<1>5. old \in Lps => page2[old] = [page[old] EXCEPT !.xmax = x, !.next = new]
  BY DEF Written, MayWrite
<1>6. old \in Lps => /\ page2[old].kind = page[old].kind
                     /\ page2[old].xmin = page[old].xmin
                     /\ page2[old].xmax = x
                     /\ page2[old].next = new
  BY <1>4, <1>5 DEF Lines
<1>7. old \in Lps => /\ page[old].kind \in {"root", "heaponly"}
                     /\ page[old].xmin \in done \cup {Frozen}
                     /\ page[old].xmax \in failed \cup {NoXid}
  BY <1>1 DEF MayWrite, Version
<1>8. page2 \in [Lps -> Lines(x + 1)]
  <2>1. ASSUME NEW i \in Lps PROVE page2[i] \in Lines(x + 1)
    <3>1. 0 .. x - 1 \subseteq 0 .. x + 1 - 1 /\ 1 .. x - 1 \subseteq 1 .. x + 1 - 1
          /\ x \in 0 .. x + 1 - 1 /\ x \in 1 .. x + 1 - 1
      BY <1>1
    <3>2. page[i] \in Lines(x + 1)
      BY <1>4, <3>1 DEF Lines
    <3>3. CASE i = new
      <4>1. PICK kind : kind = (IF old = NoLp THEN "root" ELSE "heaponly")
        OBVIOUS
      <4>2. page2[i] = [kind |-> kind, xmin |-> x, xmax |-> NoXid, next |-> NoLp]
        BY <3>3, <4>1 DEF Written, Line
      <4>3. kind \in {"unused", "dead", "redirect", "root", "heaponly"}
        BY <4>1
      <4> QED
        BY <3>1, <4>2, <4>3 DEF Lines
    <3>4. CASE i = old /\ i # new
      <4>1. page2[i] = [kind |-> page[i].kind, xmin |-> page[i].xmin, xmax |-> x, next |-> new]
        BY <1>4, <1>5, <3>4 DEF Lines
      <4>2. new \in Lps \cup {NoLp} /\ page[i].xmin \in 0 .. x + 1 - 1
        BY <1>4, <3>1 DEF MayWrite
      <4> QED
        BY <1>4, <3>1, <4>1, <4>2 DEF Lines
    <3>5. CASE i # old /\ i # new
      BY <1>2, <3>2, <3>5
    <3> QED
      BY <3>3, <3>4, <3>5
  <2> QED
    BY <2>1 DEF Written
<1>9. new \notin Versions(page)
  BY <1>3 DEF Versions, Version
<1>10. Versions(page2) = Versions(page) \cup ({new} \cap Lps)
  BY <1>2, <1>3, <1>6 DEF Versions, Version
<1>11. old \in Lps => old \in Versions(page)
  BY <1>7 DEF Versions, Version
<1> QED
  BY <1>1, <1>2, <1>3, <1>6, <1>7, <1>8, <1>9, <1>10, <1>11

\* A page that is written to stays sound.
LEMMA WrittenSound ==
  ASSUME NEW page, NEW x, NEW done, Sound(page, x, done),
         NEW failed, NEW old, NEW new, MayWrite(page, old, new, x, done, failed),
         NEW page2, page2 = Written(page, old, new, x)
  PROVE  Sound(page2, x + 1, done)
<1>1. /\ x \in Nat \ {0} /\ x < NoXid /\ NoLp \notin Lps /\ NoXid \in Nat
      /\ page2 \in [Lps -> Lines(x + 1)]
      /\ Versions(page2) = Versions(page) \cup ({new} \cap Lps)
      /\ new \notin Versions(page)
      /\ old \in Lps \cup {NoLp} /\ new \in Lps \cup {NoLp} /\ old # new
      /\ Versions(page) \subseteq Lps
  <2>1. /\ x \in Nat \ {0} /\ x < NoXid /\ NoLp \notin Lps
        /\ page2 \in [Lps -> Lines(x + 1)]
        /\ Versions(page2) = Versions(page) \cup ({new} \cap Lps)
        /\ new \notin Versions(page)
    BY WrittenIs
  <2>2. NoXid \in Nat
    BY Sizes
  <2>3. old \in Lps \cup {NoLp} /\ new \in Lps \cup {NoLp} /\ old # new
    BY DEF MayWrite
  <2> QED
    BY <2>1, <2>2, <2>3 DEF Versions
<1>2. \A i \in Lps : i # old /\ i # new => page2[i] = page[i]
  BY WrittenIs
<1>3. new \in Lps => /\ page2[new].kind = (IF old = NoLp THEN "root" ELSE "heaponly")
                     /\ page2[new].xmin = x
                     /\ page2[new].xmax = NoXid
                     /\ page2[new].next = NoLp
                     /\ page[new].kind = "unused"
  BY WrittenIs
<1>4. old \in Lps => /\ page2[old].kind = page[old].kind
                     /\ page2[old].xmin = page[old].xmin
                     /\ page2[old].xmax = x
                     /\ page2[old].next = new
                     /\ page[old].kind \in {"root", "heaponly"}
                     /\ page[old].xmin \in done \cup {Frozen}
  BY WrittenIs
<1>5. \A i \in Lps : /\ page[i].xmin \in 0 .. x - 1
                     /\ page[i].xmax \in (1 .. x - 1) \cup {NoXid}
  BY Fields
<1>6. done \subseteq 1 .. x - 1
  BY DEF Sound
<1>7. x + 1 \in 1 .. NoXid /\ done \subseteq 1 .. x + 1 - 1
  BY <1>1, <1>6
<1>8. ASSUME NEW i \in Versions(page)
      PROVE  /\ page2[i].kind = page[i].kind
             /\ page2[i].xmin = page[i].xmin /\ page[i].xmin # x
             /\ page[i].xmax # x
             /\ IF i = old THEN page2[i].xmax = x /\ page2[i].next = new
                ELSE page2[i].xmax = page[i].xmax /\ page2[i].next = page[i].next
  BY <1>1, <1>2, <1>4, <1>5
<1>9. OneWriter(page2)
  <2> SUFFICES ASSUME NEW i \in Versions(page2), NEW j \in Versions(page2),
                      \/ page2[i].xmin = page2[j].xmin
                      \/ page2[i].xmax = page2[j].xmax /\ page2[i].xmax # NoXid
               PROVE  i = j
    BY DEF OneWriter
  <2>1. CASE i \in Versions(page) /\ j \in Versions(page)
    BY <1>8, <2>1 DEF Sound, OneWriter
  <2>2. CASE i = new /\ j \in Versions(page)
    BY <1>1, <1>3, <1>8, <2>2
  <2>3. CASE j = new /\ i \in Versions(page)
    BY <1>1, <1>3, <1>8, <2>3
  <2> QED
    BY <1>1, <2>1, <2>2, <2>3
<1>10. Updated(page2, done)
  <2> SUFFICES ASSUME NEW i \in Versions(page2)
               PROVE  /\ page2[i].next # NoLp => page2[i].xmax # NoXid
                      /\ page2[i].xmax # NoXid => /\ page2[i].xmin \in done \cup {Frozen}
                                                  /\ page2[i].xmin < page2[i].xmax
    BY DEF Updated
  <2>1. CASE i = new
    BY <1>1, <1>3, <2>1
  <2>2. CASE i \in Versions(page) /\ i # old
    BY <1>8, <2>2 DEF Sound, Updated
  <2>3. CASE i \in Versions(page) /\ i = old
    <3>1. page2[i].xmax = x /\ page2[i].xmin = page[i].xmin /\ page[i].xmin \in 0 .. x - 1
      BY <1>1, <1>4, <1>5, <2>3
    <3>2. page[i].xmin \in done \cup {Frozen}
      BY <1>1, <1>4, <2>3
    <3> QED
      BY <1>1, <3>1, <3>2
  <2> QED
    BY <1>1, <2>1, <2>2, <2>3
<1>11. Led(page2, done)
  <2>1. \A o \in Lps : page2[o].kind = "redirect" => page[o].kind = "redirect" /\ page2[o] = page[o]
    BY <1>2, <1>3, <1>4
  <2>2. ASSUME NEW o \in Lps, page2[o].kind = "redirect"
        PROVE  /\ page2[o].next \in Lps
               /\ page2[page2[o].next].kind = "heaponly"
               /\ page2[page2[o].next].xmin \in done
               /\ \A q \in Lps : page2[q].kind = "redirect" /\ page2[q].next = page2[o].next => q = o
    <3>1. /\ page[o].next \in Lps
          /\ page[page[o].next].kind = "heaponly"
          /\ page[page[o].next].xmin \in done
          /\ \A q \in Lps : page[q].kind = "redirect" /\ page[q].next = page[o].next => q = o
      BY <2>1, <2>2 DEF Sound, Led
    <3>2. page[o].next \in Versions(page)
      BY <3>1 DEF Versions, Version
    <3> QED
      BY <1>8, <2>1, <2>2, <3>1, <3>2
  <2>3. ASSUME NEW o \in Lps, NEW i \in Versions(page2), page2[o].kind \in {"root", "redirect"}
        PROVE  page2[i].xmax # page2[Leads(page2, o)].xmin
    <3>1. CASE o = new
      <4>1. Leads(page2, o) = new /\ page2[new].xmin = x /\ old = NoLp
        BY <1>3, <2>3, <3>1 DEF Leads
      <4>2. page2[i].xmax # x
        BY <1>1, <1>3, <1>8, <4>1
      <4> QED
        BY <4>1, <4>2
    <3>2. CASE o # new
      <4>1. page[o].kind = page2[o].kind /\ Leads(page2, o) = Leads(page, o)
        BY <1>2, <1>4, <2>1, <3>2 DEF Leads
      <4>2. Leads(page, o) \in Versions(page)
        BY <2>3, <4>1, LeadsVersion
      <4>3. page2[Leads(page2, o)].xmin = page[Leads(page, o)].xmin /\ page[Leads(page, o)].xmin \in 0 .. x - 1
        BY <1>1, <1>5, <1>8, <4>1, <4>2
      <4>4. CASE i = new \/ i = old
        <5>1. page2[i].xmax \in {x, NoXid}
          BY <1>1, <1>3, <1>4, <4>4 DEF Versions
        <5> QED
          BY <1>1, <4>3, <5>1
      <4>5. CASE i # new /\ i # old
        <5>1. i \in Versions(page) /\ page2[i].xmax = page[i].xmax
          BY <1>1, <1>8, <4>5
        <5>2. page[i].xmax # page[Leads(page, o)].xmin
          BY <2>3, <4>1, <5>1 DEF Sound, Led
        <5> QED
          BY <4>3, <5>1, <5>2
      <4> QED
        BY <4>4, <4>5
    <3> QED
      BY <3>1, <3>2
  <2> QED
    BY <2>2, <2>3 DEF Led
<1> QED
  BY <1>1, <1>7, <1>9, <1>10, <1>11 DEF Sound

\* To a snapshot that does not see the writer, nor what failed, a page that
\* is written to is what it was.
LEMMA WrittenRows ==
  ASSUME NEW page, NEW x, NEW done, Sound(page, x, done),
         NEW failed, NEW old, NEW new, MayWrite(page, old, new, x, done, failed),
         NEW page2, page2 = Written(page, old, new, x),
         NEW snap, snap \subseteq done \cup {Frozen}
  PROVE  Visible(page2, snap) = Visible(page, snap)
<1>1. /\ x \in Nat \ {0} /\ x < NoXid /\ NoLp \notin Lps /\ NoXid \in Nat
      /\ Versions(page2) = Versions(page) \cup ({new} \cap Lps)
      /\ new \notin Versions(page)
      /\ old \in Lps \cup {NoLp} /\ new \in Lps \cup {NoLp} /\ old # new
      /\ Versions(page) \subseteq Lps
      /\ failed \subseteq 1 .. x - 1 /\ failed \cap done = {}
      /\ done \subseteq 1 .. x - 1
  <2>1. /\ x \in Nat \ {0} /\ x < NoXid /\ NoLp \notin Lps
        /\ Versions(page2) = Versions(page) \cup ({new} \cap Lps)
        /\ new \notin Versions(page)
    BY WrittenIs
  <2>2. NoXid \in Nat
    BY Sizes
  <2>3. /\ old \in Lps \cup {NoLp} /\ new \in Lps \cup {NoLp} /\ old # new
        /\ failed \subseteq 1 .. x - 1 /\ failed \cap done = {}
    BY DEF MayWrite
  <2>4. done \subseteq 1 .. x - 1
    BY DEF Sound
  <2> QED
    BY <2>1, <2>2, <2>3, <2>4 DEF Versions
<1>2. \A i \in Lps : i # old /\ i # new => page2[i] = page[i]
  BY WrittenIs
<1>3. new \in Lps => /\ page2[new].kind = (IF old = NoLp THEN "root" ELSE "heaponly")
                     /\ page2[new].xmin = x
                     /\ page2[new].next = NoLp
                     /\ page[new].kind = "unused"
  BY WrittenIs
<1>4. old \in Lps => /\ page2[old].kind = page[old].kind
                     /\ page2[old].xmin = page[old].xmin
                     /\ page2[old].xmax = x
                     /\ page2[old].next = new
                     /\ page[old].kind \in {"root", "heaponly"}
                     /\ page[old].xmax \in failed \cup {NoXid}
  BY WrittenIs
<1>5. Sound(page2, x + 1, done)
  BY WrittenSound
<1>6. x \notin snap /\ NoXid \notin snap /\ snap \cap failed = {}
  BY <1>1 DEF Frozen
<1>7. \A i \in Versions(page) : Satisfies(page2[i], snap) <=> Satisfies(page[i], snap)
  BY <1>1, <1>2, <1>4, <1>6 DEF Satisfies
<1>8. ASSUME NEW i \in Versions(page)
      PROVE  page2[i].xmin = page[i].xmin
  BY <1>1, <1>2, <1>4
<1>9. \A i \in Lps : /\ page[i].xmin \in 0 .. x - 1
                     /\ page[i].xmax \in (1 .. x - 1) \cup {NoXid}
  BY Fields
<1>10. ASSUME NEW k \in Versions(page), k # old, Followed(page, k)
       PROVE  Followed(page2, k) /\ page2[k].next = page[k].next
  <2>1. page[k].next \in Versions(page) /\ page2[k] = page[k]
    BY <1>1, <1>2, <1>10, HopIs
  <2>2. page[k].next \in Versions(page2)
    BY <1>1, <2>1
  <2> QED
    BY <1>8, <1>10, <2>1, <2>2 DEF Followed, Versions
<1>11. ASSUME NEW k \in Versions(page), k # old, Followed(page2, k)
       PROVE  Followed(page, k) /\ page2[k].next = page[k].next
  <2>1. page2[k] = page[k] /\ k \in Versions(page2)
    BY <1>1, <1>2, <1>11
  <2>2. page2[k].next \in Versions(page2) /\ page2[page2[k].next].xmin = page[k].xmax
    BY <1>5, <1>11, <2>1, HopIs
  <2>3. page[k].xmax # x
    BY <1>1, <1>9
  <2>4. page2[k].next # new
    BY <1>1, <1>3, <2>2, <2>3, <1>5 DEF Versions
  <2>5. page2[k].next \in Versions(page)
    BY <1>1, <2>2, <2>4
  <2> QED
    BY <1>1, <1>8, <2>1, <2>2, <2>5 DEF Followed, Versions
<1>12. ASSUME NEW o \in Lps PROVE HotSearch(page2, o, snap) <=> HotSearch(page, o, snap)
  <2>1. CASE o = new
    <3>1. ~HotSearch(page, o, snap)
      BY <1>3, <2>1, NothingThere
    <3>2. CASE old # NoLp
      <4>1. page2[o].kind = "heaponly"
        BY <1>3, <2>1, <3>2
      <4> QED
        BY <3>1, <4>1, NothingThere
    <3>3. CASE old = NoLp
      <4>1. page2[o].kind = "root" /\ Leads(page2, o) = o
        BY <1>3, <2>1, <3>3 DEF Leads
      <4>2. PICK S : S = {o}
        OBVIOUS
      <4>3. Chain(page2, o) \subseteq S
        <5>1. \A i \in S : ~Followed(page2, i)
          BY <1>3, <2>1, <4>2 DEF Followed
        <5>2. Leads(page2, o) \in S /\ page2[o].kind \in {"root", "redirect"}
          BY <4>1, <4>2
        <5> QED
          BY <1>5, <5>1, <5>2, ChainIs
      <4>4. ~Satisfies(page2[o], snap)
        BY <1>3, <1>6, <2>1 DEF Satisfies
      <4> QED
        BY <3>1, <4>2, <4>3, <4>4 DEF HotSearch
    <3> QED
      BY <3>2, <3>3
  <2>2. CASE o # new
    <3>1. page2[o].kind = page[o].kind /\ Leads(page2, o) = Leads(page, o)
      BY <1>2, <1>4, <2>2 DEF Leads
    <3>2. CASE page[o].kind \notin {"root", "redirect"}
      BY <3>1, <3>2, NothingThere
    <3>3. CASE page[o].kind \in {"root", "redirect"}
      <4>1. /\ Leads(page, o) \in Chain(page, o)
            /\ Chain(page, o) \subseteq Versions(page)
            /\ \A k \in Chain(page, o) : Followed(page, k) => page[k].next \in Chain(page, o)
        BY <3>3, ChainIs
      <4>2. /\ Leads(page2, o) \in Chain(page2, o)
            /\ Chain(page2, o) \subseteq Versions(page2)
            /\ \A k \in Chain(page2, o) : Followed(page2, k) => page2[k].next \in Chain(page2, o)
        BY <1>5, <3>1, <3>3, ChainIs
      <4>3. ASSUME HotSearch(page, o, snap) PROVE HotSearch(page2, o, snap)
        <5> DEFINE D == {k \in Versions(page) : page[k].xmin \in failed}
        <5>1. ASSUME NEW k \in (Chain(page2, o) \cup D) \cap Versions(page), Followed(page, k)
              PROVE  page[k].next \in Chain(page2, o) \cup D
          <6>1. page[k].xmin \in done \cup {Frozen}
            BY <5>1, HopIs
          <6>2. k \in Chain(page2, o)
            <7>1. \A y \in failed : y \notin done /\ y # Frozen
              BY <1>1 DEF Frozen
            <7> QED
              BY <5>1, <6>1, <7>1
          <6>3. CASE k = old
            <7>1. /\ page[k].next \in Versions(page) /\ page[page[k].next].xmin = page[k].xmax
                  /\ page[k].xmax \in 1 .. x - 1
              BY <5>1, HopIs
            <7>2. page[k].xmax \in failed
              BY <1>1, <1>4, <5>1, <6>3, <7>1
            <7> QED
              BY <7>1, <7>2
          <6>4. CASE k # old
            BY <1>10, <4>2, <5>1, <6>2, <6>4
          <6> QED
            BY <6>3, <6>4
        <5>2. \A k \in D \cap Versions(page) : ~Satisfies(page[k], snap)
          BY <1>6 DEF Satisfies
        <5>3. \A k \in Chain(page2, o) \cap Versions(page) :
                Satisfies(page[k], snap) => Satisfies(page2[k], snap)
          BY <1>7
        <5>4. Leads(page, o) \in Chain(page2, o) \cup D
          BY <3>1, <4>2
        <5> HIDE DEF D
        <5> QED
          BY <3>3, <4>3, <5>1, <5>2, <5>3, <5>4, Covers
      <4>4. ASSUME HotSearch(page2, o, snap) PROVE HotSearch(page, o, snap)
        <5> DEFINE D == {new}
        <5>1. ASSUME NEW k \in (Chain(page, o) \cup D) \cap Versions(page2), Followed(page2, k)
              PROVE  page2[k].next \in Chain(page, o) \cup D
          <6>1. k # new
            BY <1>1, <1>3, <5>1 DEF Followed, Versions
          <6>2. k \in Chain(page, o) /\ k \in Versions(page)
            BY <4>1, <5>1, <6>1
          <6>3. CASE k = old
            BY <1>1, <1>4, <6>2, <6>3
          <6>4. CASE k # old
            BY <1>11, <4>1, <5>1, <6>2, <6>4
          <6> QED
            BY <6>3, <6>4
        <5>2. \A k \in D \cap Versions(page2) : ~Satisfies(page2[k], snap)
          BY <1>3, <1>6 DEF Satisfies, Versions
        <5>3. \A k \in Chain(page, o) \cap Versions(page2) :
                Satisfies(page2[k], snap) => Satisfies(page[k], snap)
          BY <1>7, <4>1
        <5>4. Leads(page2, o) \in Chain(page, o) \cup D
          BY <3>1, <4>1
        <5>5. page2[o].kind \in {"root", "redirect"}
          BY <3>1, <3>3
        <5> HIDE DEF D
        <5> QED
          BY <1>5, <4>4, <5>1, <5>2, <5>3, <5>4, <5>5, Covers
      <4> QED
        BY <4>3, <4>4
    <3> QED
      BY <3>2, <3>3
  <2> QED
    BY <2>1, <2>2
<1> QED
  BY <1>12 DEF Visible

-----------------------------------------------------------------------------
(* Line pointers that come free, of dead rows and of versions that failed. *)

Freed(page, o) == [page EXCEPT ![o] = Unused]

MayFree(page, o, done, failed) ==
  /\ o \in Lps
  /\ failed \cap (done \cup {Frozen}) = {}
  /\ \/ page[o] = Dead
     \/ page[o].kind = "heaponly" /\ page[o].xmin \in failed

\* What is on the page after a line pointer is freed.
LEMMA FreedIs ==
  ASSUME NEW page, NEW n, NEW done, Sound(page, n, done),
         NEW failed, NEW o, MayFree(page, o, done, failed),
         NEW page2, page2 = Freed(page, o)
  PROVE  /\ o \in Lps
         /\ page2 \in [Lps -> Lines(n)]
         /\ page[o].kind \in {"dead", "heaponly"}
         /\ page2[o].kind = "unused"
         /\ \A i \in Lps : i # o => page2[i] = page[i]
         /\ Versions(page2) = Versions(page) \ {o}
         /\ o \in Versions(page) => page[o].xmin \in failed /\ page[o].xmin \notin done \cup {Frozen}
         /\ \A q \in Lps : page[q].kind = "redirect" => page[q].next # o
<1>1. o \in Lps /\ page \in [Lps -> Lines(n)] /\ n \in Nat \ {0} /\ n <= NoXid /\ NoXid \in Nat
  BY Fields DEF MayFree, Sound
<1>2. Unused \in Lines(n) /\ Unused.kind = "unused"
  <2>1. 0 \in 0 .. n - 1
    BY <1>1
  <2> QED
    BY <2>1 DEF Unused, Line, Lines, Frozen
<1>3. page2 \in [Lps -> Lines(n)] /\ page2[o] = Unused /\ \A i \in Lps : i # o => page2[i] = page[i]
  BY <1>1, <1>2 DEF Freed
<1>4. page[o].kind \in {"dead", "heaponly"}
  BY DEF MayFree, Dead, Line
<1>5. o \in Versions(page) => page[o].xmin \in failed /\ page[o].xmin \notin done \cup {Frozen}
  <2>1. \A y \in failed : y \notin done \cup {Frozen}
    BY DEF MayFree
  <2>2. page[o] = Dead => page[o].kind = "dead"
    BY DEF Dead, Line
  <2> QED
    BY <2>1, <2>2 DEF MayFree, Versions, Version
<1>6. Versions(page2) = Versions(page) \ {o}
  BY <1>1, <1>2, <1>3 DEF Versions, Version
<1>7. ASSUME NEW q \in Lps, page[q].kind = "redirect" PROVE page[q].next # o
  <2>1. page[page[q].next].kind = "heaponly" /\ page[page[q].next].xmin \in done /\ page[q].next \in Lps
    BY <1>7 DEF Sound, Led
  <2> QED
    BY <1>5, <2>1 DEF Versions, Version
<1> QED
  BY <1>1, <1>2, <1>3, <1>4, <1>5, <1>6, <1>7

\* A page stays sound as a line pointer of it is freed, ...
LEMMA FreedSound ==
  ASSUME NEW page, NEW n, NEW done, Sound(page, n, done),
         NEW failed, NEW o, MayFree(page, o, done, failed),
         NEW page2, page2 = Freed(page, o)
  PROVE  Sound(page2, n, done)
<1>1. /\ o \in Lps
      /\ page2 \in [Lps -> Lines(n)]
      /\ page[o].kind \in {"dead", "heaponly"}
      /\ page2[o].kind = "unused"
      /\ \A i \in Lps : i # o => page2[i] = page[i]
      /\ Versions(page2) = Versions(page) \ {o}
      /\ \A q \in Lps : page[q].kind = "redirect" => page[q].next # o
  BY FreedIs
<1>2. \A i \in Versions(page2) : i \in Versions(page) /\ page2[i] = page[i]
  BY <1>1 DEF Versions
<1>3. OneWriter(page2)
  BY <1>2 DEF OneWriter, Sound
<1>4. Updated(page2, done)
  BY <1>2 DEF Updated, Sound
<1>5. \A q \in Lps : page2[q].kind \in {"root", "redirect"} => q # o /\ page2[q] = page[q]
  BY <1>1
<1>6. Led(page2, done)
  <2>1. ASSUME NEW q \in Lps, page2[q].kind = "redirect"
        PROVE  /\ page2[q].next \in Lps
               /\ page2[page2[q].next].kind = "heaponly"
               /\ page2[page2[q].next].xmin \in done
               /\ \A r \in Lps : page2[r].kind = "redirect" /\ page2[r].next = page2[q].next => r = q
    <3>1. /\ page[q].next \in Lps
          /\ page[page[q].next].kind = "heaponly"
          /\ page[page[q].next].xmin \in done
          /\ \A r \in Lps : page[r].kind = "redirect" /\ page[r].next = page[q].next => r = q
      BY <1>5, <2>1 DEF Sound, Led
    <3> QED
      BY <1>1, <1>5, <2>1, <3>1
  <2>2. ASSUME NEW q \in Lps, NEW i \in Versions(page2), page2[q].kind \in {"root", "redirect"}
        PROVE  page2[i].xmax # page2[Leads(page2, q)].xmin
    <3>1. page2[q] = page[q] /\ q # o /\ Leads(page2, q) = Leads(page, q)
      BY <1>5, <2>2 DEF Leads
    <3>2. Leads(page, q) # o /\ Leads(page, q) \in Lps
      <4>1. Leads(page, q) \in Versions(page)
        BY <2>2, <3>1, LeadsVersion
      <4> QED
        BY <1>1, <2>2, <3>1, <4>1 DEF Leads, Versions
    <3>3. page[i].xmax # page[Leads(page, q)].xmin
      BY <1>2, <2>2, <3>1 DEF Sound, Led
    <3> QED
      BY <1>1, <1>2, <3>1, <3>2, <3>3
  <2> QED
    BY <2>1, <2>2 DEF Led
<1> QED
  BY <1>1, <1>3, <1>4, <1>6 DEF Sound

\* ... and nothing is seen otherwise by a snapshot that sees nothing failed.
LEMMA FreedRows ==
  ASSUME NEW page, NEW n, NEW done, Sound(page, n, done),
         NEW failed, NEW o, MayFree(page, o, done, failed),
         NEW page2, page2 = Freed(page, o),
         NEW snap, snap \subseteq done \cup {Frozen}
  PROVE  Visible(page2, snap) = Visible(page, snap)
<1>1. /\ o \in Lps
      /\ page[o].kind \in {"dead", "heaponly"}
      /\ page2[o].kind = "unused"
      /\ \A i \in Lps : i # o => page2[i] = page[i]
      /\ Versions(page2) = Versions(page) \ {o}
      /\ o \in Versions(page) => page[o].xmin \notin done \cup {Frozen}
  BY FreedIs
<1>2. Sound(page2, n, done)
  BY FreedSound
<1>3. \A i \in Versions(page2) : i \in Versions(page) /\ i # o /\ page2[i] = page[i]
  BY <1>1 DEF Versions
<1>4. ASSUME NEW k \in Versions(page2), Followed(page2, k)
      PROVE  Followed(page, k) /\ page2[k].next = page[k].next
  <2>1. page2[k].next \in Versions(page2)
    BY <1>2, <1>4, HopIs
  <2> QED
    BY <1>3, <1>4, <2>1 DEF Followed, Versions
<1>5. ASSUME NEW k \in Versions(page), Followed(page, k), page[k].next # o
      PROVE  k \in Versions(page2) /\ Followed(page2, k) /\ page2[k].next = page[k].next
  <2>1. k # o
    BY <1>1, <1>5, HopIs
  <2>2. page[k].next \in Versions(page) /\ k \in Versions(page2)
    BY <1>1, <1>5, <2>1, HopIs
  <2>3. page[k].next \in Versions(page2)
    BY <1>1, <1>5, <2>2
  <2> QED
    BY <1>3, <1>5, <2>2, <2>3 DEF Followed, Versions
<1>6. ASSUME NEW q \in Lps PROVE HotSearch(page2, q, snap) <=> HotSearch(page, q, snap)
  <2>1. CASE q = o
    BY <1>1, <2>1, NothingThere
  <2>2. CASE q # o /\ page[q].kind \notin {"root", "redirect"}
    BY <1>1, <2>2, NothingThere
  <2>3. CASE q # o /\ page[q].kind \in {"root", "redirect"}
    <3>1. page2[q].kind \in {"root", "redirect"} /\ Leads(page2, q) = Leads(page, q)
      BY <1>1, <2>3 DEF Leads
    <3>2. /\ Leads(page, q) \in Chain(page, q)
          /\ Chain(page, q) \subseteq Versions(page)
          /\ \A k \in Chain(page, q) : Followed(page, k) => page[k].next \in Chain(page, q)
      BY <2>3, ChainIs
    <3>3. /\ Leads(page2, q) \in Chain(page2, q)
          /\ Chain(page2, q) \subseteq Versions(page2)
          /\ \A k \in Chain(page2, q) : Followed(page2, k) => page2[k].next \in Chain(page2, q)
      BY <1>2, <3>1, ChainIs
    <3>4. ASSUME HotSearch(page, q, snap) PROVE HotSearch(page2, q, snap)
      <4> DEFINE D == {o}
      <4>1. ASSUME NEW k \in (Chain(page2, q) \cup D) \cap Versions(page), Followed(page, k)
            PROVE  page[k].next \in Chain(page2, q) \cup D
        <5>1. page[k].next = o \/ (k \in Versions(page2) /\ Followed(page2, k) /\ page2[k].next = page[k].next)
          BY <1>5, <4>1
        <5>2. k # o => k \in Chain(page2, q)
          BY <4>1
        <5> QED
          BY <1>3, <3>3, <5>1, <5>2
      <4>2. \A k \in D \cap Versions(page) : ~Satisfies(page[k], snap)
        BY <1>1 DEF Satisfies
      <4>3. \A k \in Chain(page2, q) \cap Versions(page) :
              Satisfies(page[k], snap) => Satisfies(page2[k], snap)
        BY <1>3, <3>3
      <4>4. Leads(page, q) \in Chain(page2, q) \cup D
        BY <3>1, <3>3
      <4> HIDE DEF D
      <4> QED
        BY <2>3, <3>4, <4>1, <4>2, <4>3, <4>4, Covers
    <3>5. ASSUME HotSearch(page2, q, snap) PROVE HotSearch(page, q, snap)
      <4> DEFINE D == {}
      <4>1. ASSUME NEW k \in (Chain(page, q) \cup D) \cap Versions(page2), Followed(page2, k)
            PROVE  page2[k].next \in Chain(page, q) \cup D
        BY <1>4, <3>2, <4>1
      <4>2. \A k \in D \cap Versions(page2) : ~Satisfies(page2[k], snap)
        OBVIOUS
      <4>3. \A k \in Chain(page, q) \cap Versions(page2) :
              Satisfies(page2[k], snap) => Satisfies(page[k], snap)
        BY <1>3
      <4>4. Leads(page2, q) \in Chain(page, q) \cup D
        BY <3>1, <3>2
      <4> HIDE DEF D
      <4> QED
        BY <1>2, <3>1, <3>5, <4>1, <4>2, <4>3, <4>4, Covers
    <3> QED
      BY <3>4, <3>5
  <2> QED
    BY <2>1, <2>2, <2>3
<1> QED
  BY <1>6 DEF Visible

-----------------------------------------------------------------------------
(* Pruning the chain of a line pointer.                                    *)

\* the versions that go, past the end of what any snapshot may see
Going(page, o, past, failed) ==
  {i \in Chain(page, o) :
     \/ page[i].kind = "root" /\ page[i].xmin \in failed
     \/ \E j \in Chain(page, o) : /\ page[j].xmax \in past
                                  /\ page[i].xmin <= page[j].xmin}

Oldest(page, S) == CHOOSE i \in S : \A j \in S : page[i].xmin <= page[j].xmin

Stays(page, o, gone) == Chain(page, o) \ gone

Cut(page, o, gone) ==
  [i \in Lps |-> IF i = o THEN IF gone = Chain(page, o) THEN Dead
                               ELSE Redirect(Oldest(page, Stays(page, o, gone)))
                 ELSE IF i \in gone THEN Unused ELSE page[i]]

MayCut(page, o, gone, past, done, failed) ==
  /\ o \in Lps
  /\ past \subseteq done
  /\ failed \cap (done \cup {Frozen}) = {}
  /\ gone = Going(page, o, past, failed)
  /\ gone # {}

\* What goes begins with the chain's first version; a version that stays is
\* newer than all that goes.
LEMMA GoneIs ==
  ASSUME NEW page, NEW n, NEW done, Sound(page, n, done),
         NEW past, NEW failed, NEW o, NEW gone, MayCut(page, o, gone, past, done, failed)
  PROVE  /\ o \in Lps /\ page[o].kind \in {"root", "redirect"}
         /\ gone \subseteq Chain(page, o) /\ Chain(page, o) \subseteq Versions(page)
         /\ Leads(page, o) \in gone
         /\ o \in Versions(page) => o \in gone
         /\ \A i \in gone : \/ page[i].xmin \in failed
                            \/ \E j \in gone : /\ page[j].xmax \in past
                                               /\ page[i].xmin <= page[j].xmin
                                               /\ \A k \in Chain(page, o) \ gone :
                                                    page[j].xmin < page[k].xmin
<1>1. o \in Lps /\ gone \subseteq Chain(page, o)
  BY DEF MayCut, Going
<1>2. page[o].kind \in {"root", "redirect"}
  BY <1>1, NoChain DEF MayCut
<1>3. Leads(page, o) \in Chain(page, o) /\ Chain(page, o) \subseteq Versions(page)
  BY <1>1, <1>2, ChainIs
<1>4. \A i \in Chain(page, o) : page[i].xmin \in Nat /\ page[Leads(page, o)].xmin <= page[i].xmin
  <2>1. ASSUME NEW i \in Chain(page, o)
        PROVE  page[i].xmin \in Nat /\ page[Leads(page, o)].xmin <= page[i].xmin
    <3>1. i \in Lps /\ Leads(page, o) \in Lps
      BY <1>3 DEF Versions
    <3>2. page[i].xmin \in Nat /\ page[Leads(page, o)].xmin \in Nat
      BY <3>1, Fields
    <3> QED
      BY <1>1, <1>2, <3>2, ChainFirst
  <2> QED
    BY <2>1
<1>5. \A i \in gone : \/ page[i].kind = "root" /\ page[i].xmin \in failed
                      \/ \E j \in Chain(page, o) : /\ page[j].xmax \in past
                                                   /\ page[i].xmin <= page[j].xmin
  BY DEF MayCut, Going
<1>6. \A j \in Chain(page, o) : page[j].xmax \in past => j \in gone
  BY <1>4 DEF MayCut, Going
<1>7. \A j \in Chain(page, o), k \in Chain(page, o) \ gone :
        page[j].xmax \in past => page[j].xmin < page[k].xmin
  <2> SUFFICES ASSUME NEW j \in Chain(page, o), NEW k \in Chain(page, o) \ gone,
                      page[j].xmax \in past, page[k].xmin <= page[j].xmin
               PROVE  FALSE
    BY <1>4
  <2> QED
    BY DEF MayCut, Going
<1>8. Leads(page, o) \in gone
  <2>1. PICK i \in gone : TRUE
    BY DEF MayCut
  <2>2. CASE page[i].kind = "root" /\ page[i].xmin \in failed
    <3>1. i = Leads(page, o)
      <4>1. ASSUME i # Leads(page, o) PROVE FALSE
        <5>1. PICK k \in Chain(page, o) : Followed(page, k) /\ page[k].next = i
          BY <1>1, <1>2, <2>1, <4>1, ChainFirst
        <5>2. page[i].xmin = page[k].xmax /\ k \in Versions(page) /\ i \in Lps
          BY <1>1, <1>3, <2>1, <5>1, HopIs DEF Versions
        <5>3. Leads(page, i) = i
          BY <2>2 DEF Leads
        <5> QED
          BY <2>2, <5>2, <5>3 DEF Sound, Led
      <4> QED
        BY <4>1
    <3> QED
      BY <3>1
  <2>3. CASE \E j \in Chain(page, o) : page[j].xmax \in past /\ page[i].xmin <= page[j].xmin
    BY <1>3, <1>4, <2>3 DEF MayCut, Going
  <2> QED
    BY <1>5, <2>1, <2>2, <2>3
<1>9. o \in Versions(page) => o \in gone
  BY <1>2, <1>8 DEF Versions, Version, Leads
<1>10. \A i \in gone : \/ page[i].xmin \in failed
                       \/ \E j \in gone : /\ page[j].xmax \in past
                                          /\ page[i].xmin <= page[j].xmin
                                          /\ \A k \in Chain(page, o) \ gone :
                                               page[j].xmin < page[k].xmin
  BY <1>5, <1>6, <1>7
<1> QED
  BY <1>1, <1>2, <1>3, <1>8, <1>9, <1>10

\* The oldest version that stays was written by the updater of one that goes.
LEMMA CutWhere ==
  ASSUME NEW page, NEW n, NEW done, Sound(page, n, done),
         NEW past, NEW failed, NEW o, NEW gone, MayCut(page, o, gone, past, done, failed),
         gone # Chain(page, o), NEW f, f = Oldest(page, Stays(page, o, gone))
  PROVE  /\ f \in Chain(page, o) \ gone
         /\ \A k \in Chain(page, o) \ gone : page[f].xmin <= page[k].xmin
         /\ f # o
         /\ page[f].kind = "heaponly"
         /\ page[f].xmin \in done
         /\ \E p \in gone : page[p].xmax = page[f].xmin /\ page[p].xmax # NoXid
<1>1. /\ o \in Lps /\ page[o].kind \in {"root", "redirect"}
      /\ gone \subseteq Chain(page, o) /\ Chain(page, o) \subseteq Versions(page)
      /\ Leads(page, o) \in gone
      /\ o \in Versions(page) => o \in gone
      /\ \A i \in gone : \/ page[i].xmin \in failed
                         \/ \E j \in gone : /\ page[j].xmax \in past
                                            /\ page[i].xmin <= page[j].xmin
                                            /\ \A k \in Chain(page, o) \ gone :
                                                 page[j].xmin < page[k].xmin
  BY GoneIs
<1> DEFINE stays == Chain(page, o) \ gone
<1>2. \A i \in Chain(page, o) : page[i].xmin \in Nat
  BY <1>1, Fields DEF Versions
<1>3. f \in stays /\ \A k \in stays : page[f].xmin <= page[k].xmin
  <2> DEFINE T == {page[k].xmin : k \in stays}
  <2>1. T \in SUBSET Nat /\ T # {}
    BY <1>1, <1>2
  <2>2. PICK m \in T : \A l \in T : m <= l
    <3> HIDE DEF T
    <3> QED
      BY <2>1, LeastNumber
  <2>3. PICK k \in stays : page[k].xmin = m
    OBVIOUS
  <2>4. \A l \in stays : page[k].xmin <= page[l].xmin
    BY <2>2, <2>3
  <2> HIDE DEF T, stays
  <2>5. f = Oldest(page, stays)
    BY DEF stays, Stays
  <2> QED
    BY <2>4, <2>5 DEF Oldest
<1>4. f # Leads(page, o) /\ f # o /\ f \in Versions(page) /\ f \in Lps
  BY <1>1, <1>3 DEF Versions
<1>5. PICK p \in Chain(page, o) : Followed(page, p) /\ page[p].next = f
  BY <1>1, <1>3, <1>4, ChainFirst
<1>6. /\ p \in Versions(page) /\ page[f].xmin = page[p].xmax /\ page[p].xmin < page[f].xmin
      /\ page[p].xmin \in done \cup {Frozen} /\ page[p].xmax # NoXid
  <2>1. p \in Versions(page)
    BY <1>1
  <2>2. page[p].xmax # NoXid
    BY <1>5, <2>1 DEF Sound, Updated, Followed
  <2> QED
    BY <1>5, <2>1, <2>2, HopIs
<1>7. p \in gone
  <2> SUFFICES ASSUME p \in stays PROVE FALSE
    BY <1>5
  <2>1. page[f].xmin <= page[p].xmin /\ page[f].xmin \in Nat /\ page[p].xmin \in Nat
    BY <1>2, <1>3, <1>5
  <2> QED
    BY <1>6, <2>1
<1>8. page[p].xmax \in past
  <2>1. page[p].xmin \notin failed
    <3>1. \A y \in failed : y \notin done \cup {Frozen}
      BY DEF MayCut
    <3> QED
      BY <1>6, <3>1
  <2>2. PICK j \in gone : /\ page[j].xmax \in past
                          /\ page[p].xmin <= page[j].xmin
                          /\ \A k \in stays : page[j].xmin < page[k].xmin
    BY <1>1, <1>7, <2>1
  <2>3. page[j].xmin < page[f].xmin /\ j \in Chain(page, o)
    BY <1>1, <1>3, <2>2
  <2>4. CASE page[p].xmin < page[j].xmin
    <3>1. page[f].xmin <= page[j].xmin
      BY <1>1, <1>5, <2>3, <2>4, ChainLinear
    <3> QED
      BY <1>2, <1>3, <2>3, <3>1
  <2>5. CASE page[p].xmin = page[j].xmin
    <3>1. p = j
      BY <1>1, <1>6, <2>3, <2>5 DEF Sound, OneWriter
    <3> QED
      BY <2>2, <3>1
  <2> QED
    BY <1>2, <1>5, <2>2, <2>3, <2>4, <2>5
<1>9. page[f].kind = "heaponly"
  <2>1. page[f].kind # "root"
    <3> SUFFICES ASSUME page[f].kind = "root" PROVE FALSE
      OBVIOUS
    <3>1. Leads(page, f) = f
      BY DEF Leads
    <3> QED
      BY <1>4, <1>6, <3>1 DEF Sound, Led
  <2> QED
    BY <1>4, <2>1 DEF Versions, Version
<1>10. page[f].xmin \in done
  BY <1>6, <1>8 DEF MayCut
<1> QED
  BY <1>3, <1>4, <1>6, <1>7, <1>9, <1>10

\* What is on the page after its chain is pruned.
LEMMA CutIs ==
  ASSUME NEW page, NEW n, NEW done, Sound(page, n, done),
         NEW past, NEW failed, NEW o, NEW gone, MayCut(page, o, gone, past, done, failed),
         NEW page2, page2 = Cut(page, o, gone)
  PROVE  /\ page2 \in [Lps -> Lines(n)]
         /\ gone = Chain(page, o) => page2[o].kind = "dead"
         /\ gone # Chain(page, o) =>
              /\ page2[o].kind = "redirect"
              /\ page2[o].next = Oldest(page, Stays(page, o, gone))
         /\ \A i \in Lps \ gone : i # o => page2[i] = page[i]
         /\ \A i \in Lps : i \in gone /\ i # o => page2[i].kind = "unused"
         /\ Versions(page2) = Versions(page) \ gone
         /\ \A i \in Versions(page) \ gone : page2[i] = page[i] /\ i # o
<1>1. /\ o \in Lps /\ page[o].kind \in {"root", "redirect"}
      /\ gone \subseteq Chain(page, o) /\ Chain(page, o) \subseteq Versions(page)
      /\ o \in Versions(page) => o \in gone
  BY GoneIs
<1>2. n \in Nat \ {0} /\ NoXid \in Nat /\ \A i \in Lps : page[i] \in Lines(n)
  BY <1>1, Fields DEF Sound
<1>3. \A i \in Lps \ gone : i # o => page2[i] = page[i]
  BY DEF Cut
<1>4. \A i \in Lps : i \in gone /\ i # o => page2[i] = Unused
  BY DEF Cut
<1>5. gone = Chain(page, o) => page2[o] = Dead
  BY <1>1 DEF Cut
<1>6. gone # Chain(page, o) => page2[o] = Redirect(Oldest(page, Stays(page, o, gone)))
  BY <1>1 DEF Cut
<1>7. gone # Chain(page, o) => Oldest(page, Stays(page, o, gone)) \in Lps
  <2> SUFFICES ASSUME gone # Chain(page, o), NEW f, f = Oldest(page, Stays(page, o, gone))
               PROVE  f \in Lps
    OBVIOUS
  <2>1. f \in Chain(page, o) \ gone
    BY CutWhere
  <2> QED
    BY <1>1, <2>1 DEF Versions
<1>8. 0 \in 0 .. n - 1
  BY <1>2
<1>9. /\ Unused \in Lines(n) /\ Unused.kind = "unused"
      /\ Dead \in Lines(n) /\ Dead.kind = "dead"
  BY <1>8 DEF Unused, Dead, Line, Lines, Frozen
<1>10. \A f \in Lps : Redirect(f) \in Lines(n) /\ Redirect(f).kind = "redirect" /\ Redirect(f).next = f
  BY <1>8 DEF Redirect, Line, Lines, Frozen
<1>11. page2 \in [Lps -> Lines(n)]
  <2>1. ASSUME NEW i \in Lps PROVE page2[i] \in Lines(n)
    BY <1>2, <1>3, <1>4, <1>5, <1>6, <1>7, <1>9, <1>10
  <2> QED
    BY <2>1 DEF Cut
<1>12. gone = Chain(page, o) => page2[o].kind = "dead"
  BY <1>5, <1>9
<1>13. gone # Chain(page, o) =>
         /\ page2[o].kind = "redirect"
         /\ page2[o].next = Oldest(page, Stays(page, o, gone))
  BY <1>6, <1>7, <1>10
<1>14. \A i \in Lps : i \in gone /\ i # o => page2[i].kind = "unused"
  BY <1>4, <1>9
<1>15. \A i \in Versions(page) \ gone : page2[i] = page[i] /\ i # o
  BY <1>1, <1>3 DEF Versions
<1>16. Versions(page2) = Versions(page) \ gone
  <2>1. ASSUME NEW i \in Lps PROVE i \in Versions(page2) <=> i \in Versions(page) \ gone
    <3>1. CASE i = o
      BY <1>1, <1>12, <1>13, <3>1 DEF Versions, Version
    <3>2. CASE i # o /\ i \in gone
      BY <1>14, <3>2 DEF Versions, Version
    <3>3. CASE i # o /\ i \notin gone
      BY <1>3, <3>3 DEF Versions, Version
    <3> QED
      BY <3>1, <3>2, <3>3
  <2> QED
    BY <2>1 DEF Versions
<1> QED
  BY <1>3, <1>11, <1>12, <1>13, <1>14, <1>15, <1>16

\* Of another line pointer's chain nothing goes.
LEMMA CutLeaves ==
  ASSUME NEW page, NEW n, NEW done, Sound(page, n, done),
         NEW past, NEW failed, NEW o, NEW gone, MayCut(page, o, gone, past, done, failed),
         NEW page2, page2 = Cut(page, o, gone),
         NEW q \in Lps, q # o
  PROVE  /\ page2[q].kind \in {"root", "redirect"} => page2[q] = page[q]
         /\ page[q].kind \in {"root", "redirect"} =>
              /\ page2[q] = page[q]
              /\ Leads(page2, q) = Leads(page, q)
              /\ Leads(page, q) \in Versions(page) \ gone
              /\ Chain(page, q) \cap Chain(page, o) = {}
<1>1. /\ \A i \in Lps \ gone : i # o => page2[i] = page[i]
      /\ \A i \in Lps : i \in gone /\ i # o => page2[i].kind = "unused"
  BY CutIs
<1>2. /\ o \in Lps /\ page[o].kind \in {"root", "redirect"}
      /\ gone \subseteq Chain(page, o) /\ Chain(page, o) \subseteq Versions(page)
  BY GoneIs
<1>3. page2[q].kind \in {"root", "redirect"} => page2[q] = page[q]
  BY <1>1
<1>4. ASSUME page[q].kind \in {"root", "redirect"}
      PROVE  /\ page2[q] = page[q]
             /\ Leads(page2, q) = Leads(page, q)
             /\ Leads(page, q) \in Versions(page) \ gone
             /\ Chain(page, q) \cap Chain(page, o) = {}
  <2>1. Chain(page, q) \cap Chain(page, o) = {}
    BY <1>2, <1>4, ChainsApart
  <2>2. Leads(page, q) \in Chain(page, q) /\ Chain(page, q) \subseteq Versions(page)
    BY <1>4, ChainIs
  <2>3. Leads(page, q) \in Versions(page) \ gone
    BY <1>2, <2>1, <2>2
  <2>4. q \notin gone
    <3>1. CASE page[q].kind = "root"
      BY <2>3, <3>1 DEF Leads
    <3>2. CASE page[q].kind = "redirect"
      BY <1>2, <3>2 DEF Versions, Version
    <3> QED
      BY <1>4, <3>1, <3>2
  <2>5. page2[q] = page[q]
    BY <1>1, <2>4
  <2> QED
    BY <2>1, <2>3, <2>5 DEF Leads
<1> QED
  BY <1>3, <1>4

\* A page that is pruned stays sound, ...
LEMMA CutSound ==
  ASSUME NEW page, NEW n, NEW done, Sound(page, n, done),
         NEW past, NEW failed, NEW o, NEW gone, MayCut(page, o, gone, past, done, failed),
         NEW page2, page2 = Cut(page, o, gone)
  PROVE  Sound(page2, n, done)
<1>1. /\ page2 \in [Lps -> Lines(n)]
      /\ gone = Chain(page, o) => page2[o].kind = "dead"
      /\ gone # Chain(page, o) =>
           /\ page2[o].kind = "redirect"
           /\ page2[o].next = Oldest(page, Stays(page, o, gone))
      /\ Versions(page2) = Versions(page) \ gone
      /\ \A i \in Versions(page) \ gone : page2[i] = page[i] /\ i # o
  BY CutIs
<1>2. /\ o \in Lps /\ gone \subseteq Chain(page, o) /\ Chain(page, o) \subseteq Versions(page)
  BY GoneIs
<1>3. \A i \in Versions(page2) : i \in Versions(page) /\ page2[i] = page[i]
  BY <1>1
<1>4. OneWriter(page2)
  BY <1>3 DEF OneWriter, Sound
<1>5. Updated(page2, done)
  BY <1>3 DEF Updated, Sound
<1>6. ASSUME NEW q \in Lps, q # o, page2[q].kind \in {"root", "redirect"}
      PROVE  /\ page2[q] = page[q]
             /\ Leads(page2, q) = Leads(page, q)
             /\ Leads(page, q) \in Versions(page) \ gone
             /\ Chain(page, q) \cap Chain(page, o) = {}
             /\ Leads(page, q) \in Chain(page, q)
  <2>1. page2[q] = page[q]
    BY <1>6, CutLeaves
  <2>2. page[q].kind \in {"root", "redirect"}
    BY <1>6, <2>1
  <2> QED
    BY <1>6, <2>2, CutLeaves, ChainIs
<1>7. ASSUME page2[o].kind \in {"root", "redirect"}
      PROVE  /\ page2[o].kind = "redirect"
             /\ Leads(page2, o) \in Chain(page, o) \ gone
             /\ Leads(page2, o) = page2[o].next
             /\ page[Leads(page2, o)].kind = "heaponly"
             /\ page[Leads(page2, o)].xmin \in done
             /\ \E p \in gone : page[p].xmax = page[Leads(page2, o)].xmin /\ page[p].xmax # NoXid
  <2>1. gone # Chain(page, o) /\ page2[o].kind = "redirect"
    BY <1>1, <1>7
  <2>2. PICK f : f = Oldest(page, Stays(page, o, gone))
    OBVIOUS
  <2>3. Leads(page2, o) = f /\ page2[o].next = f
    BY <1>1, <2>1, <2>2 DEF Leads
  <2>4. /\ f \in Chain(page, o) \ gone
        /\ page[f].kind = "heaponly"
        /\ page[f].xmin \in done
        /\ \E p \in gone : page[p].xmax = page[f].xmin /\ page[p].xmax # NoXid
    BY <2>1, <2>2, CutWhere
  <2> QED
    BY <2>1, <2>3, <2>4
<1>8. Led(page2, done)
  <2>1. ASSUME NEW q \in Lps, page2[q].kind = "redirect"
        PROVE  /\ page2[q].next \in Lps
               /\ page2[page2[q].next].kind = "heaponly"
               /\ page2[page2[q].next].xmin \in done
               /\ \A r \in Lps : page2[r].kind = "redirect" /\ page2[r].next = page2[q].next => r = q
    <3>1. CASE q = o
      <4>1. /\ Leads(page2, o) \in Chain(page, o) \ gone
            /\ Leads(page2, o) = page2[o].next
            /\ page[page2[o].next].kind = "heaponly"
            /\ page[page2[o].next].xmin \in done
        BY <1>7, <2>1, <3>1
      <4>2. page2[o].next \in Versions(page) \ gone /\ page2[o].next \in Lps
        BY <1>2, <4>1 DEF Versions
      <4>3. page2[page2[o].next] = page[page2[o].next]
        BY <1>1, <4>2
      <4>4. ASSUME NEW r \in Lps, page2[r].kind = "redirect", page2[r].next = page2[o].next, r # o
            PROVE  FALSE
        <5>1. Leads(page2, r) = page2[r].next
          BY <4>4 DEF Leads
        <5>2. page2[r].next \in Chain(page, r) /\ Chain(page, r) \cap Chain(page, o) = {}
          BY <1>6, <4>4, <5>1
        <5> QED
          BY <4>1, <4>4, <5>2
      <4> QED
        BY <3>1, <4>1, <4>2, <4>3, <4>4
    <3>2. CASE q # o
      <4>1. /\ page2[q] = page[q]
            /\ Leads(page, q) \in Versions(page) \ gone
            /\ Chain(page, q) \cap Chain(page, o) = {}
            /\ Leads(page, q) \in Chain(page, q)
        BY <1>6, <2>1, <3>2
      <4>2. page[q].kind = "redirect" /\ Leads(page, q) = page[q].next
        BY <2>1, <4>1 DEF Leads
      <4>3. /\ page[q].next \in Lps
            /\ page[page[q].next].kind = "heaponly"
            /\ page[page[q].next].xmin \in done
            /\ \A r \in Lps : page[r].kind = "redirect" /\ page[r].next = page[q].next => r = q
        BY <4>2 DEF Sound, Led
      <4>4. page2[page[q].next] = page[page[q].next]
        BY <1>1, <4>1, <4>2
      <4>5. ASSUME NEW r \in Lps, page2[r].kind = "redirect", page2[r].next = page2[q].next
            PROVE  r = q
        <5>1. CASE r = o
          <6>1. page2[o].next \in Chain(page, o)
            BY <1>7, <4>5, <5>1
          <6> QED
            BY <4>1, <4>2, <4>5, <5>1, <6>1
        <5>2. CASE r # o
          <6>1. page2[r] = page[r]
            BY <1>6, <4>5, <5>2
          <6> QED
            BY <4>1, <4>3, <4>5, <6>1
        <5> QED
          BY <5>1, <5>2
      <4> QED
        BY <4>1, <4>3, <4>4, <4>5
    <3> QED
      BY <3>1, <3>2
  <2>2. ASSUME NEW q \in Lps, NEW i \in Versions(page2), page2[q].kind \in {"root", "redirect"}
        PROVE  page2[i].xmax # page2[Leads(page2, q)].xmin
    <3>1. CASE q = o
      <4>1. /\ Leads(page2, o) \in Versions(page) \ gone
            /\ \E p \in gone : page[p].xmax = page[Leads(page2, o)].xmin /\ page[p].xmax # NoXid
        BY <1>2, <1>7, <2>2, <3>1
      <4>2. page2[Leads(page2, o)] = page[Leads(page2, o)] /\ page2[i] = page[i]
            /\ i \in Versions(page) /\ i \notin gone
        BY <1>1, <1>3, <4>1
      <4>3. PICK p \in gone : page[p].xmax = page[Leads(page2, o)].xmin /\ page[p].xmax # NoXid
        BY <4>1
      <4>4. page[i].xmax # page[p].xmax
        <5>1. p \in Versions(page) /\ p # i
          BY <1>2, <4>2
        <5> QED
          BY <4>2, <4>3, <5>1 DEF Sound, OneWriter
      <4> QED
        BY <3>1, <4>2, <4>3, <4>4
    <3>2. CASE q # o
      <4>1. /\ page2[q] = page[q]
            /\ Leads(page2, q) = Leads(page, q)
            /\ Leads(page, q) \in Versions(page) \ gone
        BY <1>6, <2>2, <3>2
      <4>2. page2[Leads(page, q)] = page[Leads(page, q)] /\ page2[i] = page[i] /\ i \in Versions(page)
        BY <1>1, <1>3, <4>1
      <4>3. page[i].xmax # page[Leads(page, q)].xmin
        BY <2>2, <4>1, <4>2 DEF Sound, Led
      <4> QED
        BY <4>1, <4>2, <4>3
    <3> QED
      BY <3>1, <3>2
  <2> QED
    BY <2>1, <2>2 DEF Led
<1> QED
  BY <1>1, <1>4, <1>5, <1>8 DEF Sound

\* Nothing that goes is seen by a snapshot that sees nothing failed and all
\* that committed up to any of past.
LEMMA GoneUnseen ==
  ASSUME NEW page, NEW n, NEW done, Sound(page, n, done),
         NEW past, NEW failed, NEW o, NEW gone, MayCut(page, o, gone, past, done, failed),
         NEW snap, snap \subseteq done \cup {Frozen},
         \A x \in done, y \in past : x <= y => x \in snap,
         NEW i \in gone
  PROVE  ~Satisfies(page[i], snap)
<1>1. /\ o \in Lps /\ page[o].kind \in {"root", "redirect"}
      /\ gone \subseteq Chain(page, o) /\ Chain(page, o) \subseteq Versions(page)
      /\ \A k \in gone : \/ page[k].xmin \in failed
                         \/ \E j \in gone : /\ page[j].xmax \in past
                                            /\ page[k].xmin <= page[j].xmin
  BY GoneIs
<1>2. \A k \in Chain(page, o) : page[k].xmin \in 0 .. n - 1 /\ page[k].xmax \in (1 .. n - 1) \cup {NoXid}
  BY <1>1, Fields DEF Versions
<1>3. /\ \A y \in past : y \in done
      /\ \A y \in done : y \in Nat /\ y # NoXid
  <2>1. past \subseteq done /\ done \subseteq 1 .. n - 1 /\ n \in 1 .. NoXid /\ NoXid \in Nat
    BY Sizes DEF MayCut, Sound
  <2>2. ASSUME NEW y \in done PROVE y \in Nat /\ y # NoXid
    <3>1. y \in 1 .. n - 1
      BY <2>1
    <3> QED
      BY <2>1, <3>1
  <2> QED
    BY <2>1, <2>2
<1>4. CASE page[i].xmin \in failed
  <2>1. \A y \in failed : y \notin done \cup {Frozen}
    BY DEF MayCut
  <2> QED
    BY <1>4, <2>1 DEF Satisfies
<1>5. CASE \E j \in gone : page[j].xmax \in past /\ page[i].xmin <= page[j].xmin
  <2>1. PICK j \in gone : page[j].xmax \in past /\ page[i].xmin <= page[j].xmin
    BY <1>5
  <2>2. i \in Chain(page, o) /\ j \in Chain(page, o)
    BY <1>1
  <2>3. page[j].xmax \in done /\ page[j].xmax # NoXid
    BY <1>3, <2>1
  <2>4. page[j].xmin < page[j].xmax
    BY <1>1, <2>2, <2>3 DEF Sound, Updated
  <2>5. CASE page[i].xmin = page[j].xmin
    <3>1. i = j
      BY <1>1, <2>2, <2>5 DEF Sound, OneWriter
    <3>2. page[i].xmax \in snap
      <4>1. page[j].xmax \in Nat /\ page[j].xmax <= page[j].xmax
        BY <1>3, <2>3
      <4>2. page[j].xmax \in snap
        BY <2>1, <2>3, <4>1
      <4> QED
        BY <3>1, <4>2
    <3> QED
      BY <3>2 DEF Satisfies
  <2>6. CASE page[i].xmin < page[j].xmin
    <3> DEFINE k == page[i].next
    <3>1. Followed(page, i) /\ page[k].xmin <= page[j].xmin
      BY <1>1, <2>2, <2>6, ChainLinear
    <3>2. k \in Chain(page, o) /\ page[k].xmin = page[i].xmax /\ page[i].xmax \in 1 .. n - 1
      <4>1. k \in Chain(page, o)
        BY <1>1, <2>2, <3>1, ChainIs
      <4>2. i \in Versions(page)
        BY <1>1, <2>2
      <4> QED
        BY <3>1, <4>1, <4>2, HopIs
    <3> HIDE DEF k
    <3>3. page[k].xmin \in done \cup {Frozen}
      <4>1. CASE page[k].xmin = page[j].xmin
        <5>1. k = j
          BY <1>1, <2>2, <3>2, <4>1 DEF Sound, OneWriter
        <5> QED
          BY <1>1, <2>2, <2>3, <5>1 DEF Sound, Updated
      <4>2. CASE page[k].xmin < page[j].xmin
        <5>1. Followed(page, k)
          BY <1>1, <2>2, <3>2, <4>2, ChainLinear
        <5>2. k \in Versions(page)
          BY <1>1, <3>2
        <5> QED
          BY <5>1, <5>2, HopIs
      <4> QED
        BY <1>2, <2>2, <3>1, <3>2, <4>1, <4>2
    <3>4. page[i].xmax \in done /\ page[i].xmax <= page[j].xmax
      BY <1>2, <2>2, <2>3, <2>4, <3>1, <3>2, <3>3 DEF Frozen
    <3>5. page[i].xmax \in snap
      BY <2>1, <3>4
    <3> QED
      BY <3>5 DEF Satisfies
  <2> QED
    BY <1>2, <2>1, <2>2, <2>5, <2>6
<1> QED
  BY <1>1, <1>4, <1>5

\* ... and such a snapshot sees what it saw.
LEMMA CutRows ==
  ASSUME NEW page, NEW n, NEW done, Sound(page, n, done),
         NEW past, NEW failed, NEW o, NEW gone, MayCut(page, o, gone, past, done, failed),
         NEW page2, page2 = Cut(page, o, gone),
         NEW snap, snap \subseteq done \cup {Frozen},
         \A x \in done, y \in past : x <= y => x \in snap
  PROVE  Visible(page2, snap) = Visible(page, snap)
<1>1. /\ gone = Chain(page, o) => page2[o].kind = "dead"
      /\ gone # Chain(page, o) =>
           /\ page2[o].kind = "redirect"
           /\ page2[o].next = Oldest(page, Stays(page, o, gone))
      /\ Versions(page2) = Versions(page) \ gone
      /\ \A i \in Versions(page) \ gone : page2[i] = page[i] /\ i # o
      /\ \A i \in Lps \ gone : i # o => page2[i] = page[i]
      /\ \A i \in Lps : i \in gone /\ i # o => page2[i].kind = "unused"
  BY CutIs
<1>2. /\ o \in Lps /\ page[o].kind \in {"root", "redirect"}
      /\ gone \subseteq Chain(page, o) /\ Chain(page, o) \subseteq Versions(page)
      /\ Leads(page, o) \in gone
      /\ \A i \in gone : \/ page[i].xmin \in failed
                         \/ \E j \in gone : /\ page[j].xmax \in past
                                            /\ page[i].xmin <= page[j].xmin
                                            /\ \A k \in Chain(page, o) \ gone :
                                                 page[j].xmin < page[k].xmin
  BY GoneIs
<1>3. Sound(page2, n, done)
  BY CutSound
<1>4. \A i \in Versions(page2) : i \in Versions(page) /\ i \notin gone /\ page2[i] = page[i]
  BY <1>1
<1>5. ASSUME NEW k \in Versions(page2), Followed(page2, k)
      PROVE  Followed(page, k) /\ page2[k].next = page[k].next
  <2>1. page2[k].next \in Versions(page2)
    BY <1>3, <1>5, HopIs
  <2> QED
    BY <1>4, <1>5, <2>1 DEF Followed, Versions
<1>6. ASSUME NEW k \in Versions(page2), Followed(page, k), page[k].next \notin gone
      PROVE  Followed(page2, k) /\ page2[k].next = page[k].next
  <2>1. page[k].next \in Versions(page)
    BY <1>4, <1>6, HopIs
  <2>2. page[k].next \in Versions(page2)
    BY <1>1, <1>6, <2>1
  <2> QED
    BY <1>4, <1>6, <2>1, <2>2 DEF Followed, Versions
<1>7. \A i \in gone : ~Satisfies(page[i], snap)
  BY GoneUnseen
<1>8. HotSearch(page, o, snap) <=> HotSearch(page2, o, snap)
  <2>1. CASE gone = Chain(page, o)
    <3>1. ~HotSearch(page, o, snap)
      BY <1>7, <2>1 DEF HotSearch
    <3>2. page2[o].kind \notin {"root", "redirect"}
      BY <1>1, <2>1
    <3> QED
      BY <3>1, <3>2, NothingThere
  <2>2. CASE gone # Chain(page, o)
    <3>1. PICK f : f = Oldest(page, Stays(page, o, gone))
      OBVIOUS
    <3>2. /\ f \in Chain(page, o) \ gone
          /\ \A k \in Chain(page, o) \ gone : page[f].xmin <= page[k].xmin
      BY <2>2, <3>1, CutWhere
    <3>3. page2[o].kind \in {"root", "redirect"} /\ Leads(page2, o) = f
      BY <1>1, <2>2, <3>1 DEF Leads
    <3>4. /\ f \in Chain(page2, o)
          /\ Chain(page2, o) \subseteq Versions(page2)
          /\ \A k \in Chain(page2, o) : Followed(page2, k) => page2[k].next \in Chain(page2, o)
      BY <1>3, <1>2, <3>3, ChainIs
    <3>5. \A k \in Chain(page, o) : Followed(page, k) => page[k].next \in Chain(page, o)
      BY <1>2, ChainIs
    <3>6. ASSUME NEW k \in Chain(page, o) \ gone, Followed(page, k)
          PROVE  page[k].next \in Chain(page, o) \ gone
      <4>1. page[k].next \in Chain(page, o)
        BY <3>5, <3>6
      <4>2. ASSUME page[k].next \in gone PROVE FALSE
        <5>1. k \in Versions(page) /\ page[page[k].next].xmin = page[k].xmax
              /\ page[k].xmin < page[k].xmax /\ page[k].xmin \in done \cup {Frozen}
              /\ page[k].xmax # NoXid
          <6>1. k \in Versions(page)
            BY <1>2, <3>6
          <6>2. page[k].xmax # NoXid
            BY <3>6, <6>1 DEF Sound, Updated, Followed
          <6> QED
            BY <3>6, <6>1, <6>2, HopIs
        <5>2. \A l \in Chain(page, o) : page[l].xmin \in Nat
          BY <1>2, Fields DEF Versions
        <5>3. CASE page[page[k].next].xmin \in failed
          <6> DEFINE l == page[k].next
          <6>1. \A j \in gone : page[j].xmax \in past => page[j].xmin \in Nat
            BY <1>2, <5>2
          <6>2. k \notin Going(page, o, past, failed)
            BY <3>6 DEF MayCut
          <6>3. l \in Going(page, o, past, failed)
            BY <4>2 DEF MayCut
          <6>4. page[l].kind # "root"
            <7> SUFFICES ASSUME page[l].kind = "root" PROVE FALSE
              OBVIOUS
            <7>1. Leads(page, l) = l /\ l \in Lps
              BY <1>2, <4>1 DEF Leads, Versions
            <7> QED
              BY <5>1, <7>1 DEF Sound, Led
          <6>5. PICK j \in Chain(page, o) : page[j].xmax \in past /\ page[l].xmin <= page[j].xmin
            BY <6>3, <6>4 DEF Going
          <6>6. page[k].xmin <= page[j].xmin
            BY <3>6, <4>1, <5>1, <5>2, <6>5
          <6> QED
            BY <3>6, <6>2, <6>5, <6>6 DEF Going
        <5>4. CASE page[page[k].next].xmin \notin failed
          <6>1. PICK j \in gone : /\ page[page[k].next].xmin <= page[j].xmin
                                  /\ page[j].xmin < page[k].xmin
            BY <1>2, <3>6, <4>2, <5>4
          <6>2. page[page[k].next].xmin \in Nat /\ page[j].xmin \in Nat /\ page[k].xmin \in Nat
            BY <1>2, <3>6, <4>1, <5>2
          <6> QED
            BY <5>1, <6>1, <6>2
        <5> QED
          BY <5>3, <5>4
      <4> QED
        BY <4>1, <4>2
    <3>7. ASSUME HotSearch(page, o, snap) PROVE HotSearch(page2, o, snap)
      <4>1. ASSUME NEW k \in (Chain(page2, o) \cup gone) \cap Versions(page), Followed(page, k)
            PROVE  page[k].next \in Chain(page2, o) \cup gone
        <5>1. CASE k \in gone
          <6> DEFINE l == page[k].next
          <6> SUFFICES ASSUME l \notin gone PROVE l = f
            BY <3>4
          <6>1. l \in Chain(page, o) \ gone /\ k \in Chain(page, o)
            BY <1>2, <3>5, <4>1, <5>1
          <6>2. page[k].xmin \in Nat /\ page[l].xmin \in Nat /\ page[f].xmin \in Nat
            BY <1>2, <3>2, <6>1, Fields DEF Versions
          <6>3. page[f].xmin <= page[l].xmin
            BY <3>2, <6>1
          <6>4. page[k].xmin < page[f].xmin
            <7>1. page[k].xmin \in done \cup {Frozen}
              BY <4>1, HopIs
            <7>2. page[k].xmin \notin failed
              <8>1. \A y \in failed : y \notin done \cup {Frozen}
                BY DEF MayCut
              <8> QED
                BY <7>1, <8>1
            <7>3. PICK j \in gone : page[k].xmin <= page[j].xmin /\ page[j].xmin < page[f].xmin
              BY <1>2, <3>2, <5>1, <7>2
            <7>4. page[j].xmin \in Nat
              BY <1>2, Fields DEF Versions
            <7> QED
              BY <6>2, <7>3, <7>4
          <6>5. page[l].xmin <= page[f].xmin
            BY <1>2, <3>2, <6>1, <6>4, ChainLinear
          <6>6. page[l].xmin = page[f].xmin /\ l \in Versions(page) /\ f \in Versions(page)
            BY <1>2, <3>2, <6>1, <6>2, <6>3, <6>5
          <6> QED
            BY <6>6 DEF Sound, OneWriter
        <5>2. CASE k \notin gone
          <6>1. k \in Chain(page2, o) /\ k \in Versions(page2)
            BY <3>4, <4>1, <5>2
          <6> QED
            BY <1>6, <3>4, <4>1, <6>1
        <5> QED
          BY <5>1, <5>2
      <4>2. \A k \in gone \cap Versions(page) : ~Satisfies(page[k], snap)
        BY <1>7
      <4>3. \A k \in Chain(page2, o) \cap Versions(page) :
              Satisfies(page[k], snap) => Satisfies(page2[k], snap)
        BY <1>4, <3>4
      <4>4. Leads(page, o) \in Chain(page2, o) \cup gone
        BY <1>2
      <4> QED
        BY <1>2, <3>7, <4>1, <4>2, <4>3, <4>4, Covers
    <3>8. ASSUME HotSearch(page2, o, snap) PROVE HotSearch(page, o, snap)
      <4> DEFINE D == {}
      <4>1. ASSUME NEW k \in (Chain(page, o) \cup D) \cap Versions(page2), Followed(page2, k)
            PROVE  page2[k].next \in Chain(page, o) \cup D
        BY <1>5, <3>5, <4>1
      <4>2. \A k \in D \cap Versions(page2) : ~Satisfies(page2[k], snap)
        OBVIOUS
      <4>3. \A k \in Chain(page, o) \cap Versions(page2) :
              Satisfies(page2[k], snap) => Satisfies(page[k], snap)
        BY <1>4
      <4>4. Leads(page2, o) \in Chain(page, o) \cup D
        BY <3>2, <3>3
      <4> HIDE DEF D
      <4> QED
        BY <1>2, <1>3, <3>3, <3>8, <4>1, <4>2, <4>3, <4>4, Covers
    <3> QED
      BY <3>7, <3>8
  <2> QED
    BY <2>1, <2>2
<1>9. ASSUME NEW q \in Lps, q # o PROVE HotSearch(page2, q, snap) <=> HotSearch(page, q, snap)
  <2>1. CASE page[q].kind \notin {"root", "redirect"}
    <3>1. page2[q].kind \notin {"root", "redirect"}
      BY <1>9, <2>1, CutLeaves
    <3> QED
      BY <2>1, <3>1, NothingThere
  <2>2. CASE page[q].kind \in {"root", "redirect"}
    <3>1. /\ page2[q] = page[q]
          /\ Leads(page2, q) = Leads(page, q)
          /\ Leads(page, q) \in Versions(page) \ gone
          /\ Chain(page, q) \cap Chain(page, o) = {}
      BY <1>9, <2>2, CutLeaves
    <3>2. /\ Leads(page, q) \in Chain(page, q)
          /\ Chain(page, q) \subseteq Versions(page)
          /\ \A k \in Chain(page, q) : Followed(page, k) => page[k].next \in Chain(page, q)
      BY <2>2, ChainIs
    <3>3. page2[q].kind \in {"root", "redirect"}
      BY <2>2, <3>1
    <3>4. /\ Leads(page2, q) \in Chain(page2, q)
          /\ Chain(page2, q) \subseteq Versions(page2)
          /\ \A k \in Chain(page2, q) : Followed(page2, k) => page2[k].next \in Chain(page2, q)
      BY <1>3, <3>3, ChainIs
    <3> DEFINE D == {}
    <3>5. Chain(page2, q) \subseteq Chain(page, q)
      <4>1. \A k \in Chain(page, q) \cap Versions(page2) :
              Followed(page2, k) => page2[k].next \in Chain(page, q)
        BY <1>5, <3>2
      <4>2. Leads(page2, q) \in Chain(page, q)
        BY <3>1, <3>2
      <4> QED
        BY <1>3, <3>3, <4>1, <4>2, ChainIs
    <3>6. ASSUME HotSearch(page, q, snap) PROVE HotSearch(page2, q, snap)
      <4>1. ASSUME NEW k \in (Chain(page2, q) \cup D) \cap Versions(page), Followed(page, k)
            PROVE  page[k].next \in Chain(page2, q) \cup D
        <5>1. page[k].next \in Chain(page, q)
          BY <3>2, <3>5, <4>1
        <5>2. page[k].next \notin gone /\ k \in Versions(page2)
          BY <1>2, <3>1, <3>4, <4>1, <5>1
        <5> QED
          BY <1>6, <3>4, <4>1, <5>2
      <4>2. \A k \in D \cap Versions(page) : ~Satisfies(page[k], snap)
        OBVIOUS
      <4>3. \A k \in Chain(page2, q) \cap Versions(page) :
              Satisfies(page[k], snap) => Satisfies(page2[k], snap)
        BY <1>4, <3>4
      <4>4. Leads(page, q) \in Chain(page2, q) \cup D
        BY <3>1, <3>4
      <4> HIDE DEF D
      <4> QED
        BY <2>2, <3>6, <4>1, <4>2, <4>3, <4>4, Covers
    <3>7. ASSUME HotSearch(page2, q, snap) PROVE HotSearch(page, q, snap)
      <4>1. PICK k \in Chain(page2, q) : Satisfies(page2[k], snap)
        BY <3>7 DEF HotSearch
      <4>2. k \in Chain(page, q) /\ page2[k] = page[k]
        BY <1>4, <3>4, <3>5
      <4> QED
        BY <4>1, <4>2 DEF HotSearch
    <3> QED
      BY <3>6, <3>7
  <2> QED
    BY <2>1, <2>2
<1> QED
  BY <1>8, <1>9 DEF Visible

-----------------------------------------------------------------------------
(* The invariant.                                                          *)

\* A page stays sound as transactions begin and commit.
LEMMA SoundLater ==
  ASSUME NEW page, NEW n, NEW done, Sound(page, n, done),
         NEW n2 \in 1 .. NoXid, n <= n2, NEW done2 \in SUBSET (1 .. n2 - 1), done \subseteq done2
  PROVE  Sound(page, n2, done2)
<1>1. n \in 1 .. NoXid /\ NoXid \in Nat /\ page \in [Lps -> Lines(n)]
  BY Sizes DEF Sound
<1>2. 0 .. n - 1 \subseteq 0 .. n2 - 1 /\ 1 .. n - 1 \subseteq 1 .. n2 - 1
  BY <1>1
<1>3. Lines(n) \subseteq Lines(n2)
  BY <1>2 DEF Lines
<1>4. page \in [Lps -> Lines(n2)]
  BY <1>1, <1>3
<1>5. Updated(page, done2)
  BY DEF Updated, Sound
<1>6. Led(page, done2)
  BY DEF Led, Sound
<1> QED
  BY <1>4, <1>5, <1>6 DEF Sound

\* A longer interval has what a shorter one has.
LEMMA Longer ==
  ASSUME NEW m \in Nat, NEW n \in Nat, m <= n, NEW x \in 1 .. m - 1
  PROVE  x \in 1 .. n - 1 /\ ~(m <= x)
OBVIOUS

\* The invariant holds at the start.
LEMMA VisInitInv == VisInit => VisInv
<1> SUFFICES ASSUME VisInit PROVE VisInv
  OBVIOUS
<1>1. NoXid \in Nat \ {0} /\ NoLp \in Nat \ {0} /\ Lps = 1 .. NoLp - 1
  BY Sizes
<1>2. Transactions
  BY <1>1 DEF VisInit, Transactions
<1>3. PICK r \in Rels :
        heap = [p \in Pages |-> [o \in Lps |->
                  IF p[1] = r /\ o = 1 THEN Line("root", Frozen, NoXid, NoLp) ELSE Unused]]
  BY DEF VisInit
<1>4. ASSUME NEW p \in Pages
      PROVE  Sound(heap[p], 1, {})
  <2> DEFINE page == heap[p]
  <2>1. page = [o \in Lps |->
                  IF p[1] = r /\ o = 1 THEN Line("root", Frozen, NoXid, NoLp) ELSE Unused]
    BY <1>3, <1>4
  <2> HIDE DEF page
  <2>2. \A o \in Lps : page[o] \in {Line("root", Frozen, NoXid, NoLp), Unused}
    BY <2>1
  <2>3. /\ Line("root", Frozen, NoXid, NoLp).kind = "root"
        /\ Line("root", Frozen, NoXid, NoLp).xmin = 0
        /\ Line("root", Frozen, NoXid, NoLp).xmax = NoXid
        /\ Line("root", Frozen, NoXid, NoLp).next = NoLp
        /\ Unused.kind = "unused"
    BY DEF Line, Unused, Frozen
  <2>4. Line("root", Frozen, NoXid, NoLp) \in Lines(1) /\ Unused \in Lines(1)
    <3>1. 0 \in 0 .. 1 - 1
      OBVIOUS
    <3> QED
      BY <3>1 DEF Line, Unused, Lines, Frozen
  <2>5. page \in [Lps -> Lines(1)]
    BY <2>1, <2>4
  <2>6. \A i \in Versions(page) : /\ i = 1 /\ i \in Lps
                                  /\ page[i].xmin = 0 /\ page[i].xmax = NoXid /\ page[i].next = NoLp
    BY <2>1, <2>3 DEF Versions, Version
  <2>7. \A o \in Lps : page[o].kind # "redirect"
    BY <2>2, <2>3
  <2>8. \A o \in Lps : page[o].kind = "root" => Leads(page, o) = o /\ o \in Versions(page)
    BY DEF Leads, Versions, Version
  <2>9. OneWriter(page) /\ Updated(page, {}) /\ Led(page, {})
    BY <1>1, <2>6, <2>7, <2>8 DEF OneWriter, Updated, Led
  <2>10. 1 \in 1 .. NoXid
    BY <1>1
  <2>11. Sound(page, 1, {})
    BY <2>5, <2>9, <2>10 DEF Sound
  <2> QED
    BY <2>11 DEF page
<1>5. heap \in [Pages -> [Lps -> Lines(nextxid)]] /\ \A p \in Pages : Sound(heap[p], nextxid, committed)
  <2>1. nextxid = 1 /\ committed = {}
    BY DEF VisInit
  <2>2. \A p \in Pages : heap[p] \in [Lps -> Lines(1)]
    BY <1>4 DEF Sound
  <2> QED
    BY <1>3, <1>4, <2>1, <2>2
<1>6. Cached
  BY DEF VisInit, Cached, Empty
<1> QED
  BY <1>2, <1>5, <1>6 DEF VisInit, VisInv, None

\* A page changes to one that is sound, and that the snapshot sees no difference in.
LEMMA PageStep ==
  ASSUME VisInv, NEW p \in Pages, NEW page2, heap' = [heap EXCEPT ![p] = page2],
         nextxid' \in 1 .. NoXid, nextxid' \in {nextxid, nextxid + 1},
         Sound(page2, nextxid', committed),
         node # None => Visible(page2, snapshot) = Visible(heap[p], snapshot),
         UNCHANGED <<committed, aborted, nodeVars, cacheVars>>
  PROVE  VisInv'
<1>1. /\ committed' = committed /\ aborted' = aborted
      /\ node' = node /\ snapshot' = snapshot /\ xmin' = xmin /\ seen' = seen
      /\ todo' = todo /\ relid' = relid /\ entries' = entries
  BY DEF nodeVars, cacheVars
<1>2. Transactions' /\ nextxid \in Nat /\ nextxid <= nextxid'
  <2>1. nextxid \in 1 .. NoXid /\ NoXid \in Nat
    BY Sizes DEF VisInv, Transactions
  <2>2. nextxid' \in Nat /\ nextxid <= nextxid' /\ nextxid \in Nat
    BY <2>1
  <2>3. \A x \in 1 .. nextxid - 1 : x \in 1 .. nextxid' - 1
    BY <2>2, Longer
  <2>4. /\ committed \subseteq 1 .. nextxid - 1 /\ aborted \subseteq 1 .. nextxid - 1
        /\ committed \cap aborted = {}
    BY DEF VisInv, Transactions
  <2>5. committed \subseteq 1 .. nextxid' - 1 /\ aborted \subseteq 1 .. nextxid' - 1
    BY <2>3, <2>4
  <2> QED
    BY <1>1, <2>2, <2>4, <2>5 DEF Transactions
<1>3. ASSUME NEW q \in Pages
      PROVE  /\ Sound(heap'[q], nextxid', committed)
             /\ node # None => Visible(heap'[q], snapshot) = Visible(heap[q], snapshot)
  <2>1. heap'[q] = IF q = p THEN page2 ELSE heap[q]
    BY DEF VisInv
  <2>2. Sound(heap[q], nextxid, committed) /\ committed \in SUBSET (1 .. nextxid' - 1)
    BY <1>1, <1>2 DEF VisInv, Transactions
  <2>3. Sound(heap[q], nextxid', committed)
    BY <1>2, <2>2, SoundLater
  <2> QED
    BY <2>1, <2>3
<1>4. heap' \in [Pages -> [Lps -> Lines(nextxid')]]
  <2>1. \A q \in Pages : heap'[q] \in [Lps -> Lines(nextxid')]
    BY <1>3 DEF Sound
  <2> QED
    BY <2>1 DEF VisInv
<1>5. (node # None => Seeing)'
  <2> SUFFICES ASSUME node # None PROVE Seeing'
    BY <1>1
  <2>1. Seeing
    BY DEF VisInv
  <2>2. \A q \in Pages : Visible(heap'[q], snapshot) = seen[q]
    BY <1>3, <2>1 DEF Seeing
  <2>3. xmin \in 1 .. nextxid'
    BY <1>2, <2>1 DEF Seeing
  <2> QED
    BY <1>1, <2>1, <2>2, <2>3 DEF Seeing
<1>6. Cached'
  BY <1>1 DEF VisInv, Cached
<1> QED
  BY <1>1, <1>2, <1>3, <1>4, <1>5, <1>6 DEF VisInv

\* An insert, a delete or an update keeps the invariant.
LEMMA WriteInv ==
  ASSUME VisInv, nextxid \in Xids, Write(nextxid), UNCHANGED <<nodeVars, cacheVars>>
  PROVE  VisInv'
<1> DEFINE x == nextxid
<1>1. PICK p \in BusyPages, o \in Lps :
        \/ HeapInsert(p, o, x)
        \/ HeapDelete(p, o, x)
        \/ \E new \in Lps : HotUpdate(p, o, new, x)
  BY DEF Write
<1>2. p \in Pages /\ nextxid' = x + 1 /\ committed' = committed /\ aborted' = aborted
  BY BusyAssumption DEF Write, Pages
<1>3. /\ x \in Nat /\ x + 1 \in 1 .. NoXid
      /\ aborted \subseteq 1 .. x - 1 /\ aborted \cap committed = {}
      /\ committed \subseteq 1 .. x - 1
  BY Sizes DEF VisInv, Transactions
<1>4. Sound(heap[p], x, committed) /\ heap[p] \in [Lps -> Lines(x)] /\ heap \in [Pages -> [Lps -> Lines(x)]]
  BY <1>2 DEF VisInv
<1>5. NoLp \notin Lps
  BY Sizes
<1>6. \E old, new : /\ MayWrite(heap[p], old, new, x, committed, aborted)
                    /\ heap' = [heap EXCEPT ![p] = Written(heap[p], old, new, x)]
  <2>1. CASE HeapInsert(p, o, x)
    <3>1. heap[p][o] = Unused
      BY <2>1 DEF HeapInsert, FreeLp
    <3>2. MayWrite(heap[p], NoLp, o, x, committed, aborted)
      BY <1>3, <1>5, <3>1 DEF MayWrite
    <3>3. heap' = [heap EXCEPT ![p] = [heap[p] EXCEPT ![o] = Line("root", x, NoXid, NoLp)]]
      BY <1>2, <1>4, <2>1 DEF HeapInsert
    <3>4. [heap[p] EXCEPT ![o] = Line("root", x, NoXid, NoLp)] = Written(heap[p], NoLp, o, x)
      BY <1>4, <1>5 DEF Written
    <3> QED
      BY <3>2, <3>3, <3>4
  <2>2. CASE HeapDelete(p, o, x)
    <3>1. Latest(heap[p][o])
      BY <2>2 DEF HeapDelete
    <3>2. MayWrite(heap[p], o, NoLp, x, committed, aborted)
      BY <1>3, <1>5, <3>1 DEF MayWrite, Latest
    <3>3. heap' = [heap EXCEPT ![p] = [heap[p] EXCEPT ![o] = [heap[p][o] EXCEPT !.xmax = x, !.next = NoLp]]]
      BY <1>2, <1>4, <2>2 DEF HeapDelete
    <3>4. [heap[p] EXCEPT ![o] = [heap[p][o] EXCEPT !.xmax = x, !.next = NoLp]]
            = Written(heap[p], o, NoLp, x)
      BY <1>4, <1>5 DEF Written
    <3> QED
      BY <3>2, <3>3, <3>4
  <2>3. CASE \E new \in Lps : HotUpdate(p, o, new, x)
    <3>1. PICK new \in Lps : HotUpdate(p, o, new, x)
      BY <2>3
    <3>2. Latest(heap[p][o]) /\ heap[p][new] = Unused
      BY <3>1 DEF HotUpdate, FreeLp
    <3>3. o # new
      BY <3>2 DEF Latest, Version, Unused, Line
    <3>4. MayWrite(heap[p], o, new, x, committed, aborted)
      BY <1>3, <1>5, <3>2, <3>3 DEF MayWrite, Latest
    <3>5. heap' = [heap EXCEPT ![p] =
                     [heap[p] EXCEPT ![o] = [heap[p][o] EXCEPT !.xmax = x, !.next = new],
                                     ![new] = Line("heaponly", x, NoXid, NoLp)]]
      BY <1>2, <1>4, <3>1, <3>3 DEF HotUpdate
    <3>6. [heap[p] EXCEPT ![o] = [heap[p][o] EXCEPT !.xmax = x, !.next = new],
                          ![new] = Line("heaponly", x, NoXid, NoLp)]
            = Written(heap[p], o, new, x)
      BY <1>4, <1>5, <3>3 DEF Written
    <3> QED
      BY <3>4, <3>5, <3>6
  <2> QED
    BY <1>1, <2>1, <2>2, <2>3
<1>7. PICK old, new, page2 :
        /\ MayWrite(heap[p], old, new, x, committed, aborted)
        /\ page2 = Written(heap[p], old, new, x)
        /\ heap' = [heap EXCEPT ![p] = page2]
  BY <1>6
<1>8. Sound(page2, x + 1, committed)
  BY <1>4, <1>7, WrittenSound
<1>9. node # None => Visible(page2, snapshot) = Visible(heap[p], snapshot)
  <2> SUFFICES ASSUME node # None PROVE Visible(page2, snapshot) = Visible(heap[p], snapshot)
    OBVIOUS
  <2>1. snapshot \subseteq committed \cup {Frozen}
    BY DEF VisInv, Seeing
  <2> QED
    BY <1>4, <1>7, <2>1, WrittenRows
<1> QED
  BY <1>2, <1>3, <1>7, <1>8, <1>9, PageStep

\* A transaction that ends was running when the snapshot was taken, or later.
LEMMA EndXactInv ==
  ASSUME VisInv, NEW x \in Xids, EndXact(x), UNCHANGED <<nodeVars, cacheVars>>
  PROVE  VisInv'
<1>1. /\ heap' = heap /\ nextxid' = nextxid
      /\ node' = node /\ snapshot' = snapshot /\ xmin' = xmin /\ seen' = seen
      /\ todo' = todo /\ relid' = relid /\ entries' = entries
      /\ x \in (1 .. nextxid - 1) \ (committed \cup aborted)
      /\ \/ committed' = committed \cup {x} /\ aborted' = aborted
         \/ aborted' = aborted \cup {x} /\ committed' = committed
  BY DEF nodeVars, cacheVars, EndXact, Running
<1>2. Transactions'
  BY <1>1 DEF VisInv, Transactions
<1>3. ASSUME NEW p \in Pages PROVE Sound(heap[p], nextxid, committed')
  <2>1. /\ Sound(heap[p], nextxid, committed) /\ nextxid \in 1 .. NoXid /\ nextxid <= nextxid
        /\ committed' \in SUBSET (1 .. nextxid - 1) /\ committed \subseteq committed'
    BY <1>1, <1>2, Sizes DEF VisInv, Transactions
  <2> QED
    BY <2>1, SoundLater
<1>4. (node # None => Seeing)'
  BY <1>1 DEF VisInv, Seeing
<1>5. Cached'
  BY <1>1 DEF VisInv, Cached
<1> QED
  BY <1>1, <1>2, <1>3, <1>4, <1>5 DEF VisInv

\* What is pruned or reaped no snapshot saw.
LEMMA CleanInv ==
  ASSUME VisInv, NEW p \in BusyPages, NEW o \in Lps, Clean(p, o), UNCHANGED <<nodeVars, cacheVars>>
  PROVE  VisInv'
<1>1. p \in Pages /\ nextxid' = nextxid /\ committed' = committed /\ aborted' = aborted
  BY BusyAssumption DEF Clean, Pages
<1>2. /\ nextxid \in 1 .. NoXid /\ NoXid \in Nat
      /\ aborted \cap (committed \cup {Frozen}) = {}
  <2>1. nextxid \in 1 .. NoXid /\ NoXid \in Nat
    BY Sizes DEF VisInv, Transactions
  <2>2. 0 \notin aborted
    BY <2>1 DEF VisInv, Transactions
  <2> QED
    BY <2>1, <2>2 DEF VisInv, Transactions, Frozen
<1>3. Sound(heap[p], nextxid, committed) /\ heap[p] \in [Lps -> Lines(nextxid)]
      /\ heap \in [Pages -> [Lps -> Lines(nextxid)]]
  BY <1>1 DEF VisInv
<1>4. node # None => snapshot \subseteq committed \cup {Frozen}
  BY DEF VisInv, Seeing
<1>5. CASE PruneAborted(p, o) \/ Reap(p, o)
  <2>1. MayFree(heap[p], o, committed, aborted)
    BY <1>2, <1>5 DEF MayFree, PruneAborted, Reap
  <2>2. heap' = [heap EXCEPT ![p] = Freed(heap[p], o)]
    BY <1>1, <1>3, <1>5 DEF PruneAborted, Reap, Freed
  <2>3. PICK page2 : page2 = Freed(heap[p], o)
    OBVIOUS
  <2>4. Sound(page2, nextxid, committed)
    BY <1>3, <2>1, <2>3, FreedSound
  <2>5. node # None => Visible(page2, snapshot) = Visible(heap[p], snapshot)
    <3> SUFFICES ASSUME node # None PROVE Visible(page2, snapshot) = Visible(heap[p], snapshot)
      OBVIOUS
    <3> QED
      BY <1>3, <1>4, <2>1, <2>3, FreedRows
  <2> QED
    BY <1>1, <1>2, <2>2, <2>3, <2>4, <2>5, PageStep
<1>6. CASE Prune(p, o)
  <2> DEFINE past == {x \in committed : node # None => x < xmin}
             gone == Going(heap[p], o, past, aborted)
  <2>1. \A j \in Lps : DeadToAll(heap[p][j]) <=> heap[p][j].xmax \in past
    BY DEF DeadToAll
  <2>2. Chain(heap[p], o) \subseteq Lps
    BY DEF Chain, Versions
  <2>3. gone = {i \in Chain(heap[p], o) :
                  \/ heap[p][i].kind = "root" /\ heap[p][i].xmin \in aborted
                  \/ \E j \in Chain(heap[p], o) : /\ DeadToAll(heap[p][j])
                                                  /\ heap[p][i].xmin <= heap[p][j].xmin}
    BY <2>1, <2>2 DEF Going
  <2> HIDE DEF past, gone
  <2>4. gone # {} /\ heap' = [heap EXCEPT ![p] = Cut(heap[p], o, gone)]
    BY <1>6, <2>3 DEF Prune, Cut, Oldest, Stays
  <2>5. MayCut(heap[p], o, gone, past, committed, aborted)
    BY <1>2, <2>4 DEF MayCut, past, gone
  <2>6. PICK page2 : page2 = Cut(heap[p], o, gone)
    OBVIOUS
  <2>7. Sound(page2, nextxid, committed)
    BY <1>3, <2>5, <2>6, CutSound
  <2>8. node # None => Visible(page2, snapshot) = Visible(heap[p], snapshot)
    <3> SUFFICES ASSUME node # None PROVE Visible(page2, snapshot) = Visible(heap[p], snapshot)
      OBVIOUS
    <3>1. \A x \in committed, y \in past : x <= y => x \in snapshot
      <4> SUFFICES ASSUME NEW x \in committed, NEW y \in past, x <= y PROVE x \in snapshot
        OBVIOUS
      <4>1. x \in 1 .. nextxid - 1 /\ y \in 1 .. nextxid - 1 /\ y < xmin /\ xmin \in Nat
        BY <1>2 DEF past, VisInv, Transactions, Seeing
      <4>2. x \in 1 .. xmin - 1
        BY <1>2, <4>1
      <4>3. x \in snapshot \cup aborted
        BY <4>2 DEF VisInv, Seeing
      <4> QED
        BY <4>3 DEF VisInv, Transactions
    <3> QED
      BY <1>3, <1>4, <2>5, <2>6, <3>1, CutRows
  <2> QED
    BY <1>1, <1>2, <2>4, <2>6, <2>7, <2>8, PageStep
<1> QED
  BY <1>5, <1>6 DEF Clean

\* The snapshot sees what has committed, its horizon is the oldest that runs.
LEMMA StartInv == ASSUME VisInv, Start, UNCHANGED writeVars PROVE VisInv'
<1>1. /\ heap' = heap /\ nextxid' = nextxid /\ committed' = committed /\ aborted' = aborted
      /\ node = None /\ node' = "idle" /\ todo' = todo
      /\ snapshot' = committed \cup {Frozen}
      /\ seen' = [p \in Pages |-> Visible(heap[p], snapshot')]
      /\ relid' = None /\ entries' = Empty
  BY DEF Start, writeVars, CacheReset
<1> DEFINE T == Running \cup {nextxid}
<1>2. nextxid \in 1 .. NoXid /\ NoXid \in Nat
  BY Sizes DEF VisInv, Transactions
<1>3. T \in SUBSET Nat /\ T # {}
  BY <1>2 DEF Running
<1>4. PICK l \in T : \A y \in T : l <= y
  <2> HIDE DEF T
  <2> QED
    BY <1>3, LeastNumber
<1>5. xmin' \in T /\ \A y \in T : xmin' <= y
  <2>1. xmin' = CHOOSE x \in T : \A y \in T : x <= y
    BY DEF Start
  <2> HIDE DEF T
  <2> QED
    BY <1>4, <2>1
<1>6. xmin' \in 1 .. nextxid
  BY <1>2, <1>5 DEF Running
<1>7. ASSUME NEW x \in 1 .. xmin' - 1 PROVE x \in snapshot' \cup aborted
  <2>1. x \in 1 .. nextxid - 1 /\ ~(xmin' <= x)
    <3>1. xmin' \in Nat /\ nextxid \in Nat /\ xmin' <= nextxid
      BY <1>2, <1>6
    <3> HIDE DEF T
    <3> QED
      BY <3>1, Longer
  <2>2. x \notin Running
    BY <1>5, <2>1
  <2> QED
    BY <1>1, <2>1, <2>2 DEF Running
<1>8. Seeing'
  BY <1>1, <1>6, <1>7 DEF Seeing
<1>9. Cached'
  BY <1>1 DEF Cached, Empty
<1> QED
  BY <1>1, <1>8, <1>9 DEF VisInv, Transactions

\* The cache's entries stay what they were or go.
LEMMA CacheStep ==
  ASSUME VisInv, UNCHANGED writeVars, UNCHANGED <<snapshot, xmin, seen>>,
         node # None, node' \in {"idle", "count"}, todo' \subseteq HeapBlocks,
         node' = "count" => relid' \in Rels, Cached'
  PROVE  VisInv'
<1>1. Seeing'
  BY DEF VisInv, Seeing, writeVars
<1> QED
  BY <1>1 DEF VisInv, Transactions, writeVars

\* Entries of another relation go before a count of this one.
LEMMA BeginInv == ASSUME VisInv, NEW r \in Rels, BeginCount(r), UNCHANGED writeVars PROVE VisInv'
<1>1. /\ node = "idle" /\ node' = "count" /\ relid' = r /\ seen' = seen
      /\ todo' \subseteq HeapBlocks
      /\ snapshot' = snapshot /\ xmin' = xmin
      /\ IF relid # r THEN entries' = Empty ELSE entries' = entries
  BY DEF BeginCount, CacheBegin
<1>2. Cached'
  BY <1>1 DEF VisInv, Cached, Empty, None
<1> QED
  BY <1>1, <1>2, CacheStep DEF None

\* A reset leaves no entry.
LEMMA BetweenInv == ASSUME VisInv, Between, UNCHANGED writeVars PROVE VisInv'
<1>1. node = "idle" /\ UNCHANGED nodeVars /\ entries' = Empty
  BY DEF Between, WindowReset, CacheReset
<1>2. Cached'
  BY <1>1 DEF Cached, Empty
<1>3. /\ node' = "idle" /\ todo' = todo /\ snapshot' = snapshot /\ xmin' = xmin /\ seen' = seen
      /\ todo \subseteq HeapBlocks
  BY <1>1 DEF nodeVars, VisInv
<1> QED
  BY <1>1, <1>2, <1>3, CacheStep DEF None

\* A page is resolved to what the snapshot saw when it was taken.
LEMMA RecheckInv == ASSUME VisInv, NEW b \in HeapBlocks, Recheck(b), UNCHANGED writeVars PROVE VisInv'
<1>1. /\ node = "count" /\ b \in todo /\ CacheVisit(b) /\ todo' = todo \ {b}
      /\ node' \in {"idle", "count"}
      /\ snapshot' = snapshot /\ xmin' = xmin /\ seen' = seen /\ relid' = relid
      /\ relid \in Rels /\ todo \subseteq HeapBlocks
  BY DEF Recheck, CacheVisit, VisInv
<1>2. <<relid, b>> \in Pages
  BY <1>1 DEF Pages
<1>3. FillPage(b) = [filled |-> TRUE, vis |-> seen[<<relid, b>>]] /\ seen[<<relid, b>>] \in SUBSET Lps
  <2>1. Visible(heap[<<relid, b>>], snapshot) = seen[<<relid, b>>]
    BY <1>1, <1>2 DEF VisInv, Seeing, None
  <2>2. Visible(heap[<<relid, b>>], snapshot) \in SUBSET Lps
    BY DEF Visible
  <2> QED
    BY <2>1, <2>2 DEF FillPage
<1>4. node' # None
  BY <1>1 DEF None
<1>5. Cached'
  <2>1. CASE UNCHANGED entries
    BY <1>1, <1>4, <2>1 DEF VisInv, Cached
  <2>2. CASE b \in DOMAIN entries /\ entries' = [entries EXCEPT ![b] = FillPage(b)]
    <3>1. entries \in [DOMAIN entries -> [filled : BOOLEAN, vis : SUBSET Lps]] /\ DOMAIN entries \subseteq HeapBlocks
      BY DEF VisInv, Cached
    <3>2. FillPage(b) \in [filled : BOOLEAN, vis : SUBSET Lps]
      BY <1>3
    <3>3. DOMAIN entries' = DOMAIN entries /\ entries' \in [DOMAIN entries -> [filled : BOOLEAN, vis : SUBSET Lps]]
      BY <2>2, <3>1, <3>2
    <3>4. ASSUME NEW c \in DOMAIN entries, entries'[c].filled
          PROVE  entries'[c].vis = seen[<<relid, c>>]
      <4>1. CASE c = b
        BY <1>3, <2>2, <3>1, <4>1
      <4>2. CASE c # b
        <5>1. entries'[c] = entries[c]
          BY <2>2, <3>1, <4>2
        <5> QED
          BY <3>4, <5>1 DEF VisInv, Cached
      <4> QED
        BY <4>1, <4>2
    <3> QED
      BY <1>1, <1>4, <3>1, <3>3, <3>4 DEF Cached
  <2>3. CASE entries' = [c \in DOMAIN entries \cup {b} |->
               IF c = b THEN [filled |-> FALSE, vis |-> {}] ELSE entries[c]]
    <3>1. entries \in [DOMAIN entries -> [filled : BOOLEAN, vis : SUBSET Lps]] /\ DOMAIN entries \subseteq HeapBlocks
      BY DEF VisInv, Cached
    <3>2. DOMAIN entries' = DOMAIN entries \cup {b}
          /\ entries' \in [DOMAIN entries \cup {b} -> [filled : BOOLEAN, vis : SUBSET Lps]]
      BY <2>3, <3>1
    <3>3. ASSUME NEW c \in DOMAIN entries \cup {b}, entries'[c].filled
          PROVE  entries'[c].vis = seen[<<relid, c>>]
      <4>1. c # b /\ entries'[c] = entries[c] /\ c \in DOMAIN entries
        BY <2>3, <3>3
      <4> QED
        BY <3>3, <4>1 DEF VisInv, Cached
    <3> QED
      BY <1>1, <1>4, <3>1, <3>2, <3>3 DEF Cached
  <2> QED
    BY <1>1, <2>1, <2>2, <2>3 DEF CacheVisit
<1> QED
  BY <1>1, <1>5, CacheStep DEF None

\* With its node the cache goes.
LEMMA EndNodeInv == ASSUME VisInv, EndNode, UNCHANGED writeVars PROVE VisInv'
<1>1. node' = None /\ todo' = {} /\ entries' = Empty /\ heap' = heap /\ nextxid' = nextxid
      /\ committed' = committed /\ aborted' = aborted
  BY DEF EndNode, CacheReset, writeVars
<1>2. Cached'
  BY <1>1 DEF Cached, Empty
<1> QED
  BY <1>1, <1>2 DEF VisInv, Transactions, None

\* Every step keeps the invariant.
LEMMA VisNextInv == VisInv /\ [VisNext]_visVars => VisInv'
<1> SUFFICES ASSUME VisInv, [VisNext]_visVars PROVE VisInv'
  OBVIOUS
<1>1. CASE HeapStep
  <2>1. UNCHANGED <<nodeVars, cacheVars>>
    BY <1>1 DEF HeapStep
  <2>2. CASE nextxid \in Xids /\ Write(nextxid)
    BY <2>1, <2>2, WriteInv
  <2>3. CASE \E x \in Xids : EndXact(x)
    BY <2>1, <2>3, EndXactInv
  <2>4. CASE \E p \in BusyPages, o \in Lps : Clean(p, o)
    BY <2>1, <2>4, CleanInv
  <2> QED
    BY <1>1, <2>2, <2>3, <2>4 DEF HeapStep
<1>2. CASE NodeStep
  <2>1. UNCHANGED writeVars
    BY <1>2 DEF NodeStep
  <2>2. CASE Start
    BY <2>1, <2>2, StartInv
  <2>3. CASE Between
    BY <2>1, <2>3, BetweenInv
  <2>4. CASE EndNode
    BY <2>1, <2>4, EndNodeInv
  <2>5. CASE \E r \in Rels : BeginCount(r)
    BY <2>1, <2>5, BeginInv
  <2>6. CASE \E b \in HeapBlocks : Recheck(b)
    BY <2>1, <2>6, RecheckInv
  <2> QED
    BY <1>2, <2>2, <2>3, <2>4, <2>5, <2>6 DEF NodeStep
<1>3. CASE UNCHANGED visVars
  BY <1>3 DEF visVars, writeVars, nodeVars, cacheVars, VisInv, Transactions, Seeing, Cached
<1> QED
  BY <1>1, <1>2, <1>3 DEF VisNext

\* The visibility cache and the heap it looks at keep the invariant: pages stay
\* sound, the snapshot's view of each stays, entries hold that view.
THEOREM VisInvariant == VisSpec => []VisInv
<1> QED
  BY VisInitInv, VisNextInv, PTL DEF VisSpec

\* Whatever others write, prune and use again, and however the cache was filled
\* and reset, a block is answered with the rows the node's snapshot saw on it.
THEOREM VisAnswers == VisSpec => []AnswersExact
<1>1. VisInv => AnswersExact
  <2> SUFFICES ASSUME VisInv, node = "count", NEW b \in todo
               PROVE  Answer(b) = seen[<<relid, b>>]
    BY DEF AnswersExact
  <2>1. <<relid, b>> \in Pages
    BY DEF VisInv, Pages
  <2>2. CASE Resolved(b)
    BY <2>2 DEF Answer, Resolved, VisInv, Cached
  <2>3. CASE ~Resolved(b)
    BY <2>1, <2>3 DEF Answer, VisInv, Seeing, None
  <2> QED
    BY <2>2, <2>3
<1> QED
  BY <1>1, VisInvariant, PTL
=============================================================================
