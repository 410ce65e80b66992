---------------------------- MODULE LionRingProof ----------------------------
(***************************************************************************)
(* The ring between a reader and its read stream is consistent after every *)
(* step, pins what it should, and answers a read with its block, for any   *)
(* blocks and limits and wherever the positions wrap around.               *)
(*                                                                         *)
(* First the arithmetic of positions, once: what a span of them is and     *)
(* gains or loses at its ends, and that those of a span that is no longer  *)
(* than an array have slots of their own in it.  Then what each operation  *)
(* of the ring does to a consistent ring; then the reader and the stream.  *)
(***************************************************************************)
EXTENDS LionRing, TLAPS, WellFoundedInduction, FiniteSetTheorems

Pos == 0 .. Positions - 1

\* What the proofs need of the sizes, but for how they divide.
LEMMA Sizes ==
  /\ Positions \in Nat /\ Positions > 0
  /\ PSize \in Nat /\ PSize > 0 /\ PSize < Positions
  /\ GSize \in Nat /\ GSize > 0 /\ GSize < Positions
  /\ PinLimit \in Nat /\ PinLimit > 0 /\ PinLimit <= GSize
  /\ PendingLimit \in Nat /\ PendingLimit > 0 /\ PendingLimit <= PSize
BY RingAssumption

-----------------------------------------------------------------------------
(* Positions.                                                              *)

\* The distance from one position to another.
LEMMA DistPos ==
  ASSUME NEW h \in Pos, NEW p \in Pos
  PROVE  /\ Dist(h, p) \in Pos
         /\ Dist(h, p) \in Nat
         /\ Dist(h, p) < Positions
         /\ Dist(h, p) = 0 <=> h = p
         /\ Dist(h, p) = IF h <= p THEN p - h ELSE p - h + Positions
BY Sizes DEF Pos, Dist

\* A position further on.
LEMMA PlusPos ==
  ASSUME NEW h \in Pos, NEW n \in 0 .. Positions
  PROVE  /\ Plus(h, n) \in Pos
         /\ Plus(h, n) = IF h + n < Positions THEN h + n ELSE h + n - Positions
BY Sizes DEF Pos, Plus

\* Going on by n goes as far as n.
LEMMA PlusDist ==
  ASSUME NEW h \in Pos, NEW n \in Pos
  PROVE  Plus(h, n) \in Pos /\ Dist(h, Plus(h, n)) = n
<1> DEFINE x == Plus(h, n)
<1>1. n \in 0 .. Positions  BY Sizes DEF Pos
<1>2. /\ x \in Pos
      /\ x = IF h + n < Positions THEN h + n ELSE h + n - Positions
  BY <1>1, PlusPos
<1> HIDE DEF x
<1>3. Dist(h, x) = n  BY <1>1, <1>2, Sizes DEF Pos, Dist
<1> QED  BY <1>2, <1>3 DEF x

\* Going on as far as a position is comes to it.
LEMMA DistPlus ==
  ASSUME NEW h \in Pos, NEW p \in Pos
  PROVE  Plus(h, Dist(h, p)) = p
<1> DEFINE n == Dist(h, p)
<1>1. n \in Pos /\ n = IF h <= p THEN p - h ELSE p - h + Positions  BY DistPos
<1> HIDE DEF n
<1>2. n \in 0 .. Positions  BY <1>1, Sizes DEF Pos
<1>3. Plus(h, n) = IF h + n < Positions THEN h + n ELSE h + n - Positions
  BY <1>2, PlusPos
<1>4. Plus(h, n) = p  BY <1>1, <1>3, Sizes DEF Pos
<1> QED  BY <1>4 DEF n

\* The positions of a span: those less far on than its end.
LEMMA SpanIs ==
  ASSUME NEW h \in Pos, NEW t \in Pos
  PROVE  Span(h, t) = {p \in Pos : Dist(h, p) < Dist(h, t)}
<1>1. Dist(h, t) \in Pos  BY DistPos
<1>2. ASSUME NEW i \in 0 .. Dist(h, t) - 1
      PROVE  Plus(h, i) \in Pos /\ Dist(h, Plus(h, i)) = i
  <2>1. i \in Pos  BY <1>1, Sizes DEF Pos
  <2> QED  BY <2>1, PlusDist
<1>3. ASSUME NEW p \in Pos, Dist(h, p) < Dist(h, t)
      PROVE  \E i \in 0 .. Dist(h, t) - 1 : p = Plus(h, i)
  <2>1. Dist(h, p) \in 0 .. Dist(h, t) - 1
    BY <1>1, <1>3, DistPos, Sizes DEF Pos
  <2> QED  BY <2>1, DistPlus
<1> QED  BY <1>1, <1>2, <1>3 DEF Span, Pos

\* The same of one position.
LEMMA InSpan ==
  ASSUME NEW h \in Pos, NEW t \in Pos, NEW p
  PROVE  p \in Span(h, t) <=> p \in Pos /\ Dist(h, p) < Dist(h, t)
BY SpanIs

LEMMA SpanEmpty ==
  ASSUME NEW h \in Pos  PROVE  Span(h, h) = {}
BY SpanIs, Sizes DEF Pos, Dist

\* A span that grows at its end.
LEMMA SpanTail ==
  ASSUME NEW h \in Pos, NEW t \in Pos, Dist(h, t) < Positions - 1
  PROVE  /\ Plus(t, 1) \in Pos
         /\ Dist(h, Plus(t, 1)) = Dist(h, t) + 1
         /\ Span(h, Plus(t, 1)) = Span(h, t) \cup {t}
         /\ t \notin Span(h, t)
<1> DEFINE u == Plus(t, 1)
<1>1. u \in Pos /\ u = IF t + 1 < Positions THEN t + 1 ELSE t + 1 - Positions
  BY PlusPos, Sizes
<1> HIDE DEF u
<1>2. Dist(h, u) = Dist(h, t) + 1
  BY <1>1, Sizes DEF Pos, Dist
<1>3. \A p \in Pos : Dist(h, p) < Dist(h, t) + 1 <=> Dist(h, p) < Dist(h, t) \/ p = t
  BY Sizes DEF Pos, Dist
<1>4. Span(h, u) = Span(h, t) \cup {t}
  <2>1. \A x : x \in Span(h, u) <=> x \in Pos /\ Dist(h, x) < Dist(h, u)
    BY <1>1, InSpan
  <2> QED  BY <1>2, <1>3, <2>1, InSpan
<1>5. t \notin Span(h, t)
  BY SpanIs, Sizes DEF Pos, Dist
<1> QED  BY <1>1, <1>2, <1>4, <1>5 DEF u

\* ... and at its front.
LEMMA SpanFront ==
  ASSUME NEW h \in Pos, NEW t \in Pos, Dist(h, t) < Positions - 1
  PROVE  LET f == Plus(h, Positions - 1)
         IN /\ f \in Pos
            /\ Dist(f, t) = Dist(h, t) + 1
            /\ Span(f, t) = Span(h, t) \cup {f}
            /\ f \notin Span(h, t)
<1> DEFINE f == Plus(h, Positions - 1)
<1>1. f \in Pos /\ f = IF h = 0 THEN Positions - 1 ELSE h - 1
  <2>1. Positions - 1 \in 0 .. Positions  BY Sizes
  <2>2. /\ f \in Pos
        /\ f = IF h + (Positions - 1) < Positions THEN h + (Positions - 1)
               ELSE h + (Positions - 1) - Positions
    BY <2>1, PlusPos
  <2> HIDE DEF f
  <2> QED  BY <2>2, Sizes DEF Pos
<1> HIDE DEF f
<1>2. Dist(f, t) = Dist(h, t) + 1
  BY <1>1, Sizes DEF Pos, Dist
<1>3. \A p \in Pos : Dist(f, p) < Dist(h, t) + 1 <=> Dist(h, p) < Dist(h, t) \/ p = f
  BY <1>1, Sizes DEF Pos, Dist
<1>4. Span(f, t) = Span(h, t) \cup {f}
  <2>1. \A x : x \in Span(f, t) <=> x \in Pos /\ Dist(f, x) < Dist(f, t)
    BY <1>1, InSpan
  <2>2. \A x : x \in Span(h, t) <=> x \in Pos /\ Dist(h, x) < Dist(h, t)
    BY InSpan
  <2> QED  BY <1>1, <1>2, <1>3, <2>1, <2>2
<1>5. f \notin Span(h, t)
  <2>1. ~(Dist(h, f) < Dist(h, t))
    BY <1>1, Sizes DEF Pos, Dist
  <2> QED  BY <2>1, InSpan
<1> QED  BY <1>1, <1>2, <1>4, <1>5 DEF f

\* A position on the way divides a span in two.
LEMMA SpanParts ==
  ASSUME NEW h \in Pos, NEW p \in Pos, NEW t \in Pos, Dist(h, p) <= Dist(h, t)
  PROVE  /\ Dist(p, t) = Dist(h, t) - Dist(h, p)
         /\ Span(h, t) = Span(h, p) \cup Span(p, t)
         /\ Span(h, p) \cap Span(p, t) = {}
<1>1. Dist(p, t) = Dist(h, t) - Dist(h, p)
  BY Sizes DEF Pos, Dist
<1>2. \A x \in Pos :
        Dist(p, x) < Dist(p, t) <=>
          Dist(h, x) < Dist(h, t) /\ ~(Dist(h, x) < Dist(h, p))
  BY Sizes DEF Pos, Dist
<1>3. \A x \in Pos : Dist(h, x) < Dist(h, p) => Dist(h, x) < Dist(h, t)
  BY Sizes DEF Pos, Dist
<1> QED  BY <1>1, <1>2, <1>3, SpanIs

\* A span that loses its first position.
LEMMA SpanHead ==
  ASSUME NEW h \in Pos, NEW t \in Pos, h # t
  PROVE  /\ Plus(h, 1) \in Pos
         /\ Dist(Plus(h, 1), t) = Dist(h, t) - 1
         /\ Span(Plus(h, 1), t) = Span(h, t) \ {h}
         /\ h \in Span(h, t)
<1>1. Dist(h, h) = 0 /\ Dist(h, t) > 0 /\ Dist(h, t) \in Int
  BY Sizes DEF Pos, Dist
<1>2. /\ Plus(h, 1) \in Pos
      /\ Dist(h, Plus(h, 1)) = 1
      /\ Span(h, Plus(h, 1)) = {h}
  <2>1. Dist(h, h) < Positions - 1  BY <1>1, Sizes DEF Pos, Dist
  <2> QED  BY <1>1, <2>1, SpanTail, SpanEmpty
<1> QED  BY <1>1, <1>2, SpanParts

-----------------------------------------------------------------------------
(* Slots.                                                                  *)

LEMMA Times ==
  ASSUME NEW n \in Int, NEW S \in Nat, S > 0
  PROVE  /\ n >= 1 => n * S >= S
         /\ n * S > 0 => n >= 1
<1>1. n >= 1 => n * S >= S
  <2>1. ASSUME NEW d \in Nat  PROVE d * S >= 0  OBVIOUS
  <2>2. ASSUME n >= 1  PROVE n * S >= S
    <3>1. n - 1 \in Nat /\ n * S = (n - 1) * S + S  BY <2>2
    <3> QED  BY <3>1, <2>1
  <2> QED  BY <2>2
<1>2. n * S > 0 => n >= 1
  OBVIOUS
<1> QED  BY <1>1, <1>2

\* Positions that share a slot are a multiple of the size apart; and the size
\* divides all positions, so they also are around the wrap.
LEMMA SlotsApart ==
  ASSUME NEW Size \in Nat, Size > 0, Size < Positions, Positions % Size = 0,
         NEW p \in Pos, NEW q \in Pos, q < p, p % Size = q % Size
  PROVE  p - q >= Size /\ p - q <= Positions - Size
<1>1. p \in Int /\ q \in Int /\ Positions \in Int  BY Sizes DEF Pos
<1>2. PICK c \in Int : Positions = c * Size
  BY <1>1
<1> DEFINE a == p \div Size  b == q \div Size
<1>3. a \in Int /\ p = a * Size + (p % Size)
  BY <1>1
<1>4. b \in Int /\ q = b * Size + (q % Size)
  BY <1>1
<1> HIDE DEF a, b
<1>5. p - q = (a - b) * Size
  BY <1>1, <1>3, <1>4
<1>6. a - b >= 1
  <2>1. (a - b) * Size > 0  BY <1>1, <1>5
  <2> QED  BY <2>1, <1>3, <1>4, Times
<1>7. c - (a - b) >= 1
  <2>1. (c - (a - b)) * Size = c * Size - (p - q)
    BY <1>1, <1>2, <1>3, <1>4, <1>5
  <2>2. p - q < c * Size  BY <1>1, <1>2, Sizes DEF Pos
  <2>3. (c - (a - b)) * Size > 0  BY <2>1, <2>2, <1>1, <1>2
  <2> QED  BY <2>3, <1>2, <1>3, <1>4, Times
<1>8. (c - (a - b)) * Size >= Size  BY <1>7, <1>2, <1>3, <1>4, Times
<1>9. (a - b) * Size >= Size  BY <1>6, <1>3, <1>4, Times
<1>10. (c - (a - b)) * Size = c * Size - (a - b) * Size  BY <1>2, <1>3, <1>4
<1> QED  BY <1>1, <1>2, <1>5, <1>8, <1>9, <1>10

\* So a span no longer than the size has slots of its own for its positions.
LEMMA SlotsDiffer ==
  ASSUME NEW Size \in Nat, Size > 0, Size < Positions, Positions % Size = 0,
         NEW h \in Pos, NEW t \in Pos, Dist(h, t) <= Size,
         NEW p \in Span(h, t), NEW q \in Span(h, t), p % Size = q % Size
  PROVE  p = q
<1>1. p \in Pos /\ q \in Pos /\ Dist(h, p) < Dist(h, t) /\ Dist(h, q) < Dist(h, t)
  BY InSpan
<1>2. Dist(h, p) < Size /\ Dist(h, q) < Size
  BY <1>1, Sizes DEF Pos, Dist
<1>3. /\ q < p => p - q >= Size /\ p - q <= Positions - Size
      /\ p < q => q - p >= Size /\ q - p <= Positions - Size
  BY <1>1, <1>2, SlotsApart
<1> QED  BY <1>1, <1>2, <1>3, Sizes DEF Pos, Dist

\* ... in a pending queue
LEMMA QueueSlots ==
  ASSUME NEW h \in Pos, NEW t \in Pos, Dist(h, t) <= PendingLimit
  PROVE  /\ \A p \in Pos : p % PSize \in 0 .. PSize - 1
         /\ \A p, q \in Span(h, t) : p % PSize = q % PSize => p = q
<1>1. \A p \in Pos : p % PSize \in 0 .. PSize - 1  BY Sizes DEF Pos
<1>2. Dist(h, t) <= PSize  BY Sizes, DistPos
<1>3. Positions % PSize = 0  BY RingAssumption
<1> QED  BY <1>1, <1>2, <1>3, Sizes, SlotsDiffer

\* ... and in the given part.
LEMMA GivenSlots ==
  ASSUME NEW h \in Pos, NEW t \in Pos, Dist(h, t) <= PinLimit
  PROVE  /\ \A p \in Pos : p % GSize \in 0 .. GSize - 1
         /\ \A p, q \in Span(h, t) : p % GSize = q % GSize => p = q
<1>1. \A p \in Pos : p % GSize \in 0 .. GSize - 1  BY Sizes DEF Pos
<1>2. Dist(h, t) <= GSize  BY Sizes, DistPos
<1>3. Positions % GSize = 0  BY RingAssumption
<1> QED  BY <1>1, <1>2, <1>3, Sizes, SlotsDiffer

\* A first member of a set of numbers up to n, or n.
LEMMA Least ==
  ASSUME NEW n \in Nat, NEW S
  PROVE  \E k \in 0 .. n : (\A i \in 0 .. k - 1 : i \notin S) /\ (k = n \/ k \in S)
<1> DEFINE T == {k \in 0 .. n : k = n \/ k \in S}
<1>1. T \in (SUBSET Nat) \ {{}}  OBVIOUS
<1>2. PICK k \in T : \A m \in T : ~(<<m, k>> \in OpToRel(<, Nat))
  BY <1>1, WFMin, NatLessThanWellFounded
<1>3. \A m \in T : ~(m < k)
  <2>1. ASSUME NEW i \in Nat, NEW j \in Nat, i < j
        PROVE  <<i, j>> \in OpToRel(<, Nat)
    BY <2>1, Zenon DEF OpToRel
  <2>2. ASSUME NEW m \in T, m < k  PROVE FALSE
    <3>1. m \in Nat /\ k \in Nat  OBVIOUS
    <3>2. <<m, k>> \in OpToRel(<, Nat)  BY <2>1, <2>2, <3>1, Zenon
    <3> HIDE DEF T
    <3> QED  BY <1>2, <3>2, Zenon
  <2> QED  BY <2>2
<1> QED  BY <1>3

-----------------------------------------------------------------------------
(* A consistent ring, as a predicate of it.                                *)

DequeType == [b : [0 .. PSize - 1 -> ReadBlocks \cup {NoBlock}],
              head : Pos, tail : Pos]
SlotType == [blk : ReadBlocks, buf : ReadBlocks \cup {NoBlock}]
KeyType == [where : Queues \cup {GIVEN}, pos : Pos]
RingType ==
  [g : [0 .. GSize - 1 -> {NoBlock} \cup SlotType], ghead : Pos, gpull : Pos,
   gtail : Pos, nheld : Int, q : [Queues -> DequeType], npending : Int,
   key : [ReadBlocks -> {NoBlock} \cup KeyType], ended : BOOLEAN]

PendingIn(r, blk) == r.key[blk] # NoBlock /\ r.key[blk].where \in Queues
GivenIn(r, blk) == r.key[blk] # NoBlock /\ r.key[blk].where = GIVEN
HeldIn(r, blk) == GivenIn(r, blk) /\ r.g[r.key[blk].pos % GSize].buf # NoBlock

PendingSet(r) == {blk \in ReadBlocks : PendingIn(r, blk)}
HeldSet(r) == {blk \in ReadBlocks : HeldIn(r, blk)}

\* blk waits in queue w, at position p
Waits(r, w, p, blk) ==
  /\ p \in Span(r.q[w].head, r.q[w].tail)
  /\ r.q[w].b[p % PSize] = blk

\* blk is in the given part, at position p
Lies(r, p, blk) ==
  /\ p \in Span(r.ghead, r.gtail)
  /\ r.g[p % GSize] # NoBlock
  /\ r.g[p % GSize].blk = blk

\* the pending queues are as short as they should be, the blocks that wait in
\* them are those whose keys say so, and they are counted
QueuesInv(r) ==
  /\ \A w \in Queues : Dist(r.q[w].head, r.q[w].tail) <= PendingLimit
  /\ \A w \in Queues, p \in Pos, blk \in ReadBlocks :
       Waits(r, w, p, blk) <=> r.key[blk] = [where |-> w, pos |-> p]
QueuesCounted(r) ==
  IsFiniteSet(PendingSet(r)) /\ r.npending = Cardinality(PendingSet(r))
PendingInv(r) == QueuesInv(r) /\ QueuesCounted(r)

\* the given part has held blocks and holes, then given blocks, and nothing
\* beside them; its blocks are those whose keys say so; and the held are counted
SlotsInv(r) ==
  /\ Dist(r.ghead, r.gtail) <= PinLimit
  /\ Dist(r.ghead, r.gpull) <= Dist(r.ghead, r.gtail)
  /\ \A p \in Span(r.ghead, r.gpull) :
       r.g[p % GSize] # NoBlock => r.g[p % GSize].buf = r.g[p % GSize].blk
  /\ \A p \in Span(r.gpull, r.gtail) :
       r.g[p % GSize] # NoBlock /\ r.g[p % GSize].buf = NoBlock
  /\ \A i \in 0 .. GSize - 1 :
       (\A p \in Span(r.ghead, r.gtail) : p % GSize # i) => r.g[i] = NoBlock
SlotKeysInv(r) ==
  \A p \in Pos, blk \in ReadBlocks :
    Lies(r, p, blk) <=> r.key[blk] = [where |-> GIVEN, pos |-> p]
HeldCounted(r) ==
  IsFiniteSet(HeldSet(r)) /\ r.nheld = Cardinality(HeldSet(r))
GivenInv(r) == SlotsInv(r) /\ SlotKeysInv(r) /\ HeldCounted(r)

\* no hole is first
HeadFull(r) == r.ghead # r.gpull => r.g[r.ghead % GSize] # NoBlock

RingInv(r) == r \in RingType /\ PendingInv(r) /\ GivenInv(r) /\ HeadFull(r)

\* NoBlock is no slot and no key.
LEMMA NoBlockIsNone ==
  NoBlock \notin ReadBlocks /\ NoBlock \notin SlotType /\ NoBlock \notin KeyType
BY RingAssumption DEF SlotType, KeyType, Pos

\* A key, taken apart: it is a queue's,
LEMMA QueueKey ==
  ASSUME NEW r \in RingType, NEW blk \in ReadBlocks, NEW w \in Queues, NEW p \in Pos
  PROVE  r.key[blk] = [where |-> w, pos |-> p] <=>
           PendingIn(r, blk) /\ r.key[blk].where = w /\ r.key[blk].pos = p
<1>1. r.key[blk] = NoBlock \/ r.key[blk] \in KeyType  BY DEF RingType
<1>2. [where |-> w, pos |-> p] \in KeyType  BY DEF KeyType
<1>3. NoBlock \notin KeyType  BY NoBlockIsNone
<1>4. \A k \in KeyType : k = [where |-> w, pos |-> p] <=> k.where = w /\ k.pos = p
  BY DEF KeyType
<1> QED  BY <1>1, <1>2, <1>3, <1>4 DEF PendingIn

\* ... or of the given part,
LEMMA GivenKey ==
  ASSUME NEW r \in RingType, NEW blk \in ReadBlocks, NEW p \in Pos
  PROVE  r.key[blk] = [where |-> GIVEN, pos |-> p] <=>
           GivenIn(r, blk) /\ r.key[blk].pos = p
<1>1. r.key[blk] = NoBlock \/ r.key[blk] \in KeyType  BY DEF RingType
<1>2. [where |-> GIVEN, pos |-> p] \in KeyType  BY DEF KeyType
<1>3. NoBlock \notin KeyType  BY NoBlockIsNone
<1>4. \A k \in KeyType :
        k = [where |-> GIVEN, pos |-> p] <=> k.where = GIVEN /\ k.pos = p
  BY DEF KeyType
<1> QED  BY <1>1, <1>2, <1>3, <1>4 DEF GivenIn

\* ... and never of both.
LEMMA KeyOf ==
  ASSUME NEW r \in RingType, NEW blk \in ReadBlocks
  PROVE  /\ PendingIn(r, blk) \/ GivenIn(r, blk) => r.key[blk].pos \in Pos
         /\ PendingIn(r, blk) => r.key[blk].where \in Queues
         /\ ~(PendingIn(r, blk) /\ GivenIn(r, blk))
         /\ r.key[blk] # NoBlock <=> PendingIn(r, blk) \/ GivenIn(r, blk)
<1>1. r.key[blk] = NoBlock \/ r.key[blk] \in KeyType  BY DEF RingType
<1>2. GIVEN \notin Queues  BY DEF GIVEN, Queues, URGENT, PREDICTED
<1> QED  BY <1>1, <1>2, NoBlockIsNone DEF KeyType, PendingIn, GivenIn

\* The pending part of a ring: what it is not about may change.
LEMMA SamePending ==
  ASSUME NEW r \in RingType, PendingInv(r), NEW s \in RingType,
         s.q = r.q, s.npending = r.npending,
         \A blk \in ReadBlocks :
           \/ s.key[blk] = r.key[blk]
           \/ ~PendingIn(r, blk) /\ ~PendingIn(s, blk)
  PROVE  PendingInv(s)
<1>1. \A blk \in ReadBlocks : PendingIn(s, blk) <=> PendingIn(r, blk)
  BY DEF PendingIn
<1>2. PendingSet(s) = PendingSet(r)  BY <1>1 DEF PendingSet
<1>3. ASSUME NEW w \in Queues, NEW p \in Pos, NEW blk \in ReadBlocks
      PROVE  /\ Waits(s, w, p, blk) <=> Waits(r, w, p, blk)
             /\ s.key[blk] = [where |-> w, pos |-> p] <=>
                  r.key[blk] = [where |-> w, pos |-> p]
  <2>1. Waits(s, w, p, blk) <=> Waits(r, w, p, blk)  BY DEF Waits
  <2>2. CASE s.key[blk] = r.key[blk]  BY <2>1, <2>2
  <2>3. CASE ~PendingIn(r, blk) /\ ~PendingIn(s, blk)
    <3>1. /\ s.key[blk] # [where |-> w, pos |-> p]
          /\ r.key[blk] # [where |-> w, pos |-> p]
      BY <2>3, QueueKey
    <3> QED  BY <2>1, <3>1
  <2> QED  BY <2>2, <2>3
<1> QED  BY <1>2, <1>3 DEF PendingInv, QueuesInv, QueuesCounted

\* The given part of a ring: what it is not about may change.
LEMMA SameGiven ==
  ASSUME NEW r \in RingType, GivenInv(r), NEW s \in RingType,
         s.g = r.g, s.ghead = r.ghead, s.gpull = r.gpull, s.gtail = r.gtail,
         s.nheld = r.nheld,
         \A blk \in ReadBlocks :
           \/ s.key[blk] = r.key[blk]
           \/ ~GivenIn(r, blk) /\ ~GivenIn(s, blk)
  PROVE  GivenInv(s) /\ (HeadFull(r) => HeadFull(s))
<1>1. \A blk \in ReadBlocks : GivenIn(s, blk) <=> GivenIn(r, blk)
  BY DEF GivenIn
<1>2. HeldSet(s) = HeldSet(r)  BY <1>1 DEF HeldSet, HeldIn
<1>3. ASSUME NEW p \in Pos, NEW blk \in ReadBlocks
      PROVE  /\ Lies(s, p, blk) <=> Lies(r, p, blk)
             /\ s.key[blk] = [where |-> GIVEN, pos |-> p] <=>
                  r.key[blk] = [where |-> GIVEN, pos |-> p]
  BY GivenKey DEF Lies
<1>4. SlotsInv(s)  BY DEF GivenInv, SlotsInv
<1>5. SlotKeysInv(s)  BY <1>3 DEF GivenInv, SlotKeysInv
<1> QED  BY <1>2, <1>4, <1>5 DEF GivenInv, HeldCounted, HeadFull

-----------------------------------------------------------------------------
(* The pending queues.                                                     *)

\* A queue and its slots.
LEMMA QueueOf ==
  ASSUME NEW r \in RingType, NEW w \in Queues
  PROVE  /\ r.q[w] \in DequeType
         /\ r.q[w].head \in Pos /\ r.q[w].tail \in Pos
         /\ r.q[w].b \in [0 .. PSize - 1 -> ReadBlocks \cup {NoBlock}]
         /\ \A p \in Pos : p % PSize \in 0 .. PSize - 1
         /\ \A p \in Span(r.q[w].head, r.q[w].tail) : p \in Pos
<1>1. r.q[w] \in DequeType  BY DEF RingType
<1>2. \A p \in Pos : p % PSize \in 0 .. PSize - 1  BY Sizes DEF Pos
<1>3. r.q[w].head \in Pos /\ r.q[w].tail \in Pos  BY <1>1 DEF DequeType
<1>4. \A p \in Span(r.q[w].head, r.q[w].tail) : p \in Pos  BY <1>3, InSpan
<1> QED  BY <1>1, <1>2, <1>3, <1>4 DEF DequeType

\* Past the holes at the front of a span, or to its end.
PastHoles(f, Size, head, past) ==
  LET n == Dist(head, past)
      Hole(i) == f[Plus(head, i) % Size] = NoBlock
      holes == CHOOSE k \in 0 .. n : /\ \A i \in 0 .. k - 1 : Hole(i)
                                     /\ k = n \/ ~Hole(k)
  IN Plus(head, holes)

\* ... it is past holes only, and as far as it can be.
LEMMA PastHolesIs ==
  ASSUME NEW f, NEW Size \in Nat, NEW head \in Pos, NEW past \in Pos,
         NEW h, h = PastHoles(f, Size, head, past)
  PROVE  /\ h \in Pos
         /\ Dist(head, h) <= Dist(head, past)
         /\ \A p \in Span(head, h) : f[p % Size] = NoBlock
         /\ h # past => f[h % Size] # NoBlock
         /\ f[head % Size] # NoBlock \/ head = past => h = head
<1> DEFINE n == Dist(head, past)
           Hole(i) == f[Plus(head, i) % Size] = NoBlock
           Fits(k) == (\A i \in 0 .. k - 1 : Hole(i)) /\ (k = n \/ ~Hole(k))
<1>1. n \in Nat /\ n < Positions  BY DistPos
<1>2. \E k \in 0 .. n : Fits(k)
  <2> DEFINE S == {i \in 0 .. n : ~Hole(i)}
  <2>1. PICK k \in 0 .. n : (\A i \in 0 .. k - 1 : i \notin S) /\ (k = n \/ k \in S)
    <3> HIDE DEF S, n
    <3> QED  BY <1>1, Least
  <2> HIDE DEF Hole
  <2>2. \A i \in 0 .. k - 1 : i \in 0 .. n  BY <1>1, <2>1
  <2> QED  BY <2>1, <2>2
<1> DEFINE k == CHOOSE k \in 0 .. n : Fits(k)
<1>3. k \in 0 .. n /\ Fits(k)
  <2> HIDE DEF Fits
  <2> QED  BY <1>2
<1>4. h = Plus(head, k)  BY DEF PastHoles
<1> HIDE DEF k
<1>5. k \in Pos  BY <1>1, <1>3, Sizes DEF Pos
<1>6. h \in Pos /\ Dist(head, h) = k  BY <1>4, <1>5, PlusDist
<1>7. Dist(head, h) <= n  BY <1>1, <1>3, <1>6
<1>8. \A p \in Span(head, h) : f[p % Size] = NoBlock
  BY <1>3, <1>6 DEF Span
<1>9. h # past => f[h % Size] # NoBlock
  BY <1>3, <1>4, DistPlus
<1>10. f[head % Size] # NoBlock \/ head = past => h = head
  <2>1. n = 0 <=> head = past  BY DistPos
  <2>2. Plus(head, 0) = head  BY Sizes DEF Pos, Plus
  <2>3. k # 0 => 0 \in 0 .. k - 1  BY <1>3
  <2> QED  BY <1>3, <1>4, <2>1, <2>2, <2>3
<1> QED  BY <1>6, <1>7, <1>8, <1>9, <1>10

\* lion_ring_deque_trim() drops holes only, and all there are in front.
LEMMA TrimIs ==
  ASSUME NEW d \in DequeType
  PROVE  \E h \in Pos :
           /\ Trim(d) = [d EXCEPT !.head = h]
           /\ Dist(h, d.tail) <= Dist(d.head, d.tail)
           /\ Span(h, d.tail) \subseteq Span(d.head, d.tail)
           /\ \A p \in Span(d.head, d.tail) :
                p \notin Span(h, d.tail) => d.b[p % PSize] = NoBlock
           /\ h # d.tail => d.b[h % PSize] # NoBlock
           /\ d.b[d.head % PSize] # NoBlock \/ d.head = d.tail => h = d.head
<1> DEFINE h == PastHoles(d.b, PSize, d.head, d.tail)
<1>0. h = PastHoles(d.b, PSize, d.head, d.tail)  OBVIOUS
<1>1. d.head \in Pos /\ d.tail \in Pos  BY DEF DequeType
<1>2. Trim(d) = [d EXCEPT !.head = h]  BY DEF Trim, PastHoles
<1> HIDE DEF h
<1>3. /\ h \in Pos
      /\ Dist(d.head, h) <= Dist(d.head, d.tail)
      /\ \A p \in Span(d.head, h) : d.b[p % PSize] = NoBlock
      /\ h # d.tail => d.b[h % PSize] # NoBlock
      /\ d.b[d.head % PSize] # NoBlock \/ d.head = d.tail => h = d.head
  BY <1>0, <1>1, PastHolesIs, Sizes
<1>4. /\ Dist(h, d.tail) = Dist(d.head, d.tail) - Dist(d.head, h)
      /\ Span(d.head, d.tail) = Span(d.head, h) \cup Span(h, d.tail)
  BY <1>1, <1>3, SpanParts
<1>5. Dist(h, d.tail) <= Dist(d.head, d.tail)
  BY <1>1, <1>3, <1>4, DistPos
<1> QED  BY <1>2, <1>3, <1>4, <1>5

\* What an operation on the pending queues leaves alone.
GivenUnchanged(r, s) ==
  /\ s.g = r.g /\ s.ghead = r.ghead /\ s.gpull = r.gpull /\ s.gtail = r.gtail
  /\ s.nheld = r.nheld /\ s.ended = r.ended

\* A queue that is trimmed has the same blocks, and none or one at its head.
LEMMA TrimQueueInv ==
  ASSUME NEW r \in RingType, PendingInv(r), NEW w \in Queues
  PROVE  LET s == TrimQueue(r, w)
         IN /\ s \in RingType /\ PendingInv(s)
            /\ s.key = r.key /\ s.npending = r.npending /\ GivenUnchanged(r, s)
            /\ \A v \in Queues : v # w => s.q[v] = r.q[v]
            /\ s.q[w].head # s.q[w].tail =>
                 s.q[w].b[s.q[w].head % PSize] # NoBlock
            /\ r.q[w].b[r.q[w].head % PSize] # NoBlock => s.q[w] = r.q[w]
<1> DEFINE d == r.q[w]
           s == TrimQueue(r, w)
<1>1. PICK h \in Pos :
        /\ Trim(d) = [d EXCEPT !.head = h]
        /\ Dist(h, d.tail) <= Dist(d.head, d.tail)
        /\ Span(h, d.tail) \subseteq Span(d.head, d.tail)
        /\ \A p \in Span(d.head, d.tail) :
             p \notin Span(h, d.tail) => d.b[p % PSize] = NoBlock
        /\ h # d.tail => d.b[h % PSize] # NoBlock
        /\ d.b[d.head % PSize] # NoBlock \/ d.head = d.tail => h = d.head
  BY QueueOf, TrimIs
<1>2. d \in DequeType  BY QueueOf
<1>3. [d EXCEPT !.head = h] \in DequeType /\ [d EXCEPT !.head = d.head] = d
  BY <1>2 DEF DequeType
<1>4. /\ s \in RingType
      /\ s.key = r.key /\ s.npending = r.npending /\ GivenUnchanged(r, s)
      /\ s.q = [r.q EXCEPT ![w] = [d EXCEPT !.head = h]]
  BY <1>1, <1>3 DEF TrimQueue, RingType, GivenUnchanged
<1>5. /\ \A v \in Queues : v # w => s.q[v] = r.q[v]
      /\ s.q[w] = [d EXCEPT !.head = h]
      /\ s.q[w].head = h /\ s.q[w].tail = d.tail /\ s.q[w].b = d.b
  BY <1>2, <1>4 DEF RingType, DequeType
<1>6. ASSUME NEW v \in Queues, NEW p \in Pos, NEW blk \in ReadBlocks
      PROVE  Waits(s, v, p, blk) <=> Waits(r, v, p, blk)
  <2>1. CASE v # w
    BY <1>5, <2>1 DEF Waits
  <2>2. CASE v = w
    <3>1. Waits(s, w, p, blk) <=> p \in Span(h, d.tail) /\ d.b[p % PSize] = blk
      BY <1>5 DEF Waits
    <3>2. Waits(r, w, p, blk) <=>
            p \in Span(d.head, d.tail) /\ d.b[p % PSize] = blk
      BY DEF Waits
    <3> HIDE DEF d
    <3> QED  BY <1>1, <2>2, <3>1, <3>2, NoBlockIsNone
  <2> QED  BY <2>1, <2>2
<1>7. \A v \in Queues : Dist(s.q[v].head, s.q[v].tail) <= PendingLimit
  <2>1. Dist(h, d.tail) <= PendingLimit
    <3>1. Dist(d.head, d.tail) <= PendingLimit  BY DEF PendingInv, QueuesInv
    <3>2. Dist(h, d.tail) \in Nat /\ Dist(d.head, d.tail) \in Nat
      BY QueueOf, DistPos
    <3> HIDE DEF d
    <3> QED  BY <1>1, <3>1, <3>2, Sizes
  <2> QED  BY <1>5, <2>1 DEF PendingInv, QueuesInv
<1>8. PendingSet(s) = PendingSet(r)  BY <1>4 DEF PendingSet, PendingIn
<1>9. PendingInv(s)
  BY <1>4, <1>6, <1>7, <1>8 DEF PendingInv, QueuesInv, QueuesCounted
<1> HIDE DEF s
<1> QED  BY <1>1, <1>3, <1>4, <1>5, <1>9 DEF s

\* An operation on the pending queues: the given blocks are none of its business.
PendingStep(r, s) ==
  /\ s \in RingType
  /\ PendingInv(s)
  /\ GivenUnchanged(r, s)
  /\ \A blk \in ReadBlocks :
       \/ s.key[blk] = r.key[blk]
       \/ ~GivenIn(r, blk) /\ ~GivenIn(s, blk)

\* Such operations in a row are one.
LEMMA PendingSteps ==
  ASSUME NEW r, NEW s, NEW t, PendingStep(r, s), PendingStep(s, t)
  PROVE  PendingStep(r, t)
<1>1. ASSUME NEW blk \in ReadBlocks
      PROVE  \/ t.key[blk] = r.key[blk]
             \/ ~GivenIn(r, blk) /\ ~GivenIn(t, blk)
  BY DEF PendingStep, GivenIn
<1> QED  BY <1>1 DEF PendingStep, GivenUnchanged

LEMMA PendingStepInv ==
  ASSUME NEW r, RingInv(r), NEW s, PendingStep(r, s)
  PROVE  RingInv(s)
BY SameGiven DEF PendingStep, RingInv, GivenUnchanged

LEMMA TrimQueueStep ==
  ASSUME NEW r \in RingType, PendingInv(r), NEW w \in Queues
  PROVE  PendingStep(r, TrimQueue(r, w))
BY TrimQueueInv DEF PendingStep

\* A block that comes to wait at a new position of a queue.
LEMMA AddWaiting ==
  ASSUME NEW r \in RingType, PendingInv(r), NEW s \in RingType,
         NEW w \in Queues, NEW pos \in Pos, NEW blk \in ReadBlocks,
         NEW h \in Pos, NEW t \in Pos,
         r.key[blk] = NoBlock,
         s.key[blk] = [where |-> w, pos |-> pos],
         \A c \in ReadBlocks : c # blk => s.key[c] = r.key[c],
         \A v \in Queues : v # w => s.q[v] = r.q[v],
         s.q[w].b = [r.q[w].b EXCEPT ![pos % PSize] = blk],
         s.q[w].head = h, s.q[w].tail = t,
         Span(h, t) = Span(r.q[w].head, r.q[w].tail) \cup {pos},
         pos \notin Span(r.q[w].head, r.q[w].tail),
         Dist(h, t) <= PendingLimit,
         s.npending = r.npending + 1
  PROVE  PendingInv(s)
<1> DEFINE d == r.q[w]
<1>1. /\ s.q[w].head = h /\ s.q[w].tail = t
      /\ s.q[w].b = [d.b EXCEPT ![pos % PSize] = blk]
  OBVIOUS
<1>2. \A p \in Pos : s.q[w].b[p % PSize] =
                       IF p % PSize = pos % PSize THEN blk ELSE d.b[p % PSize]
  BY <1>1, QueueOf
<1>3. \A p, q \in Span(h, t) : p % PSize = q % PSize => p = q
  BY QueueSlots
<1>4. ASSUME NEW v \in Queues, NEW p \in Pos, NEW c \in ReadBlocks
      PROVE  Waits(s, v, p, c) <=>
               Waits(r, v, p, c) \/ (v = w /\ p = pos /\ c = blk)
  <2>1. CASE v # w  BY <2>1 DEF Waits
  <2>2. CASE v = w
    <3>1. Waits(s, v, p, c) <=> p \in Span(h, t) /\ s.q[w].b[p % PSize] = c
      BY <1>1, <2>2 DEF Waits
    <3>2. Waits(r, v, p, c) <=> p \in Span(d.head, d.tail) /\ d.b[p % PSize] = c
      BY <2>2 DEF Waits
    <3>3. p = pos => s.q[w].b[p % PSize] = blk  BY <1>2
    <3>4. p # pos /\ p \in Span(h, t) => s.q[w].b[p % PSize] = d.b[p % PSize]
      <4>1. pos \in Span(h, t)  OBVIOUS
      <4> QED  BY <1>2, <1>3, <4>1
    <3> HIDE DEF d
    <3>5. Span(h, t) = Span(d.head, d.tail) \cup {pos} /\ pos \notin Span(d.head, d.tail)
      BY DEF d
    <3> QED  BY <2>2, <3>1, <3>2, <3>3, <3>4, <3>5
  <2> QED  BY <2>1, <2>2
<1>5. ASSUME NEW v \in Queues, NEW p \in Pos, NEW c \in ReadBlocks
      PROVE  s.key[c] = [where |-> v, pos |-> p] <=>
               \/ r.key[c] = [where |-> v, pos |-> p]
               \/ v = w /\ p = pos /\ c = blk
  <2>1. CASE c # blk
    BY <2>1 DEF RingType
  <2>2. CASE c = blk
    <3>1. s.key[c] = [where |-> w, pos |-> pos]  BY <2>2 DEF RingType
    <3>2. r.key[c] # [where |-> v, pos |-> p]
      BY <2>2, QueueKey DEF PendingIn
    <3> QED  BY <2>2, <3>1, <3>2
  <2> QED  BY <2>1, <2>2
<1>6. ASSUME NEW v \in Queues
      PROVE  Dist(s.q[v].head, s.q[v].tail) <= PendingLimit
  BY <1>1 DEF PendingInv, QueuesInv
<1>7. QueuesInv(s)
  BY <1>4, <1>5, <1>6 DEF PendingInv, QueuesInv
<1>8. PendingIn(s, blk) /\ ~PendingIn(r, blk)
  BY QueueKey DEF PendingIn, RingType
<1>9. PendingSet(s) = PendingSet(r) \cup {blk} /\ blk \notin PendingSet(r)
  <2>1. \A c \in ReadBlocks : c # blk => (PendingIn(s, c) <=> PendingIn(r, c))
    BY DEF PendingIn, RingType
  <2> QED  BY <1>8, <2>1 DEF PendingSet
<1>10. QueuesCounted(s)
  BY <1>9, FS_AddElement DEF PendingInv, QueuesCounted
<1> QED  BY <1>7, <1>10 DEF PendingInv

\* s is r without a block that waited at pos of queue w, whether its position
\* goes too or stays as a hole; the queue's head is h then.
Drops(r, s, w, pos, blk, h) ==
  /\ r.key[blk] = [where |-> w, pos |-> pos]
  /\ ~PendingIn(s, blk)
  /\ \A c \in ReadBlocks : c # blk => s.key[c] = r.key[c]
  /\ \A v \in Queues : v # w => s.q[v] = r.q[v]
  /\ s.q[w].b = [r.q[w].b EXCEPT ![pos % PSize] = NoBlock]
  /\ s.q[w].head = h /\ s.q[w].tail = r.q[w].tail
  /\ Dist(h, r.q[w].tail) <= PendingLimit
  /\ Span(h, r.q[w].tail) \cup {pos} = Span(r.q[w].head, r.q[w].tail)
  /\ s.npending = r.npending - 1

LEMMA DropWaiting ==
  ASSUME NEW r \in RingType, PendingInv(r), NEW s \in RingType,
         NEW w \in Queues, NEW pos \in Pos, NEW blk \in ReadBlocks, NEW h \in Pos,
         Drops(r, s, w, pos, blk, h)
  PROVE  PendingInv(s)
<1> USE DEF Drops
<1> DEFINE d == r.q[w]
<1>1. /\ s.q[w].head = h /\ s.q[w].tail = d.tail
      /\ s.q[w].b = [d.b EXCEPT ![pos % PSize] = NoBlock]
  OBVIOUS
<1>2. \A p \in Pos : s.q[w].b[p % PSize] =
                       IF p % PSize = pos % PSize THEN NoBlock ELSE d.b[p % PSize]
  <2>1. /\ d.b \in [0 .. PSize - 1 -> ReadBlocks \cup {NoBlock}]
        /\ \A p \in Pos : p % PSize \in 0 .. PSize - 1
    BY QueueOf
  <2> QED  BY <1>1, <2>1
<1>3. \A p, q \in Span(d.head, d.tail) : p % PSize = q % PSize => p = q
  <2>1. Dist(d.head, d.tail) <= PendingLimit  BY DEF PendingInv, QueuesInv
  <2> QED  BY <2>1, QueueOf, QueueSlots
<1>4. Waits(r, w, pos, blk)  BY DEF PendingInv, QueuesInv
<1>5. ASSUME NEW v \in Queues, NEW p \in Pos, NEW c \in ReadBlocks
      PROVE  Waits(s, v, p, c) <=> Waits(r, v, p, c) /\ ~(v = w /\ p = pos)
  <2>1. CASE v # w  BY <2>1 DEF Waits
  <2>2. CASE v = w
    <3>1. Waits(s, v, p, c) <=>
            p \in Span(h, d.tail) /\ s.q[w].b[p % PSize] = c
      BY <1>1, <2>2 DEF Waits
    <3>2. Waits(r, v, p, c) <=> p \in Span(d.head, d.tail) /\ d.b[p % PSize] = c
      BY <2>2 DEF Waits
    <3>3. p = pos => s.q[w].b[p % PSize] # c  BY <1>2, NoBlockIsNone
    <3>4. p # pos /\ p \in Span(d.head, d.tail) =>
            s.q[w].b[p % PSize] = d.b[p % PSize]
      <4>1. pos \in Span(d.head, d.tail)  OBVIOUS
      <4> QED  BY <1>2, <1>3, <4>1
    <3>5. Span(h, d.tail) \cup {pos} = Span(d.head, d.tail)  OBVIOUS
    <3> HIDE DEF d
    <3> QED  BY <2>2, <3>1, <3>2, <3>3, <3>4, <3>5
  <2> QED  BY <2>1, <2>2
<1>6. ASSUME NEW v \in Queues, NEW p \in Pos, NEW c \in ReadBlocks
      PROVE  s.key[c] = [where |-> v, pos |-> p] <=>
               r.key[c] = [where |-> v, pos |-> p] /\ ~(v = w /\ p = pos)
  <2>1. CASE c # blk
    <3>1. ~(r.key[c] = [where |-> w, pos |-> pos])
      BY <1>4, <2>1 DEF PendingInv, QueuesInv, Waits
    <3> QED  BY <2>1, <3>1
  <2>2. CASE c = blk
    <3>1. s.key[c] # [where |-> v, pos |-> p]  BY <2>2, QueueKey
    <3>2. r.key[c] = [where |-> v, pos |-> p] => v = w /\ p = pos
      BY <2>2
    <3> QED  BY <3>1, <3>2
  <2> QED  BY <2>1, <2>2
<1>7. ASSUME NEW v \in Queues
      PROVE  Dist(s.q[v].head, s.q[v].tail) <= PendingLimit
  BY <1>1 DEF PendingInv, QueuesInv
<1>8. QueuesInv(s)
  BY <1>5, <1>6, <1>7 DEF PendingInv, QueuesInv
<1>9. PendingIn(r, blk)  BY QueueKey
<1>10. PendingSet(s) = PendingSet(r) \ {blk} /\ blk \in PendingSet(r)
  BY <1>9 DEF PendingSet, PendingIn
<1>11. QueuesCounted(s)
  BY <1>10, FS_RemoveElement DEF PendingInv, QueuesCounted
<1> QED  BY <1>8, <1>11 DEF PendingInv

\* A queue and a key of a ring, replaced.
Replaced(r, w, d, blk, k, n) ==
  [r EXCEPT !.q[w] = d, !.key[blk] = k, !.npending = n]

LEMMA ReplacedFields ==
  ASSUME NEW r \in RingType, NEW w \in Queues, NEW d \in DequeType,
         NEW blk \in ReadBlocks, NEW k, k = NoBlock \/ k \in KeyType,
         NEW n, n \in Int, NEW s, s = Replaced(r, w, d, blk, k, n)
  PROVE  /\ s \in RingType /\ GivenUnchanged(r, s)
         /\ s.q = [r.q EXCEPT ![w] = d]
         /\ s.key = [r.key EXCEPT ![blk] = k]
         /\ s.npending = n
<1>1. /\ s.q = [r.q EXCEPT ![w] = d]
      /\ s.key = [r.key EXCEPT ![blk] = k]
      /\ s.npending = n
      /\ GivenUnchanged(r, s)
  BY DEF RingType, GivenUnchanged, Replaced
<1>2. /\ [r.q EXCEPT ![w] = d] \in [Queues -> DequeType]
      /\ [r.key EXCEPT ![blk] = k] \in [ReadBlocks -> {NoBlock} \cup KeyType]
  BY DEF RingType
<1>3. s \in RingType  BY <1>2 DEF RingType, Replaced
<1> QED  BY <1>1, <1>3

\* Rings with the same fields are the same.
LEMMA SameRing ==
  ASSUME NEW r \in RingType, NEW s \in RingType, GivenUnchanged(r, s),
         s.q = r.q, s.npending = r.npending, s.key = r.key
  PROVE  s = r
BY DEF RingType, GivenUnchanged

\* lion_ring_enqueue(), where there is room: one block more waits.
LEMMA EnqueueInv ==
  ASSUME NEW r \in RingType, PendingInv(r), NEW w \in Queues, HasRoom(r, w),
         NEW blk \in ReadBlocks, r.key[blk] = NoBlock, NEW front \in BOOLEAN
  PROVE  LET s == Enqueue(r, w, blk, front)
         IN /\ PendingStep(r, s)
            /\ front => s.key[blk] = [where |-> w, pos |-> s.q[w].head]
            /\ \A c \in ReadBlocks : c # blk => s.key[c] = r.key[c]
<1> DEFINE t == TrimQueue(r, w)
           d == Trim(r.q[w])
           f == Plus(d.head, Positions - 1)
           pos == IF front THEN f ELSE d.tail
           h == IF front THEN f ELSE d.head
           e == IF front THEN d.tail ELSE Plus(d.tail, 1)
           s == Enqueue(r, w, blk, front)
<1>1. /\ t \in RingType /\ PendingInv(t)
      /\ t.key = r.key /\ t.npending = r.npending /\ GivenUnchanged(r, t)
      /\ \A v \in Queues : v # w => t.q[v] = r.q[v]
  BY TrimQueueInv
<1>2. t.q[w] = d /\ t = [r EXCEPT !.q = [r.q EXCEPT ![w] = d]]
  BY DEF TrimQueue, RingType
<1>3. d \in DequeType /\ d.head \in Pos /\ d.tail \in Pos
  <2>1. t.q[w] \in DequeType  BY <1>1, QueueOf
  <2> HIDE DEF d
  <2> QED  BY <1>2, <2>1 DEF DequeType
<1>4. Dist(d.head, d.tail) < PendingLimit  BY DEF HasRoom
<1>5. Dist(d.head, d.tail) < Positions - 1
  BY <1>3, <1>4, DistPos, Sizes
<1> HIDE DEF d
<1>6. /\ pos \in Pos /\ h \in Pos /\ e \in Pos
      /\ Dist(h, e) = Dist(d.head, d.tail) + 1
      /\ Span(h, e) = Span(d.head, d.tail) \cup {pos}
      /\ pos \notin Span(d.head, d.tail)
  <2>1. CASE front  BY <1>3, <1>5, <2>1, SpanFront
  <2>2. CASE ~front  BY <1>3, <1>5, <2>2, SpanTail
  <2> QED  BY <2>1, <2>2
<1> DEFINE nd == [b |-> [d.b EXCEPT ![pos % PSize] = blk], head |-> h, tail |-> e]
<1>7. s = Replaced(r, w, nd, blk, [where |-> w, pos |-> pos], r.npending + 1)
  BY DEF Enqueue, Replaced, d
<1>8. nd \in DequeType
  <2>1. [d.b EXCEPT ![pos % PSize] = blk]
          \in [0 .. PSize - 1 -> ReadBlocks \cup {NoBlock}]
    BY <1>3 DEF DequeType
  <2> HIDE DEF h, e, pos
  <2> QED  BY <1>6, <2>1 DEF DequeType
<1>9. [where |-> w, pos |-> pos] \in KeyType
  BY <1>6 DEF KeyType
<1> HIDE DEF nd, h, e, pos
<1>10. /\ s \in RingType /\ GivenUnchanged(r, s)
       /\ s.key[blk] = [where |-> w, pos |-> pos]
       /\ \A c \in ReadBlocks : c # blk => s.key[c] = r.key[c]
       /\ s.q[w] = nd
       /\ \A v \in Queues : v # w => s.q[v] = r.q[v]
       /\ s.npending = r.npending + 1
  <2> DEFINE n == r.npending + 1
             k == [where |-> w, pos |-> pos]
  <2>1. n \in Int  BY DEF RingType
  <2>2. s = Replaced(r, w, nd, blk, k, n)  BY <1>7
  <2>3. k \in KeyType  BY <1>9
  <2> HIDE DEF s, n, k
  <2>4. /\ s \in RingType /\ GivenUnchanged(r, s)
        /\ s.npending = n
        /\ s.q = [r.q EXCEPT ![w] = nd]
        /\ s.key = [r.key EXCEPT ![blk] = k]
    BY <1>8, <2>1, <2>2, <2>3, ReplacedFields
  <2>5. /\ s.key[blk] = k
        /\ \A c \in ReadBlocks : c # blk => s.key[c] = r.key[c]
        /\ s.q[w] = nd
        /\ \A v \in Queues : v # w => s.q[v] = r.q[v]
    <3>1. /\ r.q \in [Queues -> DequeType]
          /\ r.key \in [ReadBlocks -> {NoBlock} \cup KeyType]
      BY DEF RingType
    <3> QED  BY <2>4, <3>1
  <2> QED  BY <2>4, <2>5 DEF n, k
<1> HIDE DEF s
<1>11. \A v \in Queues : v # w => s.q[v] = t.q[v]
  BY <1>1, <1>10
<1>12. Dist(h, e) <= PendingLimit
  BY <1>3, <1>4, <1>6, DistPos, Sizes
<1>13. PendingInv(s)
  <2>1. /\ s.q[w].b = [t.q[w].b EXCEPT ![pos % PSize] = blk]
        /\ s.q[w].head = h /\ s.q[w].tail = e
    BY <1>2, <1>10 DEF nd
  <2>2. /\ Span(h, e) = Span(t.q[w].head, t.q[w].tail) \cup {pos}
        /\ pos \notin Span(t.q[w].head, t.q[w].tail)
    BY <1>2, <1>6
  <2> HIDE DEF t
  <2> QED  BY <1>1, <1>6, <1>10, <1>11, <1>12, <2>1, <2>2, AddWaiting
<1>15. ~GivenIn(r, blk) /\ ~GivenIn(s, blk)
  <2>1. PendingIn(s, blk)  BY <1>6, <1>10, QueueKey
  <2> QED  BY <1>10, <2>1, KeyOf DEF GivenIn
<1>16. front => s.q[w].head = pos
  BY <1>10 DEF nd, pos, h
<1> QED  BY <1>10, <1>13, <1>15, <1>16 DEF PendingStep, s

\* lion_ring_unqueue(): one less.
LEMMA UnqueueInv ==
  ASSUME NEW r \in RingType, PendingInv(r), NEW blk \in ReadBlocks,
         PendingIn(r, blk)
  PROVE  LET s == Unqueue(r, blk)
         IN /\ PendingStep(r, s)
            /\ s.key[blk] = NoBlock
            /\ \A c \in ReadBlocks : c # blk => s.key[c] = r.key[c]
<1> DEFINE w == r.key[blk].where
           pos == r.key[blk].pos
           d == r.q[w]
           hole == [d EXCEPT !.b[pos % PSize] = NoBlock]
           m == Replaced(r, w, hole, blk, NoBlock, r.npending - 1)
           s == Unqueue(r, blk)
<1>1. w \in Queues /\ pos \in Pos  BY KeyOf
<1>2. r.key[blk] = [where |-> w, pos |-> pos]  BY <1>1, QueueKey
<1>3. d \in DequeType  BY <1>1, QueueOf
<1>4. /\ hole \in DequeType
      /\ hole.b = [d.b EXCEPT ![pos % PSize] = NoBlock]
      /\ hole.head = d.head /\ hole.tail = d.tail
  <2>1. [d.b EXCEPT ![pos % PSize] = NoBlock]
          \in [0 .. PSize - 1 -> ReadBlocks \cup {NoBlock}]
    BY <1>3 DEF DequeType
  <2> HIDE DEF d
  <2> QED  BY <1>3, <2>1 DEF DequeType
<1> HIDE DEF w, pos, d, hole
<1>5. /\ m \in RingType /\ GivenUnchanged(r, m)
      /\ \A c \in ReadBlocks : c # blk => m.key[c] = r.key[c]
      /\ m.key[blk] = NoBlock
      /\ m.q[w] = hole
      /\ \A v \in Queues : v # w => m.q[v] = r.q[v]
      /\ m.npending = r.npending - 1
      /\ m.q = [r.q EXCEPT ![w] = hole]
      /\ m.key = [r.key EXCEPT ![blk] = NoBlock]
  <2> DEFINE n == r.npending - 1
  <2>1. n \in Int  BY DEF RingType
  <2>2. m = Replaced(r, w, hole, blk, NoBlock, n)  OBVIOUS
  <2> HIDE DEF m, n
  <2>3. /\ m \in RingType /\ GivenUnchanged(r, m)
        /\ m.npending = n
        /\ m.q = [r.q EXCEPT ![w] = hole]
        /\ m.key = [r.key EXCEPT ![blk] = NoBlock]
    BY <1>1, <1>4, <2>1, <2>2, ReplacedFields
  <2>4. /\ m.key[blk] = NoBlock
        /\ \A c \in ReadBlocks : c # blk => m.key[c] = r.key[c]
        /\ m.q[w] = hole
        /\ \A v \in Queues : v # w => m.q[v] = r.q[v]
    <3>1. /\ r.q \in [Queues -> DequeType]
          /\ r.key \in [ReadBlocks -> {NoBlock} \cup KeyType]
      BY DEF RingType
    <3> QED  BY <1>1, <2>3, <3>1
  <2> QED  BY <2>3, <2>4 DEF n
<1> HIDE DEF m
<1>7. PendingInv(m)
  <2>1. Waits(r, w, pos, blk)  BY <1>1, <1>2 DEF PendingInv, QueuesInv
  <2>2. Span(d.head, d.tail) \cup {pos} = Span(d.head, d.tail)
    BY <2>1 DEF Waits, d
  <2>3. Dist(d.head, d.tail) <= PendingLimit  BY <1>1 DEF PendingInv, QueuesInv, d
  <2>4. d.head \in Pos  BY <1>3 DEF DequeType
  <2>5. ~PendingIn(m, blk)  BY <1>5 DEF PendingIn
  <2>6. d = r.q[w]  BY DEF d
  <2>7. /\ m.q[w].b = [r.q[w].b EXCEPT ![pos % PSize] = NoBlock]
        /\ m.q[w].head = d.head /\ m.q[w].tail = r.q[w].tail
    BY <1>4, <1>5, <2>6
  <2>8. /\ Dist(d.head, r.q[w].tail) <= PendingLimit
        /\ Span(d.head, r.q[w].tail) \cup {pos} = Span(r.q[w].head, r.q[w].tail)
    BY <2>2, <2>3, <2>6
  <2>9. Drops(r, m, w, pos, blk, d.head)
    BY <1>2, <1>5, <2>5, <2>7, <2>8 DEF Drops
  <2> QED  BY <1>1, <1>5, <2>4, <2>9, DropWaiting
<1>8. s = TrimQueue(m, w)
  <2> DEFINE u == TrimQueue(m, w)
  <2>1. s = Replaced(r, w, Trim(hole), blk, NoBlock, r.npending - 1)
    BY DEF Unqueue, Replaced, w, pos, d, hole
  <2>2. /\ u \in RingType /\ GivenUnchanged(m, u)
        /\ u.key = m.key /\ u.npending = m.npending
    BY <1>1, <1>5, <1>7, TrimQueueInv
  <2>3. u.q = [m.q EXCEPT ![w] = Trim(hole)]
    BY <1>1, <1>5 DEF TrimQueue, RingType
  <2>4. Trim(hole) \in DequeType
    <3>1. u.q[w] \in DequeType  BY <1>1, <2>2, QueueOf
    <3> HIDE DEF u
    <3> QED  BY <1>1, <1>5, <2>3, <3>1 DEF RingType
  <2>5. /\ s \in RingType /\ GivenUnchanged(r, s)
        /\ s.q = [r.q EXCEPT ![w] = Trim(hole)]
        /\ s.key = [r.key EXCEPT ![blk] = NoBlock]
        /\ s.npending = r.npending - 1
    <3>1. r.npending - 1 \in Int  BY DEF RingType
    <3> HIDE DEF s
    <3> QED  BY <1>1, <2>1, <2>4, <3>1, ReplacedFields
  <2> HIDE DEF u, s
  <2>6. u.q = s.q
    BY <1>1, <1>5, <2>3, <2>5 DEF RingType
  <2> QED  BY <1>5, <2>2, <2>5, <2>6, SameRing DEF GivenUnchanged, u
<1> HIDE DEF s
<1>9. PendingStep(m, s) /\ s.key = m.key
  BY <1>1, <1>5, <1>7, <1>8, TrimQueueStep, TrimQueueInv
<1>10. PendingStep(r, m)
  <2>1. ~GivenIn(r, blk) /\ ~GivenIn(m, blk)  BY <1>5, KeyOf DEF GivenIn
  <2> QED  BY <1>5, <1>7, <2>1 DEF PendingStep
<1> QED  BY <1>5, <1>9, <1>10, PendingSteps DEF s

\* lion_ring_push(): whether the block is pending, given or neither, and whether
\* there is room for it.
LEMMA PushedInv ==
  ASSUME NEW r \in RingType, PendingInv(r), NEW blk \in ReadBlocks,
         NEW urgent \in BOOLEAN
  PROVE  PendingStep(r, Pushed(r, blk, urgent))
<1> DEFINE k == r.key[blk]
           w == IF urgent THEN URGENT ELSE PREDICTED
           away == Unqueue(r, blk)
<1>1. w \in Queues /\ URGENT \in Queues /\ PREDICTED \in Queues
  BY DEF Queues
<1>2. CASE k = NoBlock /\ HasRoom(r, w)
  <2>1. Pushed(r, blk, urgent) = Enqueue(r, w, blk, FALSE)
    BY <1>2 DEF Pushed
  <2> QED  BY <1>1, <1>2, <2>1, EnqueueInv
<1>3. CASE k = NoBlock /\ ~HasRoom(r, w)
  <2>1. Pushed(r, blk, urgent) = TrimQueue(r, w)
    BY <1>3 DEF Pushed
  <2> QED  BY <1>1, <2>1, TrimQueueStep
<1>4. CASE k # NoBlock /\ ~(urgent /\ k.where = PREDICTED)
  <2>1. Pushed(r, blk, urgent) = r
    BY <1>4 DEF Pushed
  <2> QED  BY <2>1 DEF PendingStep, GivenUnchanged
<1>5. CASE k # NoBlock /\ urgent /\ k.where = PREDICTED
  <2>1. PendingIn(r, blk)  BY <1>1, <1>5 DEF PendingIn
  <2>2. PendingStep(r, away) /\ away.key[blk] = NoBlock
    BY <2>1, UnqueueInv
  <2>3. away \in RingType /\ PendingInv(away)
    BY <2>2 DEF PendingStep
  <2>4. CASE HasRoom(away, URGENT)
    <3>1. Pushed(r, blk, urgent) = Enqueue(away, URGENT, blk, FALSE)
      BY <1>5, <2>4 DEF Pushed
    <3> HIDE DEF away
    <3>2. PendingStep(away, Enqueue(away, URGENT, blk, FALSE))
      BY <1>1, <2>2, <2>3, <2>4, EnqueueInv
    <3> QED  BY <2>2, <3>1, <3>2, PendingSteps
  <2> DEFINE t == TrimQueue(away, URGENT)
  <2>5. /\ PendingStep(r, t) /\ t \in RingType /\ PendingInv(t)
        /\ t.key[blk] = NoBlock
        /\ t.q[PREDICTED] = away.q[PREDICTED]
    <3>1. URGENT # PREDICTED  BY DEF URGENT, PREDICTED
    <3> HIDE DEF away
    <3> QED  BY <1>1, <2>2, <2>3, <3>1, TrimQueueInv, TrimQueueStep, PendingSteps
  <2>6. HasRoom(t, PREDICTED) <=> HasRoom(away, PREDICTED)
    BY <2>5 DEF HasRoom
  <2>7. CASE ~HasRoom(away, URGENT) /\ HasRoom(away, PREDICTED)
    <3>1. Pushed(r, blk, urgent) = Enqueue(t, PREDICTED, blk, TRUE)
      BY <1>5, <2>7 DEF Pushed
    <3> HIDE DEF t
    <3>2. PendingStep(t, Enqueue(t, PREDICTED, blk, TRUE))
      BY <1>1, <2>5, <2>6, <2>7, EnqueueInv
    <3> QED  BY <2>5, <3>1, <3>2, PendingSteps
  <2>8. CASE ~HasRoom(away, URGENT) /\ ~HasRoom(away, PREDICTED)
    <3>1. Pushed(r, blk, urgent) = TrimQueue(t, PREDICTED)
      BY <1>5, <2>8 DEF Pushed
    <3> HIDE DEF t
    <3> QED  BY <1>1, <2>5, <3>1, TrimQueueStep, PendingSteps
  <2> QED  BY <2>4, <2>7, <2>8
<1> QED  BY <1>2, <1>3, <1>4, <1>5

\* lion_ring_dequeue() comes to a block that waits at a queue's head, or there
\* is none.
LEMMA DequeuingInv ==
  ASSUME NEW r \in RingType, PendingInv(r)
  PROVE  LET t == Dequeuing(r)
             w == NextQueue(r)
             blk == NextPending(r)
         IN /\ PendingStep(r, t) /\ t.key = r.key
            /\ w \in Queues
            /\ blk # NoBlock =>
                 /\ blk \in ReadBlocks
                 /\ t.q[w].head # t.q[w].tail
                 /\ t.key[blk] = [where |-> w, pos |-> t.q[w].head]
<1> DEFINE t == Dequeuing(r)
           w == NextQueue(r)
           blk == NextPending(r)
           u == TrimQueue(r, URGENT)
<1>1. URGENT \in Queues /\ PREDICTED \in Queues  BY DEF Queues
<1>2. PendingStep(r, u) /\ u.key = r.key /\ u \in RingType /\ PendingInv(u)
  BY <1>1, TrimQueueStep, TrimQueueInv
<1>3. PendingStep(r, t) /\ t.key = r.key
  <2>1. t = u \/ t = TrimQueue(u, PREDICTED)  BY DEF Dequeuing
  <2> HIDE DEF u, t
  <2>2. CASE t = u  BY <1>2, <2>2
  <2>3. CASE t = TrimQueue(u, PREDICTED)
    BY <1>1, <1>2, <2>3, TrimQueueStep, TrimQueueInv, PendingSteps
  <2> QED  BY <2>1, <2>2, <2>3
<1>4. w \in Queues  BY <1>1 DEF NextQueue
<1>5. ASSUME blk # NoBlock
      PROVE  /\ blk \in ReadBlocks
             /\ t.q[w].head # t.q[w].tail
             /\ t.key[blk] = [where |-> w, pos |-> t.q[w].head]
  <2> DEFINE d == t.q[w]
  <2>1. d.head # d.tail /\ blk = d.b[d.head % PSize]
    BY <1>5 DEF NextPending
  <2>2. t \in RingType /\ PendingInv(t)  BY <1>3 DEF PendingStep
  <2> HIDE DEF t, w
  <2>3. /\ d.head \in Pos /\ d.tail \in Pos /\ d.head % PSize \in 0 .. PSize - 1
        /\ d.b \in [0 .. PSize - 1 -> ReadBlocks \cup {NoBlock}]
    BY <1>4, <2>2, QueueOf
  <2> HIDE DEF blk
  <2>4. blk \in ReadBlocks  BY <1>5, <2>1, <2>3
  <2>5. d.head \in Span(d.head, d.tail)  BY <2>1, <2>3, SpanHead
  <2>6. Waits(t, w, d.head, blk)  BY <2>1, <2>5 DEF Waits
  <2>7. t.key[blk] = [where |-> w, pos |-> d.head]
    BY <1>4, <2>2, <2>3, <2>4, <2>6 DEF PendingInv, QueuesInv
  <2> QED  BY <2>1, <2>4, <2>7
<1> HIDE DEF t, w, blk
<1> QED  BY <1>3, <1>4, <1>5 DEF t, w, blk

\* A block at the head of the urgent queue is next.
LEMMA FirstIsNext ==
  ASSUME NEW r \in RingType, PendingInv(r), NEW blk \in ReadBlocks,
         r.key[blk] = [where |-> URGENT, pos |-> r.q[URGENT].head]
  PROVE  NextPending(r) = blk
<1> DEFINE d == r.q[URGENT]
           u == TrimQueue(r, URGENT)
<1>1. URGENT \in Queues  BY DEF Queues
<1>2. /\ d.head \in Pos /\ d.tail \in Pos
  BY <1>1, QueueOf
<1>3. d.head \in Span(d.head, d.tail) /\ d.b[d.head % PSize] = blk
  BY <1>1, <1>2 DEF PendingInv, QueuesInv, Waits
<1>4. d.head # d.tail
  <2>1. d.head = d.tail => Span(d.head, d.tail) = {}  BY <1>2, SpanEmpty
  <2> QED  BY <1>3, <2>1
<1>5. u.q[URGENT] = d
  BY <1>1, <1>3, TrimQueueInv, NoBlockIsNone
<1>6. Dequeuing(r) = u
  BY <1>4, <1>5 DEF Dequeuing
<1>7. NextQueue(r) = URGENT
  BY <1>4, <1>5, <1>6 DEF NextQueue
<1> QED  BY <1>3, <1>4, <1>5, <1>6, <1>7 DEF NextPending

-----------------------------------------------------------------------------
(* The given part.                                                         *)

\* What an operation on the given part leaves alone.
PendingUnchanged(r, s) ==
  s.q = r.q /\ s.npending = r.npending /\ s.ended = r.ended

\* The given part and its slots.
LEMMA GivenOf ==
  ASSUME NEW r \in RingType, SlotsInv(r)
  PROVE  /\ r.ghead \in Pos /\ r.gpull \in Pos /\ r.gtail \in Pos
         /\ r.g \in [0 .. GSize - 1 -> {NoBlock} \cup SlotType]
         /\ \A p \in Pos : p % GSize \in 0 .. GSize - 1
         /\ \A p, q \in Span(r.ghead, r.gtail) : p % GSize = q % GSize => p = q
         /\ Span(r.ghead, r.gtail) = Span(r.ghead, r.gpull) \cup Span(r.gpull, r.gtail)
         /\ Span(r.ghead, r.gpull) \cap Span(r.gpull, r.gtail) = {}
         /\ Span(r.ghead, r.gtail) \subseteq Pos
<1>1. /\ r.ghead \in Pos /\ r.gpull \in Pos /\ r.gtail \in Pos
      /\ r.g \in [0 .. GSize - 1 -> {NoBlock} \cup SlotType]
  BY DEF RingType
<1>2. /\ Dist(r.ghead, r.gtail) <= PinLimit
      /\ Dist(r.ghead, r.gpull) <= Dist(r.ghead, r.gtail)
  BY DEF SlotsInv
<1>3. /\ \A p \in Pos : p % GSize \in 0 .. GSize - 1
      /\ \A p, q \in Span(r.ghead, r.gtail) : p % GSize = q % GSize => p = q
  BY <1>1, <1>2, GivenSlots
<1>4. /\ Span(r.ghead, r.gtail) = Span(r.ghead, r.gpull) \cup Span(r.gpull, r.gtail)
      /\ Span(r.ghead, r.gpull) \cap Span(r.gpull, r.gtail) = {}
  BY <1>1, <1>2, SpanParts
<1>5. Span(r.ghead, r.gtail) \subseteq Pos  BY <1>1, InSpan
<1> QED  BY <1>1, <1>3, <1>4, <1>5

\* lion_ring_g_trim() drops holes only, and all there are in front.
LEMMA GTrimInv ==
  ASSUME NEW r \in RingType, GivenInv(r)
  PROVE  LET s == GTrim(r)
         IN /\ s \in RingType /\ GivenInv(s) /\ HeadFull(s)
            /\ s.key = r.key /\ PendingUnchanged(r, s)
            /\ s.g = r.g /\ s.gpull = r.gpull /\ s.gtail = r.gtail
            /\ Dist(s.ghead, s.gtail) <= Dist(r.ghead, r.gtail)
<1> DEFINE h == PastHoles(r.g, GSize, r.ghead, r.gpull)
           s == GTrim(r)
<1>0. h = PastHoles(r.g, GSize, r.ghead, r.gpull) /\ GSize \in Nat  BY Sizes
<1>1. s = [r EXCEPT !.ghead = h]  BY DEF GTrim, PastHoles
<1>2. SlotsInv(r)  BY DEF GivenInv
<1>3. r.ghead \in Pos /\ r.gpull \in Pos /\ r.gtail \in Pos  BY <1>2, GivenOf
<1> HIDE DEF h, s
<1>4. /\ h \in Pos
      /\ Dist(r.ghead, h) <= Dist(r.ghead, r.gpull)
      /\ \A p \in Span(r.ghead, h) : r.g[p % GSize] = NoBlock
      /\ h # r.gpull => r.g[h % GSize] # NoBlock
  BY <1>0, <1>3, PastHolesIs
<1>5. /\ s \in RingType /\ s.ghead = h
      /\ s.key = r.key /\ PendingUnchanged(r, s)
      /\ s.g = r.g /\ s.gpull = r.gpull /\ s.gtail = r.gtail /\ s.nheld = r.nheld
  BY <1>1, <1>4 DEF RingType, PendingUnchanged
<1>6. /\ Dist(r.ghead, r.gpull) <= Dist(r.ghead, r.gtail)
      /\ Dist(r.ghead, r.gtail) <= PinLimit
  BY <1>2 DEF SlotsInv
<1>7. /\ Dist(h, r.gpull) = Dist(r.ghead, r.gpull) - Dist(r.ghead, h)
      /\ Span(r.ghead, r.gpull) = Span(r.ghead, h) \cup Span(h, r.gpull)
  BY <1>3, <1>4, SpanParts
<1>8. /\ Dist(h, r.gtail) = Dist(r.ghead, r.gtail) - Dist(r.ghead, h)
      /\ Span(r.ghead, r.gtail) = Span(r.ghead, h) \cup Span(h, r.gtail)
  <2>1. Dist(r.ghead, h) <= Dist(r.ghead, r.gtail)
    BY <1>3, <1>4, <1>6, DistPos
  <2> QED  BY <1>3, <1>4, <2>1, SpanParts
<1>9. /\ Dist(h, r.gtail) <= PinLimit
      /\ Dist(h, r.gpull) <= Dist(h, r.gtail)
      /\ Dist(h, r.gtail) <= Dist(r.ghead, r.gtail)
  <2>1. /\ Dist(r.ghead, h) \in Nat /\ Dist(r.ghead, r.gpull) \in Nat
        /\ Dist(r.ghead, r.gtail) \in Nat
    BY <1>3, <1>4, DistPos
  <2> QED  BY <1>6, <1>7, <1>8, <2>1, Sizes
<1>10. SlotsInv(s)
  <2>1. ASSUME NEW i \in 0 .. GSize - 1,
               \A p \in Span(s.ghead, s.gtail) : p % GSize # i
        PROVE  s.g[i] = NoBlock
    <3>1. CASE \A p \in Span(r.ghead, r.gtail) : p % GSize # i
      BY <1>2, <1>5, <3>1 DEF SlotsInv
    <3>2. CASE \E p \in Span(r.ghead, r.gtail) : p % GSize = i
      BY <1>4, <1>5, <1>8, <2>1, <3>2
    <3> QED  BY <3>1, <3>2
  <2>2. \A p \in Span(s.ghead, s.gpull) :
          s.g[p % GSize] # NoBlock => s.g[p % GSize].buf = s.g[p % GSize].blk
    BY <1>2, <1>5, <1>7 DEF SlotsInv
  <2>3. \A p \in Span(s.gpull, s.gtail) :
          s.g[p % GSize] # NoBlock /\ s.g[p % GSize].buf = NoBlock
    BY <1>2, <1>5 DEF SlotsInv
  <2> QED  BY <1>5, <1>9, <2>1, <2>2, <2>3 DEF SlotsInv
<1>11. SlotKeysInv(s)
  <2>1. ASSUME NEW p \in Pos, NEW blk \in ReadBlocks
        PROVE  Lies(s, p, blk) <=> Lies(r, p, blk)
    BY <1>4, <1>5, <1>8 DEF Lies
  <2> QED  BY <1>5, <2>1 DEF GivenInv, SlotKeysInv
<1>12. HeldCounted(s)
  <2>1. HeldSet(s) = HeldSet(r)  BY <1>5 DEF HeldSet, HeldIn, GivenIn
  <2> QED  BY <1>5, <2>1 DEF GivenInv, HeldCounted
<1>13. HeadFull(s)  BY <1>4, <1>5 DEF HeadFull
<1> QED  BY <1>5, <1>9, <1>10, <1>11, <1>12, <1>13 DEF GivenInv, s

\* s is r without the block that was held at p, whether its position goes too
\* or stays as a hole; the given part's head is h then.
DropsHeld(r, s, p, blk, h) ==
  /\ HeldIn(r, blk) /\ r.key[blk] = [where |-> GIVEN, pos |-> p]
  /\ s.key[blk] = NoBlock
  /\ \A c \in ReadBlocks : c # blk => s.key[c] = r.key[c]
  /\ s.g = [r.g EXCEPT ![p % GSize] = NoBlock]
  /\ s.ghead = h /\ s.gpull = r.gpull /\ s.gtail = r.gtail
  /\ Dist(h, r.gtail) <= PinLimit
  /\ Dist(h, r.gpull) <= Dist(h, r.gtail)
  /\ Span(h, r.gpull) \cup {p} = Span(r.ghead, r.gpull)
  /\ Span(h, r.gtail) \cup {p} = Span(r.ghead, r.gtail)
  /\ s.nheld = r.nheld - 1

LEMMA DropHeld ==
  ASSUME NEW r \in RingType, GivenInv(r), NEW s \in RingType,
         NEW p \in Pos, NEW blk \in ReadBlocks, NEW h \in Pos,
         DropsHeld(r, s, p, blk, h)
  PROVE  GivenInv(s)
<1> USE DEF DropsHeld
<1>1. SlotsInv(r)  BY DEF GivenInv
<1>2. p \in Span(r.ghead, r.gpull) /\ p \in Span(r.ghead, r.gtail)
  OBVIOUS
<1>3. \A x \in Pos : s.g[x % GSize] =
                       IF x % GSize = p % GSize THEN NoBlock ELSE r.g[x % GSize]
  <2>1. /\ r.g \in [0 .. GSize - 1 -> {NoBlock} \cup SlotType]
        /\ \A x \in Pos : x % GSize \in 0 .. GSize - 1
    BY <1>1, GivenOf
  <2> QED  BY <2>1
<1>4. \A x \in Span(r.ghead, r.gtail) :
        x # p => s.g[x % GSize] = r.g[x % GSize]
  BY <1>1, <1>2, <1>3, GivenOf
<1>5. s.g[p % GSize] = NoBlock  BY <1>3
<1>6. p \notin Span(r.gpull, r.gtail)  BY <1>1, <1>2, GivenOf
<1>7. SlotsInv(s)
  <2>1. ASSUME NEW i \in 0 .. GSize - 1,
               \A x \in Span(s.ghead, s.gtail) : x % GSize # i
        PROVE  s.g[i] = NoBlock
    <3>1. CASE i = p % GSize  BY <1>5, <3>1
    <3>2. CASE i # p % GSize
      <4>1. \A x \in Span(r.ghead, r.gtail) : x % GSize # i  BY <2>1, <3>2
      <4>2. r.g[i] = NoBlock  BY <1>1, <4>1 DEF SlotsInv
      <4>3. r.g \in [0 .. GSize - 1 -> {NoBlock} \cup SlotType]  BY <1>1, GivenOf
      <4> QED  BY <3>2, <4>2, <4>3
    <3> QED  BY <3>1, <3>2
  <2>2. \A x \in Span(s.ghead, s.gpull) :
          s.g[x % GSize] # NoBlock => s.g[x % GSize].buf = s.g[x % GSize].blk
    <3> SUFFICES ASSUME NEW x \in Span(h, r.gpull), s.g[x % GSize] # NoBlock
                 PROVE  s.g[x % GSize].buf = s.g[x % GSize].blk
      OBVIOUS
    <3>1. x \in Span(r.ghead, r.gpull) /\ x # p  BY <1>5
    <3>2. s.g[x % GSize] = r.g[x % GSize]  BY <1>1, <1>4, <3>1, GivenOf
    <3> QED  BY <1>1, <3>1, <3>2 DEF SlotsInv
  <2>3. \A x \in Span(s.gpull, s.gtail) :
          s.g[x % GSize] # NoBlock /\ s.g[x % GSize].buf = NoBlock
    <3> SUFFICES ASSUME NEW x \in Span(r.gpull, r.gtail)
                 PROVE  s.g[x % GSize] # NoBlock /\ s.g[x % GSize].buf = NoBlock
      OBVIOUS
    <3>1. s.g[x % GSize] = r.g[x % GSize]  BY <1>1, <1>4, <1>6, GivenOf
    <3> QED  BY <1>1, <3>1 DEF SlotsInv
  <2> QED  BY <2>1, <2>2, <2>3 DEF SlotsInv
<1>8. ASSUME NEW x \in Pos, NEW c \in ReadBlocks
      PROVE  Lies(s, x, c) <=> Lies(r, x, c) /\ x # p
  BY <1>4, <1>5 DEF Lies
<1>9. Lies(r, p, blk)  BY DEF GivenInv, SlotKeysInv
<1>10. ASSUME NEW x \in Pos, NEW c \in ReadBlocks
       PROVE  s.key[c] = [where |-> GIVEN, pos |-> x] <=>
                r.key[c] = [where |-> GIVEN, pos |-> x] /\ x # p
  <2>1. CASE c # blk
    <3>1. r.key[c] # [where |-> GIVEN, pos |-> p]
      BY <1>9, <2>1 DEF GivenInv, SlotKeysInv, Lies
    <3> QED  BY <2>1, <3>1
  <2>2. CASE c = blk
    <3>1. s.key[c] # [where |-> GIVEN, pos |-> x]
      BY <2>2, GivenKey DEF GivenIn
    <3>2. r.key[c] = [where |-> GIVEN, pos |-> x] => x = p
      BY <2>2
    <3> QED  BY <3>1, <3>2
  <2> QED  BY <2>1, <2>2
<1>11. SlotKeysInv(s)  BY <1>8, <1>10 DEF GivenInv, SlotKeysInv
<1>12. HeldSet(s) = HeldSet(r) \ {blk} /\ blk \in HeldSet(r)
  <2>1. ~HeldIn(s, blk)  BY DEF HeldIn, GivenIn
  <2>2. ASSUME NEW c \in ReadBlocks, c # blk
        PROVE  HeldIn(s, c) <=> HeldIn(r, c)
    <3>1. s.key[c] = r.key[c]  BY <2>2
    <3>2. GivenIn(s, c) <=> GivenIn(r, c)  BY <3>1 DEF GivenIn
    <3>3. ASSUME GivenIn(r, c)
          PROVE  s.g[r.key[c].pos % GSize] = r.g[r.key[c].pos % GSize]
      <4> DEFINE x == r.key[c].pos
      <4>1. x \in Pos  BY <3>3, KeyOf
      <4>2. Lies(r, x, c)
        <5>1. r.key[c] = [where |-> GIVEN, pos |-> x]
          BY <3>3, <4>1, GivenKey
        <5> HIDE DEF x
        <5> QED  BY <4>1, <5>1 DEF GivenInv, SlotKeysInv
      <4>3. x # p  BY <1>9, <2>2, <4>2 DEF Lies
      <4> QED  BY <1>4, <4>2, <4>3 DEF Lies
    <3> QED  BY <3>1, <3>2, <3>3 DEF HeldIn
  <2> QED  BY <2>1, <2>2 DEF HeldSet
<1>13. HeldCounted(s)
  BY <1>12, FS_RemoveElement DEF GivenInv, HeldCounted
<1> QED  BY <1>7, <1>11, <1>13 DEF GivenInv

\* What a ring keeps when a block that was held goes.
GivenStay(r, s, blk) ==
  /\ RingInv(s)
  /\ PendingUnchanged(r, s)
  /\ s.gpull = r.gpull /\ s.gtail = r.gtail
  /\ s.key[blk] = NoBlock
  /\ \A c \in ReadBlocks : c # blk => s.key[c] = r.key[c]

\* A held block taken out, and the given part trimmed.
LEMMA HeldGoes ==
  ASSUME NEW r, RingInv(r), NEW m \in RingType, PendingUnchanged(r, m),
         NEW p \in Pos, NEW blk \in ReadBlocks, NEW h \in Pos,
         DropsHeld(r, m, p, blk, h)
  PROVE  GivenStay(r, GTrim(m), blk)
<1>1. r \in RingType /\ PendingInv(r) /\ GivenInv(r)  BY DEF RingInv
<1>2. GivenInv(m)  BY <1>1, DropHeld
<1> DEFINE s == GTrim(m)
<1>3. /\ s \in RingType /\ GivenInv(s) /\ HeadFull(s)
      /\ s.key = m.key /\ PendingUnchanged(m, s)
      /\ s.gpull = m.gpull /\ s.gtail = m.gtail
  BY <1>2, GTrimInv
<1> HIDE DEF s
<1>4. PendingInv(s)
  <2>1. ASSUME NEW c \in ReadBlocks
        PROVE  s.key[c] = r.key[c] \/ (~PendingIn(r, c) /\ ~PendingIn(s, c))
    <3>1. c # blk => s.key[c] = r.key[c]  BY <1>3 DEF DropsHeld
    <3>2. ~PendingIn(r, blk)  BY <1>1, KeyOf DEF DropsHeld, HeldIn
    <3>3. ~PendingIn(s, blk)  BY <1>3 DEF DropsHeld, PendingIn
    <3> QED  BY <3>1, <3>2, <3>3
  <2>2. s.q = r.q /\ s.npending = r.npending
    BY <1>3 DEF PendingUnchanged
  <2> QED  BY <1>1, <1>3, <2>1, <2>2, SamePending
<1> QED  BY <1>3, <1>4 DEF GivenStay, RingInv, PendingUnchanged, DropsHeld, s

\* A held block and its slot.
LEMMA HeldBlock ==
  ASSUME NEW r, RingInv(r), NEW blk \in ReadBlocks, HeldIn(r, blk)
  PROVE  LET p == r.key[blk].pos
         IN /\ p \in Pos /\ p \in Span(r.ghead, r.gpull)
            /\ r.key[blk] = [where |-> GIVEN, pos |-> p]
            /\ r.g[p % GSize] # NoBlock
            /\ r.g[p % GSize].blk = blk /\ r.g[p % GSize].buf = blk
            /\ r.nheld - 1 \in Int
<1> DEFINE p == r.key[blk].pos
<1>1. r \in RingType /\ SlotsInv(r) /\ SlotKeysInv(r)  BY DEF RingInv, GivenInv
<1>2. p \in Pos /\ r.key[blk] = [where |-> GIVEN, pos |-> p]
  BY <1>1, KeyOf, GivenKey DEF HeldIn
<1>3. r.g[p % GSize].buf # NoBlock  BY DEF HeldIn
<1>4. r.nheld - 1 \in Int  BY <1>1 DEF RingType
<1> HIDE DEF p
<1>5. Lies(r, p, blk)  BY <1>1, <1>2 DEF SlotKeysInv
<1>6. p \in Span(r.ghead, r.gpull)
  <2>1. Span(r.ghead, r.gtail) = Span(r.ghead, r.gpull) \cup Span(r.gpull, r.gtail)
    BY <1>1, GivenOf
  <2>2. p \notin Span(r.gpull, r.gtail)  BY <1>1, <1>3 DEF SlotsInv
  <2>3. p \in Span(r.ghead, r.gtail)  BY <1>5 DEF Lies
  <2> QED  BY <2>1, <2>2, <2>3
<1>7. r.g[p % GSize].buf = blk
  BY <1>1, <1>5, <1>6 DEF Lies, SlotsInv
<1> QED  BY <1>2, <1>4, <1>5, <1>6, <1>7 DEF Lies, p

\* lion_ring_take(): the block read is the ring's no more.
LEMMA TakenInv ==
  ASSUME NEW r, RingInv(r), NEW blk \in ReadBlocks, HeldIn(r, blk)
  PROVE  GivenStay(r, Taken(r, blk), blk)
<1> DEFINE p == r.key[blk].pos
           m == [r EXCEPT !.g[p % GSize] = NoBlock, !.nheld = @ - 1,
                          !.key[blk] = NoBlock]
<1>1. r \in RingType /\ SlotsInv(r)  BY DEF RingInv, GivenInv
<1>2. /\ p \in Pos /\ p \in Span(r.ghead, r.gpull)
      /\ r.key[blk] = [where |-> GIVEN, pos |-> p]
      /\ r.nheld - 1 \in Int
  BY HeldBlock
<1>3. Taken(r, blk) = GTrim(m)  BY DEF Taken
<1> HIDE DEF p
<1>4. /\ m \in RingType /\ PendingUnchanged(r, m)
      /\ m.g = [r.g EXCEPT ![p % GSize] = NoBlock]
      /\ m.key = [r.key EXCEPT ![blk] = NoBlock]
      /\ m.nheld = r.nheld - 1
      /\ m.ghead = r.ghead /\ m.gpull = r.gpull /\ m.gtail = r.gtail
  <2>1. /\ [r.g EXCEPT ![p % GSize] = NoBlock]
             \in [0 .. GSize - 1 -> {NoBlock} \cup SlotType]
        /\ [r.key EXCEPT ![blk] = NoBlock]
             \in [ReadBlocks -> {NoBlock} \cup KeyType]
    BY <1>1 DEF RingType
  <2> QED  BY <1>1, <1>2, <2>1 DEF RingType, PendingUnchanged
<1> HIDE DEF m
<1>5. m.key[blk] = NoBlock /\ \A c \in ReadBlocks : c # blk => m.key[c] = r.key[c]
  BY <1>1, <1>4 DEF RingType
<1>6. DropsHeld(r, m, p, blk, r.ghead)
  <2>1. /\ Span(r.ghead, r.gpull) \cup {p} = Span(r.ghead, r.gpull)
        /\ Span(r.ghead, r.gtail) \cup {p} = Span(r.ghead, r.gtail)
    BY <1>1, <1>2, GivenOf
  <2>2. /\ Dist(r.ghead, r.gtail) <= PinLimit
        /\ Dist(r.ghead, r.gpull) <= Dist(r.ghead, r.gtail)
    BY <1>1 DEF SlotsInv
  <2> QED  BY <1>2, <1>4, <1>5, <2>1, <2>2 DEF DropsHeld
<1> QED  BY <1>1, <1>2, <1>3, <1>4, <1>6, HeldGoes, GivenOf

\* lion_ring_g_room(): the oldest held block goes, and there is room for one.
LEMMA EvictInv ==
  ASSUME NEW r, RingInv(r), r.ghead # r.gpull
  PROVE  LET blk == Oldest(r).blk
             s == Evict(r)
         IN /\ blk \in ReadBlocks /\ HeldIn(r, blk) /\ Oldest(r).buf = blk
            /\ GivenStay(r, s, blk)
            /\ Dist(s.ghead, s.gtail) < PinLimit
<1> DEFINE blk == Oldest(r).blk
           p == r.ghead
           h == Plus(r.ghead, 1)
           m == [r EXCEPT !.key[blk] = NoBlock, !.g[p % GSize] = NoBlock,
                          !.nheld = @ - 1, !.ghead = h]
           s == Evict(r)
<1>1. r \in RingType /\ SlotsInv(r) /\ SlotKeysInv(r)  BY DEF RingInv, GivenInv
<1>2. /\ p \in Pos /\ r.gpull \in Pos /\ r.gtail \in Pos
      /\ p % GSize \in 0 .. GSize - 1
      /\ r.g \in [0 .. GSize - 1 -> {NoBlock} \cup SlotType]
  BY <1>1, GivenOf
<1>3. /\ h \in Pos /\ p \in Span(r.ghead, r.gpull)
      /\ Dist(h, r.gpull) = Dist(r.ghead, r.gpull) - 1
      /\ Span(h, r.gpull) = Span(r.ghead, r.gpull) \ {p}
  BY <1>2, SpanHead
<1>4. /\ Dist(r.ghead, r.gtail) <= PinLimit
      /\ Dist(r.ghead, r.gpull) <= Dist(r.ghead, r.gtail)
      /\ Dist(r.ghead, r.gpull) \in Nat /\ Dist(r.ghead, r.gtail) \in Nat
      /\ Dist(r.ghead, r.gpull) # 0
  <2>1. /\ Dist(r.ghead, r.gtail) <= PinLimit
        /\ Dist(r.ghead, r.gpull) <= Dist(r.ghead, r.gtail)
    BY <1>1 DEF SlotsInv
  <2>2. r.ghead \in Pos /\ r.gpull \in Pos /\ r.gtail \in Pos  BY <1>2
  <2>3. Dist(r.ghead, r.gpull) \in Nat /\ Dist(r.ghead, r.gpull) # 0
    BY <2>2, DistPos
  <2>4. Dist(r.ghead, r.gtail) \in Nat
    BY <2>2, DistPos
  <2> QED  BY <2>1, <2>3, <2>4
<1>5. /\ Dist(h, r.gtail) = Dist(r.ghead, r.gtail) - 1
      /\ Span(h, r.gtail) = Span(r.ghead, r.gtail) \ {p}
      /\ p \in Span(r.ghead, r.gtail)
  <2>1. r.ghead # r.gtail  BY <1>2, <1>4, DistPos
  <2> QED  BY <1>2, <2>1, SpanHead
<1>6. /\ r.g[p % GSize] # NoBlock /\ r.g[p % GSize] \in SlotType
      /\ r.g[p % GSize].buf = r.g[p % GSize].blk
  BY <1>1, <1>2, <1>3 DEF RingInv, HeadFull, SlotsInv
<1>7. blk \in ReadBlocks /\ blk = r.g[p % GSize].blk /\ Oldest(r).buf = blk
  BY <1>6 DEF Oldest, SlotType
<1>8. s = GTrim(m)  BY DEF Evict
<1> HIDE DEF blk, p, h, s
<1>9. r.key[blk] = [where |-> GIVEN, pos |-> p]
  BY <1>1, <1>2, <1>5, <1>6, <1>7 DEF SlotKeysInv, Lies
<1>10. HeldIn(r, blk)
  <2>1. GivenIn(r, blk) /\ r.key[blk].pos = p  BY <1>1, <1>2, <1>7, <1>9, GivenKey
  <2> QED  BY <1>6, <1>7, <2>1, NoBlockIsNone DEF HeldIn
<1>11. /\ m \in RingType /\ PendingUnchanged(r, m)
       /\ m.g = [r.g EXCEPT ![p % GSize] = NoBlock]
       /\ m.key = [r.key EXCEPT ![blk] = NoBlock]
       /\ m.nheld = r.nheld - 1
       /\ m.ghead = h /\ m.gpull = r.gpull /\ m.gtail = r.gtail
  <2>1. /\ [r.g EXCEPT ![p % GSize] = NoBlock]
             \in [0 .. GSize - 1 -> {NoBlock} \cup SlotType]
        /\ [r.key EXCEPT ![blk] = NoBlock]
             \in [ReadBlocks -> {NoBlock} \cup KeyType]
        /\ r.nheld - 1 \in Int
    <3>1. /\ r.g \in [0 .. GSize - 1 -> {NoBlock} \cup SlotType]
          /\ r.key \in [ReadBlocks -> {NoBlock} \cup KeyType]
          /\ r.nheld \in Int
      BY <1>1 DEF RingType
    <3>2. [r.g EXCEPT ![p % GSize] = NoBlock]
             \in [0 .. GSize - 1 -> {NoBlock} \cup SlotType]
      BY <3>1
    <3>3. [r.key EXCEPT ![blk] = NoBlock]
             \in [ReadBlocks -> {NoBlock} \cup KeyType]
      BY <3>1
    <3> QED  BY <3>1, <3>2, <3>3
  <2> QED  BY <1>1, <1>3, <2>1 DEF RingType, PendingUnchanged
<1> HIDE DEF m
<1>12. m.key[blk] = NoBlock /\ \A c \in ReadBlocks : c # blk => m.key[c] = r.key[c]
  BY <1>1, <1>7, <1>11 DEF RingType
<1>13. DropsHeld(r, m, p, blk, h)
  <2>1. /\ Span(h, r.gpull) \cup {p} = Span(r.ghead, r.gpull)
        /\ Span(h, r.gtail) \cup {p} = Span(r.ghead, r.gtail)
    BY <1>3, <1>5
  <2>2. Dist(h, r.gtail) <= PinLimit /\ Dist(h, r.gpull) <= Dist(h, r.gtail)
    BY <1>3, <1>4, <1>5, Sizes
  <2> QED  BY <1>9, <1>10, <1>11, <1>12, <2>1, <2>2 DEF DropsHeld
<1>14. GivenStay(r, s, blk)
  BY <1>2, <1>3, <1>7, <1>8, <1>11, <1>13, HeldGoes
<1>15. Dist(s.ghead, s.gtail) < PinLimit
  <2>1. GivenInv(m)  BY <1>1, <1>2, <1>3, <1>7, <1>11, <1>13, DropHeld DEF RingInv
  <2>2. Dist(s.ghead, s.gtail) <= Dist(m.ghead, m.gtail)
    BY <1>8, <1>11, <2>1, GTrimInv
  <2>3. Dist(m.ghead, m.gtail) < PinLimit  BY <1>4, <1>5, <1>11, Sizes
  <2>4. Dist(s.ghead, s.gtail) \in Nat /\ Dist(m.ghead, m.gtail) \in Nat
    BY <1>2, <1>3, <1>11, <1>14, DistPos DEF GivenStay, RingInv, RingType
  <2> QED  BY <2>2, <2>3, <2>4, Sizes
<1> QED  BY <1>7, <1>10, <1>14, <1>15 DEF blk, s

\* s is r with the oldest given block's buffer.
Pulls(r, s, blk) ==
  /\ r.gpull # r.gtail
  /\ r.g[r.gpull % GSize].blk = blk
  /\ s.key = r.key
  /\ s.g = [r.g EXCEPT ![r.gpull % GSize] = [blk |-> blk, buf |-> blk]]
  /\ s.ghead = r.ghead /\ s.gpull = Plus(r.gpull, 1) /\ s.gtail = r.gtail
  /\ s.nheld = r.nheld + 1

LEMMA PullsInv ==
  ASSUME NEW r \in RingType, GivenInv(r), HeadFull(r), NEW s \in RingType,
         NEW blk \in ReadBlocks, Pulls(r, s, blk)
  PROVE  GivenInv(s) /\ HeadFull(s) /\ r.key[blk] = [where |-> GIVEN, pos |-> r.gpull]
<1> DEFINE p == r.gpull
           e == Plus(p, 1)
           new == [blk |-> blk, buf |-> blk]
<1>1. SlotsInv(r) /\ SlotKeysInv(r)  BY DEF GivenInv
<1>2. /\ r.ghead \in Pos /\ p \in Pos /\ r.gtail \in Pos
      /\ r.g \in [0 .. GSize - 1 -> {NoBlock} \cup SlotType]
      /\ \A x \in Pos : x % GSize \in 0 .. GSize - 1
      /\ \A x, y \in Span(r.ghead, r.gtail) : x % GSize = y % GSize => x = y
      /\ Span(r.ghead, r.gtail) = Span(r.ghead, p) \cup Span(p, r.gtail)
      /\ Span(r.ghead, p) \cap Span(p, r.gtail) = {}
      /\ Span(r.ghead, r.gtail) \subseteq Pos
  BY <1>1, GivenOf
<1>3. /\ p # r.gtail /\ r.g[p % GSize].blk = blk /\ s.key = r.key
      /\ s.g = [r.g EXCEPT ![p % GSize] = new]
      /\ s.ghead = r.ghead /\ s.gpull = e /\ s.gtail = r.gtail
      /\ s.nheld = r.nheld + 1
  BY DEF Pulls
<1>4. new # NoBlock /\ new.blk = blk /\ new.buf = blk
  <2>1. new \in SlotType  BY DEF SlotType
  <2> QED  BY <2>1, NoBlockIsNone
<1> HIDE DEF p, e, new
<1>5. /\ e \in Pos
      /\ Span(e, r.gtail) = Span(p, r.gtail) \ {p}
      /\ p \in Span(p, r.gtail) /\ p \in Span(r.ghead, r.gtail)
  BY <1>2, <1>3, SpanHead DEF e
<1>6. /\ Dist(r.ghead, r.gtail) <= PinLimit
      /\ Dist(r.ghead, p) <= Dist(r.ghead, r.gtail)
  BY <1>1 DEF SlotsInv, p
<1>7. Dist(r.ghead, p) < Dist(r.ghead, r.gtail)
  BY <1>2, <1>5, InSpan
<1>7a. Dist(r.ghead, p) \in Nat /\ Dist(r.ghead, r.gtail) \in Nat
  BY <1>2, DistPos
<1>8. Dist(r.ghead, p) < Positions - 1
  BY <1>7a, <1>6, <1>7, Sizes
<1>9. /\ Dist(r.ghead, e) = Dist(r.ghead, p) + 1
      /\ Span(r.ghead, e) = Span(r.ghead, p) \cup {p}
  BY <1>2, <1>8, SpanTail DEF e
<1>10. Dist(r.ghead, e) <= Dist(r.ghead, r.gtail)
  BY <1>7a, <1>7, <1>9
<1>11. r.g[p % GSize] # NoBlock /\ r.g[p % GSize].buf = NoBlock
  BY <1>1, <1>5 DEF SlotsInv, p
<1>12. /\ s.g[p % GSize] = new
       /\ \A i \in 0 .. GSize - 1 : i # p % GSize => s.g[i] = r.g[i]
       /\ \A x \in Span(r.ghead, r.gtail) : x # p => s.g[x % GSize] = r.g[x % GSize]
  <2>1. p % GSize \in 0 .. GSize - 1  BY <1>2
  <2>2. /\ s.g[p % GSize] = new
        /\ \A i \in 0 .. GSize - 1 : i # p % GSize => s.g[i] = r.g[i]
    BY <1>2, <1>3, <2>1
  <2> QED  BY <1>2, <1>5, <2>2
<1>13. SlotsInv(s)
  <2>1. ASSUME NEW x \in Span(s.ghead, s.gpull), s.g[x % GSize] # NoBlock
        PROVE  s.g[x % GSize].buf = s.g[x % GSize].blk
    <3>1. CASE x = p  BY <1>4, <1>12, <3>1
    <3>2. CASE x # p
      <4>1. x \in Span(r.ghead, p)  BY <1>3, <1>9, <2>1, <3>2
      <4>2. s.g[x % GSize] = r.g[x % GSize]  BY <1>2, <1>12, <3>2, <4>1
      <4> QED  BY <1>1, <2>1, <4>1, <4>2 DEF SlotsInv, p
    <3> QED  BY <3>1, <3>2
  <2>2. ASSUME NEW x \in Span(s.gpull, s.gtail)
        PROVE  s.g[x % GSize] # NoBlock /\ s.g[x % GSize].buf = NoBlock
    <3>1. x \in Span(p, r.gtail) /\ x # p  BY <1>3, <1>5, <2>2
    <3>2. s.g[x % GSize] = r.g[x % GSize]  BY <1>2, <1>12, <3>1
    <3> QED  BY <1>1, <3>1, <3>2 DEF SlotsInv, p
  <2>3. ASSUME NEW i \in 0 .. GSize - 1,
               \A x \in Span(s.ghead, s.gtail) : x % GSize # i
        PROVE  s.g[i] = NoBlock
    <3>1. \A x \in Span(r.ghead, r.gtail) : x % GSize # i  BY <1>3, <2>3
    <3>2. r.g[i] = NoBlock  BY <1>1, <3>1 DEF SlotsInv
    <3>3. i # p % GSize  BY <1>5, <3>1
    <3> QED  BY <1>12, <3>2, <3>3
  <2> QED  BY <1>3, <1>6, <1>10, <2>1, <2>2, <2>3 DEF SlotsInv
<1>14. ASSUME NEW x \in Pos, NEW c \in ReadBlocks
       PROVE  Lies(s, x, c) <=> Lies(r, x, c)
  <2>1. CASE x = p  BY <1>3, <1>4, <1>11, <1>12, <2>1 DEF Lies
  <2>2. CASE x # p  BY <1>3, <1>12, <2>2 DEF Lies
  <2> QED  BY <2>1, <2>2
<1>15. SlotKeysInv(s)  BY <1>1, <1>3, <1>14 DEF SlotKeysInv
<1>16. Lies(r, p, blk)  BY <1>3, <1>5, <1>11 DEF Lies
<1>17. r.key[blk] = [where |-> GIVEN, pos |-> p]
  BY <1>1, <1>2, <1>16 DEF SlotKeysInv
<1>18. GivenIn(r, blk) /\ r.key[blk].pos = p
  BY <1>2, <1>17, GivenKey
<1>19. HeldSet(s) = HeldSet(r) \cup {blk} /\ blk \notin HeldSet(r)
  <2>1. \A c \in ReadBlocks : GivenIn(s, c) <=> GivenIn(r, c)
    BY <1>3 DEF GivenIn
  <2>2. HeldIn(s, blk)
    BY <1>3, <1>4, <1>12, <1>18, <2>1, NoBlockIsNone DEF HeldIn
  <2>3. ~HeldIn(r, blk)  BY <1>11, <1>18 DEF HeldIn
  <2>4. ASSUME NEW c \in ReadBlocks, c # blk
        PROVE  HeldIn(s, c) <=> HeldIn(r, c)
    <3>1. CASE ~GivenIn(r, c)  BY <2>1, <3>1 DEF HeldIn
    <3>2. CASE GivenIn(r, c)
      <4> DEFINE x == r.key[c].pos
      <4>1. x \in Pos /\ r.key[c] = [where |-> GIVEN, pos |-> x]
        BY <3>2, KeyOf, GivenKey
      <4> HIDE DEF x
      <4>2. Lies(r, x, c)  BY <1>1, <4>1 DEF SlotKeysInv
      <4>3. x # p  BY <2>4, <1>16, <4>2 DEF Lies
      <4>4. s.g[x % GSize] = r.g[x % GSize]  BY <1>12, <4>2, <4>3 DEF Lies
      <4> QED  BY <1>3, <2>1, <4>4 DEF HeldIn, x
    <3> QED  BY <3>1, <3>2
  <2> QED  BY <2>2, <2>3, <2>4 DEF HeldSet
<1>20. HeldCounted(s)
  BY <1>3, <1>19, FS_AddElement DEF GivenInv, HeldCounted
<1>21. HeadFull(s)
  <2>1. CASE r.ghead = p  BY <1>3, <1>4, <1>12, <2>1 DEF HeadFull
  <2>2. CASE r.ghead # p
    <3>1. r.g[r.ghead % GSize] # NoBlock  BY <2>2 DEF HeadFull, p
    <3>2. r.ghead \in Span(r.ghead, p)  BY <1>2, <2>2, SpanHead
    <3>3. s.g[r.ghead % GSize] = r.g[r.ghead % GSize]
      BY <1>2, <1>12, <2>2, <3>2
    <3> QED  BY <1>3, <3>1, <3>3 DEF HeadFull
  <2> QED  BY <2>1, <2>2
<1> QED  BY <1>13, <1>15, <1>17, <1>20, <1>21 DEF GivenInv, p

\* lion_ring_pull(): the oldest given block is held.
LEMMA PulledInv ==
  ASSUME NEW r, RingInv(r), NEW blk \in ReadBlocks, r.gpull # r.gtail,
         r.g[r.gpull % GSize].blk = blk
  PROVE  LET s == Pulled(r, blk)
         IN /\ RingInv(s) /\ Pulls(r, s, blk) /\ PendingUnchanged(r, s)
            /\ r.key[blk] = [where |-> GIVEN, pos |-> r.gpull]
<1> DEFINE i == r.gpull % GSize
           new == [blk |-> blk, buf |-> blk]
           e == Plus(r.gpull, 1)
           s == Pulled(r, blk)
<1>1. /\ r \in RingType /\ PendingInv(r) /\ GivenInv(r) /\ HeadFull(r)
      /\ SlotsInv(r)
  BY DEF RingInv, GivenInv
<1>2. /\ r.gpull \in Pos /\ r.gtail \in Pos /\ i \in 0 .. GSize - 1
      /\ r.g \in [0 .. GSize - 1 -> {NoBlock} \cup SlotType]
  BY <1>1, GivenOf
<1>3. r.g[i] # NoBlock
  <2>1. r.gpull \in Span(r.gpull, r.gtail)  BY <1>2, SpanHead
  <2> QED  BY <1>1, <2>1 DEF SlotsInv
<1>4. [r.g[i] EXCEPT !.buf = blk] = new /\ new \in SlotType
  <2>1. r.g[i] \in SlotType  BY <1>2, <1>3
  <2> HIDE DEF i
  <2> QED  BY <2>1 DEF SlotType, i
<1>5. e \in Pos  BY <1>2, PlusPos, Sizes
<1>6. s = [r EXCEPT !.g[i] = [r.g[i] EXCEPT !.buf = blk], !.gpull = e,
                    !.nheld = @ + 1]
  BY DEF Pulled
<1>7. s = [r EXCEPT !.g = [r.g EXCEPT ![i] = new], !.gpull = e,
                    !.nheld = r.nheld + 1]
  BY <1>1, <1>4, <1>6 DEF RingType
<1>8. [r.g EXCEPT ![i] = new] \in [0 .. GSize - 1 -> {NoBlock} \cup SlotType]
  BY <1>2, <1>4
<1>9. r.nheld + 1 \in Int  BY <1>1 DEF RingType
<1> HIDE DEF new, e, i, s
<1>10. /\ s \in RingType /\ PendingUnchanged(r, s)
       /\ s.g = [r.g EXCEPT ![i] = new]
       /\ s.key = r.key /\ s.nheld = r.nheld + 1
       /\ s.ghead = r.ghead /\ s.gpull = e /\ s.gtail = r.gtail
  BY <1>1, <1>5, <1>7, <1>8, <1>9 DEF RingType, PendingUnchanged
<1>11. Pulls(r, s, blk)  BY <1>10 DEF Pulls, i, new, e
<1>12. /\ GivenInv(s) /\ HeadFull(s)
       /\ r.key[blk] = [where |-> GIVEN, pos |-> r.gpull]
  BY <1>1, <1>10, <1>11, PullsInv
<1>13. PendingInv(s)
  BY <1>1, <1>10, SamePending DEF PendingUnchanged
<1> QED  BY <1>1, <1>10, <1>11, <1>12, <1>13 DEF RingInv, s

\* s is r with a block that was not in it given, last.
Adds(r, s, blk) ==
  /\ ~GivenIn(r, blk)
  /\ Dist(r.ghead, r.gtail) < PinLimit
  /\ s.key[blk] = [where |-> GIVEN, pos |-> r.gtail]
  /\ \A c \in ReadBlocks : c # blk => s.key[c] = r.key[c]
  /\ s.g = [r.g EXCEPT ![r.gtail % GSize] = [blk |-> blk, buf |-> NoBlock]]
  /\ s.ghead = r.ghead /\ s.gpull = r.gpull /\ s.gtail = Plus(r.gtail, 1)
  /\ s.nheld = r.nheld

LEMMA AddsInv ==
  ASSUME NEW r \in RingType, GivenInv(r), HeadFull(r), NEW s \in RingType,
         NEW blk \in ReadBlocks, Adds(r, s, blk)
  PROVE  /\ GivenInv(s) /\ HeadFull(s)
         /\ Dist(r.gpull, s.gtail) = Dist(r.gpull, r.gtail) + 1
<1> DEFINE p == r.gtail
           e == Plus(p, 1)
           new == [blk |-> blk, buf |-> NoBlock]
<1>1. SlotsInv(r) /\ SlotKeysInv(r)  BY DEF GivenInv
<1>2. /\ r.ghead \in Pos /\ r.gpull \in Pos /\ p \in Pos
      /\ r.g \in [0 .. GSize - 1 -> {NoBlock} \cup SlotType]
      /\ \A x \in Pos : x % GSize \in 0 .. GSize - 1
      /\ Span(r.ghead, p) = Span(r.ghead, r.gpull) \cup Span(r.gpull, p)
      /\ Span(r.ghead, p) \subseteq Pos
  BY <1>1, GivenOf
<1>3. /\ s.key[blk] = [where |-> GIVEN, pos |-> p]
      /\ \A c \in ReadBlocks : c # blk => s.key[c] = r.key[c]
      /\ s.g = [r.g EXCEPT ![p % GSize] = new]
      /\ s.ghead = r.ghead /\ s.gpull = r.gpull /\ s.gtail = e
      /\ s.nheld = r.nheld /\ ~GivenIn(r, blk)
  BY DEF Adds
<1>4. new # NoBlock /\ new.blk = blk /\ new.buf = NoBlock
  <2>1. new \in SlotType  BY DEF SlotType
  <2> QED  BY <2>1, NoBlockIsNone
<1>5. /\ Dist(r.ghead, p) < PinLimit
      /\ Dist(r.ghead, r.gpull) <= Dist(r.ghead, p)
  BY <1>1 DEF SlotsInv, Adds
<1> HIDE DEF p, e, new
<1>6. /\ Dist(r.ghead, p) \in Nat /\ Dist(r.ghead, r.gpull) \in Nat
      /\ Dist(r.gpull, p) = Dist(r.ghead, p) - Dist(r.ghead, r.gpull)
  BY <1>2, <1>5, DistPos, SpanParts
<1>7. Dist(r.ghead, p) < Positions - 1 /\ Dist(r.gpull, p) < Positions - 1
  BY <1>5, <1>6, Sizes
<1>8. /\ e \in Pos
      /\ Dist(r.ghead, e) = Dist(r.ghead, p) + 1
      /\ Span(r.ghead, e) = Span(r.ghead, p) \cup {p} /\ p \notin Span(r.ghead, p)
      /\ Dist(r.gpull, e) = Dist(r.gpull, p) + 1
      /\ Span(r.gpull, e) = Span(r.gpull, p) \cup {p}
  BY <1>2, <1>7, SpanTail DEF e
<1>9. /\ Dist(r.ghead, e) <= PinLimit
      /\ Dist(r.ghead, r.gpull) <= Dist(r.ghead, e)
  BY <1>5, <1>6, <1>8, Sizes
<1>10. \A x, y \in Span(r.ghead, e) : x % GSize = y % GSize => x = y
  BY <1>2, <1>8, <1>9, GivenSlots
<1>11. /\ s.g[p % GSize] = new
       /\ \A i \in 0 .. GSize - 1 : i # p % GSize => s.g[i] = r.g[i]
       /\ \A x \in Span(r.ghead, p) : s.g[x % GSize] = r.g[x % GSize]
  <2>1. p % GSize \in 0 .. GSize - 1  BY <1>2
  <2>2. /\ s.g[p % GSize] = new
        /\ \A i \in 0 .. GSize - 1 : i # p % GSize => s.g[i] = r.g[i]
    BY <1>2, <1>3, <2>1
  <2>3. \A x \in Span(r.ghead, p) : x % GSize # p % GSize
    BY <1>8, <1>10
  <2> QED  BY <1>2, <2>2, <2>3
<1>12. SlotsInv(s)
  <2>1. ASSUME NEW x \in Span(s.ghead, s.gpull), s.g[x % GSize] # NoBlock
        PROVE  s.g[x % GSize].buf = s.g[x % GSize].blk
    <3>1. s.g[x % GSize] = r.g[x % GSize]  BY <1>2, <1>3, <1>11
    <3> QED  BY <1>1, <1>3, <2>1, <3>1 DEF SlotsInv
  <2>2. ASSUME NEW x \in Span(s.gpull, s.gtail)
        PROVE  s.g[x % GSize] # NoBlock /\ s.g[x % GSize].buf = NoBlock
    <3>1. CASE x = p  BY <1>4, <1>11, <3>1
    <3>2. CASE x # p
      <4>1. x \in Span(r.gpull, p)  BY <1>3, <1>8, <2>2, <3>2
      <4>2. s.g[x % GSize] = r.g[x % GSize]  BY <1>2, <1>11, <4>1
      <4> QED  BY <1>1, <4>1, <4>2 DEF SlotsInv, p
    <3> QED  BY <3>1, <3>2
  <2>3. ASSUME NEW i \in 0 .. GSize - 1,
               \A x \in Span(s.ghead, s.gtail) : x % GSize # i
        PROVE  s.g[i] = NoBlock
    <3>1. /\ \A x \in Span(r.ghead, p) : x % GSize # i
          /\ i # p % GSize
      BY <1>3, <1>8, <2>3
    <3>2. r.g[i] = NoBlock  BY <1>1, <3>1 DEF SlotsInv, p
    <3> QED  BY <1>11, <3>1, <3>2
  <2> QED  BY <1>3, <1>9, <2>1, <2>2, <2>3 DEF SlotsInv
<1>13. ASSUME NEW x \in Pos, NEW c \in ReadBlocks
       PROVE  Lies(s, x, c) <=> Lies(r, x, c) \/ (x = p /\ c = blk)
  <2>1. Lies(s, x, c) <=>
          x \in Span(r.ghead, e) /\ s.g[x % GSize] # NoBlock /\ s.g[x % GSize].blk = c
    BY <1>3 DEF Lies
  <2>2. Lies(r, x, c) <=>
          x \in Span(r.ghead, p) /\ r.g[x % GSize] # NoBlock /\ r.g[x % GSize].blk = c
    BY DEF Lies, p
  <2>3. CASE x = p  BY <1>4, <1>8, <1>11, <2>1, <2>2, <2>3
  <2>4. CASE x # p  BY <1>8, <1>11, <2>1, <2>2, <2>4
  <2> QED  BY <2>3, <2>4
<1>14. ASSUME NEW x \in Pos, NEW c \in ReadBlocks
       PROVE  s.key[c] = [where |-> GIVEN, pos |-> x] <=>
                \/ r.key[c] = [where |-> GIVEN, pos |-> x]
                \/ x = p /\ c = blk
  <2>1. CASE c # blk  BY <1>3, <2>1
  <2>2. CASE c = blk
    <3>1. r.key[c] # [where |-> GIVEN, pos |-> x]
      BY <1>3, <2>2, GivenKey
    <3> QED  BY <1>3, <2>2, <3>1
  <2> QED  BY <2>1, <2>2
<1>15. SlotKeysInv(s)  BY <1>1, <1>13, <1>14 DEF SlotKeysInv
<1>16. HeldSet(s) = HeldSet(r)
  <2>1. ~HeldIn(s, blk)  BY <1>3, <1>4, <1>11 DEF HeldIn
  <2>2. ~HeldIn(r, blk)  BY <1>3 DEF HeldIn
  <2>3. ASSUME NEW c \in ReadBlocks, c # blk
        PROVE  HeldIn(s, c) <=> HeldIn(r, c)
    <3>1. s.key[c] = r.key[c]  BY <1>3, <2>3
    <3>2. GivenIn(s, c) <=> GivenIn(r, c)  BY <3>1 DEF GivenIn
    <3>3. CASE ~GivenIn(r, c)  BY <3>2, <3>3 DEF HeldIn
    <3>4. CASE GivenIn(r, c)
      <4> DEFINE x == r.key[c].pos
      <4>1. x \in Pos /\ r.key[c] = [where |-> GIVEN, pos |-> x]
        BY <3>4, KeyOf, GivenKey
      <4> HIDE DEF x
      <4>2. Lies(r, x, c)  BY <1>1, <4>1 DEF SlotKeysInv
      <4>3. s.g[x % GSize] = r.g[x % GSize]  BY <1>11, <4>2 DEF Lies, p
      <4> QED  BY <3>1, <3>2, <4>3 DEF HeldIn, x
    <3> QED  BY <3>3, <3>4
  <2> QED  BY <2>1, <2>2, <2>3 DEF HeldSet
<1>17. HeldCounted(s)  BY <1>3, <1>16 DEF GivenInv, HeldCounted
<1>18. HeadFull(s)
  <2>1. CASE r.ghead = r.gpull  BY <1>3, <2>1 DEF HeadFull
  <2>2. CASE r.ghead # r.gpull
    <3>1. r.g[r.ghead % GSize] # NoBlock  BY <2>2 DEF HeadFull
    <3>2. r.ghead \in Span(r.ghead, r.gpull)  BY <1>2, <2>2, SpanHead
    <3>3. s.g[r.ghead % GSize] = r.g[r.ghead % GSize]  BY <1>2, <1>11, <3>2
    <3> QED  BY <1>3, <3>1, <3>3 DEF HeadFull
  <2> QED  BY <2>1, <2>2
<1> QED  BY <1>3, <1>8, <1>12, <1>15, <1>17, <1>18 DEF GivenInv, p

\* What a ring keeps and gains when a pending block is given.
GivenOne(r, s, blk) ==
  /\ RingInv(s)
  /\ blk \in ReadBlocks /\ PendingIn(r, blk)
  /\ s.key = [r.key EXCEPT ![blk] = [where |-> GIVEN, pos |-> r.gtail]]
  /\ s.g = [r.g EXCEPT ![r.gtail % GSize] = [blk |-> blk, buf |-> NoBlock]]
  /\ s.ghead = r.ghead /\ s.gpull = r.gpull /\ s.gtail = Plus(r.gtail, 1)
  /\ Dist(r.gpull, s.gtail) = Dist(r.gpull, r.gtail) + 1
  /\ s.ended = r.ended

\* lion_ring_give(): the next pending block is given.
LEMMA GiveOne ==
  ASSUME NEW r, RingInv(r), NextPending(r) # NoBlock,
         Dist(r.ghead, r.gtail) < PinLimit
  PROVE  GivenOne(r, Given(r), NextPending(r))
<1> DEFINE t == Dequeuing(r)
           w == NextQueue(r)
           d == t.q[w]
           blk == NextPending(r)
           h == Plus(d.head, 1)
           hole == [d EXCEPT !.b[d.head % PSize] = NoBlock, !.head = h]
           s == Given(r)
           i == t.gtail % GSize
           new == [blk |-> blk, buf |-> NoBlock]
           k == [where |-> GIVEN, pos |-> t.gtail]
           e == Plus(t.gtail, 1)
<1>1. r \in RingType /\ PendingInv(r)  BY DEF RingInv
<1>2. /\ PendingStep(r, t) /\ t.key = r.key
      /\ w \in Queues /\ blk \in ReadBlocks
      /\ d.head # d.tail
      /\ t.key[blk] = [where |-> w, pos |-> d.head]
  BY <1>1, DequeuingInv
<1>3. s = [t EXCEPT !.q[w] = hole, !.npending = @ - 1, !.g[i] = new,
                    !.key[blk] = k, !.gtail = e]
  BY DEF Given
<1> HIDE DEF t, w, blk, s
<1>4. RingInv(t)  BY <1>2, PendingStepInv
<1>5. /\ t \in RingType /\ PendingInv(t) /\ GivenInv(t) /\ HeadFull(t)
      /\ SlotsInv(t)
  BY <1>4 DEF RingInv, GivenInv
<1>6. /\ t.g = r.g /\ t.ghead = r.ghead /\ t.gpull = r.gpull /\ t.gtail = r.gtail
      /\ t.nheld = r.nheld /\ t.ended = r.ended
  BY <1>2 DEF PendingStep, GivenUnchanged
<1>7. /\ d \in DequeType /\ d.head \in Pos /\ d.tail \in Pos
      /\ d.b \in [0 .. PSize - 1 -> ReadBlocks \cup {NoBlock}]
  BY <1>2, <1>5, QueueOf
<1>8. /\ t.gtail \in Pos /\ i \in 0 .. GSize - 1
      /\ t.g \in [0 .. GSize - 1 -> {NoBlock} \cup SlotType]
      /\ t.key \in [ReadBlocks -> {NoBlock} \cup KeyType]
      /\ t.q \in [Queues -> DequeType]
      /\ t.npending \in Int
  BY <1>5, GivenOf DEF RingType
<1>9. e \in Pos  BY <1>8, PlusPos, Sizes
<1>10. new \in SlotType  BY <1>2 DEF SlotType
<1>11. k \in KeyType  BY <1>8 DEF KeyType
<1> HIDE DEF d
<1>12. /\ h \in Pos
       /\ Dist(h, d.tail) = Dist(d.head, d.tail) - 1
       /\ Span(h, d.tail) = Span(d.head, d.tail) \ {d.head}
       /\ d.head \in Span(d.head, d.tail)
  BY <1>2, <1>7, SpanHead
<1> HIDE DEF h
<1>13. /\ hole \in DequeType
       /\ hole.b = [d.b EXCEPT ![d.head % PSize] = NoBlock]
       /\ hole.head = h /\ hole.tail = d.tail
  <2>1. [d.b EXCEPT ![d.head % PSize] = NoBlock]
          \in [0 .. PSize - 1 -> ReadBlocks \cup {NoBlock}]
    BY <1>7
  <2> QED  BY <1>7, <1>12, <2>1 DEF DequeType
<1> HIDE DEF hole, i, new, k, e
<1>14. /\ s.q = [t.q EXCEPT ![w] = hole]
       /\ s.npending = t.npending - 1
       /\ s.g = [t.g EXCEPT ![i] = new]
       /\ s.key = [t.key EXCEPT ![blk] = k]
       /\ s.ghead = t.ghead /\ s.gpull = t.gpull /\ s.gtail = e
       /\ s.nheld = t.nheld /\ s.ended = t.ended
  BY <1>3, <1>5 DEF RingType
<1>15. s \in RingType
  <2>1. [t.q EXCEPT ![w] = hole] \in [Queues -> DequeType]
    BY <1>8, <1>13
  <2>2. [t.g EXCEPT ![i] = new] \in [0 .. GSize - 1 -> {NoBlock} \cup SlotType]
    BY <1>8, <1>10
  <2>3. [t.key EXCEPT ![blk] = k] \in [ReadBlocks -> {NoBlock} \cup KeyType]
    BY <1>8, <1>11
  <2>4. t.npending - 1 \in Int  BY <1>8
  <2> QED  BY <1>3, <1>5, <1>9, <2>1, <2>2, <2>3, <2>4 DEF RingType
<1>16. s.key[blk] = k /\ \A c \in ReadBlocks : c # blk => s.key[c] = t.key[c]
  BY <1>2, <1>8, <1>14
<1>17. PendingIn(t, blk) /\ ~GivenIn(t, blk) /\ PendingIn(r, blk)
  BY <1>2, <1>5, <1>7, QueueKey, KeyOf DEF PendingIn
<1>18. k = [where |-> GIVEN, pos |-> t.gtail]  BY DEF k
<1>19. ~PendingIn(s, blk)
  <2>1. GivenIn(s, blk)  BY <1>2, <1>8, <1>15, <1>16, <1>18, GivenKey
  <2> QED  BY <1>2, <1>15, <2>1, KeyOf
<1>20. PendingInv(s)
  <2>1. /\ \A v \in Queues : v # w => s.q[v] = t.q[v]
        /\ s.q[w] = hole
    BY <1>2, <1>8, <1>14
  <2>2. Dist(h, d.tail) <= PendingLimit
    <3>1. Dist(d.head, d.tail) <= PendingLimit
      BY <1>2, <1>5 DEF PendingInv, QueuesInv, d
    <3>2. Dist(d.head, d.tail) \in Nat  BY <1>7, DistPos
    <3> QED  BY <1>12, <3>1, <3>2, Sizes
  <2>3. Span(h, d.tail) \cup {d.head} = Span(d.head, d.tail)  BY <1>12
  <2>4. d = t.q[w]  BY DEF d
  <2>5. Drops(t, s, w, d.head, blk, h)
    BY <1>2, <1>13, <1>14, <1>16, <1>19, <2>1, <2>2, <2>3, <2>4 DEF Drops
  <2> QED  BY <1>2, <1>5, <1>7, <1>12, <1>15, <2>5, DropWaiting
<1>21. Adds(t, s, blk)
  BY <1>6, <1>14, <1>16, <1>17, <1>18 DEF Adds, i, new, e
<1>22. /\ GivenInv(s) /\ HeadFull(s)
       /\ Dist(t.gpull, s.gtail) = Dist(t.gpull, t.gtail) + 1
  BY <1>2, <1>5, <1>15, <1>21, AddsInv
<1>23. RingInv(s)  BY <1>15, <1>20, <1>22 DEF RingInv
<1> QED
  BY <1>2, <1>6, <1>14, <1>17, <1>18, <1>22, <1>23 DEF GivenOne, i, new, e, s, blk

-----------------------------------------------------------------------------
(* The stream and the pins, beside a ring.                                 *)

\* the blocks the stream has been named and has not handed over, in order
StreamOf(named, taken) == IF taken = NoBlock THEN named ELSE <<taken>> \o named

\* they are the given blocks that are not held, in the order of their positions
InOrder(r, blks) ==
  /\ Len(blks) = Dist(r.gpull, r.gtail)
  /\ \A i \in 1 .. Len(blks) :
       r.key[blks[i]] = [where |-> GIVEN, pos |-> Plus(r.gpull, i - 1)]

\* one pin for each block given or held
PinsOf(r) == [blk \in ReadBlocks |-> IF GivenIn(r, blk) THEN 1 ELSE 0]

StreamInv ==
  /\ queue \in Seq(ReadBlocks)
  /\ out \in ReadBlocks \cup {NoBlock}
  /\ InOrder(ring, StreamOf(queue, out))
  /\ pins = PinsOf(ring)
  /\ over = ring.ended

\* a pull that begins with nothing given has its block first in line, and a
\* stream that may ask for it
ReadInv ==
  /\ pc \in {"idle", "read", "pull", "refillRead", "refillGive"}
  /\ pc # "idle" => reading \in ReadBlocks
  /\ out # NoBlock => pc \in {"pull", "refillGive"}
  /\ pc = "pull" /\ Idle => ~over /\ AtFront(ring)
  /\ pc = "refillGive" => ~Idle /\ Dist(ring.ghead, ring.gtail) < PinLimit
  /\ answer # NoBlock => answer.asked = answer.got

Inv == RingInv(ring) /\ StreamInv /\ ReadInv

\* The stream's blocks when it is named one, takes one and hands one over.
LEMMA StreamIs ==
  ASSUME NEW named \in Seq(ReadBlocks), NEW taken \in ReadBlocks \cup {NoBlock}
  PROVE  /\ StreamOf(named, taken) \in Seq(ReadBlocks)
         /\ Len(StreamOf(named, taken)) =
              Len(named) + (IF taken = NoBlock THEN 0 ELSE 1)
         /\ taken # NoBlock => /\ StreamOf(named, taken)[1] = taken
                               /\ Tail(StreamOf(named, taken)) = named
         /\ \A blk \in ReadBlocks :
              StreamOf(Append(named, blk), taken) = Append(StreamOf(named, taken), blk)
<1>1. CASE taken = NoBlock  BY <1>1 DEF StreamOf
<1>2. CASE taken # NoBlock
  <2>1. taken \in ReadBlocks  BY <1>2
  <2>2. StreamOf(named, taken) = <<taken>> \o named  BY <1>2 DEF StreamOf
  <2>3. /\ <<taken>> \o named \in Seq(ReadBlocks)
        /\ Len(<<taken>> \o named) = Len(named) + 1
        /\ (<<taken>> \o named)[1] = taken
    BY <2>1
  <2>4. Tail(<<taken>> \o named) = named  BY <2>1
  <2>5. ASSUME NEW blk \in ReadBlocks
        PROVE  <<taken>> \o Append(named, blk) = Append(<<taken>> \o named, blk)
    BY <2>1
  <2> QED  BY <1>2, <2>2, <2>3, <2>4, <2>5 DEF StreamOf
<1> QED  BY <1>1, <1>2

LEMMA StreamTaken ==
  ASSUME NEW named \in Seq(ReadBlocks), named # <<>>
  PROVE  /\ Head(named) \in ReadBlocks /\ Tail(named) \in Seq(ReadBlocks)
         /\ StreamOf(Tail(named), Head(named)) = StreamOf(named, NoBlock)
<1>1. /\ Head(named) \in ReadBlocks /\ Tail(named) \in Seq(ReadBlocks)
      /\ <<Head(named)>> \o Tail(named) = named
  OBVIOUS
<1> QED  BY <1>1, NoBlockIsNone DEF StreamOf

\* Given blocks that are not held keep their keys.
Keeps(r, s) ==
  \A blk \in ReadBlocks : GivenIn(r, blk) /\ ~HeldIn(r, blk) => s.key[blk] = r.key[blk]

\* The stream's blocks are given and not held,
LEMMA OrderedGiven ==
  ASSUME NEW r, RingInv(r), NEW blks \in Seq(ReadBlocks), InOrder(r, blks),
         NEW i \in 1 .. Len(blks)
  PROVE  /\ blks[i] \in ReadBlocks
         /\ GivenIn(r, blks[i]) /\ ~HeldIn(r, blks[i])
         /\ r.key[blks[i]].pos = Plus(r.gpull, i - 1)
<1> DEFINE p == Plus(r.gpull, i - 1)
           blk == blks[i]
<1>1. r \in RingType /\ SlotsInv(r)  BY DEF RingInv, GivenInv
<1>2. r.gpull \in Pos /\ r.gtail \in Pos  BY <1>1, GivenOf
<1>3. blk \in ReadBlocks /\ r.key[blk] = [where |-> GIVEN, pos |-> p]
  BY DEF InOrder
<1>4. p \in Span(r.gpull, r.gtail)
  <2>1. i - 1 \in 0 .. Dist(r.gpull, r.gtail) - 1  BY DEF InOrder
  <2> QED  BY <2>1 DEF Span
<1> HIDE DEF p, blk
<1>5. p \in Pos  BY <1>2, <1>4, InSpan
<1>6. GivenIn(r, blk) /\ r.key[blk].pos = p  BY <1>1, <1>3, <1>5, GivenKey
<1>7. ~HeldIn(r, blk)  BY <1>1, <1>4, <1>6 DEF HeldIn, SlotsInv
<1> QED  BY <1>3, <1>6, <1>7 DEF p, blk

\* ... and all that are,
LEMMA GivenOrdered ==
  ASSUME NEW r, RingInv(r), NEW blks \in Seq(ReadBlocks), InOrder(r, blks),
         NEW blk \in ReadBlocks, GivenIn(r, blk), ~HeldIn(r, blk)
  PROVE  \E i \in 1 .. Len(blks) : blks[i] = blk
<1> DEFINE p == r.key[blk].pos
<1>1. r \in RingType /\ SlotsInv(r) /\ SlotKeysInv(r)  BY DEF RingInv, GivenInv
<1>2. p \in Pos /\ r.key[blk] = [where |-> GIVEN, pos |-> p]
  BY <1>1, KeyOf, GivenKey
<1>3. r.g[p % GSize].buf = NoBlock  BY DEF HeldIn
<1> HIDE DEF p
<1>4. Lies(r, p, blk)  BY <1>1, <1>2 DEF SlotKeysInv
<1>5. p \in Span(r.gpull, r.gtail)
  <2>1. Span(r.ghead, r.gtail) = Span(r.ghead, r.gpull) \cup Span(r.gpull, r.gtail)
    BY <1>1, GivenOf
  <2>2. p \notin Span(r.ghead, r.gpull)
    BY <1>1, <1>3, <1>4, NoBlockIsNone DEF SlotsInv, Lies
  <2> QED  BY <1>4, <2>1, <2>2 DEF Lies
<1>6. PICK j \in 0 .. Dist(r.gpull, r.gtail) - 1 : p = Plus(r.gpull, j)
  BY <1>5 DEF Span
<1> DEFINE i == j + 1
<1>7. i \in 1 .. Len(blks) /\ i - 1 = j
  <2>1. Dist(r.gpull, r.gtail) = Len(blks)  BY DEF InOrder
  <2> QED  BY <1>6, <2>1
<1>8. r.key[blks[i]] = [where |-> GIVEN, pos |-> p]
  BY <1>6, <1>7 DEF InOrder
<1> HIDE DEF i
<1>9. blks[i] \in ReadBlocks  BY <1>7
<1>10. Lies(r, p, blks[i])  BY <1>1, <1>2, <1>8, <1>9 DEF SlotKeysInv
<1> QED  BY <1>4, <1>7, <1>10 DEF Lies

\* ... each once.
LEMMA OrderedOnce ==
  ASSUME NEW r, RingInv(r), NEW blks \in Seq(ReadBlocks), InOrder(r, blks),
         NEW i \in 1 .. Len(blks), NEW j \in 1 .. Len(blks), blks[i] = blks[j]
  PROVE  i = j
<1>1. r \in RingType /\ SlotsInv(r)  BY DEF RingInv, GivenInv
<1>2. r.gpull \in Pos /\ r.gtail \in Pos  BY <1>1, GivenOf
<1> DEFINE m == i - 1  n == j - 1
<1>3. Plus(r.gpull, m) = Plus(r.gpull, n)  BY OrderedGiven
<1>4. m \in Pos /\ n \in Pos
  <2>1. Len(blks) = Dist(r.gpull, r.gtail)  BY DEF InOrder
  <2>2. Len(blks) < Positions /\ Len(blks) \in Nat  BY <1>2, <2>1, DistPos
  <2> QED  BY <2>2, Sizes DEF Pos
<1>5. m \in Int /\ n \in Int /\ (m = n => i = j)  OBVIOUS
<1> HIDE DEF m, n
<1>6. m = n  BY <1>2, <1>3, <1>4, PlusDist
<1> QED  BY <1>5, <1>6

\* A ring whose given blocks not held stay as they are.
LEMMA OrderKept ==
  ASSUME NEW r, RingInv(r), NEW blks \in Seq(ReadBlocks), InOrder(r, blks),
         NEW s, Keeps(r, s), s.gpull = r.gpull, s.gtail = r.gtail
  PROVE  InOrder(s, blks)
<1>1. ASSUME NEW i \in 1 .. Len(blks)
      PROVE  s.key[blks[i]] = [where |-> GIVEN, pos |-> Plus(s.gpull, i - 1)]
  <2>1. s.key[blks[i]] = r.key[blks[i]]  BY OrderedGiven DEF Keeps
  <2>2. r.key[blks[i]] = [where |-> GIVEN, pos |-> Plus(r.gpull, i - 1)]
    BY DEF InOrder
  <2> QED  BY <2>1, <2>2
<1> QED  BY <1>1 DEF InOrder

\* A block is given, last.
LEMMA OrderAdded ==
  ASSUME NEW r, RingInv(r), NEW blks \in Seq(ReadBlocks), InOrder(r, blks),
         NEW s, NEW blk, GivenOne(r, s, blk)
  PROVE  InOrder(s, Append(blks, blk)) /\ Keeps(r, s)
<1> DEFINE n == Len(blks)
           more == Append(blks, blk)
<1>1. /\ blk \in ReadBlocks /\ PendingIn(r, blk)
      /\ s.key = [r.key EXCEPT ![blk] = [where |-> GIVEN, pos |-> r.gtail]]
      /\ s.gpull = r.gpull
      /\ Dist(r.gpull, s.gtail) = Dist(r.gpull, r.gtail) + 1
  BY DEF GivenOne
<1>2. r \in RingType /\ SlotsInv(r)  BY DEF RingInv, GivenInv
<1>3. /\ s.key[blk] = [where |-> GIVEN, pos |-> r.gtail]
      /\ \A c \in ReadBlocks : c # blk => s.key[c] = r.key[c]
  BY <1>1, <1>2 DEF RingType
<1>4. ~GivenIn(r, blk)  BY <1>1, <1>2, KeyOf
<1>5. Keeps(r, s)  BY <1>3, <1>4 DEF Keeps
<1>6. n = Dist(r.gpull, r.gtail) /\ n \in Nat  BY DEF InOrder
<1>7. /\ Len(more) = n + 1 /\ more[n + 1] = blk
      /\ \A i \in 1 .. n : more[i] = blks[i]
  BY <1>1
<1>8. Len(more) = Dist(s.gpull, s.gtail)  BY <1>1, <1>6, <1>7
<1>9. ASSUME NEW i \in 1 .. n
      PROVE  s.key[more[i]] = [where |-> GIVEN, pos |-> Plus(s.gpull, i - 1)]
  <2>1. s.key[blks[i]] = r.key[blks[i]]  BY <1>5, OrderedGiven DEF Keeps
  <2>2. r.key[blks[i]] = [where |-> GIVEN, pos |-> Plus(r.gpull, i - 1)]
    BY DEF InOrder
  <2> QED  BY <1>1, <1>7, <2>1, <2>2
<1>10. s.key[more[n + 1]] = [where |-> GIVEN, pos |-> Plus(s.gpull, n)]
  <2>1. r.gpull \in Pos /\ r.gtail \in Pos  BY <1>2, GivenOf
  <2>2. Plus(r.gpull, n) = r.gtail  BY <1>6, <2>1, DistPlus
  <2> QED  BY <1>1, <1>3, <1>7, <2>2
<1> HIDE DEF more, n
<1>11. ASSUME NEW i \in 1 .. Len(more)
       PROVE  s.key[more[i]] = [where |-> GIVEN, pos |-> Plus(s.gpull, i - 1)]
  <2>1. CASE i \in 1 .. n  BY <1>9, <2>1
  <2>2. CASE i = n + 1
    <3>1. i - 1 = n  BY <1>6, <2>2
    <3> QED  BY <1>10, <2>2, <3>1
  <2> QED  BY <1>6, <1>7, <2>1, <2>2
<1>12. InOrder(s, more)  BY <1>8, <1>11 DEF InOrder
<1> QED  BY <1>5, <1>12 DEF more

\* The first of them is pulled.
LEMMA OrderPulled ==
  ASSUME NEW r, RingInv(r), NEW blks \in Seq(ReadBlocks), InOrder(r, blks),
         NEW s, NEW blk, Pulls(r, s, blk)
  PROVE  InOrder(s, Tail(blks))
<1> DEFINE n == Len(blks)
           less == Tail(blks)
           e == Plus(r.gpull, 1)
<1>1. /\ r.gpull # r.gtail /\ s.key = r.key
      /\ s.gpull = e /\ s.gtail = r.gtail
  BY DEF Pulls
<1>2. r \in RingType /\ SlotsInv(r)  BY DEF RingInv, GivenInv
<1>3. r.gpull \in Pos /\ r.gtail \in Pos  BY <1>2, GivenOf
<1>4. e \in Pos /\ Dist(e, r.gtail) = Dist(r.gpull, r.gtail) - 1
  BY <1>1, <1>3, SpanHead
<1>5. n = Dist(r.gpull, r.gtail) /\ n \in Nat /\ n # 0 /\ n < Positions
  BY <1>1, <1>3, DistPos DEF InOrder
<1>6. /\ Len(less) = n - 1
      /\ \A i \in 1 .. n - 1 : less[i] = blks[i + 1]
  <2>1. blks # <<>>  BY <1>5
  <2> QED  BY <2>1
<1>7. ASSUME NEW i \in 1 .. n - 1
      PROVE  Plus(e, i - 1) = Plus(r.gpull, i)
  <2>1. /\ r.gpull \in Int /\ 0 <= r.gpull /\ r.gpull < Positions
        /\ i \in Int /\ 1 <= i /\ i < Positions
        /\ Positions \in Nat /\ Positions > 0
    BY <1>3, <1>5, Sizes DEF Pos
  <2>2. e = IF r.gpull + 1 < Positions THEN r.gpull + 1 ELSE 0
    BY <2>1 DEF Plus
  <2> HIDE DEF e
  <2>3. CASE r.gpull + 1 < Positions
    <3>1. e + (i - 1) = r.gpull + i  BY <2>1, <2>2, <2>3
    <3> QED  BY <3>1 DEF Plus
  <2>4. CASE ~(r.gpull + 1 < Positions)
    <3>1. e = 0 /\ r.gpull = Positions - 1  BY <2>1, <2>2, <2>4
    <3>2. (Positions - 1 + i) % Positions = i - 1  BY <2>1
    <3>3. (0 + (i - 1)) % Positions = i - 1  BY <2>1
    <3> QED  BY <3>1, <3>2, <3>3 DEF Plus
  <2> QED  BY <2>3, <2>4
<1>8. ASSUME NEW i \in 1 .. n - 1
      PROVE  s.key[less[i]] = [where |-> GIVEN, pos |-> Plus(s.gpull, i - 1)]
  <2> DEFINE j == i + 1
  <2>1. j \in 1 .. Len(blks) /\ j - 1 = i  BY <1>5
  <2> HIDE DEF j, n
  <2>2. r.key[blks[j]] = [where |-> GIVEN, pos |-> Plus(r.gpull, i)]
    BY <2>1 DEF InOrder
  <2>3. less[i] = blks[j]  BY <1>6 DEF j
  <2> QED  BY <1>1, <1>7, <2>2, <2>3
<1> HIDE DEF less, n, e
<1>9. InOrder(s, less)  BY <1>1, <1>4, <1>5, <1>6, <1>8 DEF InOrder
<1> QED  BY <1>9 DEF less

\* What each kind of change does to the pins.
LEMMA PinsSame ==
  ASSUME NEW r, NEW s, \A blk \in ReadBlocks : GivenIn(s, blk) <=> GivenIn(r, blk)
  PROVE  PinsOf(s) = PinsOf(r)
BY DEF PinsOf

LEMMA PinsDropped ==
  ASSUME NEW r, NEW s, NEW blk \in ReadBlocks, GivenIn(r, blk), GivenStay(r, s, blk)
  PROVE  PinsOf(s) = [PinsOf(r) EXCEPT ![blk] = @ - 1]
<1>1. ~GivenIn(s, blk)  BY DEF GivenStay, GivenIn
<1>2. \A c \in ReadBlocks : c # blk => (GivenIn(s, c) <=> GivenIn(r, c))
  BY DEF GivenStay, GivenIn
<1>3. PinsOf(r)[blk] = 1 /\ PinsOf(s)[blk] = 0  BY <1>1 DEF PinsOf
<1>4. \A c \in ReadBlocks : c # blk => PinsOf(s)[c] = PinsOf(r)[c]
  BY <1>2 DEF PinsOf
<1>5. PinsOf(r) \in [ReadBlocks -> Nat] /\ PinsOf(s) \in [ReadBlocks -> Nat]
  BY DEF PinsOf
<1> QED  BY <1>3, <1>4, <1>5

LEMMA PinsAdded ==
  ASSUME NEW r, RingInv(r), NEW s, NEW blk, GivenOne(r, s, blk)
  PROVE  PinsOf(s) = [PinsOf(r) EXCEPT ![blk] = @ + 1]
<1>1. /\ blk \in ReadBlocks /\ PendingIn(r, blk)
      /\ s.key = [r.key EXCEPT ![blk] = [where |-> GIVEN, pos |-> r.gtail]]
  BY DEF GivenOne
<1>2. r \in RingType /\ s \in RingType  BY DEF RingInv, GivenOne
<1>3. ~GivenIn(r, blk)  BY <1>1, <1>2, KeyOf
<1>4. /\ s.key[blk] = [where |-> GIVEN, pos |-> r.gtail]
      /\ \A c \in ReadBlocks : c # blk => s.key[c] = r.key[c]
  BY <1>1, <1>2 DEF RingType
<1>5. GivenIn(s, blk)
  <2>1. r.gtail \in Pos  BY <1>2 DEF RingType
  <2> QED  BY <1>1, <1>2, <1>4, <2>1, GivenKey
<1>6. \A c \in ReadBlocks : c # blk => (GivenIn(s, c) <=> GivenIn(r, c))
  BY <1>4 DEF GivenIn
<1>7. PinsOf(r)[blk] = 0 /\ PinsOf(s)[blk] = 1  BY <1>1, <1>3, <1>5 DEF PinsOf
<1>8. \A c \in ReadBlocks : c # blk => PinsOf(s)[c] = PinsOf(r)[c]
  BY <1>6 DEF PinsOf
<1>9. PinsOf(r) \in [ReadBlocks -> Nat] /\ PinsOf(s) \in [ReadBlocks -> Nat]
  BY DEF PinsOf
<1> QED  BY <1>1, <1>7, <1>8, <1>9

\* An operation on the pending queues, seen from the stream.
LEMMA PendingKeeps ==
  ASSUME NEW r, RingInv(r), NEW s, PendingStep(r, s),
         NEW blks \in Seq(ReadBlocks), InOrder(r, blks)
  PROVE  /\ RingInv(s) /\ Keeps(r, s) /\ PinsOf(s) = PinsOf(r) /\ InOrder(s, blks)
         /\ s.ghead = r.ghead /\ s.gpull = r.gpull /\ s.gtail = r.gtail
         /\ s.ended = r.ended
<1>1. RingInv(s)  BY PendingStepInv
<1>2. /\ s.ghead = r.ghead /\ s.gpull = r.gpull /\ s.gtail = r.gtail
      /\ s.ended = r.ended
  BY DEF PendingStep, GivenUnchanged
<1>3. \A blk \in ReadBlocks :
        s.key[blk] = r.key[blk] \/ (~GivenIn(r, blk) /\ ~GivenIn(s, blk))
  BY DEF PendingStep
<1>4. Keeps(r, s)  BY <1>3 DEF Keeps
<1>5. \A blk \in ReadBlocks : GivenIn(s, blk) <=> GivenIn(r, blk)
  BY <1>3 DEF GivenIn
<1> QED  BY <1>1, <1>2, <1>4, <1>5, PinsSame, OrderKept

\* A held block that goes, seen from the stream.
LEMMA HeldKeeps ==
  ASSUME NEW r, RingInv(r), NEW blk \in ReadBlocks, HeldIn(r, blk),
         NEW s, GivenStay(r, s, blk), NEW blks \in Seq(ReadBlocks), InOrder(r, blks)
  PROVE  /\ RingInv(s) /\ Keeps(r, s) /\ InOrder(s, blks)
         /\ PinsOf(s) = [PinsOf(r) EXCEPT ![blk] = @ - 1]
         /\ s.gpull = r.gpull /\ s.gtail = r.gtail /\ s.ended = r.ended /\ s.q = r.q
<1>1. /\ RingInv(s)
      /\ s.gpull = r.gpull /\ s.gtail = r.gtail /\ s.ended = r.ended /\ s.q = r.q
  BY DEF GivenStay, PendingUnchanged
<1>2. Keeps(r, s)  BY DEF Keeps, GivenStay
<1>3. GivenIn(r, blk)  BY DEF HeldIn
<1> QED  BY <1>1, <1>2, <1>3, PinsDropped, OrderKept

\* The stream's end, seen from the ring.
LEMMA EndedKeeps ==
  ASSUME NEW r, RingInv(r), NEW b \in BOOLEAN, NEW s, s = [r EXCEPT !.ended = b]
  PROVE  /\ RingInv(s) /\ Keeps(r, s) /\ PinsOf(s) = PinsOf(r)
         /\ s.ghead = r.ghead /\ s.gpull = r.gpull /\ s.gtail = r.gtail
         /\ s.key = r.key /\ s.q = r.q /\ s.ended = b
<1>1. r \in RingType /\ PendingInv(r) /\ GivenInv(r) /\ HeadFull(r)  BY DEF RingInv
<1>2. /\ s \in RingType
      /\ s.g = r.g /\ s.ghead = r.ghead /\ s.gpull = r.gpull /\ s.gtail = r.gtail
      /\ s.nheld = r.nheld /\ s.key = r.key /\ s.q = r.q
      /\ s.npending = r.npending /\ s.ended = b
  BY <1>1 DEF RingType
<1>3. PendingInv(s)  BY <1>1, <1>2, SamePending
<1>4. GivenInv(s) /\ HeadFull(s)  BY <1>1, <1>2, SameGiven
<1>5. \A blk \in ReadBlocks : GivenIn(s, blk) <=> GivenIn(r, blk)
  BY <1>2 DEF GivenIn
<1> QED  BY <1>2, <1>3, <1>4, <1>5, PinsSame DEF RingInv, Keeps

\* The ring as it begins, and as it is cleared.
LEMMA EmptyInv ==
  /\ RingInv(EmptyRing) /\ InOrder(EmptyRing, <<>>)
  /\ PinsOf(EmptyRing) = [blk \in ReadBlocks |-> 0]
  /\ EmptyRing.ended = FALSE
<1> DEFINE r == EmptyRing
           d == EmptyQueue
<1>1. 0 \in Pos /\ Dist(0, 0) = 0 /\ Span(0, 0) = {}
  <2>1. 0 \in Pos  BY Sizes DEF Pos
  <2> QED  BY <2>1, SpanEmpty, DistPos
<1>2. d \in DequeType /\ d.head = 0 /\ d.tail = 0
  BY <1>1 DEF DequeType, EmptyQueue
<1> HIDE DEF d
<1>3. /\ r.g = [i \in 0 .. GSize - 1 |-> NoBlock]
      /\ r.ghead = 0 /\ r.gpull = 0 /\ r.gtail = 0
      /\ r.nheld = 0 /\ r.npending = 0 /\ r.ended = FALSE
      /\ r.q = [w \in Queues |-> d]
      /\ r.key = [blk \in ReadBlocks |-> NoBlock]
  BY DEF EmptyRing, d
<1>4. r \in RingType
  <2>1. /\ [i \in 0 .. GSize - 1 |-> NoBlock]
             \in [0 .. GSize - 1 -> {NoBlock} \cup SlotType]
        /\ [w \in Queues |-> d] \in [Queues -> DequeType]
        /\ [blk \in ReadBlocks |-> NoBlock]
             \in [ReadBlocks -> {NoBlock} \cup KeyType]
        /\ 0 \in Int
    BY <1>2
  <2> QED  BY <1>1, <2>1 DEF EmptyRing, RingType, d
<1> HIDE DEF r
<1>5. \A blk \in ReadBlocks : r.key[blk] = NoBlock  BY <1>3
<1>6. PendingSet(r) = {} /\ HeldSet(r) = {}
  BY <1>5 DEF PendingSet, PendingIn, HeldSet, HeldIn, GivenIn
<1>7. ASSUME NEW k \in KeyType  PROVE k # NoBlock
  BY NoBlockIsNone
<1>8. PendingInv(r)
  <2>1. ASSUME NEW w \in Queues  PROVE r.q[w].head = 0 /\ r.q[w].tail = 0
    BY <1>2, <1>3
  <2>2. ASSUME NEW w \in Queues, NEW p \in Pos, NEW blk \in ReadBlocks
        PROVE  Waits(r, w, p, blk) <=> r.key[blk] = [where |-> w, pos |-> p]
    <3>1. [where |-> w, pos |-> p] \in KeyType  BY DEF KeyType
    <3> QED  BY <1>1, <1>5, <1>7, <2>1, <3>1 DEF Waits
  <2>3. ASSUME NEW w \in Queues
        PROVE  Dist(r.q[w].head, r.q[w].tail) <= PendingLimit
    BY <1>1, <2>1, Sizes
  <2>4. QueuesInv(r)  BY <2>2, <2>3 DEF QueuesInv
  <2> QED  BY <1>3, <1>6, <2>4, FS_EmptySet DEF PendingInv, QueuesCounted
<1>9. GivenInv(r)
  <2>1. SlotsInv(r)
    <3>1. \A i \in 0 .. GSize - 1 : r.g[i] = NoBlock  BY <1>3
    <3> QED  BY <1>1, <1>3, <3>1, Sizes DEF SlotsInv
  <2>2. ASSUME NEW p \in Pos, NEW blk \in ReadBlocks
        PROVE  Lies(r, p, blk) <=> r.key[blk] = [where |-> GIVEN, pos |-> p]
    <3>1. [where |-> GIVEN, pos |-> p] \in KeyType  BY DEF KeyType
    <3> QED  BY <1>1, <1>3, <1>5, <1>7, <3>1 DEF Lies
  <2>3. HeldCounted(r)  BY <1>3, <1>6, FS_EmptySet DEF HeldCounted
  <2> QED  BY <2>1, <2>2, <2>3 DEF GivenInv, SlotKeysInv
<1>10. HeadFull(r)  BY <1>3 DEF HeadFull
<1>11. PinsOf(r) = [blk \in ReadBlocks |-> 0]
  BY <1>5 DEF PinsOf, GivenIn
<1>12. InOrder(r, <<>>)  BY <1>1, <1>3 DEF InOrder
<1> QED  BY <1>3, <1>4, <1>8, <1>9, <1>10, <1>11, <1>12 DEF RingInv, r

-----------------------------------------------------------------------------
(* The steps.                                                              *)

LEMMA InitInv == Init => Inv
<1> SUFFICES ASSUME Init PROVE Inv  OBVIOUS
<1> USE DEF Init
<1>1. StreamOf(queue, out) = <<>> /\ queue \in Seq(ReadBlocks)
  BY DEF StreamOf
<1>2. StreamInv  BY <1>1, EmptyInv DEF StreamInv
<1>3. ReadInv  BY DEF ReadInv
<1> QED  BY <1>2, <1>3, EmptyInv DEF Inv

\* What a step does to the ring and to what is beside it, but for the read.
Well == RingInv(ring)' /\ StreamInv' /\ (ring' = EmptyRing \/ Keeps(ring, ring'))

LEMMA StreamSeq ==
  ASSUME Inv
  PROVE  /\ StreamOf(queue, out) \in Seq(ReadBlocks)
         /\ InOrder(ring, StreamOf(queue, out))
         /\ queue \in Seq(ReadBlocks) /\ out \in ReadBlocks \cup {NoBlock}
         /\ ring.gpull \in Pos /\ ring.gtail \in Pos /\ ring.ghead \in Pos
         /\ ring \in RingType /\ PendingInv(ring)
         /\ (Idle => queue = <<>> /\ out = NoBlock)
<1>1. /\ queue \in Seq(ReadBlocks) /\ out \in ReadBlocks \cup {NoBlock}
      /\ InOrder(ring, StreamOf(queue, out))
      /\ ring \in RingType /\ PendingInv(ring)
  BY DEF Inv, StreamInv, RingInv
<1>2. /\ StreamOf(queue, out) \in Seq(ReadBlocks)
      /\ Len(StreamOf(queue, out)) = Len(queue) + (IF out = NoBlock THEN 0 ELSE 1)
  BY <1>1, StreamIs
<1>3. ring.gpull \in Pos /\ ring.gtail \in Pos /\ ring.ghead \in Pos
  BY <1>1 DEF RingType
<1>4. ASSUME Idle  PROVE queue = <<>> /\ out = NoBlock
  <2>1. Len(StreamOf(queue, out)) = 0  BY <1>1, <1>3, <1>4, DistPos DEF InOrder, Idle
  <2>2. Len(queue) \in Nat  BY <1>1
  <2>3. Len(queue) = 0 /\ out = NoBlock  BY <1>2, <2>1, <2>2
  <2> QED  BY <1>1, <2>3
<1> QED  BY <1>1, <1>2, <1>3, <1>4

\* A step on the pending queues alone.
LEMMA PendingOnly ==
  ASSUME Inv, PendingStep(ring, ring'), UNCHANGED <<streamVars, pins>>
  PROVE  /\ Well
         /\ ring'.ghead = ring.ghead /\ ring'.gpull = ring.gpull
         /\ ring'.gtail = ring.gtail
<1> DEFINE s == ring'
           blks == StreamOf(queue, out)
<1>1. blks \in Seq(ReadBlocks) /\ InOrder(ring, blks) /\ RingInv(ring)
  BY StreamSeq DEF Inv
<1>2. PendingStep(ring, s)  OBVIOUS
<1>3. blks' = blks  BY DEF streamVars
<1> HIDE DEF s, blks
<1>4. /\ RingInv(s) /\ Keeps(ring, s) /\ PinsOf(s) = PinsOf(ring) /\ InOrder(s, blks)
      /\ s.ghead = ring.ghead /\ s.gpull = ring.gpull /\ s.gtail = ring.gtail
      /\ s.ended = ring.ended
  BY <1>1, <1>2, PendingKeeps
<1>5. StreamInv'
  BY <1>3, <1>4 DEF Inv, StreamInv, streamVars, s, blks
<1> QED  BY <1>4, <1>5 DEF Well, s

Step == Well /\ ReadInv'

LEMMA StepReadRefills ==
  ASSUME Inv, ReadRefills  PROVE Step
<1>1. PendingStep(ring, ring')
  BY StreamSeq DEF ReadRefills, PendingStep, GivenUnchanged
<1>2. Well  BY <1>1, PendingOnly DEF ReadRefills
<1>3. ReadInv'  BY DEF ReadRefills, streamVars, Inv, ReadInv
<1> QED  BY <1>2, <1>3 DEF Step

LEMMA StepReadThroughStream ==
  ASSUME Inv, ReadThroughStream  PROVE Step
<1>1. reading \in ReadBlocks /\ URGENT \in Queues
  BY DEF Inv, ReadInv, ReadThroughStream, Queues
<1>2. PendingStep(ring, ring')
  BY <1>1, StreamSeq, EnqueueInv DEF ReadThroughStream
<1>3. Well  BY <1>2, PendingOnly DEF ReadThroughStream
<1>4. ReadInv'  BY DEF ReadThroughStream, streamVars, readVars, Inv, ReadInv
<1> QED  BY <1>3, <1>4 DEF Step

LEMMA StepReadApart ==
  ASSUME Inv, ReadApart  PROVE Step
<1>1. URGENT \in Queues  BY DEF Queues
<1>2. ring' = TrimQueue(ring, URGENT) \/ ring' = ring
  BY DEF ReadApart
<1>3. PendingStep(ring, ring')
  <2>1. CASE ring' = TrimQueue(ring, URGENT)
    BY <1>1, <2>1, StreamSeq, TrimQueueStep
  <2>2. CASE ring' = ring
    BY <2>2, StreamSeq DEF PendingStep, GivenUnchanged
  <2> QED  BY <1>2, <2>1, <2>2
<1>4. Well  BY <1>3, PendingOnly DEF ReadApart
<1>5. ReadInv'
  BY DEF ReadApart, Answer, streamVars, Inv, ReadInv
<1> QED  BY <1>4, <1>5 DEF Step

\* the block read is held: not given, and in the given part
LEMMA StepReadHeld ==
  ASSUME Inv, ReadHeld  PROVE Step
<1> DEFINE s == ring'
           blks == StreamOf(queue, out)
<1>1. blks \in Seq(ReadBlocks) /\ InOrder(ring, blks) /\ RingInv(ring)
  BY StreamSeq DEF Inv
<1>2. reading \in ReadBlocks  BY DEF Inv, ReadInv, ReadHeld
<1>3. HeldIn(ring, reading)
  BY DEF ReadHeld, IsGiven, Slot, HeldIn, GivenIn
<1>4. GivenStay(ring, s, reading)
  BY <1>1, <1>2, <1>3, TakenInv DEF ReadHeld
<1>5. Slot(reading).buf = reading
  BY <1>1, <1>2, <1>3, HeldBlock DEF Slot
<1>6. /\ pins' = [pins EXCEPT ![reading] = @ - 1]
      /\ Answer(reading) /\ UNCHANGED streamVars
  BY <1>5 DEF ReadHeld
<1>7. blks' = blks  BY <1>6 DEF streamVars
<1> HIDE DEF s, blks
<1>8. /\ RingInv(s) /\ Keeps(ring, s) /\ InOrder(s, blks)
      /\ PinsOf(s) = [PinsOf(ring) EXCEPT ![reading] = @ - 1]
      /\ s.ended = ring.ended
  BY <1>1, <1>2, <1>3, <1>4, HeldKeeps
<1>9. StreamInv'
  BY <1>6, <1>7, <1>8 DEF Inv, StreamInv, streamVars, s, blks
<1>10. ReadInv'
  BY <1>6 DEF ReadHeld, Answer, streamVars, Inv, ReadInv
<1> QED  BY <1>8, <1>9, <1>10 DEF Step, Well, s

LEMMA StepReadGiven ==
  ASSUME Inv, ReadGiven  PROVE Step
<1>1. PendingStep(ring, ring')
  BY StreamSeq DEF ReadGiven, PendingStep, GivenUnchanged
<1>2. Well  BY <1>1, PendingOnly DEF ReadGiven
<1>3. ~Idle
  <2> DEFINE blks == StreamOf(queue, out)
  <2>1. /\ reading \in ReadBlocks /\ RingInv(ring)
        /\ GivenIn(ring, reading) /\ ~HeldIn(ring, reading)
    BY DEF Inv, ReadInv, ReadGiven, IsGiven, Slot, GivenIn, HeldIn
  <2>2. /\ blks \in Seq(ReadBlocks) /\ InOrder(ring, blks)
        /\ ring.gpull \in Pos /\ ring.gtail \in Pos
    BY StreamSeq
  <2> HIDE DEF blks
  <2>3. PICK i \in 1 .. Len(blks) : blks[i] = reading
    BY <2>1, <2>2, GivenOrdered
  <2>4. Len(blks) # 0  BY <2>2
  <2> QED  BY <2>2, <2>4, DistPos DEF InOrder, Idle
<1>4. ReadInv'
  BY <1>3 DEF ReadGiven, streamVars, readVars, Inv, ReadInv, Idle
<1> QED  BY <1>2, <1>4 DEF Step

LEMMA StepReadToFront ==
  ASSUME Inv, ReadToFront  PROVE Step
<1> DEFINE r == TrimQueue(ring, URGENT)
           away == Unqueue(r, reading)
<1>1. /\ URGENT \in Queues /\ reading \in ReadBlocks
      /\ PendingIn(ring, reading)
  BY DEF Queues, Inv, ReadInv, ReadToFront, PendingIn
<1>2. /\ PendingStep(ring, r) /\ r \in RingType /\ PendingInv(r)
      /\ r.key = ring.key
  BY <1>1, StreamSeq, TrimQueueStep, TrimQueueInv
<1>3. \/ /\ HasRoom(away, URGENT)
         /\ ring' = Enqueue(away, URGENT, reading, TRUE)
         /\ UNCHANGED <<pc, readVars>>
      \/ ring' = TrimQueue(away, URGENT) /\ Answer(reading)
  BY DEF ReadToFront
<1>4. PendingIn(r, reading)  BY <1>1, <1>2 DEF PendingIn
<1> HIDE DEF r
<1>5. /\ PendingStep(r, away) /\ away.key[reading] = NoBlock
      /\ away \in RingType /\ PendingInv(away)
  <2>1. PendingStep(r, away) /\ away.key[reading] = NoBlock
    BY <1>1, <1>2, <1>4, UnqueueInv
  <2> QED  BY <2>1 DEF PendingStep
<1> HIDE DEF away
<1>6. PendingStep(away, ring')
  <2>1. CASE HasRoom(away, URGENT) /\ ring' = Enqueue(away, URGENT, reading, TRUE)
    BY <1>1, <1>5, <2>1, EnqueueInv
  <2>2. CASE ring' = TrimQueue(away, URGENT)
    BY <1>1, <1>5, <2>2, TrimQueueStep
  <2> QED  BY <1>3, <2>1, <2>2
<1>7. PendingStep(ring, ring')
  BY <1>2, <1>5, <1>6, PendingSteps
<1>8. Well  BY <1>7, PendingOnly DEF ReadToFront
<1>9. /\ pc = "read" /\ UNCHANGED streamVars
      /\ UNCHANGED <<pc, readVars>> \/ Answer(reading)
  BY <1>3 DEF ReadToFront
<1>10. ReadInv'
  BY <1>9 DEF Answer, streamVars, readVars, Inv, ReadInv
<1> QED  BY <1>8, <1>10 DEF Step

\* the block read is first in line, and the stream is started again if need be
LEMMA StepReadFirst ==
  ASSUME Inv, ReadFirst  PROVE Step
<1> DEFINE r == TrimQueue(ring, URGENT)
           s == ring'
           blks == StreamOf(queue, out)
<1>1. /\ URGENT \in Queues /\ reading \in ReadBlocks /\ pc' = "pull"
      /\ AtFront(r) /\ UNCHANGED <<out, readVars>>
  BY DEF Queues, Inv, ReadInv, ReadFirst
<1>2. PendingStep(ring, r)
  BY <1>1, StreamSeq, TrimQueueStep
<1>3. /\ blks \in Seq(ReadBlocks) /\ InOrder(ring, blks) /\ RingInv(ring)
      /\ Idle => queue = <<>>
      /\ pins = PinsOf(ring) /\ over = ring.ended
  BY StreamSeq DEF Inv, StreamInv
<1>4. \/ /\ Idle /\ r.ended
         /\ s = [r EXCEPT !.ended = FALSE]
         /\ over' = FALSE
         /\ queue' = <<>>
         /\ pins' = [b \in ReadBlocks |->
                       pins[b] - Cardinality({i \in DOMAIN queue : queue[i] = b})]
      \/ ~(Idle /\ r.ended) /\ s = r /\ UNCHANGED <<over, queue, pins>>
  BY DEF ReadFirst
<1> HIDE DEF r, blks
<1>5. /\ RingInv(r) /\ Keeps(ring, r) /\ PinsOf(r) = PinsOf(ring) /\ InOrder(r, blks)
      /\ r.ghead = ring.ghead /\ r.gpull = ring.gpull /\ r.gtail = ring.gtail
      /\ r.ended = ring.ended
  BY <1>2, <1>3, PendingKeeps
<1>6. /\ RingInv(s) /\ Keeps(ring, s) /\ PinsOf(s) = PinsOf(ring) /\ InOrder(s, blks)
      /\ s.gpull = ring.gpull /\ s.gtail = ring.gtail
      /\ s.key = r.key /\ s.q = r.q
      /\ s.ended = over' /\ (Idle => ~over')
      /\ UNCHANGED <<queue, pins>>
  <2>1. CASE ~(Idle /\ r.ended) /\ s = r /\ UNCHANGED <<over, queue, pins>>
    BY <1>3, <1>5, <2>1
  <2>2. CASE /\ Idle
             /\ s = [r EXCEPT !.ended = FALSE] /\ over' = FALSE
             /\ queue' = <<>>
             /\ pins' = [b \in ReadBlocks |->
                           pins[b] - Cardinality({i \in DOMAIN queue : queue[i] = b})]
    <3>1. /\ RingInv(s) /\ Keeps(r, s) /\ PinsOf(s) = PinsOf(r)
          /\ s.gpull = r.gpull /\ s.gtail = r.gtail
          /\ s.key = r.key /\ s.q = r.q /\ s.ended = FALSE
      <4> HIDE DEF s
      <4> QED  BY <1>5, <2>2, EndedKeeps
    <3>2. Keeps(ring, s)  BY <1>5, <3>1 DEF Keeps
    <3>3. InOrder(s, blks)  BY <1>5, <3>1 DEF InOrder
    <3>4. queue = <<>>  BY <1>3, <2>2
    <3>5. pins' = pins
      <4>1. \A b \in ReadBlocks :
              {i \in DOMAIN queue : queue[i] = b} = {}
        BY <3>4
      <4>2. pins' = [b \in ReadBlocks |-> pins[b] - 0]
        BY <2>2, <4>1, FS_EmptySet
      <4>3. pins \in [ReadBlocks -> Nat]  BY <1>3 DEF PinsOf
      <4> QED  BY <4>2, <4>3
    <3> QED  BY <1>5, <2>2, <3>1, <3>2, <3>3, <3>4, <3>5
  <2> QED  BY <1>4, <2>1, <2>2
<1>7. blks' = blks  BY <1>1, <1>6 DEF blks
<1>8. StreamInv'
  BY <1>1, <1>3, <1>6, <1>7 DEF Inv, StreamInv, blks
<1>9. AtFront(ring)'
  BY <1>1, <1>6 DEF AtFront, readVars
<1>10. ReadInv'
  BY <1>1, <1>6, <1>9 DEF Inv, ReadInv, readVars, Idle
<1> QED  BY <1>6, <1>8, <1>10 DEF Step, Well

LEMMA StepStreamTakes ==
  ASSUME Inv, StreamTakes  PROVE Step
<1>1. /\ pc = "pull" /\ out = NoBlock /\ queue # <<>>
      /\ out' = Head(queue) /\ queue' = Tail(queue)
      /\ UNCHANGED <<ring, over, pins, pc, readVars>>
  BY DEF StreamTakes
<1>2. queue \in Seq(ReadBlocks)  BY StreamSeq
<1>3. /\ Head(queue) \in ReadBlocks /\ Tail(queue) \in Seq(ReadBlocks)
      /\ StreamOf(Tail(queue), Head(queue)) = StreamOf(queue, NoBlock)
  BY <1>1, <1>2, StreamTaken
<1>4. StreamOf(queue, out)' = StreamOf(queue, out)
  BY <1>1, <1>3
<1>5. StreamInv'
  BY <1>1, <1>3, <1>4 DEF Inv, StreamInv
<1>6. ReadInv'
  BY <1>1 DEF Inv, ReadInv, readVars, Idle, AtFront
<1> QED  BY <1>1, <1>5, <1>6 DEF Inv, Step, Well, Keeps

LEMMA StepGiveFull ==
  ASSUME Inv, GiveFull  PROVE Step
<1> DEFINE s == ring'
           blks == StreamOf(queue, out)
<1>1. /\ pc = "pull"
      /\ Dist(ring.ghead, ring.gtail) >= PinLimit /\ ring.ghead = ring.gpull
      /\ s = [ring EXCEPT !.ended = TRUE]
      /\ over' = TRUE /\ UNCHANGED queue
      /\ UNCHANGED <<out, pins, pc, readVars>>
  BY DEF GiveFull, MayAsk, PinsFull, Ends
<1>2. blks \in Seq(ReadBlocks) /\ InOrder(ring, blks) /\ RingInv(ring)
  BY StreamSeq DEF Inv
<1>3. /\ RingInv(s) /\ Keeps(ring, s) /\ PinsOf(s) = PinsOf(ring)
      /\ s.ghead = ring.ghead /\ s.gpull = ring.gpull /\ s.gtail = ring.gtail
      /\ s.ended = TRUE
  <2> HIDE DEF s
  <2> QED  BY <1>1, <1>2, EndedKeeps
<1>4. ~Idle
  BY <1>1, StreamSeq, DistPos, Sizes DEF Idle
<1>5. blks' = blks  BY <1>1
<1>6. InOrder(s, blks)
  <2> HIDE DEF s, blks
  <2> QED  BY <1>2, <1>3, OrderKept
<1>7. StreamInv'
  BY <1>1, <1>3, <1>5, <1>6 DEF Inv, StreamInv
<1>8. ReadInv'
  BY <1>1, <1>3, <1>4 DEF Inv, ReadInv, readVars, Idle
<1> QED  BY <1>3, <1>7, <1>8 DEF Step, Well

\* One thing after another keeps what both keep.
LEMMA KeepsTwo ==
  ASSUME NEW r, RingInv(r), NEW s, RingInv(s), NEW t, NEW blks \in Seq(ReadBlocks),
         InOrder(r, blks), InOrder(s, blks), Keeps(r, s), Keeps(s, t)
  PROVE  Keeps(r, t)
<1> SUFFICES ASSUME NEW blk \in ReadBlocks, GivenIn(r, blk), ~HeldIn(r, blk)
             PROVE  t.key[blk] = r.key[blk]
  BY DEF Keeps
<1>1. PICK i \in 1 .. Len(blks) : blks[i] = blk  BY GivenOrdered
<1>2. GivenIn(s, blk) /\ ~HeldIn(s, blk)  BY <1>1, OrderedGiven
<1> QED  BY <1>2 DEF Keeps

\* The ring, with room for one more block in the given part.
Roomy(r, free) ==
  /\ RingInv(r) /\ Keeps(ring, r) /\ InOrder(r, StreamOf(queue, out))
  /\ PinsOf(r) = free
  /\ r.gpull = ring.gpull /\ r.gtail = ring.gtail /\ r.ended = ring.ended
  /\ Dist(r.ghead, r.gtail) < PinLimit

\* lion_ring_g_room()
LEMMA RoomInv ==
  ASSUME Inv, ~(PinsFull(ring) /\ ring.ghead = ring.gpull)
  PROVE  LET r == IF PinsFull(ring) THEN Evict(ring) ELSE ring
             free == IF PinsFull(ring)
                     THEN [pins EXCEPT ![Oldest(ring).buf] = @ - 1]
                     ELSE pins
         IN /\ Roomy(r, free) /\ r.q = ring.q
            /\ \A c \in ReadBlocks : PendingIn(ring, c) => r.key[c] = ring.key[c]
<1> DEFINE blks == StreamOf(queue, out)
           r == Evict(ring)
           b == Oldest(ring).blk
<1>1. blks \in Seq(ReadBlocks) /\ InOrder(ring, blks) /\ RingInv(ring)
  BY StreamSeq DEF Inv
<1>2. /\ ring.ghead \in Pos /\ ring.gtail \in Pos
      /\ pins = PinsOf(ring)
  BY StreamSeq DEF Inv, StreamInv
<1>3. CASE ~PinsFull(ring)
  <2>1. Dist(ring.ghead, ring.gtail) < PinLimit
    BY <1>2, <1>3, DistPos, Sizes DEF PinsFull
  <2> QED  BY <1>1, <1>2, <1>3, <2>1 DEF Roomy, Keeps
<1>4. CASE PinsFull(ring)
  <2>1. /\ b \in ReadBlocks /\ HeldIn(ring, b) /\ Oldest(ring).buf = b
        /\ GivenStay(ring, r, b)
        /\ Dist(r.ghead, r.gtail) < PinLimit
    BY <1>1, <1>4, EvictInv
  <2> HIDE DEF r, b, blks
  <2>2. /\ RingInv(r) /\ Keeps(ring, r) /\ InOrder(r, blks)
        /\ PinsOf(r) = [PinsOf(ring) EXCEPT ![b] = @ - 1]
        /\ r.gpull = ring.gpull /\ r.gtail = ring.gtail /\ r.ended = ring.ended
        /\ r.q = ring.q
    BY <1>1, <2>1, HeldKeeps
  <2>3. Roomy(r, [pins EXCEPT ![Oldest(ring).buf] = @ - 1])
    BY <1>2, <2>1, <2>2 DEF Roomy, blks
  <2>4. ASSUME NEW c \in ReadBlocks, PendingIn(ring, c)
        PROVE  r.key[c] = ring.key[c]
    <3>1. c # b  BY <1>1, <2>1, <2>4, KeyOf DEF HeldIn, RingInv
    <3> QED  BY <2>1, <3>1 DEF GivenStay
  <2> QED  BY <1>4, <2>2, <2>3, <2>4 DEF r
<1> QED  BY <1>3, <1>4

\* lion_ring_give() of a block, from a ring with room.
LEMMA GivesWell ==
  ASSUME Inv, NEW r, NEW free, Roomy(r, free), NEW blk, blk = NextPending(r),
         blk # NoBlock, ring' = Given(r), queue' = Append(queue, blk),
         UNCHANGED <<out, over>>, pins' = [free EXCEPT ![blk] = @ + 1]
  PROVE  Well /\ ring'.gpull # ring'.gtail
<1> DEFINE s == ring'
           blks == StreamOf(queue, out)
<1>1. blks \in Seq(ReadBlocks) /\ InOrder(ring, blks) /\ RingInv(ring)
  BY StreamSeq DEF Inv
<1>2. /\ RingInv(r) /\ Keeps(ring, r) /\ InOrder(r, blks) /\ PinsOf(r) = free
      /\ r.ended = ring.ended /\ Dist(r.ghead, r.gtail) < PinLimit
  BY DEF Roomy
<1>3. GivenOne(r, s, blk)
  <2>1. GivenOne(r, Given(r), NextPending(r))  BY <1>2, GiveOne
  <2> QED  BY <2>1
<1>4. blk \in ReadBlocks /\ RingInv(s) /\ s.ended = r.ended
      /\ s.gpull = r.gpull /\ Dist(r.gpull, s.gtail) = Dist(r.gpull, r.gtail) + 1
  BY <1>3 DEF GivenOne
<1>5. blks' = Append(blks, blk) /\ queue' \in Seq(ReadBlocks)
  <2>1. queue \in Seq(ReadBlocks) /\ out \in ReadBlocks \cup {NoBlock}
    BY StreamSeq
  <2>2. StreamOf(Append(queue, blk), out) = Append(blks, blk)
    BY <1>4, <2>1, StreamIs
  <2>3. Append(queue, blk) \in Seq(ReadBlocks)  BY <1>4, <2>1
  <2>4. blks' = StreamOf(queue', out')  OBVIOUS
  <2> HIDE DEF blks
  <2> QED  BY <2>2, <2>3, <2>4
<1> HIDE DEF s, blks
<1>6. InOrder(s, Append(blks, blk)) /\ Keeps(r, s)
  BY <1>1, <1>2, <1>3, OrderAdded
<1>7. Keeps(ring, s)
  BY <1>1, <1>2, <1>6, KeepsTwo
<1>8. PinsOf(s) = [free EXCEPT ![blk] = @ + 1]
  BY <1>2, <1>3, PinsAdded
<1>9. StreamInv'
  BY <1>2, <1>4, <1>5, <1>6, <1>8 DEF Inv, StreamInv, s, blks
<1>10. s.gpull # s.gtail
  <2>1. r.gpull \in Pos /\ r.gtail \in Pos  BY <1>2 DEF RingInv, RingType
  <2>2. Dist(r.gpull, r.gtail) \in Nat /\ Dist(r.gpull, r.gpull) = 0
    BY <2>1, DistPos
  <2> QED  BY <1>4, <2>2
<1> QED  BY <1>4, <1>7, <1>9, <1>10 DEF Well, s

LEMMA StepGive ==
  ASSUME Inv, Give  PROVE Step
<1> DEFINE r == IF PinsFull(ring) THEN Evict(ring) ELSE ring
           free == IF PinsFull(ring)
                   THEN [pins EXCEPT ![Oldest(ring).buf] = @ - 1]
                   ELSE pins
           blk == NextPending(r)
           s == ring'
           blks == StreamOf(queue, out)
<1>1. /\ pc = "pull" /\ ~(PinsFull(ring) /\ ring.ghead = ring.gpull)
      /\ UNCHANGED <<out, readVars>>
  BY DEF Give, MayAsk
<1>2. \/ /\ blk # NoBlock /\ s = Given(r)
         /\ queue' = Append(queue, blk) /\ UNCHANGED <<over, pc>>
         /\ pins' = [free EXCEPT ![blk] = @ + 1]
      \/ /\ blk = NoBlock /\ s = Dequeuing(r) /\ pins' = free
         /\ pc' = "refillGive" /\ UNCHANGED <<queue, over>>
  BY DEF Give, Gives
<1>3. /\ Roomy(r, free) /\ r.q = ring.q
      /\ \A c \in ReadBlocks : PendingIn(ring, c) => r.key[c] = ring.key[c]
  BY <1>1, RoomInv
<1>0. blk = NextPending(r)  OBVIOUS
<1>9. s = ring' /\ blks = StreamOf(queue, out) /\ blks' = StreamOf(queue', out')
  OBVIOUS
<1> HIDE DEF r, free, blk, s, blks
<1>4. CASE blk # NoBlock
  <2>1. Well /\ s.gpull # s.gtail
    BY <1>0, <1>1, <1>2, <1>3, <1>4, <1>9, GivesWell
  <2>2. ReadInv'
    BY <1>1, <1>2, <1>4, <1>9, <2>1 DEF Inv, ReadInv, readVars, Idle
  <2> QED  BY <2>1, <2>2 DEF Step
<1>5. CASE blk = NoBlock
  <2>1. /\ s = Dequeuing(r) /\ pins' = free
        /\ pc' = "refillGive" /\ UNCHANGED <<queue, over>>
    BY <1>2, <1>5
  <2>2. /\ RingInv(r) /\ Keeps(ring, r) /\ InOrder(r, blks) /\ PinsOf(r) = free
        /\ r.gpull = ring.gpull /\ r.gtail = ring.gtail
        /\ r.ended = ring.ended /\ Dist(r.ghead, r.gtail) < PinLimit
    BY <1>3, <1>9 DEF Roomy
  <2>3. blks \in Seq(ReadBlocks) /\ InOrder(ring, blks) /\ RingInv(ring)
    BY <1>9, StreamSeq DEF Inv
  <2>4. r \in RingType /\ PendingInv(r)  BY <2>2 DEF RingInv
  <2>5. PendingStep(r, s)  BY <2>1, <2>4, DequeuingInv
  <2>6. /\ RingInv(s) /\ Keeps(r, s) /\ PinsOf(s) = PinsOf(r) /\ InOrder(s, blks)
        /\ s.ghead = r.ghead /\ s.gpull = r.gpull /\ s.gtail = r.gtail
        /\ s.ended = r.ended
    BY <2>2, <2>3, <2>5, PendingKeeps
  <2>7. Keeps(ring, s)  BY <2>2, <2>3, <2>6, KeepsTwo
  <2>8. blks' = blks  BY <1>1, <1>9, <2>1
  <2>9. StreamInv'
    BY <1>1, <1>9, <2>1, <2>2, <2>6, <2>8 DEF Inv, StreamInv
  <2>10. ~Idle
    <3>1. SUFFICES ASSUME Idle PROVE FALSE  OBVIOUS
    <3>2. reading \in ReadBlocks /\ AtFront(ring)
      BY <1>1, <3>1 DEF Inv, ReadInv
    <3>3. URGENT \in Queues  BY DEF Queues
    <3>4. ring.q[URGENT].head \in Pos  BY <3>3, StreamSeq, QueueOf
    <3>5. PendingIn(ring, reading)
      BY <3>2, <3>3, <3>4, StreamSeq, QueueKey DEF AtFront
    <3>6. r.key[reading] = [where |-> URGENT, pos |-> r.q[URGENT].head]
      BY <1>3, <3>2, <3>5 DEF AtFront
    <3>7. NextPending(r) = reading  BY <2>4, <3>2, <3>6, FirstIsNext
    <3> QED  BY <1>0, <1>5, <3>2, <3>7, NoBlockIsNone
  <2>11. ReadInv'
    BY <1>1, <1>9, <2>1, <2>2, <2>6, <2>10 DEF Inv, ReadInv, readVars, Idle
  <2> QED  BY <1>9, <2>6, <2>7, <2>9, <2>11 DEF Step, Well
<1> QED  BY <1>4, <1>5

LEMMA StepRefillPush ==
  ASSUME Inv, NEW blk \in ReadBlocks, RefillPush(blk)  PROVE Step
<1>1. PendingStep(ring, ring')
  BY StreamSeq, PushedInv DEF RefillPush
<1>2. /\ Well
      /\ ring'.ghead = ring.ghead /\ ring'.gpull = ring.gpull
      /\ ring'.gtail = ring.gtail
  BY <1>1, PendingOnly DEF RefillPush
<1>3. pc \in {"refillRead", "refillGive"} /\ UNCHANGED <<streamVars, pc, readVars>>
  BY DEF RefillPush
<1>4. ReadInv'
  BY <1>2, <1>3 DEF streamVars, readVars, Inv, ReadInv, Idle
<1> QED  BY <1>2, <1>4 DEF Step

LEMMA StepRefillEnds ==
  ASSUME Inv, RefillEnds  PROVE Step
<1>1. CASE /\ pc = "refillRead" /\ pc' = "read"
           /\ UNCHANGED <<ring, queue, over, pins, out, readVars>>
  <2>1. PendingStep(ring, ring')
    BY <1>1, StreamSeq DEF PendingStep, GivenUnchanged
  <2>2. Well  BY <1>1, <2>1, PendingOnly DEF streamVars
  <2>3. ReadInv'  BY <1>1 DEF readVars, Inv, ReadInv
  <2> QED  BY <2>2, <2>3 DEF Step
<1>2. CASE /\ pc = "refillGive" /\ pc' = "pull" /\ UNCHANGED <<out, readVars>>
           /\ NextPending(ring) # NoBlock
           /\ Gives(ring)
           /\ pins' = [pins EXCEPT ![NextPending(ring)] = @ + 1]
  <2> DEFINE blk == NextPending(ring)
  <2>1. Roomy(ring, pins)
    BY <1>2, StreamSeq DEF Roomy, Inv, StreamInv, ReadInv, Keeps
  <2>2. /\ blk = NextPending(ring) /\ blk # NoBlock
        /\ ring' = Given(ring) /\ queue' = Append(queue, blk)
        /\ UNCHANGED <<out, over>> /\ pins' = [pins EXCEPT ![blk] = @ + 1]
    BY <1>2 DEF Gives
  <2> HIDE DEF blk
  <2>3. Well /\ ring'.gpull # ring'.gtail  BY <2>1, <2>2, GivesWell
  <2>4. ReadInv'
    BY <1>2, <2>3 DEF readVars, Inv, ReadInv, Idle
  <2> QED  BY <2>3, <2>4 DEF Step
<1>3. CASE /\ pc = "refillGive" /\ pc' = "pull" /\ UNCHANGED <<out, readVars>>
           /\ Ends(ring) /\ UNCHANGED pins
  <2> DEFINE s == ring'
             blks == StreamOf(queue, out)
  <2>1. s = [ring EXCEPT !.ended = TRUE] /\ over' = TRUE /\ UNCHANGED queue
    BY <1>3 DEF Ends
  <2>2. blks \in Seq(ReadBlocks) /\ InOrder(ring, blks) /\ RingInv(ring)
    BY StreamSeq DEF Inv
  <2>3. blks' = blks  BY <1>3, <2>1
  <2>9. s = ring'  OBVIOUS
  <2> HIDE DEF s
  <2>4. /\ RingInv(s) /\ Keeps(ring, s) /\ PinsOf(s) = PinsOf(ring)
        /\ s.gpull = ring.gpull /\ s.gtail = ring.gtail /\ s.ended = TRUE
    BY <2>1, <2>2, EndedKeeps
  <2>5. InOrder(s, blks)
    <3> HIDE DEF blks
    <3> QED  BY <2>2, <2>4, OrderKept
  <2>6. StreamInv'
    BY <1>3, <2>1, <2>3, <2>4, <2>5, <2>9 DEF Inv, StreamInv
  <2>7. ReadInv'
    BY <1>3, <2>4, <2>9 DEF Inv, ReadInv, readVars, Idle
  <2> QED  BY <2>4, <2>6, <2>7, <2>9 DEF Step, Well
<1> QED  BY <1>1, <1>2, <1>3 DEF RefillEnds

\* the buffer that comes out is the oldest given block's: the stream is not over
\* before its blocks, and has them in the order of the ring
LEMMA StepPullEnds ==
  ASSUME Inv, PullEnds  PROVE Step
<1> DEFINE s == ring'
           blks == StreamOf(queue, out)
<1>1. /\ pc = "pull" /\ out' = NoBlock /\ UNCHANGED <<queue, over, pins, readVars>>
      /\ out # NoBlock \/ (queue = <<>> /\ over)
  BY DEF PullEnds
<1>2. /\ blks \in Seq(ReadBlocks) /\ InOrder(ring, blks) /\ RingInv(ring)
      /\ queue \in Seq(ReadBlocks) /\ out \in ReadBlocks \cup {NoBlock}
      /\ ring.gpull \in Pos /\ ring.gtail \in Pos /\ ring \in RingType
  BY StreamSeq DEF Inv
<1>3. out # NoBlock
  <2>1. SUFFICES ASSUME out = NoBlock, queue = <<>>, over PROVE FALSE
    BY <1>1
  <2>2. blks = <<>>  BY <2>1 DEF StreamOf
  <2>3. Dist(ring.gpull, ring.gtail) = 0  BY <1>2, <2>2 DEF InOrder
  <2>4. Idle  BY <1>2, <2>3, DistPos DEF Idle
  <2> QED  BY <1>1, <2>1, <2>4 DEF Inv, ReadInv
<1>4. /\ out \in ReadBlocks /\ Len(blks) = Len(queue) + 1 /\ blks[1] = out
      /\ Tail(blks) = queue
  BY <1>2, <1>3, StreamIs
<1> HIDE DEF blks
<1>5. ring.gpull # ring.gtail
  <2>1. Len(queue) \in Nat  BY <1>2
  <2>2. Len(blks) # 0  BY <1>4, <2>1
  <2>3. Dist(ring.gpull, ring.gtail) # 0  BY <1>2, <2>2 DEF InOrder
  <2> QED  BY <1>2, <2>3, DistPos
<1>6. ring.g[ring.gpull % GSize].blk = out
  <2>1. 1 \in 1 .. Len(blks)  BY <1>2, <1>4
  <2>2. Plus(ring.gpull, 1 - 1) = ring.gpull
    <3>1. ASSUME NEW p \in Pos  PROVE Plus(p, 1 - 1) = p
      BY Sizes DEF Plus, Pos
    <3> QED  BY <1>2, <3>1
  <2>3. ring.key[out] = [where |-> GIVEN, pos |-> ring.gpull]
    BY <1>2, <1>4, <2>1, <2>2 DEF InOrder
  <2>4. Lies(ring, ring.gpull, out)
    BY <1>2, <1>4, <2>3 DEF RingInv, GivenInv, SlotKeysInv
  <2> QED  BY <2>4 DEF Lies
<1>7. s = Pulled(ring, out) /\ pc' = "read"
  BY <1>3, <1>5, <1>6 DEF PullEnds
<1>8. s = ring'  OBVIOUS
<1> HIDE DEF s
<1>9. RingInv(s) /\ Pulls(ring, s, out) /\ PendingUnchanged(ring, s)
  BY <1>2, <1>4, <1>5, <1>6, <1>7, PulledInv
<1>10. InOrder(s, queue)
  BY <1>2, <1>4, <1>9, OrderPulled
<1>11. s.key = ring.key /\ s.ended = ring.ended
  BY <1>9 DEF Pulls, PendingUnchanged
<1>12. Keeps(ring, s) /\ PinsOf(s) = PinsOf(ring)
  <2>1. \A c \in ReadBlocks : GivenIn(s, c) <=> GivenIn(ring, c)
    BY <1>11 DEF GivenIn
  <2> QED  BY <1>11, <2>1, PinsSame DEF Keeps
<1>13. StreamOf(queue, out)' = queue
  BY <1>1 DEF StreamOf
<1>14. StreamInv'
  BY <1>1, <1>2, <1>8, <1>10, <1>11, <1>12, <1>13 DEF Inv, StreamInv
<1>15. ReadInv'
  BY <1>1, <1>7 DEF Inv, ReadInv, readVars
<1> QED  BY <1>8, <1>9, <1>12, <1>14, <1>15 DEF Step, Well

LEMMA StepPush ==
  ASSUME Inv, NEW blk \in ReadBlocks, NEW urgent \in BOOLEAN, Push(blk, urgent)
  PROVE  Step
<1>1. PendingStep(ring, ring')
  BY StreamSeq, PushedInv DEF Push
<1>2. Well  BY <1>1, PendingOnly DEF Push
<1>3. ReadInv'
  BY DEF Push, streamVars, Inv, ReadInv
<1> QED  BY <1>2, <1>3 DEF Step

LEMMA StepRead ==
  ASSUME Inv, NEW blk \in ReadBlocks, Read(blk)  PROVE Step
<1>1. PendingStep(ring, ring')
  BY StreamSeq DEF Read, PendingStep, GivenUnchanged
<1>2. Well  BY <1>1, PendingOnly DEF Read
<1>3. ReadInv'  BY DEF Read, streamVars, Inv, ReadInv
<1> QED  BY <1>2, <1>3 DEF Step

LEMMA StepStutter ==
  ASSUME Inv, UNCHANGED vars  PROVE Step
<1>1. PendingStep(ring, ring')
  BY StreamSeq DEF vars, PendingStep, GivenUnchanged
<1>2. Well  BY <1>1, PendingOnly DEF vars
<1>3. ReadInv'
  BY DEF vars, streamVars, readVars, Inv, ReadInv, Idle, AtFront
<1> QED  BY <1>2, <1>3 DEF Step

\* What the ring releases: the pins on the blocks it holds, once each.
HeldSlots(r) == {r.g[pos % GSize] : pos \in Span(r.ghead, r.gpull)} \ {NoBlock}
HeldPins(r, blk) == Cardinality({s \in HeldSlots(r) : s.buf = blk})

LEMMA HeldReleased ==
  ASSUME NEW r, RingInv(r), NEW blk \in ReadBlocks
  PROVE  HeldPins(r, blk) = IF HeldIn(r, blk) THEN 1 ELSE 0
<1> DEFINE held == HeldSlots(r)
<1> USE DEF HeldPins, HeldSlots
<1>1. r \in RingType /\ SlotsInv(r) /\ SlotKeysInv(r)  BY DEF RingInv, GivenInv
<1>2. /\ r.ghead \in Pos /\ r.gpull \in Pos
      /\ \A p \in Span(r.ghead, r.gpull) : p \in Pos /\ p \in Span(r.ghead, r.gtail)
  BY <1>1, GivenOf
<1>3. ASSUME NEW p \in Span(r.ghead, r.gpull), r.g[p % GSize] # NoBlock,
             r.g[p % GSize].buf = blk
      PROVE  HeldIn(r, blk) /\ r.key[blk].pos = p
  <2>1. r.g[p % GSize].blk = blk  BY <1>1, <1>3 DEF SlotsInv
  <2>2. Lies(r, p, blk)  BY <1>2, <1>3, <2>1 DEF Lies
  <2>3. r.key[blk] = [where |-> GIVEN, pos |-> p]
    BY <1>1, <1>2, <2>2 DEF SlotKeysInv
  <2>4. GivenIn(r, blk) /\ r.key[blk].pos = p  BY <1>1, <1>2, <2>3, GivenKey
  <2> QED  BY <1>3, <2>4, NoBlockIsNone DEF HeldIn
<1>4. CASE ~HeldIn(r, blk)
  <2>1. {s \in held : s.buf = blk} = {}  BY <1>3, <1>4
  <2> QED  BY <1>4, <2>1, FS_EmptySet
<1>5. CASE HeldIn(r, blk)
  <2> DEFINE p == r.key[blk].pos
  <2>1. /\ p \in Span(r.ghead, r.gpull)
        /\ r.g[p % GSize] # NoBlock /\ r.g[p % GSize].buf = blk
    BY <1>5, HeldBlock
  <2> HIDE DEF p
  <2>2. \A x \in Span(r.ghead, r.gpull) :
          r.g[x % GSize] # NoBlock /\ r.g[x % GSize].buf = blk => x = p
    BY <1>3 DEF p
  <2>3. {s \in held : s.buf = blk} = {r.g[p % GSize]}
    BY <2>1, <2>2
  <2> QED  BY <1>5, <2>3, FS_Singleton
<1> QED  BY <1>4, <1>5

\* ... and the stream: the pins on those it was named.
LEMMA NamedReleased ==
  ASSUME NEW r, RingInv(r), NEW blks \in Seq(ReadBlocks), InOrder(r, blks),
         NEW blk \in ReadBlocks
  PROVE  Cardinality({i \in DOMAIN blks : blks[i] = blk}) =
           IF GivenIn(r, blk) /\ ~HeldIn(r, blk) THEN 1 ELSE 0
<1>1. DOMAIN blks = 1 .. Len(blks)  OBVIOUS
<1>2. CASE GivenIn(r, blk) /\ ~HeldIn(r, blk)
  <2>1. PICK i \in 1 .. Len(blks) : blks[i] = blk  BY <1>2, GivenOrdered
  <2>2. \A j \in 1 .. Len(blks) : blks[j] = blk => j = i
    BY <2>1, OrderedOnce
  <2>3. {j \in DOMAIN blks : blks[j] = blk} = {i}  BY <1>1, <2>1, <2>2
  <2> QED  BY <1>2, <2>3, FS_Singleton
<1>3. CASE ~(GivenIn(r, blk) /\ ~HeldIn(r, blk))
  <2>1. \A j \in 1 .. Len(blks) : blks[j] # blk  BY <1>3, OrderedGiven
  <2>2. {j \in DOMAIN blks : blks[j] = blk} = {}  BY <1>1, <2>1
  <2> QED  BY <1>3, <2>2, FS_EmptySet
<1> QED  BY <1>2, <1>3

LEMMA StepClear ==
  ASSUME Inv, Clear  PROVE Step
<1> DEFINE held == {ring.g[pos % GSize] : pos \in Span(ring.ghead, ring.gpull)}
                     \ {NoBlock}
           H(b) == Cardinality({s \in held : s.buf = b})
           N(b) == Cardinality({i \in DOMAIN queue : queue[i] = b})
           released == [b \in ReadBlocks |-> pins[b] - H(b)]
<1>1. /\ pc = "idle" /\ ring' = EmptyRing /\ answer' = NoBlock
      /\ UNCHANGED <<out, pc, reading, refilled>>
  BY DEF Clear
<1>2. \/ /\ ring.gpull # ring.gtail \/ ring.ended
         /\ pins' = [b \in ReadBlocks |-> released[b] - N(b)]
         /\ queue' = <<>> /\ over' = FALSE
      \/ /\ ring.gpull = ring.gtail /\ ~ring.ended
         /\ pins' = released
         /\ UNCHANGED <<queue, over>>
  BY DEF Clear
<1>3. out = NoBlock  BY <1>1 DEF Inv, ReadInv
<1>4. /\ queue \in Seq(ReadBlocks) /\ InOrder(ring, queue) /\ RingInv(ring)
      /\ (Idle => queue = <<>>)
      /\ over = ring.ended
  BY <1>3, StreamSeq DEF Inv, StreamInv, StreamOf
<1>5. pins = PinsOf(ring)  BY DEF Inv, StreamInv
<1>6. \A b \in ReadBlocks : H(b) = IF HeldIn(ring, b) THEN 1 ELSE 0
  <2>1. \A b \in ReadBlocks : H(b) = HeldPins(ring, b)
    BY DEF HeldPins, HeldSlots
  <2> HIDE DEF H
  <2> QED  BY <1>4, <2>1, HeldReleased
<1>7. \A b \in ReadBlocks :
        N(b) = IF GivenIn(ring, b) /\ ~HeldIn(ring, b) THEN 1 ELSE 0
  BY <1>4, NamedReleased
<1>8. \A b \in ReadBlocks : HeldIn(ring, b) => GivenIn(ring, b)  BY DEF HeldIn
<1> HIDE DEF H, N, held
<1>9. \A b \in ReadBlocks : released[b] - N(b) = 0
  <2> SUFFICES ASSUME NEW b \in ReadBlocks  PROVE released[b] - N(b) = 0
    OBVIOUS
  <2>1. released[b] = (IF GivenIn(ring, b) THEN 1 ELSE 0) - H(b)
    BY <1>5 DEF PinsOf
  <2>2. CASE HeldIn(ring, b)
    <3>1. GivenIn(ring, b)  BY <1>8, <2>2
    <3>2. released[b] = 1 - H(b) /\ H(b) = 1 /\ N(b) = 0
      BY <1>6, <1>7, <2>1, <2>2, <3>1
    <3> HIDE DEF released
    <3> QED  BY <3>2
  <2>3. CASE ~HeldIn(ring, b) /\ GivenIn(ring, b)
    <3>1. released[b] = 1 - H(b) /\ H(b) = 0 /\ N(b) = 1
      BY <1>6, <1>7, <2>1, <2>3
    <3> HIDE DEF released
    <3> QED  BY <3>1
  <2>4. CASE ~GivenIn(ring, b)
    <3>1. ~HeldIn(ring, b)  BY <1>8, <2>4
    <3>2. released[b] = 0 - H(b) /\ H(b) = 0 /\ N(b) = 0
      BY <1>6, <1>7, <2>1, <2>4, <3>1
    <3> HIDE DEF released
    <3> QED  BY <3>2
  <2> QED  BY <2>2, <2>3, <2>4
<1>10. /\ pins' = [b \in ReadBlocks |-> 0]
       /\ queue' = <<>> /\ over' = FALSE
  <2>1. CASE /\ pins' = [b \in ReadBlocks |-> released[b] - N(b)]
             /\ queue' = <<>> /\ over' = FALSE
    <3> HIDE DEF released
    <3> QED  BY <1>9, <2>1
  <2>2. CASE /\ ring.gpull = ring.gtail /\ ~ring.ended
             /\ pins' = released
             /\ UNCHANGED <<queue, over>>
    <3>1. queue = <<>>  BY <1>4, <2>2 DEF Idle
    <3>2. \A b \in ReadBlocks : N(b) = 0
      <4>1. \A b \in ReadBlocks : {i \in DOMAIN queue : queue[i] = b} = {}
        BY <3>1
      <4> QED  BY <4>1, FS_EmptySet DEF N
    <3>3. \A b \in ReadBlocks : released[b] = 0
      <4> SUFFICES ASSUME NEW b \in ReadBlocks  PROVE released[b] = 0
        OBVIOUS
      <4>1. released[b] - 0 = 0  BY <1>9, <3>2
      <4>2. released[b] \in Int
        <5>1. H(b) \in Int  BY <1>6
        <5>2. pins[b] \in Int  BY <1>5 DEF PinsOf
        <5>3. released[b] = pins[b] - H(b)  OBVIOUS
        <5> HIDE DEF released
        <5> QED  BY <5>1, <5>2, <5>3
      <4> HIDE DEF released
      <4> QED  BY <4>1, <4>2
    <3>4. released = [b \in ReadBlocks |-> released[b]]  OBVIOUS
    <3>5. over = FALSE  BY <1>4, <2>2 DEF RingInv, RingType
    <3> HIDE DEF released
    <3>6. released = [b \in ReadBlocks |-> 0]  BY <3>3, <3>4
    <3> QED  BY <2>2, <3>1, <3>5, <3>6
  <2> QED  BY <1>2, <2>1, <2>2
<1>11. StreamOf(queue, out)' = <<>>
  BY <1>1, <1>3, <1>10 DEF StreamOf
<1>12. StreamInv'
  <2>1. /\ queue' \in Seq(ReadBlocks) /\ out' \in ReadBlocks \cup {NoBlock}
        /\ over' = EmptyRing.ended /\ pins' = PinsOf(EmptyRing)
    <3>1. /\ queue' = <<>> /\ out' = NoBlock /\ over' = FALSE
          /\ pins' = [b \in ReadBlocks |-> 0]
      BY <1>1, <1>3, <1>10
    <3>2. <<>> \in Seq(ReadBlocks)  OBVIOUS
    <3> QED  BY <3>1, <3>2, EmptyInv
  <2>2. InOrder(ring', StreamOf(queue, out)')  BY <1>1, <1>11, EmptyInv
  <2> HIDE DEF H, N, held
  <2> QED  BY <1>1, <2>1, <2>2 DEF StreamInv
<1>13. ReadInv'
  BY <1>1, <1>3 DEF Inv, ReadInv
<1> QED  BY <1>1, <1>12, <1>13, EmptyInv DEF Step, Well

\* Every step.
LEMMA NextStep ==
  ASSUME Inv, [Next]_vars  PROVE Step
<1>1. CASE Working
  BY <1>1, StepReadRefills, StepReadThroughStream, StepReadApart, StepReadHeld,
     StepReadGiven, StepReadToFront, StepReadFirst, StepStreamTakes, StepGiveFull,
     StepGive, StepRefillEnds, StepPullEnds DEF Working
<1>2. CASE \E blk \in ReadBlocks : RefillPush(blk) \/ Read(blk)
  BY <1>2, StepRefillPush, StepRead
<1>3. CASE \E blk \in ReadBlocks, urgent \in BOOLEAN : Push(blk, urgent)
  BY <1>3, StepPush
<1>4. CASE Clear  BY <1>4, StepClear
<1>5. CASE UNCHANGED vars  BY <1>5, StepStutter
<1> QED  BY <1>1, <1>2, <1>3, <1>4, <1>5 DEF Next

\* The invariant.
LEMMA AlwaysInv == Spec => []Inv
<1>1. Init => Inv  BY InitInv
<1>2. Inv /\ [Next]_vars => Inv'
  BY NextStep DEF Step, Well, Inv
<1> QED  BY <1>1, <1>2, PTL DEF Spec

-----------------------------------------------------------------------------
(* What the invariant says of the properties.                              *)

\* Sets matched one to one have as many members.
LEMMA SameSize ==
  ASSUME NEW S, IsFiniteSet(S), NEW T, NEW f \in [S -> T],
         \A a, b \in S : f[a] = f[b] => a = b,
         \A t \in T : \E s \in S : f[s] = t
  PROVE  Cardinality(T) = Cardinality(S)
<1>1. f \in Injection(S, T) /\ f \in Surjection(S, T)
  BY DEF Injection, Surjection, IsInjective
<1>2. ExistsBijection(S, T)  BY <1>1 DEF ExistsBijection, Bijection
<1> QED  BY <1>2, FS_Bijection

\* A queue's blocks and their positions.
WaitingIn(r, w) ==
  {pos \in Span(r.q[w].head, r.q[w].tail) : r.q[w].b[pos % PSize] # NoBlock}
BlocksOf(r, w) == {blk \in ReadBlocks : PendingIn(r, blk) /\ r.key[blk].where = w}

LEMMA QueueCount ==
  ASSUME NEW r \in RingType, PendingInv(r), NEW w \in Queues
  PROVE  IsFiniteSet(BlocksOf(r, w)) /\
         Cardinality(WaitingIn(r, w)) = Cardinality(BlocksOf(r, w))
<1> DEFINE S == BlocksOf(r, w)
           T == WaitingIn(r, w)
           f == [blk \in S |-> r.key[blk].pos]
<1>1. IsFiniteSet(S)
  <2>1. S \in SUBSET PendingSet(r)  BY DEF BlocksOf, PendingSet
  <2> QED  BY <2>1, FS_Subset DEF PendingInv, QueuesCounted
<1>2. ASSUME NEW blk \in S
      PROVE  /\ blk \in ReadBlocks /\ f[blk] \in Pos
             /\ Waits(r, w, f[blk], blk)
  <2>1. blk \in ReadBlocks /\ PendingIn(r, blk) /\ r.key[blk].where = w
    BY DEF BlocksOf
  <2>2. r.key[blk].pos \in Pos  BY <2>1, KeyOf
  <2>3. r.key[blk] = [where |-> w, pos |-> r.key[blk].pos]
    BY <2>1, <2>2, QueueKey
  <2>4. Waits(r, w, r.key[blk].pos, blk)
    BY <2>1, <2>2, <2>3 DEF PendingInv, QueuesInv
  <2> QED  BY <2>1, <2>2, <2>4
<1>3. f \in [S -> T]
  BY <1>2, NoBlockIsNone DEF WaitingIn, Waits
<1>4. \A a, b \in S : f[a] = f[b] => a = b
  BY <1>2 DEF Waits
<1>5. ASSUME NEW p \in T  PROVE \E blk \in S : f[blk] = p
  <2> DEFINE blk == r.q[w].b[p % PSize]
  <2>1. p \in Span(r.q[w].head, r.q[w].tail) /\ blk # NoBlock  BY DEF WaitingIn
  <2>2. p \in Pos /\ blk \in ReadBlocks  BY <2>1, QueueOf
  <2>3. Waits(r, w, p, blk)  BY <2>1 DEF Waits
  <2> HIDE DEF blk
  <2>4. r.key[blk] = [where |-> w, pos |-> p]
    BY <2>2, <2>3 DEF PendingInv, QueuesInv
  <2>5. PendingIn(r, blk) /\ r.key[blk].where = w /\ r.key[blk].pos = p
    BY <2>2, <2>4, QueueKey
  <2> QED  BY <2>2, <2>5 DEF BlocksOf
<1> HIDE DEF S, T, f
<1>6. Cardinality(T) = Cardinality(S)  BY <1>1, <1>3, <1>4, <1>5, SameSize
<1> QED  BY <1>1, <1>6 DEF S, T

\* The held blocks and their positions.
HeldAt(r) == {pos \in Span(r.ghead, r.gpull) : r.g[pos % GSize] # NoBlock}

LEMMA HeldCount ==
  ASSUME NEW r, RingInv(r)
  PROVE  Cardinality(HeldAt(r)) = Cardinality(HeldSet(r))
<1> DEFINE S == HeldSet(r)
           T == HeldAt(r)
           f == [blk \in S |-> r.key[blk].pos]
<1>1. IsFiniteSet(S)  BY DEF RingInv, GivenInv, HeldCounted
<1>2. ASSUME NEW blk \in S
      PROVE  /\ f[blk] \in Span(r.ghead, r.gpull)
             /\ r.g[f[blk] % GSize] # NoBlock /\ r.g[f[blk] % GSize].blk = blk
  BY HeldBlock DEF HeldSet
<1>3. f \in [S -> T]  BY <1>2 DEF HeldAt
<1>4. \A a, b \in S : f[a] = f[b] => a = b  BY <1>2
<1>5. ASSUME NEW p \in T  PROVE \E blk \in S : f[blk] = p
  <2> DEFINE blk == r.g[p % GSize].blk
  <2>1. r \in RingType /\ SlotsInv(r) /\ SlotKeysInv(r)  BY DEF RingInv, GivenInv
  <2>2. p \in Span(r.ghead, r.gpull) /\ r.g[p % GSize] # NoBlock  BY DEF HeldAt
  <2>3. p \in Pos /\ p \in Span(r.ghead, r.gtail)  BY <2>1, <2>2, GivenOf
  <2>4. r.g[p % GSize] \in SlotType
    <3>1. /\ r.g \in [0 .. GSize - 1 -> {NoBlock} \cup SlotType]
          /\ p % GSize \in 0 .. GSize - 1
      BY <2>1, <2>3, GivenOf
    <3> QED  BY <2>2, <3>1
  <2>5. blk \in ReadBlocks  BY <2>4 DEF SlotType
  <2>6. Lies(r, p, blk)  BY <2>2, <2>3 DEF Lies
  <2>7. r.g[p % GSize].buf = blk  BY <2>1, <2>2 DEF SlotsInv
  <2> HIDE DEF blk
  <2>8. r.key[blk] = [where |-> GIVEN, pos |-> p]
    BY <2>1, <2>3, <2>5, <2>6 DEF SlotKeysInv
  <2>9. GivenIn(r, blk) /\ r.key[blk].pos = p  BY <2>1, <2>3, <2>5, <2>8, GivenKey
  <2>10. HeldIn(r, blk)  BY <2>5, <2>7, <2>9, NoBlockIsNone DEF HeldIn
  <2> QED  BY <2>5, <2>9, <2>10 DEF HeldSet
<1> HIDE DEF S, T, f
<1>6. Cardinality(T) = Cardinality(S)  BY <1>1, <1>3, <1>4, <1>5, SameSize
<1> QED  BY <1>6 DEF S, T

LEMMA InvTypes == Inv => TypeOK
<1> SUFFICES ASSUME Inv PROVE TypeOK  OBVIOUS
<1>1. ring \in RingType  BY StreamSeq
<1>2. pins \in [ReadBlocks -> Nat]  BY DEF Inv, StreamInv, PinsOf
<1>3. /\ {ring.ghead, ring.gpull, ring.gtail} \subseteq 0 .. Positions - 1
      /\ ring.g \in [0 .. GSize - 1 ->
                 {NoBlock} \cup [blk : ReadBlocks, buf : ReadBlocks \cup {NoBlock}]]
      /\ ring.q \in [Queues -> [b : [0 .. PSize - 1 -> ReadBlocks \cup {NoBlock}],
                            head : 0 .. Positions - 1, tail : 0 .. Positions - 1]]
      /\ ring.key \in [ReadBlocks -> {NoBlock} \cup [where : Queues \cup {GIVEN},
                                            pos : 0 .. Positions - 1]]
  BY <1>1 DEF RingType, SlotType, KeyType, DequeType, Pos
<1>4. queue \in Seq(ReadBlocks)
      /\ pc \in {"idle", "read", "pull", "refillRead", "refillGive"}
  BY DEF Inv, StreamInv, ReadInv
<1> QED  BY <1>2, <1>3, <1>4 DEF TypeOK

LEMMA InvGivenPart == Inv => GivenPartOK
<1> SUFFICES ASSUME Inv PROVE GivenPartOK  OBVIOUS
<1>1. RingInv(ring)  BY DEF Inv
<1>2. /\ ring \in RingType /\ SlotsInv(ring) /\ SlotKeysInv(ring)
      /\ HeadFull(ring) /\ HeldCounted(ring)
  BY <1>1 DEF RingInv, GivenInv
<1>3. /\ ring.g \in [0 .. GSize - 1 -> {NoBlock} \cup SlotType]
      /\ \A p \in Pos : p % GSize \in 0 .. GSize - 1
      /\ GivenSpan = HeldSpan \cup Span(ring.gpull, ring.gtail)
      /\ GivenSpan \subseteq Pos
  BY <1>2, GivenOf DEF GivenSpan, HeldSpan
<1>4. Dist(ring.ghead, ring.gtail) <= PinLimit /\ HeldSpan \subseteq GivenSpan
  BY <1>2, <1>3 DEF SlotsInv
<1>5. ring.ghead # ring.gpull => At(ring.ghead) # NoBlock
  BY <1>2 DEF HeadFull, At
<1>6. ASSUME NEW pos \in GivenSpan
      PROVE  /\ pos \in HeldSpan /\ At(pos) # NoBlock => At(pos).buf # NoBlock
             /\ pos \notin HeldSpan => At(pos) # NoBlock /\ At(pos).buf = NoBlock
             /\ At(pos) # NoBlock =>
                  ring.key[At(pos).blk] = [where |-> GIVEN, pos |-> pos]
  <2>1. pos \in Pos /\ At(pos) \in {NoBlock} \cup SlotType  BY <1>3 DEF At
  <2>2. At(pos) # NoBlock => At(pos).blk \in ReadBlocks  BY <2>1 DEF SlotType
  <2>3. pos \in HeldSpan /\ At(pos) # NoBlock => At(pos).buf # NoBlock
    BY <1>2, <2>2, NoBlockIsNone DEF SlotsInv, At, HeldSpan
  <2>4. pos \notin HeldSpan => At(pos) # NoBlock /\ At(pos).buf = NoBlock
    BY <1>2, <1>3 DEF SlotsInv, At
  <2>5. ASSUME At(pos) # NoBlock
        PROVE  ring.key[At(pos).blk] = [where |-> GIVEN, pos |-> pos]
    <3> DEFINE blk == At(pos).blk
    <3>1. blk \in ReadBlocks  BY <2>2, <2>5
    <3>2. Lies(ring, pos, blk)  BY <2>5 DEF Lies, At, GivenSpan
    <3> HIDE DEF blk
    <3>3. ring.key[blk] = [where |-> GIVEN, pos |-> pos]
      BY <1>2, <2>1, <3>1, <3>2 DEF SlotKeysInv
    <3> QED  BY <3>3 DEF blk
  <2> QED  BY <2>3, <2>4, <2>5
<1>7. ASSUME NEW i \in 0 .. GSize - 1, i \notin {pos % GSize : pos \in GivenSpan}
      PROVE  ring.g[i] = NoBlock
  BY <1>2, <1>7 DEF SlotsInv, GivenSpan
<1>8. ring.nheld = Cardinality({pos \in HeldSpan : At(pos) # NoBlock})
  <2>1. HeldAt(ring) = {pos \in HeldSpan : At(pos) # NoBlock}
    BY DEF HeldAt, HeldSpan, At
  <2> QED  BY <1>1, <1>2, <2>1, HeldCount DEF HeldCounted
<1> QED  BY <1>4, <1>5, <1>6, <1>7, <1>8 DEF GivenPartOK

LEMMA InvPending == Inv => PendingOK
<1> SUFFICES ASSUME Inv PROVE PendingOK  OBVIOUS
<1>1. ring \in RingType /\ PendingInv(ring)  BY StreamSeq
<1>2. ASSUME NEW w \in Queues
      PROVE  /\ Dist(ring.q[w].head, ring.q[w].tail) <= PendingLimit
             /\ \A pos \in WaitingIn(ring, w) :
                  ring.key[ring.q[w].b[pos % PSize]] = [where |-> w, pos |-> pos]
  <2>1. ASSUME NEW pos \in WaitingIn(ring, w)
        PROVE  ring.key[ring.q[w].b[pos % PSize]] = [where |-> w, pos |-> pos]
    <3> DEFINE blk == ring.q[w].b[pos % PSize]
    <3>1. pos \in Span(ring.q[w].head, ring.q[w].tail) /\ blk # NoBlock
      BY DEF WaitingIn
    <3>2. pos \in Pos /\ blk \in ReadBlocks  BY <1>1, <3>1, QueueOf
    <3>3. Waits(ring, w, pos, blk)  BY <3>1 DEF Waits
    <3> HIDE DEF blk
    <3>4. ring.key[blk] = [where |-> w, pos |-> pos]
      BY <1>1, <3>2, <3>3 DEF PendingInv, QueuesInv
    <3> QED  BY <3>4 DEF blk
  <2> QED  BY <1>1, <2>1 DEF PendingInv, QueuesInv
<1>3. ring.npending =
        Cardinality(WaitingIn(ring, URGENT)) + Cardinality(WaitingIn(ring, PREDICTED))
  <2> DEFINE U == BlocksOf(ring, URGENT)
             P == BlocksOf(ring, PREDICTED)
  <2>1. /\ IsFiniteSet(U) /\ Cardinality(WaitingIn(ring, URGENT)) = Cardinality(U)
        /\ IsFiniteSet(P) /\ Cardinality(WaitingIn(ring, PREDICTED)) = Cardinality(P)
    BY <1>1, QueueCount DEF Queues
  <2>2. PendingSet(ring) = U \cup P
    BY DEF PendingSet, BlocksOf, PendingIn, Queues
  <2>3. U \cap P = {}
    BY DEF BlocksOf, URGENT, PREDICTED
  <2>4. ring.npending = Cardinality(PendingSet(ring))
    BY <1>1 DEF PendingInv, QueuesCounted
  <2> HIDE DEF U, P
  <2>5. Cardinality(U \cup P) = Cardinality(U) + Cardinality(P) - 0
    BY <2>1, <2>3, FS_Union, FS_EmptySet
  <2>6. Cardinality(U) \in Nat /\ Cardinality(P) \in Nat
    BY <2>1, FS_CardinalityType
  <2> QED  BY <2>1, <2>2, <2>4, <2>5, <2>6
<1> QED  BY <1>2, <1>3 DEF PendingOK, WaitingIn

LEMMA InvKeys == Inv => KeysOK
<1> SUFFICES ASSUME Inv, NEW blk \in ReadBlocks, ring.key[blk] # NoBlock
             PROVE  LET k == ring.key[blk]
                    IN IF k.where = GIVEN
                       THEN k.pos \in GivenSpan /\ At(k.pos) # NoBlock
                              /\ At(k.pos).blk = blk
                       ELSE /\ k.pos \in Span(ring.q[k.where].head, ring.q[k.where].tail)
                            /\ ring.q[k.where].b[k.pos % PSize] = blk
  BY DEF KeysOK
<1> DEFINE k == ring.key[blk]
           w == k.where
           p == k.pos
<1>1. /\ ring \in RingType /\ PendingInv(ring) /\ SlotKeysInv(ring)
  BY StreamSeq DEF Inv, RingInv, GivenInv
<1>2. CASE GivenIn(ring, blk)
  <2>1. w = GIVEN  BY <1>2 DEF GivenIn
  <2>2. p \in Pos /\ k = [where |-> GIVEN, pos |-> p]  BY <1>1, <1>2, KeyOf, GivenKey
  <2> HIDE DEF p, w
  <2>3. Lies(ring, p, blk)  BY <1>1, <2>2 DEF SlotKeysInv
  <2>4. p \in GivenSpan /\ At(p) # NoBlock /\ At(p).blk = blk
    BY <2>3 DEF Lies, GivenSpan, At
  <2> QED  BY <2>1, <2>4 DEF p, w
<1>3. CASE PendingIn(ring, blk)
  <2>1. w \in Queues /\ w # GIVEN
    BY <1>3 DEF PendingIn, Queues, GIVEN, URGENT, PREDICTED
  <2>2. p \in Pos /\ k = [where |-> w, pos |-> p]
    BY <1>1, <1>3, <2>1, KeyOf, QueueKey
  <2> HIDE DEF p, w
  <2>3. Waits(ring, w, p, blk)  BY <1>1, <2>1, <2>2 DEF PendingInv, QueuesInv
  <2>4. /\ p \in Span(ring.q[w].head, ring.q[w].tail)
        /\ ring.q[w].b[p % PSize] = blk
    BY <2>3 DEF Waits
  <2> QED  BY <2>1, <2>4 DEF p, w
<1> QED  BY <1>1, <1>2, <1>3, KeyOf

\* Every variable of the ring, the stream and the read keeps its type, and the ring
\* is what lion_ring_check() asserts after every step.
THEOREM Consistent == Spec => []RingConsistent
<1>1. Inv => RingConsistent
  BY InvTypes, InvGivenPart, InvPending, InvKeys DEF RingConsistent
<1> QED  BY <1>1, AlwaysInv, PTL

\* A read returns the buffer of the block it asked for, and a pull never fails
\* (lion_ring_read(), lion_ring_pull()).
THEOREM ReadsRight == Spec => []ReadsItsBlock
<1>1. Inv => ReadsItsBlock
  BY DEF Inv, ReadInv, ReadsItsBlock
<1> QED  BY <1>1, AlwaysInv, PTL

\* The blocks given or held are no more than the positions they lie at.
LEMMA GivenFew ==
  ASSUME NEW r, RingInv(r)
  PROVE  Cardinality({blk \in ReadBlocks : GivenIn(r, blk)}) <= PinLimit
<1> DEFINE S == {blk \in ReadBlocks : GivenIn(r, blk)}
           n == Dist(r.ghead, r.gtail)
           T == 0 .. n - 1
           f == [blk \in S |-> Dist(r.ghead, r.key[blk].pos)]
<1>1. r \in RingType /\ SlotsInv(r) /\ SlotKeysInv(r)  BY DEF RingInv, GivenInv
<1>2. r.ghead \in Pos /\ r.gtail \in Pos  BY <1>1, GivenOf
<1>3. n \in Nat /\ n <= PinLimit  BY <1>1, <1>2, DistPos DEF SlotsInv
<1>4. ASSUME NEW blk \in S
      PROVE  /\ r.key[blk].pos \in Pos /\ f[blk] = Dist(r.ghead, r.key[blk].pos)
             /\ Lies(r, r.key[blk].pos, blk)
  <2>1. blk \in ReadBlocks /\ GivenIn(r, blk)  OBVIOUS
  <2>2. r.key[blk].pos \in Pos  BY <1>1, <2>1, KeyOf
  <2>3. r.key[blk] = [where |-> GIVEN, pos |-> r.key[blk].pos]
    BY <1>1, <2>1, <2>2, GivenKey
  <2> QED  BY <1>1, <2>1, <2>2, <2>3 DEF SlotKeysInv
<1>5. \A blk \in S : f[blk] \in T
  <2> SUFFICES ASSUME NEW blk \in S  PROVE f[blk] \in T
    OBVIOUS
  <2> DEFINE p == r.key[blk].pos
  <2>1. p \in Pos /\ p \in Span(r.ghead, r.gtail) /\ f[blk] = Dist(r.ghead, p)
    BY <1>4 DEF Lies
  <2> HIDE DEF p, f
  <2>2. Dist(r.ghead, p) < n /\ Dist(r.ghead, p) \in Nat
    BY <1>2, <2>1, InSpan, DistPos
  <2> QED  BY <1>3, <2>1, <2>2
<1>6. \A a, b \in S : f[a] = f[b] => a = b
  <2> SUFFICES ASSUME NEW a \in S, NEW b \in S, f[a] = f[b]  PROVE a = b
    OBVIOUS
  <2> DEFINE p == r.key[a].pos
             q == r.key[b].pos
  <2>1. /\ p \in Pos /\ q \in Pos /\ Dist(r.ghead, p) = Dist(r.ghead, q)
        /\ Lies(r, p, a) /\ Lies(r, q, b)
    BY <1>4
  <2> HIDE DEF p, q, f, S
  <2>2. p = q
    <3>1. Plus(r.ghead, Dist(r.ghead, p)) = p  BY <1>2, <2>1, DistPlus
    <3>2. Plus(r.ghead, Dist(r.ghead, q)) = q  BY <1>2, <2>1, DistPlus
    <3> QED  BY <2>1, <3>1, <3>2
  <2> QED  BY <2>1, <2>2 DEF Lies
<1>7. f \in Injection(S, T)
  <2>1. f \in [S -> T]  BY <1>5
  <2> HIDE DEF f, S, T
  <2> QED  BY <1>6, <2>1 DEF Injection, IsInjective
<1>8. IsFiniteSet(T) /\ Cardinality(T) = n
  <2> HIDE DEF n
  <2>1. /\ IsFiniteSet(0 .. n - 1)
        /\ Cardinality(0 .. n - 1) = IF 0 > n - 1 THEN 0 ELSE n - 1 - 0 + 1
    BY <1>3, FS_Interval
  <2> QED  BY <1>3, <2>1
<1> HIDE DEF f, S, T, n
<1>9. IsFiniteSet(S) /\ Cardinality(S) <= Cardinality(T)
  BY <1>7, <1>8, FS_Injection
<1>10. Cardinality(S) \in Nat  BY <1>9, FS_CardinalityType
<1>11. Cardinality(S) <= PinLimit  BY <1>3, <1>8, <1>9, <1>10, Sizes
<1> QED  BY <1>11 DEF S

\* The stream and the ring pin the blocks given or held, each once, and no others,
\* and never more than the limit (lion_ring_pins()).
THEOREM PinsRight == Spec => []PinsCounted
<1>1. Inv => PinsCounted
  <2> SUFFICES ASSUME Inv PROVE PinsCounted  OBVIOUS
  <2>1. pins = PinsOf(ring) /\ RingInv(ring)  BY DEF Inv, StreamInv
  <2>2. \A blk \in ReadBlocks : pins[blk] = IF GivenIn(ring, blk) THEN 1 ELSE 0
    BY <2>1 DEF PinsOf
  <2>3. {blk \in ReadBlocks : pins[blk] > 0} = {blk \in ReadBlocks : GivenIn(ring, blk)}
    BY <2>2
  <2>4. Cardinality({blk \in ReadBlocks : GivenIn(ring, blk)}) <= PinLimit
    BY <2>1, GivenFew
  <2> QED  BY <2>2, <2>3, <2>4 DEF PinsCounted, GivenIn
<1> QED  BY <1>1, AlwaysInv, PTL

\* The stream's blocks, one by one.
LEMMA StreamHas ==
  ASSUME NEW named \in Seq(ReadBlocks), NEW taken \in ReadBlocks \cup {NoBlock},
         NEW i \in 1 .. Len(StreamOf(named, taken))
  PROVE  \/ StreamOf(named, taken)[i] = taken
         \/ \E j \in DOMAIN named : named[j] = StreamOf(named, taken)[i]
<1>1. CASE taken = NoBlock  BY <1>1 DEF StreamOf
<1>2. CASE taken # NoBlock
  <2>1. StreamOf(named, taken) = <<taken>> \o named  BY <1>2 DEF StreamOf
  <2>2. Len(<<taken>> \o named) = 1 + Len(named)  BY <1>2
  <2>3. i = 1 => (<<taken>> \o named)[i] = taken  BY <1>2
  <2>4. ASSUME i # 1
        PROVE  i - 1 \in DOMAIN named /\ named[i - 1] = (<<taken>> \o named)[i]
    BY <1>2, <2>1, <2>2, <2>4
  <2> QED  BY <2>1, <2>3, <2>4
<1> QED  BY <1>1, <1>2

\* A block the stream was given comes to be held, unless the ring is cleared: no
\* step makes the stream or the ring drop it (lion_ring_pull(), lion_ring_clear()).
THEOREM GivenHeld == Spec => GivenAreHeld
<1> DEFINE Stays ==
             \A blk \in ReadBlocks :
               IsGiven(blk) /\ ring' # EmptyRing =>
                 /\ ring'.key[blk] = ring.key[blk]
                 /\ Named(blk)' \/ Slot(blk)'.buf = blk
<1>1. Inv /\ [Next]_vars => Stays
  <2> SUFFICES ASSUME Inv, [Next]_vars, NEW blk \in ReadBlocks, IsGiven(blk),
                      ring' # EmptyRing
               PROVE  /\ ring'.key[blk] = ring.key[blk]
                      /\ Named(blk)' \/ Slot(blk)'.buf = blk
    OBVIOUS
  <2> DEFINE r == ring'
             blks == StreamOf(queue', out')
  <2>1. Keeps(ring, ring') /\ RingInv(ring)' /\ StreamInv'
    BY NextStep DEF Step, Well
  <2>2. GivenIn(ring, blk) /\ ~HeldIn(ring, blk)
    BY DEF IsGiven, GivenIn, HeldIn, Slot
  <2>3. ring'.key[blk] = ring.key[blk]  BY <2>1, <2>2 DEF Keeps
  <2>4. GivenIn(r, blk) /\ RingInv(r)  BY <2>1, <2>2, <2>3 DEF GivenIn
  <2>5. /\ queue' \in Seq(ReadBlocks) /\ out' \in ReadBlocks \cup {NoBlock}
        /\ InOrder(r, blks)
    BY <2>1 DEF StreamInv
  <2>6. blks \in Seq(ReadBlocks)  BY <2>5, StreamIs
  <2>7. CASE HeldIn(r, blk)
    <3>1. r.g[r.key[blk].pos % GSize].buf = blk
      <4> HIDE DEF r
      <4> QED  BY <2>4, <2>7, HeldBlock
    <3> QED  BY <2>3, <3>1 DEF Slot
  <2>8. CASE ~HeldIn(r, blk)
    <3>1. PICK i \in 1 .. Len(blks) : blks[i] = blk
      <4> HIDE DEF r, blks
      <4> QED  BY <2>4, <2>5, <2>6, <2>8, GivenOrdered
    <3>2. blk = out' \/ \E j \in DOMAIN queue' : queue'[j] = blk
      BY <2>5, <3>1, StreamHas
    <3> QED  BY <2>3, <3>2 DEF Named
  <2> QED  BY <2>7, <2>8
<1>2. Spec => [][Stays]_vars
  <2> HIDE DEF Stays
  <2> QED  BY <1>1, AlwaysInv, PTL DEF Spec
<1> QED  BY <1>2 DEF GivenAreHeld

=============================================================================
