------------------------------ MODULE LionRing ------------------------------
(***************************************************************************)
(* The ring between a reader that predicts the blocks it will read and     *)
(* core's read stream, which reads the blocks its callback names in that   *)
(* order (lion_readahead_ring.c).                                          *)
(*                                                                         *)
(* The read stream and the reader's refill are external.  The stream names *)
(* blocks only while a buffer is pulled from it, hands them out in the     *)
(* order named, each pinned, looks ahead as far as it likes, and once the  *)
(* callback has named none is over until it is restarted.  Refill pushes   *)
(* some predicted blocks or none.  A buffer is known by its block.  The    *)
(* hash of the tracked blocks is the function key (LionRingHash).          *)
(***************************************************************************)
EXTENDS Integers, Sequences, FiniteSets

CONSTANTS ReadBlocks,
          PinLimit, GSize,      \* glimit, and the given part's slots
          PendingLimit, PSize,  \* plimit, and a pending queue's slots
          Positions,            \* 2^32: positions are counted modulo this
          NoBlock               \* no block, no slot, no key

GIVEN == "given"          \* LION_RING_G: given to the stream, or held
URGENT == "urgent"
PREDICTED == "predicted"
Queues == {URGENT, PREDICTED}

ASSUME RingAssumption ==
  /\ GSize \in Nat /\ PSize \in Nat
  /\ PinLimit \in 1 .. GSize /\ PendingLimit \in 1 .. PSize
  /\ Positions \in Nat
  /\ GSize < Positions /\ Positions % GSize = 0
  /\ PSize < Positions /\ Positions % PSize = 0
  /\ NoBlock \notin ReadBlocks
  /\ NoBlock \notin [blk : ReadBlocks, buf : ReadBlocks \cup {NoBlock}]
  /\ NoBlock \notin [where : Queues \cup {GIVEN}, pos : 0 .. Positions - 1]

VARIABLES ring,     \* the LionRing
          queue,    \* blocks named to the stream, not handed out, in order
          over,     \* the stream is over until it is restarted
          out,      \* the block whose buffer the stream is to hand out
          pins,     \* block -> pins the stream and the ring have on it
          pc,       \* what the reader's call does next
          reading,  \* the block asked for
          refilled, \* whether this read has refilled
          answer    \* what the last read asked for and got

streamVars == <<queue, over, out>>
readVars == <<reading, refilled, answer>>
vars == <<ring, streamVars, pins, pc, readVars>>

\* positions, as uint32 counters that wrap
Plus(pos, n) == (pos + n) % Positions
Dist(first, past) == (past - first) % Positions
\* the positions of a part, in their order
Span(first, past) == {Plus(first, i) : i \in 0 .. Dist(first, past) - 1}

-----------------------------------------------------------------------------
(* The pending queues.                                                     *)

EmptyQueue == [b |-> [i \in 0 .. PSize - 1 |-> NoBlock], head |-> 0, tail |-> 0]
EmptyRing ==
  [g |-> [i \in 0 .. GSize - 1 |-> NoBlock], ghead |-> 0, gpull |-> 0, gtail |-> 0,
   nheld |-> 0, q |-> [w \in Queues |-> EmptyQueue], npending |-> 0,
   key |-> [b \in ReadBlocks |-> NoBlock], ended |-> FALSE]

\* lion_ring_deque_trim(): past the holes at the head
Trim(d) ==
  LET n == Dist(d.head, d.tail)
      Hole(i) == d.b[Plus(d.head, i) % PSize] = NoBlock
      holes == CHOOSE k \in 0 .. n : /\ \A i \in 0 .. k - 1 : Hole(i)
                                     /\ k = n \/ ~Hole(k)
  IN [d EXCEPT !.head = Plus(@, holes)]

TrimQueue(r, w) == [r EXCEPT !.q[w] = Trim(@)]

\* whether lion_ring_enqueue() finds room, the holes counted
HasRoom(r, w) == LET d == Trim(r.q[w]) IN Dist(d.head, d.tail) < PendingLimit

\* lion_ring_enqueue(), with room
Enqueue(r, w, blk, front) ==
  LET d == Trim(r.q[w])
      pos == IF front THEN Plus(d.head, Positions - 1) ELSE d.tail
  IN [r EXCEPT !.q[w] = [b |-> [d.b EXCEPT ![pos % PSize] = blk],
                         head |-> IF front THEN pos ELSE d.head,
                         tail |-> IF front THEN d.tail ELSE Plus(pos, 1)],
               !.key[blk] = [where |-> w, pos |-> pos],
               !.npending = @ + 1]

\* Not the code: the queue's head stays on the hole
UnqueueUntrimmed(r, blk) ==
  LET k == r.key[blk]
  IN [r EXCEPT !.q[k.where].b[k.pos % PSize] = NoBlock,
               !.key[blk] = NoBlock]

\* lion_ring_unqueue(): a hole is left
Unqueue(r, blk) ==
  LET k == r.key[blk]
      d == [r.q[k.where] EXCEPT !.b[k.pos % PSize] = NoBlock]
  IN [r EXCEPT !.q[k.where] = Trim(d),
               !.key[blk] = NoBlock,
               !.npending = @ - 1]

\* lion_ring_dequeue(): the urgent queue trimmed, and if it is empty the other
Dequeuing(r) ==
  LET t == TrimQueue(r, URGENT)
      d == t.q[URGENT]
  IN IF d.head = d.tail THEN TrimQueue(t, PREDICTED) ELSE t
NextQueue(r) ==
  LET d == Dequeuing(r).q[URGENT] IN IF d.head = d.tail THEN PREDICTED ELSE URGENT
NextPending(r) ==
  LET d == Dequeuing(r).q[NextQueue(r)]
  IN IF d.head = d.tail THEN NoBlock ELSE d.b[d.head % PSize]

\* lion_ring_push() of a block that is tracked already, or not
Pushed(r, blk, urgent) ==
  LET k == r.key[blk]
      w == IF urgent THEN URGENT ELSE PREDICTED
      away == Unqueue(r, blk)
  IN CASE k = NoBlock /\ HasRoom(r, w) -> Enqueue(r, w, blk, FALSE)
       [] k = NoBlock /\ ~HasRoom(r, w) -> TrimQueue(r, w)
       [] k # NoBlock /\ ~(urgent /\ k.where = PREDICTED) -> r
       [] k # NoBlock /\ urgent /\ k.where = PREDICTED ->
            CASE HasRoom(away, URGENT) -> Enqueue(away, URGENT, blk, FALSE)
              [] ~HasRoom(away, URGENT) /\ HasRoom(away, PREDICTED) ->
                   Enqueue(TrimQueue(away, URGENT), PREDICTED, blk, TRUE)
              [] ~HasRoom(away, URGENT) /\ ~HasRoom(away, PREDICTED) ->
                   TrimQueue(TrimQueue(away, URGENT), PREDICTED)

-----------------------------------------------------------------------------
(* The given part.                                                         *)

\* lion_ring_g_trim()
GTrim(r) ==
  LET n == Dist(r.ghead, r.gpull)
      Hole(i) == r.g[Plus(r.ghead, i) % GSize] = NoBlock
      holes == CHOOSE k \in 0 .. n : /\ \A i \in 0 .. k - 1 : Hole(i)
                                     /\ k = n \/ ~Hole(k)
  IN [r EXCEPT !.ghead = Plus(@, holes)]

Oldest(r) == r.g[r.ghead % GSize]
\* Not the code: one pin too many
PinsFullLate(r) == Dist(r.ghead, r.gtail) > PinLimit
PinsFull(r) == Dist(r.ghead, r.gtail) >= PinLimit

\* lion_ring_g_room(), when the ring is full and its oldest block is held
Evict(r) ==
  GTrim([r EXCEPT !.key[Oldest(r).blk] = NoBlock,
                  !.g[r.ghead % GSize] = NoBlock,
                  !.nheld = @ - 1,
                  !.ghead = Plus(@, 1)])

\* lion_ring_give() has a block: out of its queue, into the given part
Given(r) ==
  LET t == Dequeuing(r)
      w == NextQueue(r)
      d == t.q[w]
      blk == NextPending(r)
  IN [t EXCEPT !.q[w] = [d EXCEPT !.b[d.head % PSize] = NoBlock,
                                  !.head = Plus(@, 1)],
               !.npending = @ - 1,
               !.g[t.gtail % GSize] = [blk |-> blk, buf |-> NoBlock],
               !.key[blk] = [where |-> GIVEN, pos |-> t.gtail],
               !.gtail = Plus(@, 1)]

\* Not the code: the head stays on the hole a read left
TakenUntrimmed(r, blk) ==
  [r EXCEPT !.g[r.key[blk].pos % GSize] = NoBlock, !.nheld = @ - 1,
            !.key[blk] = NoBlock]

\* lion_ring_take()
Taken(r, blk) ==
  GTrim([r EXCEPT !.g[r.key[blk].pos % GSize] = NoBlock,
                  !.nheld = @ - 1,
                  !.key[blk] = NoBlock])

\* lion_ring_pull(), of the right buffer
Pulled(r, buf) ==
  [r EXCEPT !.g[r.gpull % GSize].buf = buf,
            !.gpull = Plus(@, 1),
            !.nheld = @ + 1]

Slot(blk) == ring.g[ring.key[blk].pos % GSize]
IsGiven(blk) ==
  /\ ring.key[blk] # NoBlock
  /\ ring.key[blk].where = GIVEN
  /\ Slot(blk).buf = NoBlock

-----------------------------------------------------------------------------
(* The reader's calls.                                                     *)

Init ==
  /\ ring = EmptyRing
  /\ queue = <<>>
  /\ over = FALSE
  /\ out = NoBlock
  /\ pins = [b \in ReadBlocks |-> 0]
  /\ pc = "idle"
  /\ reading = NoBlock
  /\ refilled = FALSE
  /\ answer = NoBlock

\* lion_ring_push()
Push(blk, urgent) ==
  /\ pc = "idle"
  /\ ring' = Pushed(ring, blk, urgent)
  /\ answer' = NoBlock
  /\ UNCHANGED <<streamVars, pins, pc, reading, refilled>>

\* lion_ring_clear()
Clear ==
  /\ pc = "idle"
  /\ LET held == {ring.g[pos % GSize] : pos \in Span(ring.ghead, ring.gpull)}
                   \ {NoBlock}
         released == [b \in ReadBlocks |->
                        pins[b] - Cardinality({s \in held : s.buf = b})]
     IN IF ring.gpull # ring.gtail \/ ring.ended
        THEN /\ pins' = [b \in ReadBlocks |->
                           released[b] - Cardinality({i \in DOMAIN queue : queue[i] = b})]
             /\ queue' = <<>>
             /\ over' = FALSE
        ELSE /\ pins' = released
             /\ UNCHANGED <<queue, over>>
  /\ ring' = EmptyRing
  /\ answer' = NoBlock
  /\ UNCHANGED <<out, pc, reading, refilled>>

\* lion_ring_read() begins
Read(blk) ==
  /\ pc = "idle"
  /\ pc' = "read"
  /\ reading' = blk
  /\ refilled' = FALSE
  /\ answer' = NoBlock
  /\ UNCHANGED <<ring, streamVars, pins>>

Answer(buf) ==
  /\ answer' = [asked |-> reading, got |-> buf]
  /\ pc' = "idle"
  /\ reading' = NoBlock
  /\ refilled' = FALSE

Idle == ring.gpull = ring.gtail

\* Not the code: it may refill again and again
ReadRefillsAgain ==
  /\ pc = "read"
  /\ ring.key[reading] = NoBlock
  /\ Idle /\ ring.npending = 0
  /\ refilled' = TRUE
  /\ pc' = "refillRead"
  /\ UNCHANGED <<ring, streamVars, pins, reading, answer>>

\* not tracked, and the stream is idle with nothing pending: refill first
ReadRefills ==
  /\ pc = "read"
  /\ ring.key[reading] = NoBlock
  /\ Idle /\ ring.npending = 0 /\ ~refilled
  /\ refilled' = TRUE
  /\ pc' = "refillRead"
  /\ UNCHANGED <<ring, streamVars, pins, reading, answer>>

\* ... or with something pending: through the stream, first
ReadThroughStream ==
  /\ pc = "read"
  /\ ring.key[reading] = NoBlock
  /\ Idle /\ ring.npending > 0 /\ HasRoom(ring, URGENT)
  /\ ring' = Enqueue(ring, URGENT, reading, TRUE)
  /\ UNCHANGED <<streamVars, pins, pc, readVars>>

\* ... and else apart, by a pin that is the reader's alone
ReadApart ==
  /\ pc = "read"
  /\ ring.key[reading] = NoBlock
  /\ ~(Idle /\ ring.npending = 0 /\ ~refilled)
  /\ ~(Idle /\ ring.npending > 0 /\ HasRoom(ring, URGENT))
  /\ ring' = IF Idle /\ ring.npending > 0 THEN TrimQueue(ring, URGENT) ELSE ring
  /\ Answer(reading)
  /\ UNCHANGED <<streamVars, pins>>

\* Not the code: the oldest buffer is handed over
ReadHeldOldest ==
  /\ pc = "read"
  /\ ring.key[reading] # NoBlock
  /\ ring.key[reading].where = GIVEN
  /\ ~IsGiven(reading)
  /\ ring' = Taken(ring, reading)
  /\ LET buf == Oldest(ring).buf
     IN /\ Answer(buf)
        /\ pins' = [pins EXCEPT ![buf] = @ - 1]
  /\ UNCHANGED streamVars

ReadHeld ==
  /\ pc = "read"
  /\ ring.key[reading] # NoBlock
  /\ ring.key[reading].where = GIVEN
  /\ ~IsGiven(reading)
  /\ ring' = Taken(ring, reading)
  /\ LET buf == Slot(reading).buf
     IN /\ Answer(buf)
        /\ pins' = [pins EXCEPT ![buf] = @ - 1]
  /\ UNCHANGED streamVars

ReadGiven ==
  /\ pc = "read"
  /\ IsGiven(reading)
  /\ pc' = "pull"
  /\ UNCHANGED <<ring, streamVars, pins, readVars>>

AtFront(r) == r.key[reading] = [where |-> URGENT, pos |-> r.q[URGENT].head]

\* pending, not first: to the front, or apart where the queue is full
ReadToFront ==
  /\ pc = "read"
  /\ ring.key[reading] # NoBlock
  /\ ring.key[reading].where \in Queues
  /\ LET r == TrimQueue(ring, URGENT)
         away == Unqueue(r, reading)
     IN /\ ~AtFront(r)
        /\ IF HasRoom(away, URGENT)
           THEN /\ ring' = Enqueue(away, URGENT, reading, TRUE)
                /\ UNCHANGED <<pc, readVars>>
           ELSE /\ ring' = TrimQueue(away, URGENT)
                /\ Answer(reading)
  /\ UNCHANGED <<streamVars, pins>>

\* Not the code: an ended stream is restarted with blocks still given
ReadFirstRestartsEarly ==
  /\ pc = "read"
  /\ ring.key[reading] # NoBlock
  /\ ring.key[reading].where \in Queues
  /\ AtFront(TrimQueue(ring, URGENT))
  /\ LET r == TrimQueue(ring, URGENT)
     IN IF r.ended
        THEN /\ ring' = [r EXCEPT !.ended = FALSE]
             /\ over' = FALSE
             /\ queue' = <<>>
             /\ pins' = [b \in ReadBlocks |->
                           pins[b] - Cardinality({i \in DOMAIN queue : queue[i] = b})]
        ELSE ring' = r /\ UNCHANGED <<over, queue, pins>>
  /\ pc' = "pull"
  /\ UNCHANGED <<out, readVars>>

\* pending and first: pulled for, the stream restarted once all it was given
\* is pulled
ReadFirst ==
  /\ pc = "read"
  /\ ring.key[reading] # NoBlock
  /\ ring.key[reading].where \in Queues
  /\ AtFront(TrimQueue(ring, URGENT))
  /\ LET r == TrimQueue(ring, URGENT)
     IN IF Idle /\ r.ended
        THEN /\ ring' = [r EXCEPT !.ended = FALSE]
             /\ over' = FALSE
             /\ queue' = <<>>
             /\ pins' = [b \in ReadBlocks |->
                           pins[b] - Cardinality({i \in DOMAIN queue : queue[i] = b})]
        ELSE ring' = r /\ UNCHANGED <<over, queue, pins>>
  /\ pc' = "pull"
  /\ UNCHANGED <<out, readVars>>

-----------------------------------------------------------------------------
(* A pull, and what the stream asks for meanwhile.                         *)

\* the stream takes its oldest buffer, to hand it out
StreamTakes ==
  /\ pc = "pull"
  /\ out = NoBlock /\ queue # <<>>
  /\ out' = Head(queue)
  /\ queue' = Tail(queue)
  /\ UNCHANGED <<ring, over, pins, pc, readVars>>

MayAsk == pc = "pull" /\ ~over /\ (out # NoBlock \/ queue = <<>>)

\* lion_ring_give() names no block
Ends(r) ==
  /\ ring' = [r EXCEPT !.ended = TRUE]
  /\ over' = TRUE
  /\ UNCHANGED queue

\* ... or names the first pending one, which the stream pins
Gives(r) ==
  /\ ring' = Given(r)
  /\ queue' = Append(queue, NextPending(r))
  /\ UNCHANGED over

\* every pin is a given block's
GiveFull ==
  /\ MayAsk
  /\ PinsFull(ring) /\ ring.ghead = ring.gpull
  /\ Ends(ring)
  /\ UNCHANGED <<out, pins, pc, readVars>>

Give ==
  /\ MayAsk
  /\ ~(PinsFull(ring) /\ ring.ghead = ring.gpull)
  /\ LET r == IF PinsFull(ring) THEN Evict(ring) ELSE ring
         free == IF PinsFull(ring)
                 THEN [pins EXCEPT ![Oldest(ring).buf] = @ - 1]
                 ELSE pins
     IN IF NextPending(r) # NoBlock
        THEN /\ Gives(r)
             /\ pins' = [free EXCEPT ![NextPending(r)] = @ + 1]
             /\ UNCHANGED pc
        ELSE /\ ring' = Dequeuing(r)
             /\ pins' = free
             /\ pc' = "refillGive"
             /\ UNCHANGED <<queue, over>>
  /\ UNCHANGED <<out, readVars>>

\* the reader's refill pushes a predicted block
RefillPush(blk) ==
  /\ pc \in {"refillRead", "refillGive"}
  /\ ring.key[blk] = NoBlock /\ HasRoom(ring, PREDICTED)
  /\ ring' = Pushed(ring, blk, FALSE)
  /\ UNCHANGED <<streamVars, pins, pc, readVars>>

\* ... and returns, to the read or to lion_ring_give()
RefillEnds ==
  /\ \/ /\ pc = "refillRead"
        /\ pc' = "read"
        /\ UNCHANGED <<ring, queue, over, pins>>
     \/ /\ pc = "refillGive"
        /\ pc' = "pull"
        /\ IF NextPending(ring) # NoBlock
           THEN /\ Gives(ring)
                /\ pins' = [pins EXCEPT ![NextPending(ring)] = @ + 1]
           ELSE Ends(ring) /\ UNCHANGED pins
  /\ UNCHANGED <<out, readVars>>

\* lion_ring_pull() gets its buffer, which must be the oldest given block's
PullEnds ==
  /\ pc = "pull"
  /\ out # NoBlock \/ (queue = <<>> /\ over)
  /\ out' = NoBlock
  /\ IF /\ out # NoBlock
        /\ ring.gpull # ring.gtail
        /\ ring.g[ring.gpull % GSize].blk = out
     THEN /\ ring' = Pulled(ring, out)
          /\ pc' = "read"
     ELSE pc' = "failed" /\ UNCHANGED ring
  /\ UNCHANGED <<queue, over, pins, readVars>>

Working == \/ ReadRefills \/ ReadThroughStream \/ ReadApart \/ ReadHeld
           \/ ReadGiven \/ ReadToFront \/ ReadFirst
           \/ StreamTakes \/ GiveFull \/ Give \/ RefillEnds
           \/ PullEnds

Next == \/ Working
        \/ \E blk \in ReadBlocks : RefillPush(blk) \/ Read(blk)
        \/ \E blk \in ReadBlocks, urgent \in BOOLEAN : Push(blk, urgent)
        \/ Clear

Spec == Init /\ [][Next]_vars

\* a read that has begun goes on
FairSpec == Spec /\ WF_vars(Working)

-----------------------------------------------------------------------------
(* Properties.                                                             *)

\* The type invariant of the ring, the stream and the read.
TypeOK ==
  /\ {ring.ghead, ring.gpull, ring.gtail} \subseteq 0 .. Positions - 1
  /\ ring.g \in [0 .. GSize - 1 ->
                 {NoBlock} \cup [blk : ReadBlocks, buf : ReadBlocks \cup {NoBlock}]]
  /\ ring.q \in [Queues -> [b : [0 .. PSize - 1 -> ReadBlocks \cup {NoBlock}],
                            head : 0 .. Positions - 1, tail : 0 .. Positions - 1]]
  /\ ring.key \in [ReadBlocks -> {NoBlock} \cup [where : Queues \cup {GIVEN},
                                            pos : 0 .. Positions - 1]]
  /\ queue \in Seq(ReadBlocks)
  /\ pins \in [ReadBlocks -> Nat]
  /\ pc \in {"idle", "read", "pull", "refillRead", "refillGive"}

GivenSpan == Span(ring.ghead, ring.gtail)
HeldSpan == Span(ring.ghead, ring.gpull)
At(pos) == ring.g[pos % GSize]

\* what lion_ring_check() asks of the given part: holes and held blocks, no
\* hole first, then given blocks, nothing beside them, each with its key
GivenPartOK ==
  /\ Dist(ring.ghead, ring.gtail) <= PinLimit
  /\ HeldSpan \subseteq GivenSpan
  /\ ring.ghead # ring.gpull => At(ring.ghead) # NoBlock
  /\ \A pos \in GivenSpan :
       /\ pos \in HeldSpan /\ At(pos) # NoBlock => At(pos).buf # NoBlock
       /\ pos \notin HeldSpan => At(pos) # NoBlock /\ At(pos).buf = NoBlock
       /\ At(pos) # NoBlock =>
            ring.key[At(pos).blk] = [where |-> GIVEN, pos |-> pos]
  /\ \A i \in 0 .. GSize - 1 :
       i \notin {pos % GSize : pos \in GivenSpan} => ring.g[i] = NoBlock
  /\ ring.nheld = Cardinality({pos \in HeldSpan : At(pos) # NoBlock})

\* ... and of the pending queues, and of the keys
PendingOK ==
  LET waiting(w) == {pos \in Span(ring.q[w].head, ring.q[w].tail) :
                       ring.q[w].b[pos % PSize] # NoBlock}
  IN /\ \A w \in Queues :
          /\ Dist(ring.q[w].head, ring.q[w].tail) <= PendingLimit
          /\ \A pos \in waiting(w) :
               ring.key[ring.q[w].b[pos % PSize]] = [where |-> w, pos |-> pos]
     /\ ring.npending = Cardinality(waiting(URGENT)) + Cardinality(waiting(PREDICTED))
KeysOK ==
  \A blk \in ReadBlocks :
    LET k == ring.key[blk]
    IN k # NoBlock =>
         IF k.where = GIVEN
         THEN k.pos \in GivenSpan /\ At(k.pos) # NoBlock /\ At(k.pos).blk = blk
         ELSE /\ k.pos \in Span(ring.q[k.where].head, ring.q[k.where].tail)
              /\ ring.q[k.where].b[k.pos % PSize] = blk

\* Every variable keeps its type, and the ring is what lion_ring_check() asserts of
\* it, after every step and not only between calls, however positions wrap around.
RingConsistent == TypeOK /\ GivenPartOK /\ PendingOK /\ KeysOK

\* A read returns the buffer of the block it asked for, whether held, given,
\* pending or not tracked, and whatever the stream was named meanwhile; and the
\* ring never finds that the stream has ended before the blocks it was given, or
\* lost its place among them (lion_ring_read(), lion_ring_pull()'s two fail calls).
ReadsItsBlock ==
  /\ pc # "failed"
  /\ answer # NoBlock => answer.asked = answer.got

\* No pin is lost, taken twice or released twice: the stream and the ring
\* together pin the blocks given or held, each once, and no others, and never
\* more than the limit the reader chose (lion_ring_pins()).
PinsCounted ==
  /\ \A blk \in ReadBlocks :
       pins[blk] = IF ring.key[blk] # NoBlock /\ ring.key[blk].where = GIVEN
                   THEN 1 ELSE 0
  /\ Cardinality({blk \in ReadBlocks : pins[blk] > 0}) <= PinLimit

\* A block the stream was given is read ahead for its reader: the stream hands
\* it out and the ring holds it, and only the reader (lion_ring_clear()) makes
\* them drop it before, never a stream that has ended and is restarted.
Named(blk) == blk = out \/ \E i \in DOMAIN queue : queue[i] = blk
GivenAreHeld ==
  [][\A blk \in ReadBlocks :
       IsGiven(blk) /\ ring' # EmptyRing =>
         /\ ring'.key[blk] = ring.key[blk]
         /\ Named(blk)' \/ Slot(blk)'.buf = blk]_vars

\* Every read ends, whatever the stream looks ahead to, refill pushes and the
\* limits make of it (lion_ring_read()'s loop).
ReadEnds == reading # NoBlock ~> reading = NoBlock
=============================================================================
