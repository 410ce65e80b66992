------------------------ MODULE LionSharedCopyProof ------------------------
(***************************************************************************)
(* What LionSharedCopy keeps for any number of participants, chunks and    *)
(* keys: the chunks are all collected before the phase moves on, and one   *)
(* participant indexes them, once, while nobody else writes or reads; they *)
(* never take more memory than they may; the index has their containers in *)
(* key order, so that a seek finds its container, and every participant    *)
(* reads the same: what AtomicCopy says.                                   *)
(***************************************************************************)
EXTENDS LionSharedCopy, FiniteSetTheorems, WellFoundedInduction, TLAPS

\* where a participant has a chunk of its own
Working == {"room", "collect", "reserve", "place", "giveback"}
\* where it is attached before the first wait ends
Gathering == Working \cup {"claim", "finish", "waitIndexing"}
\* ... and before the second one does
Awaiting == {"waitIndexing", "index", "arrive", "waitDone"}
At(labels) == {p \in Procs : pc[p] \in labels}
Failed == At({"failed"}) # {}

Complete(c) == seen \cap KeyRange(nchunks, ckeys, c) \subseteq chunk[c].keys

Types ==
  /\ TypeOK
  /\ run \in Nat
  /\ pc \in [Procs -> Gathering \cup Awaiting \cup
                      {"out", "detach", "view", "reading", "failed"}]
  /\ mine \in [Procs -> Nat \cup {None}]
  /\ room \in [Procs -> Nat]
  /\ got \in [Procs -> SUBSET Keys]
  /\ ckeys \in Nat \ {0}
  /\ seen \subseteq {k \in Keys : k < ckeys}

\* who is attached, who has arrived, and who may index, in each phase
Barrier ==
  /\ Failed => At({"failed"}) = Procs
  /\ ~Failed /\ phase = COLLECTING =>
       /\ attached = At(Gathering)
       /\ arrived = At({"waitIndexing"})
       /\ At(Gathering \cup {"out"}) = Procs
       /\ index = None
  /\ ~Failed /\ phase = INDEXING =>
       /\ attached = At(Awaiting)
       /\ arrived = At({"waitDone"})
       /\ At(Awaiting \cup {"out"}) = Procs
       /\ \A p, q \in At({"index"}) : p = q
       /\ At({"index"}) # {} => index = None
  /\ ~Failed /\ phase = DONE =>
       /\ arrived = {}
       /\ At({"out", "waitDone", "detach", "view", "reading"}) = Procs

\* a chunk that is claimed is complete, or somebody works on it
Claims ==
  /\ \A p \in At(Working) : mine[p] \in Chunks
  /\ \A p \in Procs \ At(Working \cup {"failed"}) : mine[p] = None
  /\ \A p \in At({"reserve", "place", "giveback"}) :
       seen \cap KeyRange(nchunks, ckeys, mine[p]) \subseteq got[p]
  /\ At({"finish", "waitIndexing"}) # {} => nextchunk >= nchunks
  /\ ~Failed => \A c \in Chunks : c < nextchunk =>
       Complete(c) \/ \E p \in At(Working) : mine[p] = c
  /\ phase # COLLECTING => \A c \in Chunks : Complete(c)

Inv == Types /\ Barrier /\ Claims

-----------------------------------------------------------------------------
(* The cut.                                                                *)

\* What integer division is: the quotient's multiple is at most the dividend,
\* by less than the divisor.
LEMMA DivBounds ==
  ASSUME NEW a \in Nat, NEW n \in Nat \ {0}
  PROVE  /\ a \div n \in Nat
         /\ n * (a \div n) <= a
         /\ a < n * (a \div n) + n
BY Z3

\* A number whose multiple is at most the dividend is at most the quotient.
LEMMA DivUp ==
  ASSUME NEW a \in Nat, NEW n \in Nat \ {0}, NEW k \in Nat, n * k <= a
  PROVE  k <= a \div n
<1> DEFINE q == a \div n
<1>1. q \in Nat /\ a < n * q + n
  BY DivBounds
<1> HIDE DEF q
<1>2. SUFFICES ASSUME q < k PROVE FALSE
  BY <1>1 DEF q
<1>3. n * (q + 1) <= n * k
  BY <1>1, <1>2
<1>4. n * (q + 1) = n * q + n
  BY <1>1
<1> QED
  BY <1>1, <1>3, <1>4

\* A number whose successor's multiple is above the dividend is at least the
\* quotient.
LEMMA DivDown ==
  ASSUME NEW a \in Nat, NEW n \in Nat \ {0}, NEW k \in Nat, a < n * (k + 1)
  PROVE  a \div n <= k
<1> DEFINE q == a \div n
<1>1. q \in Nat /\ n * q <= a
  BY DivBounds
<1> HIDE DEF q
<1>2. SUFFICES ASSUME k < q PROVE FALSE
  BY <1>1 DEF q
<1>3. n * (k + 1) <= n * q
  BY <1>1, <1>2
<1> QED
  BY <1>1, <1>3

\* lion_key_range()'s ranges cover every container key they are cut from,
\* however the keys divide: the range of key k is ((k + 1) * n - 1) / m.
LEMMA RangesCover ==
  ASSUME NEW n \in Nat \ {0}, NEW m \in Nat \ {0}, NEW k \in Keys, k < m
  PROVE  \E r \in 0 .. n - 1 : k \in KeyRange(n, m, r)
<1>1. k \in Nat
  BY CutAssumption
<1> DEFINE a == (k + 1) * n - 1
           r == a \div m
<1>2. a \in Nat
  BY <1>1
<1>3. r \in Nat /\ m * r <= a /\ a < m * r + m
  BY <1>2, DivBounds
<1>4. a < m * n
  <2>1. (k + 1) * n <= m * n
    BY <1>1
  <2> QED
    BY <1>1, <2>1
<1> HIDE DEF r
<1>5. r < n
  <2>1. SUFFICES ASSUME n <= r PROVE FALSE
    BY <1>3
  <2>2. m * n <= m * r
    BY <1>3, <2>1
  <2> QED
    BY <1>2, <1>3, <1>4, <2>2
<1>6. RangeFirst(n, m, r) <= k
  <2>1. r * m < n * (k + 1)
    BY <1>1, <1>2, <1>3
  <2>2. r * m \in Nat
    BY <1>3
  <2> QED
    BY <1>1, <2>1, <2>2, DivDown DEF RangeFirst
<1>7. k < RangeFirst(n, m, r + 1)
  <2>1. (r + 1) * m = m * r + m
    BY <1>3
  <2>2. n * (k + 1) <= (r + 1) * m
    BY <1>1, <1>2, <1>3, <2>1
  <2>3. (r + 1) * m \in Nat
    BY <1>3
  <2>4. k + 1 <= ((r + 1) * m) \div n
    BY <1>1, <2>2, <2>3, DivUp
  <2>5. ((r + 1) * m) \div n \in Nat
    BY <2>3, DivBounds
  <2> QED
    BY <1>1, <2>4, <2>5 DEF RangeFirst
<1> QED
  BY <1>3, <1>5, <1>6, <1>7 DEF KeyRange

\* lion_key_ranges() makes at least one chunk, of at least one key.
LEMMA Cut ==
  ASSUME NEW blocks \in HeapSizes
  PROVE  /\ KeyRanges(blocks) \in 1 .. MaxChunks
         /\ HeapKeys(blocks) \in Nat \ {0}
<1>1. HeapKeys(blocks) \in Nat \ {0}
  BY CutAssumption, DivBounds DEF HeapKeys
<1>2. Greater(MinKeys, 1) \in Nat \ {0}
  BY CutAssumption DEF Greater
<1>3. HeapKeys(blocks) \div Greater(MinKeys, 1) \in Nat
  BY <1>1, <1>2, DivBounds
<1>4. Greater(HeapKeys(blocks) \div Greater(MinKeys, 1), 1) \in Nat \ {0}
  BY <1>3 DEF Greater
<1>5. Greater(Planned, 1) * ChunksEach \in Nat \ {0}
  BY CutAssumption DEF Greater
<1> QED
  BY <1>1, <1>4, <1>5, CutAssumption DEF KeyRanges, Lesser

-----------------------------------------------------------------------------
(* The invariant.                                                          *)

\* Before anybody comes the invariant holds.
LEMMA InitInv == Init => Inv
<1> SUFFICES ASSUME Init PROVE Inv
  OBVIOUS
<1>1. PICK blocks \in HeapSizes : /\ nchunks = KeyRanges(blocks)
                                  /\ ckeys = HeapKeys(blocks)
  BY DEF Init, Empty
<1>2. nchunks \in 1 .. MaxChunks /\ ckeys \in Nat \ {0}
  BY <1>1, Cut
<1>3. Types
  BY <1>2 DEF Init, Types, TypeOK, EmptyChunk, COLLECTING
<1>4. ~Failed /\ Barrier
  BY DEF Init, Barrier, Failed, At, Gathering, Working, COLLECTING, INDEXING, DONE
<1>5. Claims
  BY <1>2, <1>4 DEF Init, Claims, At, Working, Chunks, COLLECTING
<1> QED
  BY <1>3, <1>4, <1>5 DEF Inv

\* A new run begins as the first one did.
LEMMA ReinitInv == Inv /\ Reinit => Inv'
<1> SUFFICES ASSUME Inv, Reinit PROVE Inv'
  OBVIOUS
<1>1. PICK blocks \in HeapSizes : /\ nchunks' = KeyRanges(blocks)
                                  /\ ckeys' = HeapKeys(blocks)
  BY DEF Reinit, Empty
<1>2. nchunks' \in 1 .. MaxChunks /\ ckeys' \in Nat \ {0}
  BY <1>1, Cut
<1>3. \A p \in Procs : mine[p] = None
  BY DEF Reinit, Inv, Claims, At, Working
<1>4. Types'
  BY <1>2, <1>3 DEF Reinit, Inv, Types, TypeOK, EmptyChunk, COLLECTING
<1>5. ~Failed' /\ Barrier'
  BY DEF Reinit, Barrier, Failed, At, Gathering, Working, COLLECTING, INDEXING, DONE
<1>6. Claims'
  BY <1>2, <1>3, <1>5 DEF Reinit, Claims, At, Working, Chunks, COLLECTING
<1> QED
  BY <1>4, <1>5, <1>6 DEF Inv

\* Where a participant that goes on is, and that the query has not failed.
LEMMA Running ==
  ASSUME Inv, NEW p \in Procs, pc[p] # "failed"
  PROVE  /\ ~Failed
         /\ phase = COLLECTING => pc[p] \in Gathering \cup {"out"}
         /\ phase = INDEXING => pc[p] \in Awaiting \cup {"out"}
         /\ phase = DONE => pc[p] \in {"out", "waitDone", "detach", "view", "reading"}
         /\ phase \in {COLLECTING, INDEXING, DONE}
<1>1. ~Failed
  BY DEF Inv, Barrier, Failed, At
<1> QED
  BY <1>1 DEF Inv, Types, TypeOK, Barrier, At

\* A participant that works on a chunk does so before the first wait ends.
LEMMA WorkingCollects ==
  ASSUME Inv, NEW p \in Procs, pc[p] \in Working \cup {"claim", "finish"}
  PROVE  ~Failed /\ phase = COLLECTING /\ index = None /\ p \in attached
<1>1. ~Failed /\ phase = COLLECTING
  BY Running DEF Working, Gathering, Awaiting, COLLECTING, INDEXING, DONE
<1> QED
  BY <1>1 DEF Inv, Barrier, At, Gathering

\* The barrier's part of a step in which p only goes on collecting.
LEMMA CollectingBarrier ==
  ASSUME Inv, NEW p \in Procs, NEW l \in Working \cup {"claim", "finish"},
         pc[p] \in Working \cup {"claim"}, Goto(p, l),
         UNCHANGED <<barrierVars, index>>
  PROVE  ~Failed' /\ Barrier'
<1>1. ~Failed /\ phase = COLLECTING /\ index = None
  BY WorkingCollects
<1>2. \A q \in Procs : pc'[q] = IF q = p THEN l ELSE pc[q]
  BY DEF Goto, Inv, Types
<1>3. At(Gathering)' = At(Gathering) /\ At({"waitIndexing"})' = At({"waitIndexing"})
  BY <1>2 DEF At, Gathering, Working
<1>4. At(Gathering \cup {"out"})' = Procs
  BY <1>1, <1>2 DEF At, Gathering, Working, Inv, Barrier
<1>5. ~Failed'
  BY <1>4, <1>2 DEF Failed, At, Gathering, Working
<1> QED
  BY <1>1, <1>3, <1>4, <1>5 DEF Inv, Barrier, barrierVars, COLLECTING, INDEXING, DONE

\* Claiming a chunk keeps the invariant: it is the claimer's to complete.
LEMMA ClaimInv == ASSUME Inv, NEW p \in Procs, Claim(p) PROVE Inv'
<1>1. ~Failed /\ phase = COLLECTING
  BY WorkingCollects DEF Claim
<1>2. nchunks \in Nat /\ nextchunk \in Nat
  BY DEF Inv, Types, TypeOK
<1>5. /\ UNCHANGED <<run, seen, nchunks, ckeys, phase, attached, arrived, held,
                     chunk, index, room, got>>
      /\ nextchunk' = nextchunk + 1
      /\ pc[p] = "claim"
  BY DEF Claim, cutVars, barrierVars
<1>3. CASE nextchunk >= nchunks
  <2>1. \A q \in Procs : pc'[q] = IF q = p THEN "finish" ELSE pc[q]
    BY <1>3 DEF Claim, Goto, Inv, Types
  <2>8. pc' = [pc EXCEPT ![p] = "finish"] /\ mine' = mine
    BY <1>3 DEF Claim, Goto
  <2>2. Types'
    BY <1>5, <1>2, <2>8 DEF Inv, Types, TypeOK, Chunks, Gathering, Working
  <2>3. Barrier'
    BY <1>3, CollectingBarrier DEF Claim, barrierVars
  <2>4. At(Working)' = At(Working)
    BY <2>1 DEF At, Working, Claim
  <2>5. Claims'
    <3>1. \A c \in Chunks : c < nextchunk
      BY <1>2, <1>3 DEF Chunks
    <3>2. \A c \in Chunks : Complete(c) \/ \E q \in At(Working) : mine[q] = c
      BY <1>1, <3>1 DEF Inv, Claims
    <3>3. nextchunk' >= nchunks'
      BY <1>5, <1>2, <1>3
    <3>4. Chunks' = Chunks /\ \A c \in Chunks : Complete(c)' = Complete(c)
      BY <1>5 DEF Chunks, Complete
    <3>5. phase' = COLLECTING
      BY <1>5, <1>1
    <3> QED
      BY <1>5, <2>1, <2>8, <2>4, <3>2, <3>3, <3>4, <3>5
         DEF Inv, Claims, At, Working
  <2> QED
    BY <2>2, <2>3, <2>5 DEF Inv
<1>4. CASE ~(nextchunk >= nchunks)
  <2>1. \A q \in Procs : /\ pc'[q] = IF q = p THEN "room" ELSE pc[q]
                         /\ mine'[q] = IF q = p THEN nextchunk ELSE mine[q]
    BY <1>4 DEF Claim, Goto, Inv, Types
  <2>8. /\ pc' = [pc EXCEPT ![p] = "room"]
        /\ mine' = [mine EXCEPT ![p] = nextchunk]
    BY <1>4 DEF Claim, Goto
  <2>2. nextchunk \in Chunks /\ nextchunk \in Nat
    BY <1>2, <1>4 DEF Chunks
  <2>3. Types'
    <3>1. \A q \in Procs : mine'[q] # None => mine'[q] \in Chunks'
      BY <1>5, <2>1, <2>2 DEF Inv, Types, TypeOK, Chunks
    <3> QED
      BY <1>5, <1>2, <2>8, <2>2, <3>1 DEF Inv, Types, TypeOK, Gathering, Working
  <2>4. ~Failed' /\ Barrier'
    BY <1>4, CollectingBarrier DEF Claim, barrierVars, Working
  <2>5. At(Working)' = At(Working) \cup {p} /\ p \notin At(Working)
    BY <2>1 DEF At, Working, Claim
  <2>6. \A c \in Chunks' : c < nextchunk' =>
          Complete(c)' \/ \E q \in At(Working)' : mine'[q] = c
    <3> SUFFICES ASSUME NEW c \in Chunks, c < nextchunk + 1
                 PROVE  Complete(c) \/ \E q \in At(Working)' : mine'[q] = c
      BY DEF Claim, cutVars, Chunks, Complete
    <3>1. CASE c = nextchunk
      BY <2>1, <2>5, <3>1
    <3>2. CASE c < nextchunk
      <4>1. Complete(c) \/ \E q \in At(Working) : mine[q] = c
        BY <1>1, <3>2 DEF Inv, Claims
      <4> QED
        BY <2>1, <2>5, <4>1 DEF At
    <3> QED
      BY <1>2, <3>1, <3>2 DEF Chunks
  <2>7. Claims'
    BY <1>1, <1>2, <1>4, <2>1, <2>2, <2>5, <2>6 DEF Claim, cutVars, barrierVars,
       Inv, Claims, At, Working, Chunks, Complete, COLLECTING
  <2> QED
    BY <2>3, <2>4, <2>7 DEF Inv
<1> QED
  BY <1>3, <1>4

\* Publishing a chunk with all its selected keys keeps the invariant.
LEMMA PutInv ==
  ASSUME Inv, NEW p \in Procs, pc[p] \in Working,
         NEW keys \in SUBSET Keys, NEW spilled \in BOOLEAN,
         seen \cap KeyRange(nchunks, ckeys, mine[p]) \subseteq keys,
         PutChunk(p, keys, spilled), held' \in Int,
         UNCHANGED <<cutVars, barrierVars, nextchunk, index, view>>
  PROVE  Inv'
<1>1. ~Failed /\ phase = COLLECTING
  BY WorkingCollects
<1>2. mine[p] \in Chunks /\ Chunks \subseteq 0 .. MaxChunks - 1
  BY CutAssumption DEF Inv, Claims, At, Types, TypeOK, Chunks
<1>3. \A q \in Procs : /\ pc'[q] = IF q = p THEN "claim" ELSE pc[q]
                       /\ mine'[q] = IF q = p THEN None ELSE mine[q]
                       /\ got'[q] = IF q = p THEN {} ELSE got[q]
  BY DEF PutChunk, Goto, Inv, Types
<1>4. \A c \in 0 .. MaxChunks - 1 :
        chunk'[c] = IF c = mine[p] THEN [keys |-> keys, spilled |-> spilled]
                    ELSE chunk[c]
  BY DEF PutChunk, Inv, Types, TypeOK
<1>5. Types'
  BY <1>2 DEF PutChunk, Goto, cutVars, barrierVars, Inv, Types, TypeOK, Chunks,
     Gathering, Awaiting, Working
<1>6. ~Failed' /\ Barrier'
  BY CollectingBarrier DEF PutChunk, barrierVars
<1>7. At(Working)' = At(Working) \ {p}
  BY <1>3 DEF At, Working
<1>8. \A c \in Chunks : (Complete(c) \/ c = mine[p]) => Complete(c)'
  BY <1>2, <1>4 DEF Complete, cutVars
<1>9. \A c \in Chunks' : c < nextchunk' =>
        Complete(c)' \/ \E q \in At(Working)' : mine'[q] = c
  <2> SUFFICES ASSUME NEW c \in Chunks, c < nextchunk
               PROVE  Complete(c)' \/ \E q \in At(Working)' : mine'[q] = c
    BY DEF cutVars, Chunks
  <2>1. Complete(c) \/ \E q \in At(Working) : mine[q] = c
    BY <1>1 DEF Inv, Claims
  <2> QED
    BY <1>3, <1>7, <1>8, <2>1 DEF At
<1>10. Claims'
  BY <1>1, <1>3, <1>6, <1>7, <1>9 DEF cutVars, barrierVars, Inv, Claims, At,
     Working, Chunks, COLLECTING
<1> QED
  BY <1>5, <1>6, <1>10 DEF Inv

\* A step in which p only goes on with its chunk keeps the invariant.
LEMMA GoOnInv ==
  ASSUME Inv, NEW p \in Procs, pc[p] \in Working, NEW l \in Working, Goto(p, l),
         UNCHANGED <<cutVars, barrierVars, nextchunk, chunk, index, mine, view>>,
         held' \in Int, room' \in [Procs -> Nat], got' \in [Procs -> SUBSET Keys],
         \A q \in Procs : q # p => got'[q] = got[q],
         l \in {"reserve", "place", "giveback"} =>
           seen \cap KeyRange(nchunks, ckeys, mine[p]) \subseteq got'[p]
  PROVE  Inv'
<1>1. ~Failed /\ phase = COLLECTING
  BY WorkingCollects
<1>2. \A q \in Procs : pc'[q] = IF q = p THEN l ELSE pc[q]
  BY DEF Goto, Inv, Types
<1>3. Types'
  BY DEF Goto, cutVars, barrierVars, Inv, Types, TypeOK, Chunks, Gathering,
     Awaiting, Working
<1>4. ~Failed' /\ Barrier'
  BY CollectingBarrier DEF barrierVars
<1>5. At(Working)' = At(Working)
  BY <1>2 DEF At, Working
<1>6. Claims'
  BY <1>1, <1>2, <1>4, <1>5 DEF cutVars, barrierVars, Inv, Claims, At, Working,
     Chunks, Complete, COLLECTING
<1> QED
  BY <1>3, <1>4, <1>6 DEF Inv

\* The five steps of collecting a chunk keep the invariant.
LEMMA ChunkInv ==
  ASSUME Inv, NEW p \in Procs,
         ReadRoom(p) \/ Collect(p) \/ Reserve(p) \/ Place(p) \/ GiveBack(p)
  PROVE  Inv'
<1>1. /\ held \in Int /\ room \in [Procs -> Nat] /\ got \in [Procs -> SUBSET Keys]
      /\ Memory \in Nat /\ Cardinality(got[p]) \in Int
  <2>1. got[p] \subseteq Keys /\ IsFiniteSet(Keys)
    BY CutAssumption DEF Inv, Types
  <2>2. Cardinality(got[p]) \in Nat
    BY <2>1, FS_Subset, FS_CardinalityType
  <2> QED
    BY <2>2, MemoryAssumption DEF Inv, Types, TypeOK
<1>2. CASE ReadRoom(p)
  <2>1. room' \in [Procs -> Nat]
    BY <1>1, <1>2 DEF ReadRoom
  <2> QED
    BY <1>1, <1>2, <2>1, GoOnInv DEF ReadRoom, Working, copyVars
<1>3. CASE Collect(p)
  <2> DEFINE range == KeyRange(nchunks, ckeys, mine[p])
  <2>1. PICK others \in SUBSET (range \ seen) :
          LET keys == (seen \cap range) \cup others
          IN IF keys = {} \/ Outgrows(keys, room[p])
             THEN PutChunk(p, keys, keys # {})
             ELSE /\ got' = [got EXCEPT ![p] = keys]
                  /\ Goto(p, "reserve")
                  /\ UNCHANGED <<chunk, mine, room>>
    BY <1>3 DEF Collect
  <2> DEFINE keys == (seen \cap range) \cup others
  <2>2. keys \in SUBSET Keys /\ seen \cap range \subseteq keys
    BY DEF KeyRange
  <2>3. /\ pc[p] \in Working
        /\ UNCHANGED <<cutVars, barrierVars, nextchunk, held, index, view>>
    BY <1>3 DEF Collect, Working
  <2> HIDE DEF range, keys
  <2>4. CASE PutChunk(p, keys, keys # {})
    BY <1>1, <2>2, <2>3, <2>4, PutInv DEF range
  <2>5. CASE /\ got' = [got EXCEPT ![p] = keys]
             /\ Goto(p, "reserve")
             /\ UNCHANGED <<chunk, mine, room>>
    BY <1>1, <2>2, <2>3, <2>5, GoOnInv DEF Working, range
  <2> QED
    BY <2>1, <2>4, <2>5 DEF keys, range
<1>4. CASE Reserve(p)
  <2>1. /\ held' \in Int
        /\ pc[p] \in Working
        /\ UNCHANGED <<cutVars, barrierVars, nextchunk, chunk, index, procVars>>
        /\ Goto(p, "place") \/ Goto(p, "giveback")
    BY <1>1, <1>4 DEF Reserve, Working
  <2>2. seen \cap KeyRange(nchunks, ckeys, mine[p]) \subseteq got[p]
    BY <1>4 DEF Reserve, Inv, Claims, At
  <2>3. PICK l \in {"place", "giveback"} : Goto(p, l)
    BY <2>1
  <2> QED
    BY <1>1, <2>1, <2>2, <2>3, GoOnInv DEF Working, procVars
<1>5. CASE Place(p)
  <2>1. /\ pc[p] \in Working
        /\ UNCHANGED <<cutVars, barrierVars, nextchunk, held, index, view>>
    BY <1>5 DEF Place, Working
  <2>2. seen \cap KeyRange(nchunks, ckeys, mine[p]) \subseteq got[p]
    BY <1>5 DEF Place, Inv, Claims, At
  <2>3. CASE PutChunk(p, got[p], FALSE)
    BY <1>1, <2>1, <2>2, <2>3, PutInv
  <2>4. CASE Goto(p, "giveback") /\ UNCHANGED <<chunk, mine, room, got>>
    BY <1>1, <2>1, <2>2, <2>4, GoOnInv DEF Working
  <2> QED
    BY <1>5, <2>3, <2>4 DEF Place
<1>6. CASE GiveBack(p)
  <2>1. /\ held' = held - Cardinality(got[p])
        /\ pc[p] \in Working
        /\ UNCHANGED <<cutVars, barrierVars, nextchunk, index, view>>
        /\ PutChunk(p, got[p], TRUE)
    BY <1>6 DEF GiveBack, Working
  <2>3. held' \in Int
    BY <1>1, <2>1
  <2>2. seen \cap KeyRange(nchunks, ckeys, mine[p]) \subseteq got[p]
    BY <1>6 DEF GiveBack, Inv, Claims, At
  <2> QED
    BY <1>1, <2>1, <2>2, <2>3, PutInv
<1> QED
  BY <1>2, <1>3, <1>4, <1>5, <1>6

\* The participants that wait, index and leave keep the invariant.
LEMMA BarrierInv ==
  ASSUME Inv, NEW p \in Procs,
         NEW l \in Gathering \cup Awaiting \cup {"detach", "view", "reading"},
         l \notin Working \cup {"finish"},
         pc[p] \notin Working \cup {"failed"},
         Goto(p, l), UNCHANGED <<cutVars, nextchunk, held, chunk, mine, room, got>>,
         phase' \in {phase, phase + 1}, phase' \in {COLLECTING, INDEXING, DONE},
         arrived' \subseteq attached', attached' \subseteq Procs,
         phase = COLLECTING /\ phase' = INDEXING =>
           At(Working) = {} /\ nextchunk >= nchunks,
         l = "waitIndexing" => nextchunk >= nchunks,
         Barrier'
  PROVE  Inv'
<1>1. \A q \in Procs : pc'[q] = IF q = p THEN l ELSE pc[q]
  BY DEF Goto, Inv, Types
<1>2. UNCHANGED <<run, seen, nchunks, ckeys, nextchunk, held, chunk, mine, room, got>>
  BY DEF cutVars
<1>3. Types'
  BY <1>2 DEF Goto, Inv, Types, TypeOK, Chunks
<1>4. At(Working)' = At(Working) /\ ~Failed /\ ~Failed'
  <2>1. ~Failed
    BY Running
  <2> QED
    BY <1>1, <2>1 DEF At, Working, Gathering, Awaiting, Failed
<1>5. Chunks' = Chunks /\ \A c \in Chunks : Complete(c)' = Complete(c)
  BY <1>2 DEF Chunks, Complete
<1>6. phase' # COLLECTING => \A c \in Chunks : Complete(c)
  <2>1. CASE phase # COLLECTING
    BY <2>1 DEF Inv, Claims
  <2>2. CASE phase = COLLECTING /\ phase' = INDEXING
    <3>1. \A c \in Chunks : c < nextchunk
      BY <2>2 DEF Inv, Types, TypeOK, Chunks
    <3> QED
      BY <1>4, <2>2, <3>1 DEF Inv, Claims
  <2> QED
    BY <2>1, <2>2 DEF Inv, Types, TypeOK, COLLECTING, INDEXING, DONE
<1>7. Claims'
  <2>1. \A q \in At({"reserve", "place", "giveback"})' :
          q \in At({"reserve", "place", "giveback"})
    BY <1>1 DEF At, Working
  <2>2. At({"finish", "waitIndexing"})' # {} => nextchunk >= nchunks
    BY <1>1 DEF At, Inv, Claims
  <2>3. \A q \in Procs \ At(Working \cup {"failed"})' : mine[q] = None
    BY <1>1, <1>4 DEF Inv, Claims, At, Working, Failed
  <2> QED
    BY <1>2, <1>4, <1>5, <1>6, <2>1, <2>2, <2>3 DEF Inv, Claims
<1> QED
  BY <1>3, <1>7 DEF Inv

\* A participant that comes, whenever it comes, keeps the invariant.
LEMMA AttachInv == ASSUME Inv, NEW p \in Procs, Attach(p) PROVE Inv'
<1>1. /\ pc[p] = "out" /\ ~Failed /\ phase \in {COLLECTING, INDEXING, DONE}
      /\ attached' = attached \cup {p} /\ attached' \subseteq Procs
      /\ arrived' \subseteq attached'
      /\ UNCHANGED <<phase, arrived, index>>
      /\ UNCHANGED <<cutVars, nextchunk, held, chunk, mine, room, got>>
      /\ pc[p] \notin Working \cup {"failed"}
  BY Running DEF Attach, copyVars, procVars, Working, Inv, Types, TypeOK
<1>2. ~(phase = COLLECTING /\ phase' = INDEXING) /\ phase' \in {phase, phase + 1}
  BY <1>1 DEF COLLECTING, INDEXING
<1>3. CASE phase = COLLECTING
  <2>1. Goto(p, "claim")
    BY <1>3 DEF Attach, COLLECTING, INDEXING, DONE
  <2>2. \A q \in Procs : pc'[q] = IF q = p THEN "claim" ELSE pc[q]
    BY <2>1 DEF Goto, Inv, Types
  <2>3. Barrier'
    BY <1>1, <1>3, <2>2 DEF Inv, Barrier, Failed, At, Gathering, Working,
       COLLECTING, INDEXING, DONE
  <2> QED
    BY <1>1, <1>2, <2>1, <2>3, BarrierInv DEF Gathering, Working
<1>4. CASE phase = INDEXING
  <2>1. Goto(p, "arrive")
    BY <1>4 DEF Attach, COLLECTING, INDEXING, DONE
  <2>2. \A q \in Procs : pc'[q] = IF q = p THEN "arrive" ELSE pc[q]
    BY <2>1 DEF Goto, Inv, Types
  <2>3. Barrier'
    BY <1>1, <1>4, <2>2 DEF Inv, Barrier, Failed, At, Awaiting,
       COLLECTING, INDEXING, DONE
  <2> QED
    BY <1>1, <1>2, <2>1, <2>3, BarrierInv DEF Awaiting, Working
<1>5. CASE phase = DONE
  <2>1. Goto(p, "detach")
    BY <1>5 DEF Attach, COLLECTING, INDEXING, DONE
  <2>2. \A q \in Procs : pc'[q] = IF q = p THEN "detach" ELSE pc[q]
    BY <2>1 DEF Goto, Inv, Types
  <2>3. Barrier'
    BY <1>1, <1>5, <2>2 DEF Inv, Barrier, Failed, At, COLLECTING, INDEXING, DONE
  <2> QED
    BY <1>1, <1>2, <2>1, <2>3, BarrierInv DEF Working
<1> QED
  BY <1>1, <1>3, <1>4, <1>5

\* The first wait: the last to arrive finds every chunk complete, and is the
\* only one to index.
LEMMA CollectedInv == ASSUME Inv, NEW p \in Procs, ArriveCollected(p) PROVE Inv'
<1>1. /\ pc[p] = "finish" /\ ~Failed /\ phase = COLLECTING /\ index = None
      /\ attached = At(Gathering) /\ arrived = At({"waitIndexing"})
      /\ At(Gathering \cup {"out"}) = Procs
      /\ p \in attached /\ attached \subseteq Procs /\ arrived \subseteq attached
      /\ UNCHANGED <<cutVars, nextchunk, held, chunk, index, mine, room, got>>
      /\ pc[p] \notin Working \cup {"failed"}
  BY WorkingCollects DEF ArriveCollected, Inv, Barrier, copyVars, procVars,
     Working, Types, TypeOK
<1>2. nextchunk >= nchunks
  BY <1>1 DEF Inv, Claims, At
<1>3. CASE Elected(p)
  <2>1. phase' = INDEXING /\ arrived' = {} /\ attached' = attached /\ Goto(p, "index")
    BY <1>1, <1>3 DEF ArriveCollected, Arrive, COLLECTING, INDEXING
  <2>2. \A q \in Procs : pc'[q] = IF q = p THEN "index" ELSE pc[q]
    BY <2>1 DEF Goto, Inv, Types
  <2>3. \A q \in Procs : q = p \/ pc[q] \in {"waitIndexing", "out"}
    BY <1>1, <1>3 DEF Elected, At
  <2>4. Barrier'
    <3>1. attached' = At(Awaiting)'
      BY <1>1, <2>1, <2>2, <2>3 DEF At, Gathering, Working, Awaiting
    <3>2. At({"index"})' = {p} /\ At({"waitDone"})' = {} /\ ~Failed'
      BY <2>2, <2>3 DEF At, Failed
    <3>3. At(Awaiting \cup {"out"})' = Procs
      BY <2>2, <2>3 DEF At, Awaiting
    <3> QED
      BY <1>1, <2>1, <3>1, <3>2, <3>3 DEF Barrier, COLLECTING, INDEXING, DONE
  <2>5. At(Working) = {}
    BY <1>1, <2>3 DEF At, Working
  <2> QED
    BY <1>1, <1>2, <2>1, <2>4, <2>5, BarrierInv DEF Awaiting, Working,
       COLLECTING, INDEXING, DONE
<1>4. CASE ~Elected(p)
  <2>1. /\ phase' = phase /\ arrived' = arrived \cup {p} /\ attached' = attached
        /\ Goto(p, "waitIndexing")
    BY <1>4 DEF ArriveCollected, Arrive
  <2>2. \A q \in Procs : pc'[q] = IF q = p THEN "waitIndexing" ELSE pc[q]
    BY <2>1 DEF Goto, Inv, Types
  <2>3. Barrier'
    BY <1>1, <2>1, <2>2 DEF Barrier, Failed, At, Gathering, Working,
       COLLECTING, INDEXING, DONE
  <2> QED
    BY <1>1, <1>2, <2>1, <2>3, BarrierInv DEF Gathering, Working,
       COLLECTING, INDEXING, DONE
<1> QED
  BY <1>3, <1>4

\* Indexing keeps the invariant: who does it is the only one to.
LEMMA BuildInv == ASSUME Inv, NEW p \in Procs, Build(p) PROVE Inv'
<1>1. /\ pc[p] = "index" /\ ~Failed /\ phase = INDEXING
      /\ Goto(p, "arrive") /\ UNCHANGED barrierVars
      /\ UNCHANGED <<cutVars, nextchunk, held, chunk, mine, room, got>>
      /\ attached \subseteq Procs /\ arrived \subseteq attached
      /\ pc[p] \notin Working \cup {"failed"}
  BY Running DEF Build, procVars, Gathering, Working, COLLECTING, INDEXING, DONE,
     Inv, Types, TypeOK
<1>2. \A q \in Procs : pc'[q] = IF q = p THEN "arrive" ELSE pc[q]
  BY <1>1 DEF Goto, Inv, Types
<1>3. \A q \in Procs : pc[q] = "index" => q = p
  BY <1>1 DEF Inv, Barrier, At
<1>4. Barrier'
  <2>1. At({"index"})' = {}
    BY <1>2, <1>3 DEF At
  <2>2. At(Awaiting)' = At(Awaiting) /\ At({"waitDone"})' = At({"waitDone"})
    BY <1>1, <1>2 DEF At, Awaiting
  <2>3. At(Awaiting \cup {"out"})' = Procs /\ ~Failed'
    BY <1>1, <1>2 DEF At, Awaiting, Failed, Inv, Barrier
  <2> QED
    BY <1>1, <2>1, <2>2, <2>3 DEF Inv, Barrier, barrierVars, COLLECTING,
       INDEXING, DONE
<1> QED
  BY <1>1, <1>4, BarrierInv DEF barrierVars, Awaiting, Working, COLLECTING,
     INDEXING, DONE

\* The second wait: the last to arrive finds the copy indexed.
LEMMA IndexedInv == ASSUME Inv, NEW p \in Procs, ArriveIndexed(p) PROVE Inv'
<1>1. /\ pc[p] = "arrive" /\ ~Failed /\ phase = INDEXING
      /\ UNCHANGED <<cutVars, nextchunk, held, chunk, index, mine, room, got>>
      /\ pc[p] \notin Working \cup {"failed"}
  BY Running DEF ArriveIndexed, copyVars, procVars, Gathering, Working,
     COLLECTING, INDEXING, DONE
<1>2. /\ attached = At(Awaiting) /\ arrived = At({"waitDone"})
      /\ At(Awaiting \cup {"out"}) = Procs
      /\ p \in attached /\ attached \subseteq Procs /\ arrived \subseteq attached
  BY <1>1 DEF Inv, Barrier, Types, TypeOK, At, Awaiting
<1>3. CASE Elected(p)
  <2>1. phase' = DONE /\ arrived' = {} /\ attached' = attached /\ Goto(p, "detach")
    BY <1>1, <1>3 DEF ArriveIndexed, Arrive, INDEXING, DONE
  <2>2. \A q \in Procs : pc'[q] = IF q = p THEN "detach" ELSE pc[q]
    BY <2>1 DEF Goto, Inv, Types
  <2>3. \A q \in Procs : q = p \/ pc[q] \in {"waitDone", "out"}
    BY <1>2, <1>3 DEF Elected, At
  <2>4. Barrier'
    BY <2>1, <2>2, <2>3 DEF Barrier, Failed, At, COLLECTING, INDEXING, DONE
  <2> QED
    BY <1>1, <1>2, <2>1, <2>4, BarrierInv DEF Working, COLLECTING, INDEXING, DONE
<1>4. CASE ~Elected(p)
  <2>1. /\ phase' = phase /\ arrived' = arrived \cup {p} /\ attached' = attached
        /\ Goto(p, "waitDone")
    BY <1>4 DEF ArriveIndexed, Arrive
  <2>2. \A q \in Procs : pc'[q] = IF q = p THEN "waitDone" ELSE pc[q]
    BY <2>1 DEF Goto, Inv, Types
  <2>3. Barrier'
    <3>1. At(Awaiting)' = At(Awaiting) /\ At({"waitDone"})' = arrived \cup {p}
      BY <1>1, <1>2, <2>2 DEF At, Awaiting
    <3>2. At({"index"})' = At({"index"}) /\ ~Failed'
      BY <1>1, <2>2 DEF At, Failed
    <3>3. At(Awaiting \cup {"out"})' = Procs
      BY <1>2, <2>2 DEF At, Awaiting
    <3> QED
      BY <1>1, <1>2, <2>1, <3>1, <3>2, <3>3 DEF Inv, Barrier, COLLECTING,
         INDEXING, DONE
  <2> QED
    BY <1>1, <1>2, <2>1, <2>3, BarrierInv DEF Awaiting, Working, COLLECTING,
       INDEXING, DONE
<1> QED
  BY <1>3, <1>4

\* A waiter goes on when the phase it waits for has begun.
LEMMA WakeInv == ASSUME Inv, NEW p \in Procs, Wake(p) PROVE Inv'
<1>1. /\ ~Failed
      /\ UNCHANGED <<cutVars, nextchunk, held, chunk, index, mine, room, got>>
      /\ UNCHANGED barrierVars
      /\ pc[p] \notin Working \cup {"failed"}
      /\ attached \subseteq Procs /\ arrived \subseteq attached
  BY Running DEF Wake, copyVars, procVars, Working, Inv, Types, TypeOK
<1>2. CASE pc[p] = "waitIndexing" /\ phase # COLLECTING /\ Goto(p, "arrive")
  <2>1. phase = INDEXING
    BY <1>2, Running DEF COLLECTING, INDEXING, DONE
  <2>2. \A q \in Procs : pc'[q] = IF q = p THEN "arrive" ELSE pc[q]
    BY <1>2 DEF Goto, Inv, Types
  <2>3. Barrier'
    <3>1. /\ At(Awaiting)' = At(Awaiting)
          /\ At({"waitDone"})' = At({"waitDone"})
          /\ At({"index"})' = At({"index"})
          /\ At(Awaiting \cup {"out"})' = At(Awaiting \cup {"out"})
          /\ ~Failed'
      BY <1>1, <1>2, <2>2 DEF At, Awaiting, Failed
    <3> QED
      BY <1>1, <2>1, <3>1 DEF Inv, Barrier, barrierVars, COLLECTING, INDEXING, DONE
  <2> QED
    BY <1>1, <1>2, <2>1, <2>3, BarrierInv DEF barrierVars, Awaiting, Working,
       COLLECTING, INDEXING, DONE
<1>3. CASE pc[p] = "waitDone" /\ phase # INDEXING /\ Goto(p, "detach")
  <2>1. phase = DONE
    BY <1>3, Running DEF Gathering, Working, COLLECTING, INDEXING, DONE
  <2>2. \A q \in Procs : pc'[q] = IF q = p THEN "detach" ELSE pc[q]
    BY <1>3 DEF Goto, Inv, Types
  <2>3. Barrier'
    BY <1>1, <2>1, <2>2 DEF Inv, Barrier, barrierVars, At, Failed, COLLECTING,
       INDEXING, DONE
  <2> QED
    BY <1>1, <1>3, <2>1, <2>3, BarrierInv DEF barrierVars, Working, COLLECTING,
       INDEXING, DONE
<1> QED
  BY <1>2, <1>3 DEF Wake

\* Who detaches, and then reads, releases nobody: nobody waits any more.
LEMMA LeaveInv ==
  ASSUME Inv, NEW p \in Procs, Leave(p) \/ View(p)
  PROVE  Inv'
<1>1. /\ pc[p] \in {"detach", "view"} /\ ~Failed /\ phase = DONE
      /\ UNCHANGED <<cutVars, nextchunk, held, chunk, index, mine, room, got>>
      /\ pc[p] \notin Working \cup {"failed"}
      /\ attached \subseteq Procs /\ arrived = {}
  BY Running DEF Leave, View, copyVars, procVars, Gathering, Working, Awaiting,
     Inv, Types, TypeOK, Barrier, COLLECTING, INDEXING, DONE
<1>2. phase' = phase /\ arrived' = {} /\ attached' \subseteq Procs
  BY <1>1 DEF Leave, View, Detach, barrierVars
<1>3. PICK l \in {"view", "reading"} : Goto(p, l)
  BY DEF Leave, View
<1>4. \A q \in Procs : pc'[q] = IF q = p THEN l ELSE pc[q]
  BY <1>3 DEF Goto, Inv, Types
<1>5. Barrier'
  BY <1>1, <1>2, <1>4 DEF Inv, Barrier, At, Failed, COLLECTING, INDEXING, DONE
<1> QED
  BY <1>1, <1>2, <1>3, <1>5, BarrierInv DEF Working, COLLECTING, INDEXING, DONE

\* When the query fails everything stays as it is, and so does the invariant.
LEMMA FailInv == Inv /\ QueryFails => Inv'
<1> SUFFICES ASSUME Inv, QueryFails PROVE Inv'
  OBVIOUS
<1>1. /\ UNCHANGED <<cutVars, barrierVars, copyVars, procVars>>
      /\ \A q \in Procs : pc'[q] = "failed"
      /\ pc' \in [Procs -> {"failed"}]
      /\ Procs # {}
  BY DEF QueryFails
<1>2. At({"failed"})' = Procs /\ Failed' /\ At(Working)' = {}
  BY <1>1 DEF At, Failed, Working
<1>3. Types'
  BY <1>1 DEF cutVars, barrierVars, copyVars, procVars, Inv, Types, TypeOK, Chunks
<1>4. Barrier'
  BY <1>2 DEF Barrier
<1>5. Claims'
  BY <1>1, <1>2 DEF cutVars, barrierVars, copyVars, procVars, Inv, Claims, At,
     Working, Chunks, Complete
<1> QED
  BY <1>3, <1>4, <1>5 DEF Inv

\* Every step keeps the invariant.
LEMMA NextInv == Inv /\ [Next]_vars => Inv'
<1> SUFFICES ASSUME Inv, [Next]_vars PROVE Inv'
  OBVIOUS
<1>1. CASE Reinit
  BY <1>1, ReinitInv
<1>2. CASE QueryFails
  BY <1>2, FailInv
<1>3. ASSUME NEW p \in Procs, Attach(p) PROVE Inv'
  BY <1>3, AttachInv
<1>4. ASSUME NEW p \in Procs, Step(p) PROVE Inv'
  BY <1>4, ClaimInv, ChunkInv, CollectedInv, BuildInv, IndexedInv, WakeInv,
     LeaveInv DEF Step
<1>5. CASE UNCHANGED vars
  BY <1>5 DEF vars, cutVars, barrierVars, copyVars, procVars, Inv, Types,
     TypeOK, Chunks, Barrier, Claims, Failed, At, Complete
<1> QED
  BY <1>1, <1>2, <1>3, <1>4, <1>5 DEF Next

\* The invariant holds in every state of the shared copy.
THEOREM CopyInvariant == Spec => []Inv
<1> QED
  BY InitInv, NextInv, PTL DEF Spec

\* TypeOK, for any number of participants, chunks and keys.
THEOREM CopyTypes == Spec => []TypeOK
<1>1. Inv => TypeOK
  BY DEF Inv, Types
<1> QED
  BY <1>1, CopyInvariant, PTL

\* NothingMissed, for any number of participants, chunks and keys: when the
\* elected participant indexes the chunks of lion_count_shared.c they have
\* every key with rows the snapshot selects.
THEOREM CopyComplete == Spec => []NothingMissed
<1>1. Inv => NothingMissed
  <2> SUFFICES ASSUME Inv, phase # COLLECTING, NEW k \in seen
               PROVE  \E c \in Chunks : k \in chunk[c].keys
    BY DEF NothingMissed
  <2>1. /\ k \in Keys /\ k < ckeys /\ ckeys \in Nat \ {0}
        /\ nchunks \in Nat \ {0}
    BY CutAssumption DEF Inv, Types, TypeOK
  <2>2. PICK c \in 0 .. nchunks - 1 : k \in KeyRange(nchunks, ckeys, c)
    BY <2>1, RangesCover
  <2>3. Complete(c)
    BY <2>2 DEF Inv, Claims, Chunks
  <2> QED
    BY <2>2, <2>3 DEF Complete, Chunks
<1> QED
  BY <1>1, CopyInvariant, PTL

\* NeverWrittenAgain, for any number of participants, chunks and keys: a copy
\* that is indexed stays as it is for the rest of its run, so that it can be
\* read in place without a lock.
THEOREM CopySettled == Spec => NeverWrittenAgain
<1>1. Inv /\ [Next]_vars => [index # None /\ run' = run => UNCHANGED <<chunk, index>>]_vars
  <2> SUFFICES ASSUME Inv, Next, index # None, run' = run
               PROVE  UNCHANGED <<chunk, index>>
    BY DEF vars
  <2>1. ~Reinit
    BY DEF Reinit, Inv, Types
  <2>2. CASE QueryFails
    BY <2>2 DEF QueryFails, copyVars
  <2>3. ASSUME NEW p \in Procs, Attach(p) PROVE UNCHANGED <<chunk, index>>
    BY <2>3 DEF Attach, copyVars
  <2>4. ASSUME NEW p \in Procs, Step(p) PROVE UNCHANGED <<chunk, index>>
    <3>1. pc[p] \notin Working \cup {"claim", "finish"}
      BY WorkingCollects
    <3>2. pc[p] # "index"
      <4>1. SUFFICES ASSUME pc[p] = "index" PROVE FALSE
        OBVIOUS
      <4>2. ~Failed /\ phase = INDEXING
        BY <4>1, Running DEF Gathering, Working, COLLECTING, INDEXING, DONE
      <4> QED
        BY <4>1, <4>2 DEF Inv, Barrier, At
    <3>3. ArriveIndexed(p) \/ Wake(p) \/ Leave(p) \/ View(p)
      BY <2>4, <3>1, <3>2 DEF Step, Claim, ReadRoom, Collect, Reserve, Place,
         GiveBack, ArriveCollected, Build, Working
    <3> QED
      BY <3>3 DEF ArriveIndexed, Wake, Leave, View, copyVars
  <2> QED
    BY <2>1, <2>2, <2>3, <2>4 DEF Next
<1> QED
  BY <1>1, CopyInvariant, PTL DEF Spec, NeverWrittenAgain

-----------------------------------------------------------------------------
(* The memory.                                                             *)

\* the containers of the chunks for which memory is reserved
Reserving(labels) == {x \in Procs \X Keys : /\ pc[x[1]] \in labels
                                             /\ x[2] \in got[x[1]]}

\* a chunk that is not claimed, or is being collected, is still empty, and
\* no two participants collect the same one
Owners ==
  /\ \A p \in At(Working) : mine[p] < nextchunk /\ chunk[mine[p]].keys = {}
  /\ \A p, q \in At(Working) : mine[p] = mine[q] => p = q
  /\ \A c \in Chunks : c >= nextchunk => chunk[c].keys = {}

\* held counts what is in memory and what is reserved for a chunk or not yet
\* given back; what may still be placed fits
Space ==
  /\ MemoryBound
  /\ ~Failed =>
       /\ held = Cardinality(InMemory)
                  + Cardinality(Reserving({"place", "giveback"}))
       /\ Cardinality(InMemory) + Cardinality(Reserving({"place"})) <= Memory

\* What is in memory or reserved is finite.
LEMMA SpaceFinite ==
  ASSUME Inv
  PROVE  /\ IsFiniteSet(InMemory)
         /\ \A labels : IsFiniteSet(Reserving(labels))
<1>1. IsFiniteSet(Keys) /\ IsFiniteSet(Procs) /\ nchunks \in Nat
  BY CutAssumption, ProcsAssumption DEF Inv, Types, TypeOK
<1>2. IsFiniteSet(Chunks)
  BY <1>1, FS_Interval DEF Chunks
<1>3. IsFiniteSet(Chunks \X Keys) /\ IsFiniteSet(Procs \X Keys)
  BY <1>1, <1>2, FS_Product
<1>4. InMemory \subseteq Chunks \X Keys
  BY DEF InMemory
<1>5. \A labels : Reserving(labels) \subseteq Procs \X Keys
  BY DEF Reserving
<1> QED
  BY <1>3, <1>4, <1>5, FS_Subset

\* A chunk's containers, each with the chunk or with its collector, are as
\* many as its keys.
LEMMA PairedCount ==
  ASSUME NEW x, NEW keys, IsFiniteSet(keys)
  PROVE  /\ IsFiniteSet({x} \X keys)
         /\ Cardinality({x} \X keys) = Cardinality(keys)
<1>1. IsFiniteSet({x}) /\ Cardinality({x}) = 1
  BY FS_Singleton
<1>2. Cardinality({x} \X keys) = 1 * Cardinality(keys) /\ IsFiniteSet({x} \X keys)
  BY <1>1, FS_Product
<1>3. Cardinality(keys) \in Nat
  BY FS_CardinalityType
<1> QED
  BY <1>2, <1>3

\* Containers that are added to others, and are none of them, add up.
LEMMA Joined ==
  ASSUME NEW S, NEW T, IsFiniteSet(S), IsFiniteSet(T), S \cap T = {}
  PROVE  /\ IsFiniteSet(S \cup T)
         /\ Cardinality(S \cup T) = Cardinality(S) + Cardinality(T)
         /\ Cardinality(S) \in Nat /\ Cardinality(T) \in Nat
<1>1. Cardinality(S \cup T) = Cardinality(S) + Cardinality(T) - Cardinality(S \cap T)
  BY FS_Union
<1>2. Cardinality(S \cap T) = 0
  BY FS_EmptySet
<1>3. Cardinality(S) \in Nat /\ Cardinality(T) \in Nat
  BY FS_CardinalityType
<1> QED
  BY <1>1, <1>2, <1>3, FS_Union

Mem == Owners /\ Space

\* A step that leaves the chunks and what is reserved for them alone keeps
\* the memory's invariant.
LEMMA QuietMem ==
  ASSUME Inv, Inv', Mem, UNCHANGED <<nchunks, held, chunk, mine, nextchunk>>,
         ~Failed, ~Failed',
         \A q \in Procs :
           \/ pc'[q] = pc[q] /\ got'[q] = got[q]
           \/ /\ pc[q] \notin {"place", "giveback"}
              /\ pc'[q] \notin {"place", "giveback"}
              /\ pc'[q] \in Working => pc[q] \in Working,
         phase' # COLLECTING => phase # COLLECTING \/ At(Working) = {}
  PROVE  Mem'
<1>1. At(Working)' \subseteq At(Working)
  BY DEF At, Working
<1>2. /\ Reserving({"place", "giveback"})' = Reserving({"place", "giveback"})
      /\ Reserving({"place"})' = Reserving({"place"})
  BY DEF Reserving
<1>3. InMemory' = InMemory /\ Chunks' = Chunks
  BY DEF InMemory, Chunks
<1>4. Owners'
  BY <1>1, <1>3 DEF Mem, Owners
<1>5. CASE phase' # COLLECTING /\ At(Working) = {}
  <2>1. Reserving({"place", "giveback"}) = {}
    BY <1>5 DEF Reserving, At, Working
  <2>2. Cardinality(Reserving({"place", "giveback"})) = 0
    BY <2>1, FS_EmptySet
  <2>3. Cardinality(InMemory) \in Nat
    BY SpaceFinite, FS_CardinalityType
  <2>4. held = Cardinality(InMemory)
    BY <2>2, <2>3 DEF Mem, Space
  <2> QED
    BY <1>2, <1>3, <1>4, <2>4 DEF Mem, Space, MemoryBound
<1>6. CASE ~(phase' # COLLECTING /\ At(Working) = {})
  BY <1>2, <1>3, <1>4, <1>6 DEF Mem, Space, MemoryBound
<1> QED
  BY <1>5, <1>6

\* Claiming a chunk keeps the memory's invariant: it is nobody else's and
\* empty.
LEMMA ClaimMem == ASSUME Inv, Inv', Mem, NEW p \in Procs, Claim(p) PROVE Mem'
<1>1. /\ ~Failed /\ phase = COLLECTING /\ pc[p] = "claim"
      /\ UNCHANGED <<nchunks, phase, held, chunk, got>>
      /\ nextchunk \in Nat /\ nextchunk' = nextchunk + 1 /\ nchunks \in Nat
  BY WorkingCollects DEF Claim, cutVars, barrierVars, Inv, Types, TypeOK
<1>2. PICK l \in {"finish", "room"} : pc' = [pc EXCEPT ![p] = l]
  BY DEF Claim, Goto
<1>3. \A q \in Procs : pc'[q] = IF q = p THEN l ELSE pc[q]
  BY <1>2 DEF Inv, Types
<1>4. ~Failed'
  BY <1>1, <1>3 DEF Failed, At
<1>5. /\ Reserving({"place", "giveback"})' = Reserving({"place", "giveback"})
      /\ Reserving({"place"})' = Reserving({"place"})
      /\ InMemory' = InMemory /\ Chunks' = Chunks
  BY <1>1, <1>3 DEF Reserving, InMemory, Chunks
<1>6. Space'
  BY <1>1, <1>4, <1>5 DEF Mem, Space, MemoryBound
<1>7. CASE nextchunk >= nchunks
  <2>1. At(Working)' = At(Working) /\ mine' = mine
    BY <1>1, <1>3, <1>7 DEF Claim, At, Working, Goto, Inv, Types
  <2>2. \A q \in At(Working) : mine[q] \in Nat
    BY <1>1 DEF Inv, Claims, Chunks
  <2>3. \A c \in Chunks' : c >= nextchunk' => c >= nextchunk
    BY <1>1 DEF Chunks
  <2> QED
    BY <1>1, <1>5, <1>6, <2>1, <2>2, <2>3 DEF Mem, Owners
<1>8. CASE ~(nextchunk >= nchunks)
  <2>1. \A q \in Procs : /\ mine'[q] = IF q = p THEN nextchunk ELSE mine[q]
                         /\ pc'[q] = IF q = p THEN "room" ELSE pc[q]
    BY <1>8 DEF Claim, Goto, Inv, Types
  <2>2. At(Working)' = At(Working) \cup {p} /\ p \notin At(Working)
    BY <1>1, <2>1 DEF At, Working
  <2>3. nextchunk \in Chunks
    BY <1>1, <1>8 DEF Chunks
  <2>4. \A q \in At(Working) : mine[q] \in Nat /\ mine[q] < nextchunk
    BY <1>1 DEF Inv, Claims, Chunks, Mem, Owners
  <2>5. \A q \in At(Working)' : mine'[q] < nextchunk' /\ chunk'[mine'[q]].keys = {}
    BY <1>1, <2>1, <2>2, <2>3, <2>4 DEF Mem, Owners, At
  <2>6. \A q, r \in At(Working)' : mine'[q] = mine'[r] => q = r
    BY <1>1, <2>1, <2>2, <2>4 DEF Mem, Owners, At
  <2>7. \A c \in Chunks' : c >= nextchunk' => chunk'[c].keys = {}
    BY <1>1, <1>5 DEF Mem, Owners, Chunks
  <2> QED
    BY <1>6, <2>5, <2>6, <2>7 DEF Mem, Owners
<1> QED
  BY <1>7, <1>8

\* Publishing a chunk changes nobody else's, and leaves the chunks not
\* claimed empty.
LEMMA PutOwners ==
  ASSUME Inv, Mem, NEW p \in Procs, pc[p] \in Working,
         NEW keys \in SUBSET Keys, NEW spilled \in BOOLEAN,
         PutChunk(p, keys, spilled), UNCHANGED <<nchunks, nextchunk>>
  PROVE  /\ Owners'
         /\ mine[p] \in Chunks /\ Chunks' = Chunks
         /\ \A c \in Chunks :
              chunk'[c] = IF c = mine[p] THEN [keys |-> keys, spilled |-> spilled]
                          ELSE chunk[c]
         /\ \A q \in Procs : /\ pc'[q] = IF q = p THEN "claim" ELSE pc[q]
                             /\ got'[q] = IF q = p THEN {} ELSE got[q]
<1>1. /\ mine[p] \in Chunks /\ Chunks \subseteq 0 .. MaxChunks - 1
      /\ nextchunk \in Nat /\ nchunks \in Nat
  BY CutAssumption DEF Inv, Claims, At, Types, TypeOK, Chunks
<1>2. \A q \in Procs : /\ pc'[q] = IF q = p THEN "claim" ELSE pc[q]
                       /\ mine'[q] = IF q = p THEN None ELSE mine[q]
                       /\ got'[q] = IF q = p THEN {} ELSE got[q]
  BY DEF PutChunk, Goto, Inv, Types
<1>3. \A c \in 0 .. MaxChunks - 1 :
        chunk'[c] = IF c = mine[p] THEN [keys |-> keys, spilled |-> spilled]
                    ELSE chunk[c]
  BY DEF PutChunk, Inv, Types, TypeOK
<1>4. At(Working)' = At(Working) \ {p} /\ p \in At(Working)
  BY <1>2 DEF At, Working
<1>5. \A q \in At(Working)' : /\ mine'[q] = mine[q] /\ mine[q] # mine[p]
                              /\ mine[q] \in Chunks
  BY <1>2, <1>4 DEF Mem, Owners, Inv, Claims, At
<1>6. \A q \in At(Working)' : mine'[q] < nextchunk' /\ chunk'[mine'[q]].keys = {}
  <2> SUFFICES ASSUME NEW q \in At(Working)'
               PROVE  mine[q] < nextchunk /\ chunk'[mine[q]].keys = {}
    BY <1>5
  <2>1. q \in At(Working) /\ mine[q] # mine[p] /\ mine[q] \in 0 .. MaxChunks - 1
    BY <1>1, <1>4, <1>5
  <2>2. chunk'[mine[q]] = chunk[mine[q]]
    BY <1>3, <2>1
  <2> QED
    BY <2>1, <2>2 DEF Mem, Owners
<1>7. \A q, r \in At(Working)' : mine'[q] = mine'[r] => q = r
  BY <1>4, <1>5 DEF Mem, Owners
<1>8. Chunks' = Chunks
  BY DEF Chunks
<1>9. \A c \in Chunks' : c >= nextchunk' => chunk'[c].keys = {}
  <2>1. mine[p] < nextchunk /\ mine[p] \in Nat
    BY <1>1, <1>4 DEF Mem, Owners, Chunks
  <2> QED
    BY <1>1, <1>3, <1>8, <2>1 DEF Mem, Owners, Chunks
<1> QED
  BY <1>1, <1>2, <1>3, <1>6, <1>7, <1>8, <1>9 DEF Owners

\* A chunk that is empty, or goes to its file, takes nothing.
LEMMA SpillMem ==
  ASSUME Inv, Mem, NEW p \in Procs, pc[p] \in Working,
         NEW keys \in SUBSET Keys, NEW spilled \in BOOLEAN,
         spilled \/ keys = {},
         PutChunk(p, keys, spilled),
         UNCHANGED <<nchunks, nextchunk, phase>>,
         \/ held' = held /\ pc[p] \notin {"place", "giveback"}
         \/ held' = held - Cardinality(got[p]) /\ pc[p] = "giveback"
  PROVE  Mem'
<1>1. ~Failed /\ phase = COLLECTING
  BY WorkingCollects
<1>2. /\ Owners'
      /\ mine[p] \in Chunks /\ Chunks' = Chunks
      /\ \A c \in Chunks :
           chunk'[c] = IF c = mine[p] THEN [keys |-> keys, spilled |-> spilled]
                       ELSE chunk[c]
      /\ \A q \in Procs : /\ pc'[q] = IF q = p THEN "claim" ELSE pc[q]
                          /\ got'[q] = IF q = p THEN {} ELSE got[q]
  BY PutOwners
<1>3. ~Failed'
  BY <1>1, <1>2 DEF Failed, At
<1>4. chunk[mine[p]].keys = {}
  BY DEF Mem, Owners, At
<1>5. InMemory' = InMemory
  BY <1>2, <1>4 DEF InMemory
<1>6. Reserving({"place"})' = Reserving({"place"})
  <2>1. pc[p] # "place"
    OBVIOUS
  <2> QED
    BY <1>2, <2>1 DEF Reserving
<1>7. IsFiniteSet(Reserving({"place", "giveback"})) /\ Cardinality(InMemory) \in Nat
  BY SpaceFinite, FS_CardinalityType
<1>8. held' = Cardinality(InMemory) + Cardinality(Reserving({"place", "giveback"})')
  <2>1. CASE held' = held /\ pc[p] \notin {"place", "giveback"}
    <3>1. Reserving({"place", "giveback"})' = Reserving({"place", "giveback"})
      BY <1>2, <2>1 DEF Reserving
    <3> QED
      BY <1>1, <2>1, <3>1 DEF Mem, Space
  <2>2. CASE held' = held - Cardinality(got[p]) /\ pc[p] = "giveback"
    <3> DEFINE rest == Reserving({"place", "giveback"})'
               its == {p} \X got[p]
    <3>1. Reserving({"place", "giveback"}) = rest \cup its /\ rest \cap its = {}
      BY <1>2, <2>2 DEF Reserving, Inv, Types
    <3>2. IsFiniteSet(got[p])
      BY CutAssumption, FS_Subset DEF Inv, Types
    <3>3. IsFiniteSet(its) /\ Cardinality(its) = Cardinality(got[p])
      BY <3>2, PairedCount
    <3>4. IsFiniteSet(rest)
      BY <1>7, <3>1, FS_Subset
    <3> HIDE DEF rest, its
    <3>5. /\ Cardinality(rest \cup its) = Cardinality(rest) + Cardinality(its)
          /\ Cardinality(rest) \in Nat /\ Cardinality(its) \in Nat
      BY <3>1, <3>3, <3>4, Joined
    <3>6. held = Cardinality(InMemory) + Cardinality(rest \cup its)
      BY <1>1, <3>1 DEF Mem, Space
    <3> QED
      BY <1>7, <2>2, <3>3, <3>5, <3>6 DEF rest
  <2> QED
    BY <2>1, <2>2
<1> QED
  BY <1>1, <1>2, <1>3, <1>5, <1>6, <1>8 DEF Mem, Space, MemoryBound

\* A chunk that is placed takes what was reserved for it.
LEMMA PlaceMem ==
  ASSUME Inv, Mem, NEW p \in Procs, pc[p] = "place", PutChunk(p, got[p], FALSE),
         UNCHANGED <<nchunks, nextchunk, phase, held>>
  PROVE  Mem'
<1>1. ~Failed /\ phase = COLLECTING
  BY WorkingCollects DEF Working
<1>2. pc[p] \in Working /\ got[p] \in SUBSET Keys /\ FALSE \in BOOLEAN
  BY DEF Working, Inv, Types
<1>3. /\ Owners'
      /\ mine[p] \in Chunks /\ Chunks' = Chunks
      /\ \A c \in Chunks :
           chunk'[c] = IF c = mine[p] THEN [keys |-> got[p], spilled |-> FALSE]
                       ELSE chunk[c]
      /\ \A q \in Procs : /\ pc'[q] = IF q = p THEN "claim" ELSE pc[q]
                          /\ got'[q] = IF q = p THEN {} ELSE got[q]
  BY <1>2, PutOwners
<1>4. ~Failed'
  BY <1>1, <1>3 DEF Failed, At
<1>5. chunk[mine[p]].keys = {}
  BY <1>2 DEF Mem, Owners, At
<1> DEFINE new == {mine[p]} \X got[p]
           its == {p} \X got[p]
           both == Reserving({"place", "giveback"})'
           placing == Reserving({"place"})'
<1>6. InMemory' = InMemory \cup new /\ InMemory \cap new = {}
  BY <1>2, <1>3, <1>5 DEF InMemory
<1>7. /\ Reserving({"place", "giveback"}) = both \cup its /\ both \cap its = {}
      /\ Reserving({"place"}) = placing \cup its /\ placing \cap its = {}
  BY <1>2, <1>3 DEF Reserving
<1>8. IsFiniteSet(got[p])
  BY <1>2, CutAssumption, FS_Subset
<1>9. /\ IsFiniteSet(new) /\ Cardinality(new) = Cardinality(got[p])
      /\ IsFiniteSet(its) /\ Cardinality(its) = Cardinality(got[p])
  BY <1>8, PairedCount
<1>10. IsFiniteSet(InMemory) /\ IsFiniteSet(both) /\ IsFiniteSet(placing)
  BY <1>7, SpaceFinite, FS_Subset
<1>11. MemoryBound /\ held = Cardinality(InMemory)
           + Cardinality(Reserving({"place", "giveback"}))
       /\ Cardinality(InMemory) + Cardinality(Reserving({"place"})) <= Memory
  BY <1>1 DEF Mem, Space
<1> HIDE DEF new, its, both, placing
<1>12. /\ Cardinality(InMemory') = Cardinality(InMemory) + Cardinality(new)
       /\ Cardinality(InMemory) \in Nat /\ Cardinality(new) \in Nat
  BY <1>6, <1>9, <1>10, Joined
<1>13. /\ Cardinality(Reserving({"place", "giveback"})) = Cardinality(both) + Cardinality(its)
       /\ Cardinality(both) \in Nat
  BY <1>7, <1>9, <1>10, Joined
<1>14. /\ Cardinality(Reserving({"place"})) = Cardinality(placing) + Cardinality(its)
       /\ Cardinality(placing) \in Nat
  BY <1>7, <1>9, <1>10, Joined
<1>15. /\ held' = Cardinality(InMemory') + Cardinality(both)
       /\ Cardinality(InMemory') + Cardinality(placing) <= Memory
       /\ Cardinality(InMemory') <= Memory
  BY <1>9, <1>11, <1>12, <1>13, <1>14, MemoryAssumption
<1> QED
  BY <1>1, <1>3, <1>15 DEF Mem, Space, MemoryBound, both, placing

\* Memory is reserved only as far as the chunks that may be placed all fit.
LEMMA ReserveMem == ASSUME Inv, Inv', Mem, NEW p \in Procs, Reserve(p) PROVE Mem'
<1>1. /\ pc[p] = "reserve" /\ pc[p] \in Working /\ ~Failed /\ phase = COLLECTING
      /\ UNCHANGED <<nchunks, nextchunk, phase, chunk, mine, got>>
      /\ held' = held + Cardinality(got[p])
  BY WorkingCollects DEF Reserve, Working, cutVars, barrierVars, procVars
<1>2. PICK l \in {"place", "giveback"} :
        Goto(p, l) /\ (l = "place" => held' <= Memory)
  BY DEF Reserve
<1>3. \A q \in Procs : pc'[q] = IF q = p THEN l ELSE pc[q]
  BY <1>2 DEF Goto, Inv, Types
<1>4. At(Working)' = At(Working) /\ Chunks' = Chunks /\ InMemory' = InMemory /\ ~Failed'
  BY <1>1, <1>3 DEF At, Working, Chunks, InMemory, Failed
<1>5. Owners'
  BY <1>1, <1>4 DEF Mem, Owners
<1> DEFINE its == {p} \X got[p]
           both == Reserving({"place", "giveback"})
           placing == Reserving({"place"})'
<1>6. Reserving({"place", "giveback"})' = both \cup its /\ both \cap its = {}
  BY <1>1, <1>3 DEF Reserving, Inv, Types
<1>7. IsFiniteSet(got[p])
  BY CutAssumption, FS_Subset DEF Inv, Types
<1>8. IsFiniteSet(its) /\ Cardinality(its) = Cardinality(got[p])
  BY <1>7, PairedCount
<1>9. IsFiniteSet(both) /\ Cardinality(InMemory) \in Nat
  BY SpaceFinite, FS_CardinalityType
<1>10. IF l = "place" THEN placing \subseteq both \cup its
       ELSE placing = Reserving({"place"})
  BY <1>1, <1>3, <1>6 DEF Reserving
<1>11. held = Cardinality(InMemory) + Cardinality(both)
  BY <1>1 DEF Mem, Space
<1> HIDE DEF its, both, placing
<1>12. /\ IsFiniteSet(both \cup its)
       /\ Cardinality(both \cup its) = Cardinality(both) + Cardinality(its)
       /\ Cardinality(both) \in Nat /\ Cardinality(its) \in Nat
  BY <1>6, <1>8, <1>9, Joined
<1>13. held' = Cardinality(InMemory) + Cardinality(both \cup its)
  BY <1>1, <1>8, <1>9, <1>11, <1>12
<1>14. Cardinality(InMemory) + Cardinality(placing) <= Memory
  <2>1. CASE l = "place"
    <3>1. placing \subseteq both \cup its
      BY <1>10, <2>1
    <3>2. Cardinality(placing) <= Cardinality(both \cup its) /\ IsFiniteSet(placing)
      BY <1>12, <3>1, FS_Subset
    <3>3. Cardinality(placing) \in Nat /\ Cardinality(both \cup its) \in Nat
      BY <1>12, <3>2, FS_CardinalityType
    <3>4. held' <= Memory
      BY <1>2, <2>1
    <3> QED
      BY <1>9, <1>13, <3>2, <3>3, <3>4, MemoryAssumption
  <2>2. CASE l # "place"
    BY <1>1, <1>10, <2>2 DEF Mem, Space
  <2> QED
    BY <2>1, <2>2
<1>15. MemoryBound'
  BY <1>1, <1>4 DEF Mem, Space, MemoryBound
<1> QED
  BY <1>4, <1>5, <1>6, <1>13, <1>14, <1>15 DEF Mem, Space, placing

\* The five steps of collecting a chunk keep the memory's invariant.
LEMMA ChunkMem ==
  ASSUME Inv, Inv', Mem, NEW p \in Procs,
         ReadRoom(p) \/ Collect(p) \/ Reserve(p) \/ Place(p) \/ GiveBack(p)
  PROVE  Mem'
<1>1. ~Failed /\ phase = COLLECTING /\ pc[p] \in Working
  <2>1. pc[p] \in Working
    BY DEF ReadRoom, Collect, Reserve, Place, GiveBack, Working
  <2> QED
    BY <2>1, WorkingCollects
<1>2. CASE ReadRoom(p)
  <2>1. /\ pc[p] = "room" /\ Goto(p, "collect")
        /\ UNCHANGED <<nchunks, held, chunk, mine, nextchunk, phase, got>>
    BY <1>2 DEF ReadRoom, cutVars, barrierVars, copyVars
  <2>2. \A q \in Procs : pc'[q] = IF q = p THEN "collect" ELSE pc[q]
    BY <2>1 DEF Goto, Inv, Types
  <2>3. ~Failed'
    BY <1>1, <2>2 DEF Failed, At
  <2> QED
    BY <1>1, <2>1, <2>2, <2>3, QuietMem DEF Working
<1>3. CASE Collect(p)
  <2> DEFINE range == KeyRange(nchunks, ckeys, mine[p])
  <2>1. PICK others \in SUBSET (range \ seen) :
          LET keys == (seen \cap range) \cup others
          IN IF keys = {} \/ Outgrows(keys, room[p])
             THEN PutChunk(p, keys, keys # {})
             ELSE /\ got' = [got EXCEPT ![p] = keys]
                  /\ Goto(p, "reserve")
                  /\ UNCHANGED <<chunk, mine, room>>
    BY <1>3 DEF Collect
  <2> DEFINE keys == (seen \cap range) \cup others
  <2>2. keys \in SUBSET Keys
    BY DEF KeyRange
  <2>3. /\ pc[p] = "collect"
        /\ UNCHANGED <<nchunks, nextchunk, held, phase>>
    BY <1>3 DEF Collect, cutVars, barrierVars
  <2> HIDE DEF range, keys
  <2>4. CASE PutChunk(p, keys, keys # {})
    <3>1. PICK spilled \in BOOLEAN : spilled <=> keys # {}
      OBVIOUS
    <3>2. PutChunk(p, keys, spilled) /\ (spilled \/ keys = {})
      BY <2>4, <3>1
    <3> QED
      BY <1>1, <2>2, <2>3, <3>2, SpillMem
  <2>5. CASE /\ got' = [got EXCEPT ![p] = keys]
             /\ Goto(p, "reserve")
             /\ UNCHANGED <<chunk, mine, room>>
    <3>1. \A q \in Procs : /\ pc'[q] = IF q = p THEN "reserve" ELSE pc[q]
                           /\ q # p => got'[q] = got[q]
      BY <2>5 DEF Goto, Inv, Types
    <3>2. ~Failed'
      BY <1>1, <3>1 DEF Failed, At
    <3> QED
      BY <1>1, <2>3, <2>5, <3>1, <3>2, QuietMem DEF Working
  <2> QED
    BY <2>1, <2>4, <2>5 DEF keys, range
<1>4. CASE Place(p)
  <2>1. pc[p] = "place" /\ UNCHANGED <<nchunks, nextchunk, phase, held>>
    BY <1>4 DEF Place, cutVars, barrierVars
  <2>2. CASE PutChunk(p, got[p], FALSE)
    BY <2>1, <2>2, PlaceMem
  <2>3. CASE Goto(p, "giveback") /\ UNCHANGED <<chunk, mine, room, got>>
    <3>1. \A q \in Procs : pc'[q] = IF q = p THEN "giveback" ELSE pc[q]
      BY <2>3 DEF Goto, Inv, Types
    <3>2. /\ At(Working)' = At(Working) /\ Chunks' = Chunks /\ InMemory' = InMemory
          /\ ~Failed'
      BY <1>1, <2>1, <2>3, <3>1 DEF At, Working, Chunks, InMemory, Failed
    <3>3. Owners'
      BY <2>1, <2>3, <3>2 DEF Mem, Owners
    <3>4. /\ Reserving({"place", "giveback"})' = Reserving({"place", "giveback"})
          /\ Reserving({"place"})' \subseteq Reserving({"place"})
      BY <2>1, <2>3, <3>1 DEF Reserving
    <3>5. /\ Cardinality(Reserving({"place"})') <= Cardinality(Reserving({"place"}))
          /\ IsFiniteSet(Reserving({"place"})') /\ IsFiniteSet(Reserving({"place"}))
      BY <3>4, SpaceFinite, FS_Subset
    <3>6. /\ Cardinality(Reserving({"place"})') \in Nat
          /\ Cardinality(Reserving({"place"})) \in Nat
          /\ Cardinality(InMemory) \in Nat
      BY <3>5, SpaceFinite, FS_CardinalityType
    <3>7. Cardinality(InMemory) + Cardinality(Reserving({"place"})') <= Memory
      BY <1>1, <3>5, <3>6, MemoryAssumption DEF Mem, Space
    <3> QED
      BY <1>1, <2>1, <3>2, <3>3, <3>4, <3>7 DEF Mem, Space, MemoryBound
  <2> QED
    BY <1>4, <2>2, <2>3 DEF Place
<1>5. CASE GiveBack(p)
  <2>1. /\ pc[p] = "giveback" /\ held' = held - Cardinality(got[p])
        /\ PutChunk(p, got[p], TRUE)
        /\ UNCHANGED <<nchunks, nextchunk, phase>>
        /\ got[p] \in SUBSET Keys
    BY <1>5 DEF GiveBack, cutVars, barrierVars, Inv, Types
  <2> QED
    BY <1>1, <2>1, SpillMem
<1> QED
  BY <1>2, <1>3, <1>4, <1>5, ReserveMem

\* When a run begins nothing is in memory and nothing is reserved.
LEMMA EmptyMem ==
  ASSUME Inv, nextchunk = 0, held = 0, phase = COLLECTING,
         chunk = [c \in 0 .. MaxChunks - 1 |-> EmptyChunk],
         \A p \in Procs : pc[p] = "out"
  PROVE  Mem
<1>1. \A c \in Chunks : chunk[c].keys = {}
  BY CutAssumption DEF Inv, Types, TypeOK, Chunks, EmptyChunk
<1>2. InMemory = {} /\ Reserving({"place", "giveback"}) = {} /\ Reserving({"place"}) = {}
  BY <1>1 DEF InMemory, Reserving
<1>3. /\ Cardinality(InMemory) = 0 /\ Cardinality(Reserving({"place"})) = 0
      /\ Cardinality(Reserving({"place", "giveback"})) = 0
  BY <1>2, FS_EmptySet
<1>4. At(Working) = {}
  BY DEF At, Working
<1>5. Owners
  BY <1>1, <1>4 DEF Owners
<1>6. Space
  <2>1. 0 + 0 <= Memory /\ 0 <= Memory /\ 0 = 0 + 0
    BY MemoryAssumption
  <2> QED
    BY <1>3, <2>1 DEF Space, MemoryBound
<1> QED
  BY <1>5, <1>6 DEF Mem

\* Every step keeps the memory's invariant.
LEMMA NextMem == Inv /\ Inv' /\ Mem /\ [Next]_vars => Mem'
<1> SUFFICES ASSUME Inv, Inv', Mem, [Next]_vars PROVE Mem'
  OBVIOUS
<1>1. CASE Reinit
  <2>1. /\ nextchunk' = 0 /\ held' = 0 /\ phase' = COLLECTING
        /\ chunk' = [c \in 0 .. MaxChunks - 1 |-> EmptyChunk]
        /\ \A p \in Procs : pc'[p] = "out"
    BY <1>1 DEF Reinit
  <2>2. \A c \in Chunks' : chunk'[c].keys = {}
    <3>1. nchunks' \in 1 .. MaxChunks /\ MaxChunks \in Nat
      BY CutAssumption DEF Inv, Types, TypeOK
    <3>2. PICK n \in 1 .. MaxChunks : n = nchunks'
      BY <3>1
    <3>3. Chunks' = 0 .. n - 1
      BY <3>2 DEF Chunks
    <3>4. 0 .. n - 1 \subseteq 0 .. MaxChunks - 1
      <4>1. n \in Nat /\ n <= MaxChunks /\ MaxChunks \in Nat
        BY CutAssumption
      <4> QED
        BY <4>1
    <3> QED
      BY <2>1, <3>3, <3>4 DEF EmptyChunk
  <2>3. /\ InMemory' = {} /\ Reserving({"place", "giveback"})' = {}
        /\ Reserving({"place"})' = {}
    BY <2>1, <2>2 DEF InMemory, Reserving
  <2>4. /\ Cardinality(InMemory') = 0 /\ Cardinality(Reserving({"place"})') = 0
        /\ Cardinality(Reserving({"place", "giveback"})') = 0
    BY <2>3, FS_EmptySet
  <2>5. At(Working)' = {}
    BY <2>1 DEF At, Working
  <2>6. Owners'
    BY <2>2, <2>5 DEF Owners
  <2>7. Space'
    <3>1. 0 + 0 <= Memory /\ 0 <= Memory /\ 0 = 0 + 0
      BY MemoryAssumption
    <3> QED
      BY <2>1, <2>4, <3>1 DEF Space, MemoryBound
  <2> QED
    BY <2>6, <2>7 DEF Mem
<1>2. CASE QueryFails
  <2>1. /\ UNCHANGED <<nchunks, nextchunk, phase, held, chunk>>
        /\ \A q \in Procs : pc'[q] = "failed"
        /\ Procs # {}
    BY <1>2 DEF QueryFails, cutVars, barrierVars, copyVars
  <2>2. Failed' /\ At(Working)' = {}
    BY <2>1 DEF At, Failed, Working
  <2>3. InMemory' = InMemory /\ Chunks' = Chunks
    BY <2>1 DEF InMemory, Chunks
  <2> QED
    BY <2>1, <2>2, <2>3 DEF Mem, Owners, Space, MemoryBound
<1>3. ASSUME NEW p \in Procs, Attach(p) PROVE Mem'
  <2>1. /\ pc[p] = "out" /\ UNCHANGED <<nchunks, held, chunk, mine, nextchunk, phase, got>>
    BY <1>3 DEF Attach, cutVars, copyVars, procVars
  <2>2. PICK l \in {"claim", "arrive", "detach"} : Goto(p, l)
    BY <1>3 DEF Attach, Inv, Types, TypeOK, COLLECTING, INDEXING, DONE
  <2>3. \A q \in Procs : pc'[q] = IF q = p THEN l ELSE pc[q]
    BY <2>2 DEF Goto, Inv, Types
  <2>4. ~Failed /\ ~Failed'
    BY <2>1, <2>3, Running DEF Failed, At
  <2> QED
    BY <2>1, <2>3, <2>4, QuietMem DEF Working
<1>4. ASSUME NEW p \in Procs, Step(p) PROVE Mem'
  <2>1. CASE Claim(p)
    BY <2>1, ClaimMem
  <2>2. CASE ReadRoom(p) \/ Collect(p) \/ Reserve(p) \/ Place(p) \/ GiveBack(p)
    BY <2>2, ChunkMem
  <2>3. CASE ArriveCollected(p) \/ Build(p) \/ ArriveIndexed(p) \/ Wake(p)
             \/ Leave(p) \/ View(p)
    <3>1. /\ pc[p] \notin Working \cup {"failed"}
          /\ UNCHANGED <<nchunks, held, chunk, mine, nextchunk, got>>
      BY <2>3 DEF ArriveCollected, Build, ArriveIndexed, Wake, Leave, View,
         Working, cutVars, copyVars, procVars
    <3>2. PICK l \in {"index", "waitIndexing", "arrive", "waitDone", "detach",
                      "view", "reading"} : Goto(p, l)
      BY <2>3 DEF ArriveCollected, Build, ArriveIndexed, Wake, Leave, View
    <3>3. \A q \in Procs : pc'[q] = IF q = p THEN l ELSE pc[q]
      BY <3>2 DEF Goto, Inv, Types
    <3>4. ~Failed /\ ~Failed'
      BY <3>1, <3>3, Running DEF Failed, At
    <3>5. phase' # COLLECTING => phase # COLLECTING \/ At(Working) = {}
      <4>0. At(Working)' = At(Working)
        BY <3>1, <3>2, <3>3 DEF At, Working
      <4>1. SUFFICES ASSUME phase' # COLLECTING PROVE At(Working)' = {}
        BY <4>0
      <4>2. phase' = INDEXING \/ phase' = DONE
        BY <4>1 DEF Inv, Types, TypeOK
      <4>3. \/ At(Awaiting \cup {"out"})' = Procs
            \/ At({"out", "waitDone", "detach", "view", "reading"})' = Procs
        BY <3>4, <4>2 DEF Inv, Barrier, INDEXING, DONE
      <4> QED
        BY <4>3 DEF At, Awaiting, Working
    <3> QED
      BY <3>1, <3>3, <3>4, <3>5, QuietMem DEF Working
  <2> QED
    BY <1>4, <2>1, <2>2, <2>3 DEF Step
<1>5. CASE UNCHANGED vars
  BY <1>5 DEF vars, cutVars, barrierVars, copyVars, procVars, Mem, Owners, Space,
     MemoryBound, Reserving, InMemory, Failed, At, Chunks
<1> QED
  BY <1>1, <1>2, <1>3, <1>4, <1>5 DEF Next

\* MemoryBound, for any number of participants, chunks and keys: memory is
\* reserved before it is taken (lion_count_shared.c:333), so what is placed
\* never takes more than the copy may, and when all are collected nothing is
\* still reserved for a chunk that went to its file.
THEOREM CopyWithinMemory == Spec => []MemoryBound
<1>1. Init => Mem
  BY InitInv, EmptyMem DEF Init
<1>2. Mem => MemoryBound
  BY DEF Mem, Space
<1> QED
  BY <1>1, <1>2, NextMem, CopyInvariant, PTL DEF Spec

-----------------------------------------------------------------------------
(* Numbers.                                                                *)

\* A set of numbers has a least one.
LEMMA LeastOf ==
  ASSUME NEW T \in SUBSET Nat, T # {}
  PROVE  \E n \in T : \A m \in T : n <= m
<1>1. PICK n \in T : \A m \in T : ~(<<m, n>> \in OpToRel(<, Nat))
  BY NatLessThanWellFounded, WFMin
<1>2. \A m \in T : ~(m < n)
  BY <1>1 DEF OpToRel
<1> QED
  BY <1>2

\* f is the sequence that starts with a and goes on as g says.
Follows(f, g, a, S, N) ==
  /\ f \in [0 .. N -> S]
  /\ f[0] = a
  /\ \A n \in 1 .. N : f[n] = g[f[n - 1]]

\* There is one: what a recursive function needs to be the function its
\* definition says.
LEMMA Recursion ==
  ASSUME NEW S, NEW a \in S, NEW g \in [S -> S], NEW N \in Nat
  PROVE  \E f : Follows(f, g, a, S, N)
<1> DEFINE Gap == {n \in Nat : ~ \E f : Follows(f, g, a, S, n)}
<1>1. SUFFICES ASSUME Gap # {} PROVE FALSE
  OBVIOUS
<1>2. PICK n \in Gap : \A m \in Gap : n <= m
  <2>1. Gap \in SUBSET Nat
    OBVIOUS
  <2> HIDE DEF Gap
  <2> QED
    BY <1>1, <2>1, LeastOf
<1>3. n # 0
  <2>1. Follows([i \in 0 .. 0 |-> a], g, a, S, 0)
    BY DEF Follows
  <2> QED
    BY <2>1
<1>4. PICK k \in Nat : n = k + 1
  <2>1. n - 1 \in Nat /\ n = (n - 1) + 1
    BY <1>3
  <2> QED
    BY <2>1
<1>5. k \notin Gap
  <2>1. n \in Nat /\ ~(n <= k)
    BY <1>4
  <2> HIDE DEF Gap
  <2> QED
    BY <1>2, <2>1
<1>6. PICK f : Follows(f, g, a, S, k)
  BY <1>5
<1> DEFINE e == [i \in 0 .. (k + 1) |-> IF i = k + 1 THEN g[f[k]] ELSE f[i]]
<1>7. f[k] \in S /\ g[f[k]] \in S
  BY <1>6 DEF Follows
<1>8. e \in [0 .. (k + 1) -> S]
  BY <1>6, <1>7 DEF Follows
<1>9. e[0] = a
  BY <1>6 DEF Follows
<1>10. ASSUME NEW i \in 1 .. (k + 1) PROVE e[i] = g[e[i - 1]]
  <2>1. CASE i = k + 1
    BY <2>1
  <2>2. CASE i # k + 1
    BY <1>6, <2>2 DEF Follows
  <2> QED
    BY <2>1, <2>2
<1> HIDE DEF e
<1>11. Follows(e, g, a, S, k + 1)
  BY <1>8, <1>9, <1>10 DEF Follows
<1> QED
  BY <1>4, <1>11

\* the elements of a set of numbers up to one of them, which are as many as
\* its place in ascending order
UpTo(S, k) == {j \in S : j <= k}

\* The places ascend with the elements.
LEMMA PlacesUp ==
  ASSUME NEW S \in SUBSET Nat, IsFiniteSet(S), NEW k \in S, NEW l \in S, k < l
  PROVE  Cardinality(UpTo(S, k)) < Cardinality(UpTo(S, l))
<1>1. UpTo(S, l) \in SUBSET S /\ UpTo(S, k) \in SUBSET UpTo(S, l)
  <2>1. k \in Nat /\ l \in Nat
    OBVIOUS
  <2>2. ASSUME NEW j \in S, j <= k PROVE j <= l
    <3>1. j \in Nat
      OBVIOUS
    <3> QED
      BY <2>1, <2>2, <3>1
  <2> QED
    BY <2>2 DEF UpTo
<1>2. IsFiniteSet(UpTo(S, l)) /\ IsFiniteSet(UpTo(S, k))
  BY <1>1, FS_Subset
<1>3. UpTo(S, k) # UpTo(S, l)
  <2>1. k \in Nat /\ l \in Nat /\ l <= l /\ ~(l <= k)
    OBVIOUS
  <2> QED
    BY <2>1 DEF UpTo
<1>4. /\ Cardinality(UpTo(S, k)) <= Cardinality(UpTo(S, l))
      /\ Cardinality(UpTo(S, l)) # Cardinality(UpTo(S, k))
  BY <1>1, <1>2, <1>3, FS_Subset
<1>5. Cardinality(UpTo(S, k)) \in Nat /\ Cardinality(UpTo(S, l)) \in Nat
  BY <1>2, FS_CardinalityType
<1> QED
  BY <1>4, <1>5

\* A place is one of 1 .. |S|.
LEMMA PlaceType ==
  ASSUME NEW S \in SUBSET Nat, IsFiniteSet(S), NEW k \in S
  PROVE  Cardinality(UpTo(S, k)) \in 1 .. Cardinality(S)
<1>1. UpTo(S, k) \in SUBSET S /\ k \in UpTo(S, k)
  BY DEF UpTo
<1>2. /\ IsFiniteSet(UpTo(S, k)) /\ UpTo(S, k) # {}
      /\ Cardinality(UpTo(S, k)) <= Cardinality(S)
  BY <1>1, FS_Subset
<1>3. /\ Cardinality(UpTo(S, k)) \in Nat /\ Cardinality(UpTo(S, k)) # 0
      /\ Cardinality(S) \in Nat
  BY <1>2, FS_CardinalityType, FS_EmptySet
<1> QED
  BY <1>2, <1>3

\* There is an element in every place.
LEMMA PlaceTaken ==
  ASSUME NEW S \in SUBSET Nat, IsFiniteSet(S), NEW i \in 1 .. Cardinality(S)
  PROVE  \E k \in S : Cardinality(UpTo(S, k)) = i
<1> DEFINE N == Cardinality(S)
           place == [k \in S |-> Cardinality(UpTo(S, k))]
<1>1. N \in Nat /\ IsFiniteSet(1 .. N) /\ Cardinality(1 .. N) = N
  <2>1. N \in Nat
    BY FS_CardinalityType
  <2> HIDE DEF N
  <2>2. 1 \in Int /\ N \in Int
    BY <2>1
  <2> QED
    BY <2>1, <2>2, FS_Interval
<1>2. place \in [S -> 1 .. N]
  BY PlaceType
<1>3. ASSUME NEW k \in S, NEW l \in S, place[k] = place[l] PROVE k = l
  <2>1. k \in Nat /\ l \in Nat /\ place[k] \in Nat /\ place[l] \in Nat
    BY <1>1, <1>2
  <2>2. ~(k < l)
    BY <1>3, <2>1, PlacesUp
  <2>3. ~(l < k)
    BY <1>3, <2>1, PlacesUp
  <2> QED
    BY <2>1, <2>2, <2>3
<1> HIDE DEF N, place
<1>4. place \in Injection(S, 1 .. N)
  BY <1>2, <1>3 DEF Injection, IsInjective
<1>5. place \in Surjection(S, 1 .. N)
  BY <1>1, <1>4, FS_Injection DEF N
<1>6. PICK k \in S : place[k] = i
  BY <1>5 DEF Surjection, N
<1> QED
  BY <1>6 DEF place

-----------------------------------------------------------------------------
(* The index.                                                              *)

\* what the chunks have is of their ranges
Cutting ==
  /\ nchunks \in Nat \ {0}
  /\ ckeys \in Nat
  /\ \A c \in Chunks : chunk[c].keys \subseteq KeyRange(nchunks, ckeys, c)

\* how many containers the chunks before c have
First(c) == Cardinality(Before(c))

\* A chunk's range ends where the next one begins, or before.
LEMMA RangesUp ==
  ASSUME NEW n \in Nat \ {0}, NEW m \in Nat, NEW c \in Nat, NEW d \in Nat, c < d
  PROVE  RangeFirst(n, m, c + 1) <= RangeFirst(n, m, d)
<1>1. (c + 1) * m \in Nat /\ d * m \in Nat /\ (c + 1) * m <= d * m
  OBVIOUS
<1> DEFINE a == (c + 1) * m
           b == d * m
<1>2. a \in Nat /\ b \in Nat /\ a <= b
  BY <1>1
<1> HIDE DEF a, b
<1>3. a \div n \in Nat /\ n * (a \div n) <= a
  BY <1>2, DivBounds
<1> DEFINE q == a \div n
<1>4. q \in Nat /\ n * q <= b
  <2>1. n * q \in Nat
    BY <1>3
  <2> HIDE DEF q
  <2>2. n * q <= a
    BY <1>3 DEF q
  <2> QED
    BY <1>2, <1>3, <2>1, <2>2 DEF q
<1> HIDE DEF q
<1>5. q <= b \div n
  BY <1>2, <1>4, DivUp
<1> QED
  BY <1>5 DEF q, a, b, RangeFirst

\* The keys of a chunk are below those of a later one.
LEMMA ChunksUp ==
  ASSUME Cutting, NEW c \in Chunks, NEW d \in Chunks, c < d,
         NEW k \in chunk[c].keys, NEW l \in chunk[d].keys
  PROVE  k < l
<1>1. /\ c \in Nat /\ d \in Nat /\ c + 1 \in Nat /\ c # nchunks - 1
      /\ nchunks \in Nat \ {0} /\ ckeys \in Nat
  BY DEF Cutting, Chunks
<1>2. k \in KeyRange(nchunks, ckeys, c) /\ l \in KeyRange(nchunks, ckeys, d)
  BY DEF Cutting
<1>3. k \in Nat /\ l \in Nat
  BY <1>2, CutAssumption DEF KeyRange
<1>4. k < RangeFirst(nchunks, ckeys, c + 1) /\ RangeFirst(nchunks, ckeys, d) <= l
  BY <1>1, <1>2 DEF KeyRange
<1>5. RangeFirst(nchunks, ckeys, c + 1) <= RangeFirst(nchunks, ckeys, d)
  BY <1>1, RangesUp
<1>6. /\ RangeFirst(nchunks, ckeys, c + 1) \in Nat
      /\ RangeFirst(nchunks, ckeys, d) \in Nat
  <2>1. (c + 1) * ckeys \in Nat /\ d * ckeys \in Nat
    BY <1>1
  <2> QED
    BY <1>1, <2>1, DivBounds DEF RangeFirst
<1> QED
  BY <1>3, <1>4, <1>5, <1>6

\* A chunk's keys are a finite set of numbers.
LEMMA ChunkKeys ==
  ASSUME Cutting, NEW c \in Chunks
  PROVE  /\ chunk[c].keys \in SUBSET Nat
         /\ chunk[c].keys \in SUBSET Keys
         /\ IsFiniteSet(chunk[c].keys)
         /\ Cardinality(chunk[c].keys) \in Nat
<1>1. chunk[c].keys \in SUBSET Keys
  BY DEF Cutting, KeyRange
<1>2. Keys \subseteq Nat /\ IsFiniteSet(Keys)
  BY CutAssumption
<1>3. IsFiniteSet(chunk[c].keys)
  BY <1>1, <1>2, FS_Subset
<1> QED
  BY <1>1, <1>2, <1>3, FS_CardinalityType

\* The containers before a chunk are finitely many.
LEMMA FirstType ==
  ASSUME Cutting, NEW c \in 0 .. nchunks
  PROVE  IsFiniteSet(Before(c)) /\ First(c) \in Nat
<1>1. Before(c) \subseteq Chunks \X Keys
  <2>1. \A d \in 0 .. c - 1 : d \in Chunks
    BY DEF Cutting, Chunks
  <2>2. \A d \in 0 .. c - 1 : chunk[d].keys \subseteq Keys
    BY <2>1, ChunkKeys
  <2> QED
    BY <2>1, <2>2 DEF Before
<1>2. IsFiniteSet(Chunks)
  BY FS_Interval DEF Chunks, Cutting
<1>3. IsFiniteSet(Chunks \X Keys)
  BY <1>2, CutAssumption, FS_Product
<1>4. IsFiniteSet(Before(c))
  BY <1>1, <1>3, FS_Subset
<1> QED
  BY <1>4, FS_CardinalityType DEF First

\* A chunk's containers follow those of the chunks before it.
LEMMA FirstNext ==
  ASSUME Cutting, NEW c \in Chunks
  PROVE  First(c + 1) = First(c) + Cardinality(chunk[c].keys)
<1>1. nchunks \in Nat /\ c \in 0 .. nchunks /\ c \in Nat
  BY DEF Cutting, Chunks
<1> DEFINE its == {c} \X chunk[c].keys
<1>2. Before(c + 1) = Before(c) \cup its
  <2>1. 0 .. (c + 1) - 1 = (0 .. c - 1) \cup {c}
    BY <1>1
  <2> QED
    BY <2>1 DEF Before
<1>3. Before(c) \cap its = {}
  <2>1. \A x \in Before(c) : x[1] \in 0 .. c - 1
    BY DEF Before
  <2>2. c \notin 0 .. c - 1
    BY <1>1
  <2> QED
    BY <2>1, <2>2
<1>4. IsFiniteSet(Before(c))
  BY <1>1, FirstType
<1>5. IsFiniteSet(its) /\ Cardinality(its) = Cardinality(chunk[c].keys)
  BY ChunkKeys, PairedCount
<1> HIDE DEF its
<1>6. Cardinality(Before(c) \cup its) = Cardinality(Before(c)) + Cardinality(its)
  BY <1>3, <1>4, <1>5, Joined
<1> QED
  BY <1>2, <1>5, <1>6 DEF First

\* Later chunks begin later.
LEMMA FirstUp ==
  ASSUME Cutting, NEW c \in 0 .. nchunks, NEW d \in 0 .. nchunks, c <= d
  PROVE  First(c) <= First(d)
<1>1. Before(c) \subseteq Before(d)
  <2>1. 0 .. c - 1 \subseteq 0 .. d - 1
    BY DEF Cutting
  <2> QED
    BY <2>1 DEF Before
<1> QED
  BY <1>1, FirstType, FS_Subset DEF First

\* Before the first chunk there is no container.
LEMMA FirstZero == First(0) = 0
<1>1. Before(0) = {}
  BY DEF Before
<1> QED
  BY <1>1, FS_EmptySet DEF First

\* where the index has a chunk's first container
LEMMA ChunkFirstAt ==
  ASSUME Cutting, NEW c \in 0 .. nchunks
  PROVE  ChunkFirst[c + 1] = First(c)
<1>1. c + 1 \in 1 .. nchunks + 1 /\ (c + 1) - 1 = c
  BY DEF Cutting
<1> QED
  BY <1>1 DEF ChunkFirst, First

\* the chunk c has container i
Has(c, i) == First(c) < i /\ i <= First(c + 1)

\* Every container is of one chunk.
LEMMA ChunkThere ==
  ASSUME Cutting, NEW i \in 1 .. First(nchunks)
  PROVE  \E c \in Chunks : Has(c, i)
<1>1. nchunks \in Nat /\ \A c \in 0 .. nchunks : First(c) \in Nat
  BY FirstType DEF Cutting
<1> DEFINE T == {c \in 0 .. nchunks : i <= First(c)}
<1>2. T \in SUBSET Nat /\ nchunks \in T
  BY <1>1
<1>3. PICK d \in T : \A c \in T : d <= c
  <2> HIDE DEF T
  <2> QED
    BY <1>2, LeastOf
<1>4. d # 0
  BY FirstZero
<1>5. d - 1 \in Chunks /\ d - 1 \in 0 .. nchunks /\ (d - 1) + 1 = d
  BY <1>1, <1>4 DEF Chunks
<1>6. d - 1 \notin T
  <2>1. d \in Nat
    BY <1>1
  <2> HIDE DEF T
  <2> QED
    BY <1>3, <2>1
<1>7. First(d - 1) < i
  BY <1>1, <1>5, <1>6
<1> QED
  BY <1>5, <1>7 DEF Has

\* ... and of no other.
LEMMA ChunkOne ==
  ASSUME Cutting, NEW i \in Nat, NEW c \in Chunks, NEW d \in Chunks,
         Has(c, i), Has(d, i)
  PROVE  c = d
<1>1. /\ c \in Nat /\ d \in Nat /\ c \in 0 .. nchunks /\ d \in 0 .. nchunks
      /\ c + 1 \in 0 .. nchunks /\ d + 1 \in 0 .. nchunks
  BY DEF Chunks, Cutting
<1>2. /\ First(c) \in Nat /\ First(d) \in Nat
      /\ First(c + 1) \in Nat /\ First(d + 1) \in Nat
  BY <1>1, FirstType
<1>3. ~(c < d)
  <2>1. SUFFICES ASSUME c < d PROVE FALSE
    OBVIOUS
  <2>2. c + 1 <= d
    BY <1>1, <2>1
  <2>3. First(c + 1) <= First(d)
    BY <1>1, <2>2, FirstUp
  <2> QED
    BY <1>2, <2>3 DEF Has
<1>4. ~(d < c)
  <2>1. SUFFICES ASSUME d < c PROVE FALSE
    OBVIOUS
  <2>2. d + 1 <= c
    BY <1>1, <2>1
  <2>3. First(d + 1) <= First(c)
    BY <1>1, <2>2, FirstUp
  <2> QED
    BY <1>2, <2>3 DEF Has
<1> QED
  BY <1>1, <1>3, <1>4

\* What ChunkOf finds by the index is the chunk that has the container.
LEMMA ChunkFound ==
  ASSUME Cutting, NEW i \in 1 .. First(nchunks)
  PROVE  ChunkOf(ChunkFirst, i) \in Chunks /\ Has(ChunkOf(ChunkFirst, i), i)
<1>1. \A c \in Chunks : /\ ChunkFirst[c + 1] = First(c)
                        /\ ChunkFirst[c + 2] = First(c + 1)
  <2> SUFFICES ASSUME NEW c \in Chunks
               PROVE  /\ ChunkFirst[c + 1] = First(c)
                      /\ ChunkFirst[c + 2] = First(c + 1)
    OBVIOUS
  <2>1. c \in 0 .. nchunks /\ c + 1 \in 0 .. nchunks /\ (c + 1) + 1 = c + 2
    BY DEF Chunks, Cutting
  <2>2. ChunkFirst[(c + 1) + 1] = First(c + 1)
    BY <2>1, ChunkFirstAt
  <2> QED
    BY <2>1, <2>2, ChunkFirstAt
<1>2. PICK c \in Chunks : Has(c, i)
  BY ChunkThere
<1>3. ChunkFirst[c + 1] < i /\ i <= ChunkFirst[c + 2]
  BY <1>1, <1>2 DEF Has
<1>4. /\ ChunkOf(ChunkFirst, i) \in Chunks
      /\ ChunkFirst[ChunkOf(ChunkFirst, i) + 1] < i
      /\ i <= ChunkFirst[ChunkOf(ChunkFirst, i) + 2]
  BY <1>3 DEF ChunkOf
<1> QED
  BY <1>1, <1>4 DEF Has

\* Container i of a chunk is one of its keys, the i-th.
LEMMA KeyFound ==
  ASSUME Cutting, NEW c \in Chunks, NEW i \in 1 .. Cardinality(chunk[c].keys)
  PROVE  /\ KeyOf(c, i) \in chunk[c].keys
         /\ Cardinality(UpTo(chunk[c].keys, KeyOf(c, i))) = i
<1>1. \E k \in chunk[c].keys : Cardinality(UpTo(chunk[c].keys, k)) = i
  BY ChunkKeys, PlaceTaken
<1> QED
  BY <1>1 DEF KeyOf, UpTo

\* A chunk's containers are in key order.
LEMMA KeyUp ==
  ASSUME Cutting, NEW c \in Chunks, NEW i \in 1 .. Cardinality(chunk[c].keys),
         NEW j \in 1 .. Cardinality(chunk[c].keys), i < j
  PROVE  KeyOf(c, i) < KeyOf(c, j)
<1> DEFINE S == chunk[c].keys
           k == KeyOf(c, i)
           l == KeyOf(c, j)
<1>1. /\ k \in S /\ Cardinality(UpTo(S, k)) = i
      /\ l \in S /\ Cardinality(UpTo(S, l)) = j
  BY KeyFound
<1>2. S \in SUBSET Nat /\ IsFiniteSet(S)
  BY ChunkKeys
<1>3. i \in Nat /\ j \in Nat
  BY ChunkKeys
<1> HIDE DEF S, k, l
<1>4. k \in Nat /\ l \in Nat
  BY <1>1, <1>2
<1>5. ~(l < k)
  BY <1>1, <1>2, <1>3, PlacesUp
<1>6. l # k
  BY <1>1, <1>3
<1>7. k < l
  BY <1>4, <1>5, <1>6
<1> QED
  BY <1>7 DEF k, l

\* Every key of a chunk is one of its containers'.
LEMMA KeyThere ==
  ASSUME Cutting, NEW c \in Chunks, NEW k \in chunk[c].keys
  PROVE  \E i \in 1 .. Cardinality(chunk[c].keys) : KeyOf(c, i) = k
<1> DEFINE S == chunk[c].keys
           i == Cardinality(UpTo(S, k))
<1>1. S \in SUBSET Nat /\ IsFiniteSet(S) /\ k \in S
  BY ChunkKeys
<1>2. i \in 1 .. Cardinality(S)
  <2> HIDE DEF S
  <2> QED
    BY <1>1, PlaceType
<1>3. KeyOf(c, i) \in S /\ Cardinality(UpTo(S, KeyOf(c, i))) = i
  BY <1>2, KeyFound
<1> DEFINE l == KeyOf(c, i)
<1>4. l = k
  <2>1. l \in S /\ Cardinality(UpTo(S, l)) = Cardinality(UpTo(S, k))
    BY <1>3
  <2> HIDE DEF S, l, i
  <2>2. k \in Nat /\ l \in Nat
    BY <1>1, <2>1
  <2>3. Cardinality(UpTo(S, k)) \in 1 .. Cardinality(S)
    BY <1>1, PlaceType
  <2>4. Cardinality(S) \in Nat
    BY <1>1, FS_CardinalityType
  <2>5. ~(k < l) /\ ~(l < k)
    BY <1>1, <2>1, <2>3, <2>4, PlacesUp
  <2> QED
    BY <2>2, <2>5
<1> QED
  BY <1>2, <1>4

\* how many containers there are, and container i's chunk, place and key
N == First(nchunks)
Its(i) == ChunkOf(ChunkFirst, i)
PlaceIn(i) == i - First(Its(i))
Key(i) == KeyOf(Its(i), PlaceIn(i))

\* A container's chunk has it, and so the chunk's place for it.
LEMMA KeyIts ==
  ASSUME Cutting, NEW i \in 1 .. N
  PROVE  /\ N \in Nat
         /\ Its(i) \in Chunks /\ Has(Its(i), i)
         /\ PlaceIn(i) \in 1 .. Cardinality(chunk[Its(i)].keys)
         /\ Key(i) \in chunk[Its(i)].keys
         /\ Key(i) \in Keys /\ Key(i) \in Nat
<1>1. Its(i) \in Chunks /\ Has(Its(i), i)
  BY ChunkFound DEF N, Its
<1> DEFINE c == Its(i)
<1>2. c \in 0 .. nchunks /\ nchunks \in 0 .. nchunks
  BY <1>1 DEF Cutting, Chunks
<1>3. First(c) \in Nat /\ N \in Nat
  BY <1>2, FirstType DEF N
<1>4. First(c + 1) = First(c) + Cardinality(chunk[c].keys)
  BY <1>1, FirstNext
<1>5. Cardinality(chunk[c].keys) \in Nat
  BY <1>1, ChunkKeys
<1>6. i - First(c) \in 1 .. Cardinality(chunk[c].keys)
  BY <1>1, <1>3, <1>4, <1>5 DEF Has
<1>7. KeyOf(c, i - First(c)) \in chunk[c].keys
  BY <1>1, <1>6, KeyFound
<1>8. chunk[c].keys \in SUBSET Keys /\ Keys \subseteq Nat
  BY <1>1, ChunkKeys, CutAssumption
<1> QED
  BY <1>1, <1>3, <1>6, <1>7, <1>8 DEF PlaceIn, Key

\* The keys ascend across the chunks, as lion_copy_index() checks.
LEMMA KeysAscend ==
  ASSUME Cutting, NEW i \in 1 .. N, NEW j \in 1 .. N, i < j
  PROVE  Key(i) < Key(j)
<1> DEFINE c == Its(i)
           d == Its(j)
<1>1. /\ c \in Chunks /\ Has(c, i) /\ PlaceIn(i) \in 1 .. Cardinality(chunk[c].keys)
      /\ d \in Chunks /\ Has(d, j) /\ PlaceIn(j) \in 1 .. Cardinality(chunk[d].keys)
      /\ Key(i) \in chunk[c].keys /\ Key(j) \in chunk[d].keys /\ N \in Nat
  BY KeyIts
<1>2. /\ c \in Nat /\ d \in Nat /\ c \in 0 .. nchunks /\ d + 1 \in 0 .. nchunks
      /\ nchunks \in Nat
  BY <1>1 DEF Cutting, Chunks
<1>3. First(c) \in Nat /\ First(d + 1) \in Nat
  BY <1>2, FirstType
<1>4. ~(d < c)
  <2>1. SUFFICES ASSUME d < c PROVE FALSE
    OBVIOUS
  <2>2. d + 1 <= c
    BY <1>2, <2>1
  <2>3. First(d + 1) <= First(c)
    BY <1>2, <2>2, FirstUp
  <2> QED
    BY <1>1, <1>3, <2>3 DEF Has
<1>5. CASE c < d
  BY <1>1, <1>5, ChunksUp
<1>6. CASE c = d
  <2>1. PlaceIn(i) < PlaceIn(j)
    BY <1>1, <1>3, <1>6 DEF PlaceIn
  <2>2. KeyOf(c, PlaceIn(i)) < KeyOf(c, PlaceIn(j))
    BY <1>1, <1>6, <2>1, KeyUp
  <2> QED
    BY <1>6, <2>2 DEF Key
<1> QED
  BY <1>2, <1>4, <1>5, <1>6

\* Every key of a chunk is a container of the copy.
LEMMA KeysThere ==
  ASSUME Cutting, NEW c \in Chunks, NEW k \in chunk[c].keys
  PROVE  \E i \in 1 .. N : Key(i) = k
<1>1. PICK j \in 1 .. Cardinality(chunk[c].keys) : KeyOf(c, j) = k
  BY KeyThere
<1> DEFINE i == First(c) + j
<1>2. /\ c \in 0 .. nchunks /\ c + 1 \in 0 .. nchunks /\ nchunks \in 0 .. nchunks
      /\ c + 1 <= nchunks
  BY DEF Cutting, Chunks
<1>3. First(c) \in Nat /\ First(c + 1) \in Nat /\ First(nchunks) \in Nat
  BY <1>2, FirstType
<1>4. First(c + 1) = First(c) + Cardinality(chunk[c].keys)
  BY FirstNext
<1>5. Cardinality(chunk[c].keys) \in Nat /\ j \in Nat
  BY ChunkKeys
<1>6. First(c + 1) <= First(nchunks)
  BY <1>2, FirstUp
<1>7. i \in 1 .. N /\ Has(c, i) /\ i \in Nat
  BY <1>3, <1>4, <1>5, <1>6 DEF N, Has
<1> HIDE DEF i
<1>8. Its(i) \in Chunks /\ Has(Its(i), i)
  BY <1>7, KeyIts
<1>9. Its(i) = c
  BY <1>7, <1>8, ChunkOne
<1>10. PlaceIn(i) = j
  BY <1>3, <1>5, <1>9 DEF PlaceIn, i
<1> QED
  BY <1>1, <1>7, <1>9, <1>10 DEF Key

\* What the index of the chunks is, place by place.
LEMMA CopyIndexIs ==
  ASSUME Cutting
  PROVE  /\ N \in Nat
         /\ CopyIndex.keys = [i \in 1 .. N |-> Key(i)]
         /\ CopyIndex.ents = [i \in 1 .. N |-> PlaceIn(i)]
         /\ CopyIndex.chunkfirst = ChunkFirst
         /\ CopyIndex.dir = Direct(CopyIndex.keys)
<1>1. N \in Nat
  <2>1. nchunks \in 0 .. nchunks
    BY DEF Cutting
  <2> QED
    BY <2>1, FirstType DEF N
<1>2. \A i \in 1 .. N : ChunkFirst[Its(i) + 1] = First(Its(i))
  <2>1. \A i \in 1 .. N : Its(i) \in 0 .. nchunks
    BY KeyIts DEF Cutting, Chunks
  <2> QED
    BY <2>1, ChunkFirstAt
<1> DEFINE ents == [i \in 1 .. N |-> i - ChunkFirst[Its(i) + 1]]
           keys == [i \in 1 .. N |-> KeyOf(Its(i), ents[i])]
<1>3. CopyIndex = [keys |-> keys, ents |-> ents, chunkfirst |-> ChunkFirst,
                   dir |-> Direct(keys)]
  BY DEF CopyIndex, N, First, Its
<1>4. ents = [i \in 1 .. N |-> PlaceIn(i)]
  BY <1>2 DEF PlaceIn
<1>5. keys = [i \in 1 .. N |-> Key(i)]
  BY <1>4 DEF Key
<1> HIDE DEF ents, keys
<1> QED
  BY <1>1, <1>3, <1>4, <1>5

-----------------------------------------------------------------------------
(* The seek.                                                               *)

InOrder(keys) ==
  /\ keys \in Seq(Nat)
  /\ \A i, j \in 1 .. Len(keys) : i < j => keys[i] < keys[j]

\* how many slots the direct index has, and the key of one
Slots(keys) == keys[Len(keys)] - keys[1] + 1
SlotKey(keys, k) == keys[1] + k - 1
Slotted(keys, k, i) ==
  /\ keys[i + 1] >= SlotKey(keys, k)
  /\ i = 0 \/ keys[i] < SlotKey(keys, k)

\* Every slot of a direct index has the first container at or above its key.
LEMMA DirectIs ==
  ASSUME NEW keys, InOrder(keys), Direct(keys) # None
  PROVE  /\ Len(keys) \in Nat /\ Len(keys) >= 2
         /\ Slots(keys) \in Nat
         /\ Direct(keys) \in Seq(Nat)
         /\ Len(Direct(keys)) = Slots(keys)
         /\ \A k \in 1 .. Slots(keys) :
              /\ Direct(keys)[k] \in 0 .. Len(keys) - 1
              /\ Slotted(keys, k, Direct(keys)[k])
<1> DEFINE n == Len(keys)
           dir == [k \in 1 .. Slots(keys) |->
                     CHOOSE i \in 0 .. n - 1 : Slotted(keys, k, i)]
<1>1. n >= 2 /\ Direct(keys) = dir
  BY DEF Direct, Slots, Slotted, SlotKey
<1>2. /\ n \in Nat /\ \A i \in 1 .. n : keys[i] \in Nat
      /\ keys[1] \in Nat /\ keys[n] \in Nat /\ keys[1] < keys[n]
  BY <1>1 DEF InOrder
<1>3. Slots(keys) \in Nat
  BY <1>2 DEF Slots
<1>4. ASSUME NEW k \in 1 .. Slots(keys)
      PROVE  \E i \in 0 .. n - 1 : Slotted(keys, k, i)
  <2> DEFINE T == {i \in 0 .. n - 1 : keys[i + 1] >= SlotKey(keys, k)}
  <2>1. n - 1 \in T /\ T \in SUBSET Nat
    <3>1. SlotKey(keys, k) <= keys[n]
      BY <1>2, <1>3 DEF SlotKey, Slots
    <3>2. n - 1 \in 0 .. n - 1 /\ (n - 1) + 1 = n
      BY <1>1, <1>2
    <3> QED
      BY <1>2, <3>1, <3>2
  <2>2. PICK i \in T : \A m \in T : i <= m
    <3> HIDE DEF T
    <3> QED
      BY <2>1, LeastOf
  <2>3. i \in 0 .. n - 1 /\ keys[i + 1] >= SlotKey(keys, k)
    OBVIOUS
  <2>4. i = 0 \/ keys[i] < SlotKey(keys, k)
    <3>1. SUFFICES ASSUME i # 0 PROVE keys[i] < SlotKey(keys, k)
      OBVIOUS
    <3>2. i - 1 \in 0 .. n - 1 /\ (i - 1) + 1 = i /\ ~(i <= i - 1) /\ i \in 1 .. n
      BY <1>2, <2>3, <3>1
    <3>3. i - 1 \notin T
      <4> HIDE DEF T
      <4> QED
        BY <2>2, <3>2
    <3>4. ~(keys[i] >= SlotKey(keys, k))
      BY <3>2, <3>3
    <3>5. SlotKey(keys, k) \in Int /\ keys[i] \in Nat
      BY <1>2, <3>2 DEF SlotKey
    <3> QED
      BY <3>4, <3>5
  <2> QED
    BY <2>3, <2>4 DEF Slotted
<1>5. ASSUME NEW k \in 1 .. Slots(keys)
      PROVE  dir[k] \in 0 .. n - 1 /\ Slotted(keys, k, dir[k])
  BY <1>4
<1>6. dir \in Seq(Nat) /\ Len(dir) = Slots(keys)
  <2>1. \A k \in 1 .. Slots(keys) : dir[k] \in Nat
    BY <1>2, <1>5
  <2>2. PICK s \in Nat : s = Slots(keys)
    BY <1>3
  <2>3. dir = [k \in 1 .. s |-> CHOOSE i \in 0 .. n - 1 : Slotted(keys, k, i)]
    BY <2>2
  <2>4. \A k \in 1 .. s : dir[k] \in Nat
    BY <2>1, <2>2
  <2>5. dir \in [1 .. s -> Nat]
    <3> DEFINE at(k) == CHOOSE i \in 0 .. n - 1 : Slotted(keys, k, i)
    <3>1. dir = [k \in 1 .. s |-> at(k)]
      BY <2>3
    <3> HIDE DEF at, dir
    <3> QED
      BY <2>4, <3>1
  <2> HIDE DEF dir
  <2> QED
    BY <2>2, <2>5
<1> HIDE DEF dir
<1> QED
  BY <1>1, <1>2, <1>3, <1>5, <1>6

\* container i is the first one at or after from whose key is at or above
\* the target
Found(keys, from, target, i) ==
  /\ i \in from .. Len(keys)
  /\ i < Len(keys) => keys[i + 1] >= target
  /\ i > from => keys[i] < target

\* The direct index finds it.
LEMMA LookFinds ==
  ASSUME InOrder(index.keys), index.dir = Direct(index.keys), index.dir # None,
         NEW from \in Nat, from < Len(index.keys), NEW target \in Nat
  PROVE  Found(index.keys, from, target, Look(from, target))
<1> DEFINE keys == index.keys
           dir == index.dir
           n == Len(keys)
           slot == target - keys[1]
<1>1. /\ n \in Nat /\ n >= 2 /\ Slots(keys) \in Nat
      /\ Len(dir) = Slots(keys)
      /\ \A k \in 1 .. Slots(keys) :
           dir[k] \in 0 .. n - 1 /\ Slotted(keys, k, dir[k])
  BY DirectIs
<1>2. /\ \A i \in 1 .. n : keys[i] \in Nat
      /\ \A i, j \in 1 .. n : i < j => keys[i] < keys[j]
      /\ InOrder(keys)
  BY DEF InOrder
<1>3. Look(from, target) = IF slot <= 0 THEN from
                           ELSE IF slot >= Len(dir) THEN n
                           ELSE Greater(from, dir[slot + 1])
  BY DEF Look
<1>4. 1 \in 1 .. n /\ from + 1 \in 1 .. n /\ n \in 1 .. n /\ from < n
  BY <1>1
<1> HIDE DEF keys, dir, n
<1>5. keys[1] \in Nat /\ keys[n] \in Nat /\ slot \in Int
  BY <1>2, <1>4
<1>6. CASE slot <= 0
  <2>1. keys[from + 1] >= target
    <3>1. keys[from + 1] \in Nat /\ keys[from + 1] >= keys[1]
      <4>1. from = 0 \/ 1 < from + 1
        OBVIOUS
      <4>2. from = 0 => keys[from + 1] = keys[1]
        OBVIOUS
      <4> QED
        BY <1>2, <1>4, <4>1, <4>2
    <3> QED
      BY <1>5, <1>6, <3>1
  <2> QED
    BY <1>1, <1>3, <1>4, <1>6, <2>1 DEF Found, keys, n
<1>7. CASE slot > 0 /\ slot >= Len(dir)
  <2>1. keys[n] < target
    BY <1>1, <1>5, <1>7 DEF Slots, n
  <2>2. Look(from, target) = n
    BY <1>3, <1>5, <1>7
  <2> QED
    BY <1>1, <1>4, <2>1, <2>2 DEF Found, keys, n
<1>8. CASE slot > 0 /\ ~(slot >= Len(dir))
  <2>1. slot + 1 \in 1 .. Slots(keys)
    BY <1>1, <1>5, <1>8
  <2> DEFINE d == dir[slot + 1]
  <2>2. d \in 0 .. n - 1 /\ Slotted(keys, slot + 1, d)
    BY <1>1, <2>1
  <2>3. SlotKey(keys, slot + 1) = target
    BY <1>5 DEF SlotKey
  <2>4. Look(from, target) = Greater(from, d)
    BY <1>3, <1>5, <1>8
  <2> HIDE DEF d, slot
  <2>5. keys[d + 1] >= target /\ (d = 0 \/ keys[d] < target)
    BY <2>2, <2>3 DEF Slotted
  <2>6. d \in Nat /\ d < n /\ d + 1 \in 1 .. n
    BY <1>1, <2>2
  <2>7. CASE from > d
    <3>1. keys[d + 1] < keys[from + 1]
      BY <1>2, <1>4, <2>6, <2>7
    <3>2. keys[d + 1] \in Nat /\ keys[from + 1] \in Nat
      BY <1>2, <1>4, <2>6
    <3>3. keys[from + 1] >= target
      BY <2>5, <3>1, <3>2
    <3> QED
      BY <1>1, <1>4, <2>4, <2>7, <3>3 DEF Found, Greater, keys, n
  <2>8. CASE ~(from > d)
    <3>1. d \in from .. n /\ Look(from, target) = d
      BY <1>1, <2>4, <2>6, <2>8 DEF Greater
    <3>2. d > from => keys[d] < target
      BY <2>5, <2>6
    <3> QED
      BY <2>5, <3>1, <3>2 DEF Found, keys, n
  <2> QED
    BY <2>7, <2>8
<1> QED
  BY <1>5, <1>6, <1>7, <1>8

\* where a search for target that began with n containers from base may be:
\* the one it is at is below the target, unless it is the first, and what is
\* behind what is left is at or above it
Bracketed(base, n, target) ==
  {x \in Nat \X Nat :
     /\ x[2] >= 1
     /\ base <= x[1]
     /\ x[1] + x[2] <= base + n
     /\ x[1] = base \/ index.keys[x[1] + 1] < target
     /\ x[1] + x[2] = base + n \/ index.keys[x[1] + x[2] + 1] >= target}

\* What half of a number is.
LEMMA Half ==
  ASSUME NEW m \in Nat, m > 1
  PROVE  /\ m \div 2 \in Nat /\ m \div 2 >= 1
         /\ m - m \div 2 \in Nat /\ m - m \div 2 >= m \div 2
         /\ m - m \div 2 < m
BY Z3

\* A round keeps what is left bracketed, and leaves less of it.
LEMMA RoundKeeps ==
  ASSUME InOrder(index.keys), NEW base \in Nat, NEW n \in Nat,
         base + n <= Len(index.keys), NEW target \in Nat,
         NEW x \in Bracketed(base, n, target)
  PROVE  /\ Round(x, target) \in Bracketed(base, n, target)
         /\ x[2] > 1 => Round(x, target)[2] < x[2]
<1> DEFINE keys == index.keys
           b == x[1]
           m == x[2]
           half == m \div 2
<1>1. /\ b \in Nat /\ m \in Nat /\ m >= 1 /\ base <= b /\ b + m <= base + n
      /\ b = base \/ keys[b + 1] < target
      /\ b + m = base + n \/ keys[b + m + 1] >= target
      /\ x = <<b, m>>
  BY DEF Bracketed
<1>2. CASE m <= 1
  BY <1>1, <1>2 DEF Round
<1>3. CASE ~(m <= 1)
  <2>1. /\ half \in Nat /\ half >= 1 /\ m - half \in Nat /\ m - half >= half
        /\ m - half < m
    BY <1>1, <1>3, Half
  <2>2. Round(x, target) = <<IF keys[b + half + 1] < target THEN b + half ELSE b,
                             m - half>>
    BY <1>3 DEF Round
  <2> HIDE DEF half
  <2>0. Len(keys) \in Nat /\ base + n <= Len(keys)
    BY DEF InOrder
  <2>3. b + half + 1 \in 1 .. Len(keys) /\ Len(keys) \in Nat
    <3>1. b + half + 1 <= b + m /\ b + half + 1 \in Nat /\ b + half + 1 >= 1
      BY <1>1, <2>1
    <3> HIDE DEF keys, b, m
    <3> QED
      BY <1>1, <2>0, <3>1
  <2>4. keys[b + half + 1] \in Nat
    BY <2>3 DEF InOrder
  <2>5. CASE keys[b + half + 1] < target
    <3>1. Round(x, target) = <<b + half, m - half>>
      BY <2>2, <2>5
    <3>2. (b + half) + (m - half) = b + m /\ base <= b + half /\ b + half \in Nat
      BY <1>1, <2>1
    <3>3. m - half >= 1
      BY <1>1, <2>1
    <3> DEFINE y == <<b + half, m - half>>
    <3>4. y \in Nat \X Nat /\ y[1] = b + half /\ y[2] = m - half
      BY <2>1, <3>2
    <3> HIDE DEF y
    <3>5. y \in Bracketed(base, n, target)
      BY <1>1, <2>5, <3>2, <3>3, <3>4 DEF Bracketed
    <3> QED
      BY <2>1, <3>1, <3>4, <3>5 DEF y
  <2>6. CASE ~(keys[b + half + 1] < target)
    <3>1. Round(x, target) = <<b, m - half>>
      BY <2>2, <2>6
    <3>2. b + (m - half) <= base + n /\ m - half >= 1
      BY <1>1, <2>1
    <3>3. b + (m - half) = base + n \/ keys[b + (m - half) + 1] >= target
      <4>1. SUFFICES ASSUME b + (m - half) # base + n
                     PROVE  keys[b + (m - half) + 1] >= target
        OBVIOUS
      <4>2. b + (m - half) + 1 \in 1 .. Len(keys)
        <5>1. b + (m - half) \in Nat /\ b + (m - half) + 1 <= base + n
          BY <1>1, <2>1, <4>1, <3>2
        <5> HIDE DEF keys, b, m
        <5> QED
          BY <2>0, <5>1
      <4>3. keys[b + (m - half) + 1] \in Nat
        BY <4>2 DEF InOrder
      <4>4. keys[b + half + 1] >= target
        BY <2>4, <2>6
      <4>5. CASE m - half = half
        BY <4>4, <4>5
      <4>6. CASE m - half > half
        <5>1. b + half + 1 < b + (m - half) + 1
          BY <1>1, <2>1, <4>6
        <5>2. keys[b + half + 1] < keys[b + (m - half) + 1]
          BY <2>3, <4>2, <5>1 DEF InOrder
        <5> QED
          BY <2>4, <4>3, <4>4, <5>2
      <4> QED
        BY <2>1, <4>5, <4>6
    <3> DEFINE y == <<b, m - half>>
    <3>4. y \in Nat \X Nat /\ y[1] = b /\ y[2] = m - half
      BY <1>1, <2>1
    <3> HIDE DEF y
    <3>5. y \in Bracketed(base, n, target)
      BY <1>1, <3>2, <3>3, <3>4 DEF Bracketed
    <3> QED
      BY <2>1, <3>1, <3>4, <3>5 DEF y
  <2> QED
    BY <2>5, <2>6
<1> QED
  BY <1>2, <1>3

\* The rounds of a search are what their recursive definition says.
LEMMA RoundsAre ==
  ASSUME InOrder(index.keys), NEW base \in Nat, NEW n \in Nat \ {0},
         base + n <= Len(index.keys), NEW target \in Nat
  PROVE  /\ Rounds(base, n, target)[0] = <<base, n>>
         /\ \A s \in 1 .. n : Rounds(base, n, target)[s]
                                = Round(Rounds(base, n, target)[s - 1], target)
<1> DEFINE S == Bracketed(base, n, target)
           a == <<base, n>>
           g == [x \in S |-> Round(x, target)]
           at == Rounds(base, n, target)
<1>1. a \in S
  <2>1. a \in Nat \X Nat /\ a[1] = base /\ a[2] = n
    OBVIOUS
  <2> HIDE DEF a
  <2> QED
    BY <2>1 DEF Bracketed
<1>2. g \in [S -> S]
  <2>1. \A x \in S : Round(x, target) \in S
    BY RoundKeeps
  <2> HIDE DEF S
  <2> QED
    BY <2>1
<1>3. PICK f : Follows(f, g, a, S, n)
  <2>1. n \in Nat
    OBVIOUS
  <2> HIDE DEF S, a, g
  <2> QED
    BY <1>1, <1>2, <2>1, Recursion
<1>4. f = [s \in 0 .. n |-> IF s = 0 THEN a ELSE Round(f[s - 1], target)]
  <2>1. ASSUME NEW s \in 1 .. n PROVE f[s] = Round(f[s - 1], target)
    <3>1. s - 1 \in 0 .. n /\ f[s - 1] \in S /\ f[s] = g[f[s - 1]]
      <4> HIDE DEF S, g, a
      <4> QED
        BY <1>3 DEF Follows
    <3> HIDE DEF S
    <3> QED
      BY <3>1
  <2>2. \A s \in 0 .. n : s = 0 \/ s \in 1 .. n
    OBVIOUS
  <2> HIDE DEF S, g, a
  <2> QED
    BY <1>3, <2>1, <2>2 DEF Follows
<1>5. at = [s \in 0 .. n |-> IF s = 0 THEN a ELSE Round(at[s - 1], target)]
  <2> HIDE DEF g
  <2> QED
    BY <1>4 DEF Rounds
<1> HIDE DEF at, a
<1>6. at[0] = a /\ \A s \in 1 .. n : at[s] = Round(at[s - 1], target)
  BY <1>5
<1> QED
  BY <1>6 DEF at, a

\* After as many rounds as there are containers one is left, bracketed.
LEMMA RoundsEnd ==
  ASSUME InOrder(index.keys), NEW base \in Nat, NEW n \in Nat \ {0},
         base + n <= Len(index.keys), NEW target \in Nat
  PROVE  /\ Rounds(base, n, target)[n] \in Bracketed(base, n, target)
         /\ Rounds(base, n, target)[n][2] = 1
<1> DEFINE S == Bracketed(base, n, target)
           at == Rounds(base, n, target)
           Fine(s) == at[s] \in S /\ (at[s][2] = 1 \/ at[s][2] <= n - s)
           Bad == {s \in 0 .. n : ~Fine(s)}
<1>1. at[0] = <<base, n>> /\ \A s \in 1 .. n : at[s] = Round(at[s - 1], target)
  BY RoundsAre
<1>2. <<base, n>> \in S
  <2>1. PICK a : a = <<base, n>>
    OBVIOUS
  <2>2. a \in Nat \X Nat /\ a[1] = base /\ a[2] = n
    BY <2>1
  <2>3. a \in S
    BY <2>2 DEF Bracketed
  <2> QED
    BY <2>1, <2>3
<1>3. \A x \in S : x[2] \in Nat /\ x[2] >= 1
  BY DEF Bracketed
<1>4. \A x \in S : Round(x, target) \in S /\ (x[2] > 1 => Round(x, target)[2] < x[2])
  BY RoundKeeps
<1>5. \A x \in S : x[2] = 1 => Round(x, target) = x
  BY DEF Round
<1> HIDE DEF S, at
<1>6. Fine(0)
  <2>1. <<base, n>>[2] = n /\ n - 0 = n
    OBVIOUS
  <2> QED
    BY <1>1, <1>2, <2>1
<1>7. ASSUME NEW s \in 1 .. n, Fine(s - 1) PROVE Fine(s)
  <2>1. at[s] = Round(at[s - 1], target) /\ s \in Nat
    BY <1>1
  <2>2. at[s - 1] \in S /\ at[s] \in S
    BY <1>4, <1>7, <2>1
  <2>3. CASE at[s - 1][2] = 1
    BY <1>5, <2>1, <2>2, <2>3
  <2>4. CASE at[s - 1][2] # 1
    <3>1. PICK u \in Nat, v \in Nat : u = at[s - 1][2] /\ v = at[s][2]
      BY <1>3, <2>2
    <3>2. u > 1 /\ v < u /\ u <= n - (s - 1)
      BY <1>3, <1>4, <1>7, <2>1, <2>2, <2>4, <3>1
    <3>3. v <= n - s
      BY <2>1, <3>2
    <3> QED
      BY <2>2, <3>1, <3>3
  <2> QED
    BY <2>3, <2>4
<1>8. Bad = {}
  <2> HIDE DEF Fine
  <2>1. SUFFICES ASSUME Bad # {} PROVE FALSE
    OBVIOUS
  <2>2. PICK s \in Bad : \A r \in Bad : s <= r
    <3>1. Bad \in SUBSET Nat
      OBVIOUS
    <3> HIDE DEF Bad
    <3> QED
      BY <2>1, <3>1, LeastOf
  <2>3. s \in 1 .. n /\ s - 1 \in 0 .. n /\ ~(s <= s - 1)
    BY <1>6
  <2>4. Fine(s - 1)
    BY <2>2, <2>3
  <2> QED
    BY <1>7, <2>2, <2>3, <2>4
<1>9. Fine(n)
  <2> HIDE DEF Fine
  <2>1. n \in 0 .. n
    OBVIOUS
  <2> QED
    BY <1>8, <2>1
<1>10. at[n] \in S /\ at[n][2] = 1
  <2>1. at[n][2] \in Nat /\ at[n][2] >= 1 /\ n - n = 0
    BY <1>3, <1>9
  <2> QED
    BY <1>9, <2>1
<1> QED
  BY <1>10 DEF S, at

\* The binary search finds the first container from base on at or above the
\* target.
LEMMA HalveFinds ==
  ASSUME InOrder(index.keys), NEW base \in Nat, base < Len(index.keys),
         NEW target \in Nat
  PROVE  Found(index.keys, base, target, Halve(base, Len(index.keys) - base, target))
<1> DEFINE keys == index.keys
           len == Len(keys)
           n == len - base
           x == Rounds(base, n, target)[n]
           b == x[1]
<1>1. len \in Nat /\ n \in Nat \ {0} /\ base + n = len
  BY DEF InOrder
<1>2. x \in Bracketed(base, n, target) /\ x[2] = 1
  <2>1. base + n <= len
    BY <1>1
  <2> HIDE DEF n
  <2> QED
    BY <1>1, <2>1, RoundsEnd
<1>3. /\ b \in Nat /\ base <= b /\ b + 1 <= len
      /\ b = base \/ keys[b + 1] < target
      /\ b + 1 = len \/ keys[b + 2] >= target
  <2> HIDE DEF n
  <2>1. /\ x[1] \in Nat /\ base <= x[1] /\ x[1] + x[2] <= base + n
        /\ x[1] = base \/ index.keys[x[1] + 1] < target
        /\ x[1] + x[2] = base + n \/ index.keys[x[1] + x[2] + 1] >= target
    BY <1>2 DEF Bracketed
  <2>2. x[1] + x[2] + 1 = x[1] + 2 /\ x[1] + x[2] = x[1] + 1
    BY <1>2, <2>1
  <2> HIDE DEF x
  <2> QED
    BY <1>1, <2>1, <2>2
<1>4. Halve(base, n, target) = IF keys[b + 1] < target THEN b + 1 ELSE b
  BY DEF Halve
<1>5. keys[b + 1] \in Nat
  <2> HIDE DEF b
  <2>1. b + 1 \in 1 .. Len(keys)
    BY <1>1, <1>3
  <2> QED
    BY <2>1 DEF InOrder
<1> HIDE DEF x, b, n
<1>6. CASE keys[b + 1] < target
  <2>1. /\ b + 1 \in base .. len
        /\ b + 1 < len => keys[(b + 1) + 1] >= target
    <3>1. (b + 1) + 1 = b + 2
      BY <1>3
    <3> QED
      BY <1>1, <1>3, <3>1
  <2>2. Found(keys, base, target, b + 1)
    BY <1>6, <2>1 DEF Found
  <2> QED
    BY <1>4, <1>6, <2>2 DEF n
<1>7. CASE ~(keys[b + 1] < target)
  <2>1. b = base /\ keys[b + 1] >= target
    BY <1>3, <1>5, <1>7
  <2>2. Found(keys, base, target, b)
    BY <1>1, <1>3, <2>1 DEF Found
  <2> QED
    BY <1>4, <1>7, <2>2 DEF n
<1> QED
  BY <1>6, <1>7

\* lion_mat_seek() finds it, by the one or the other.
LEMMA SeekIs ==
  ASSUME InOrder(index.keys), index.dir = Direct(index.keys),
         NEW from \in 0 .. Len(index.keys), NEW target \in Nat
  PROVE  Found(index.keys, from, target, Seek(from, target))
<1> DEFINE n == Len(index.keys)
<1>1. n \in Nat /\ from \in Nat
  BY DEF InOrder
<1>2. CASE from >= n
  <2>1. from = n /\ Seek(from, target) = n
    BY <1>1, <1>2 DEF Seek
  <2> QED
    BY <1>1, <2>1 DEF Found
<1>3. CASE from < n /\ index.dir = None
  <2>1. Seek(from, target) = Halve(from, n - from, target)
    BY <1>1, <1>3 DEF Seek
  <2> QED
    BY <1>1, <1>3, <2>1, HalveFinds
<1>4. CASE from < n /\ index.dir # None
  <2>1. Seek(from, target) = Look(from, target)
    BY <1>1, <1>4 DEF Seek
  <2> QED
    BY <1>1, <1>4, <2>1, LookFinds
<1> QED
  BY <1>1, <1>2, <1>3, <1>4

\* The index has its type, with the keys in order, and is there.
LEMMA CopyIndexType ==
  ASSUME Cutting
  PROVE  /\ CopyIndex \in Indexes
         /\ CopyIndex # None
         /\ InOrder(CopyIndex.keys)
         /\ CopyIndex.keys # None
         /\ Len(CopyIndex.keys) = N
<1>1. /\ N \in Nat
      /\ CopyIndex.keys = [i \in 1 .. N |-> Key(i)]
      /\ CopyIndex.ents = [i \in 1 .. N |-> PlaceIn(i)]
      /\ CopyIndex.chunkfirst = ChunkFirst
      /\ CopyIndex.dir = Direct(CopyIndex.keys)
  BY CopyIndexIs
<1>2. PICK n \in Nat : n = N
  BY <1>1
<1>3. \A i \in 1 .. n : Key(i) \in Keys /\ Key(i) \in Nat
  BY <1>2, KeyIts
<1>4. \A i \in 1 .. n : PlaceIn(i) \in Nat
  <2>1. \A i \in 1 .. n : /\ PlaceIn(i) \in 1 .. Cardinality(chunk[Its(i)].keys)
                          /\ Cardinality(chunk[Its(i)].keys) \in Nat
    BY <1>2, KeyIts, ChunkKeys
  <2> QED
    BY <2>1
<1>5. CopyIndex.keys \in Seq(Keys) /\ CopyIndex.keys \in Seq(Nat)
  BY <1>1, <1>2, <1>3
<1>6. CopyIndex.ents \in Seq(Nat)
  BY <1>1, <1>2, <1>4
<1>7. Len(CopyIndex.keys) = N
  BY <1>1
<1>8. InOrder(CopyIndex.keys)
  <2>1. \A i, j \in 1 .. n : i < j => Key(i) < Key(j)
    BY <1>2, KeysAscend
  <2> QED
    BY <1>1, <1>2, <1>5, <1>7, <2>1 DEF InOrder
<1>9. CopyIndex.chunkfirst \in Seq(Nat)
  <2>1. \A c \in 1 .. nchunks + 1 : Cardinality(Before(c - 1)) \in Nat
    <3> SUFFICES ASSUME NEW c \in 1 .. nchunks + 1
                 PROVE  Cardinality(Before(c - 1)) \in Nat
      OBVIOUS
    <3>1. c - 1 \in 0 .. nchunks
      BY DEF Cutting
    <3> QED
      BY <3>1, FirstType DEF First
  <2>2. nchunks + 1 \in Nat
    BY DEF Cutting
  <2> QED
    BY <1>1, <2>1, <2>2 DEF ChunkFirst
<1>10. CopyIndex.dir \in Seq(Nat) \cup {None}
  BY <1>1, <1>8, DirectIs
<1>11. CopyIndex \in Indexes
  <2>1. \E a, b, c, d : CopyIndex = [keys |-> a, ents |-> b, chunkfirst |-> c, dir |-> d]
    BY DEF CopyIndex
  <2> QED
    BY <1>5, <1>6, <1>9, <1>10, <2>1 DEF Indexes
<1> QED
  BY <1>5, <1>7, <1>8, <1>11, NoneAssumption

-----------------------------------------------------------------------------
(* What is indexed and read.                                               *)

\* a chunk's keys are of its range, what is indexed are the chunks, it is
\* indexed when the one that does it has, and who does not read has no view
Kept ==
  /\ \A c \in Chunks : chunk[c].keys \subseteq KeyRange(nchunks, ckeys, c)
  /\ \A p \in At({"reserve", "place", "giveback"}) :
       got[p] \subseteq KeyRange(nchunks, ckeys, mine[p])
  /\ index # None => index = CopyIndex
  /\ ~Failed /\ phase # COLLECTING /\ At({"index"}) = {} => index # None
  /\ \A p \in Procs : pc[p] \notin {"reading", "failed"} => view[p] = None
  /\ view \in [Procs -> Seq(Nat) \cup {None}]

\* The chunks are cut as the lemmas about the index assume.
LEMMA CutKept == Inv /\ Kept => Cutting
BY DEF Inv, Types, TypeOK, Kept, Cutting

\* The index of chunks that stay as they are stays.
LEMMA SameIndex ==
  ASSUME UNCHANGED <<nchunks, chunk>>
  PROVE  CopyIndex' = CopyIndex
<1>1. Chunks' = Chunks
  BY DEF Chunks
<1>2. \A c : Before(c)' = Before(c)
  BY DEF Before
<1>3. ChunkFirst' = ChunkFirst
  BY <1>2 DEF ChunkFirst
<1>4. \A first, i : ChunkOf(first, i)' = ChunkOf(first, i)
  BY <1>1 DEF ChunkOf
<1>5. \A c, i : KeyOf(c, i)' = KeyOf(c, i)
  BY DEF KeyOf
<1> QED
  BY <1>2, <1>3, <1>4, <1>5 DEF CopyIndex

\* A step that leaves the chunks, the index and the views alone keeps it.
LEMMA QuietKept ==
  ASSUME Kept, UNCHANGED <<nchunks, ckeys, chunk, index, view>>,
         \A q \in Procs :
           /\ pc'[q] \in {"reserve", "place", "giveback"} =>
                got'[q] \subseteq KeyRange(nchunks, ckeys, mine'[q])
           /\ pc'[q] \notin {"reading", "failed"} =>
                pc[q] \notin {"reading", "failed"},
         ~Failed' /\ phase' # COLLECTING /\ At({"index"})' = {} => index # None
  PROVE  Kept'
<1>1. Chunks' = Chunks /\ CopyIndex' = CopyIndex
  BY SameIndex DEF Chunks
<1>2. \A c : KeyRange(nchunks', ckeys', c) = KeyRange(nchunks, ckeys, c)
  OBVIOUS
<1>3. /\ \A c \in Chunks' : chunk'[c].keys \subseteq KeyRange(nchunks', ckeys', c)
      /\ \A p \in At({"reserve", "place", "giveback"})' :
           got'[p] \subseteq KeyRange(nchunks', ckeys', mine'[p])
      /\ index' # None => index' = CopyIndex'
      /\ ~Failed' /\ phase' # COLLECTING /\ At({"index"})' = {} => index' # None
      /\ \A p \in Procs : pc'[p] \notin {"reading", "failed"} => view'[p] = None
      /\ view' \in [Procs -> Seq(Nat) \cup {None}]
  BY <1>1, <1>2 DEF Kept, At
<1> QED
  BY <1>3 DEF Kept

\* Publishing a chunk of its range keeps it: nothing is indexed yet.
LEMMA PutKept ==
  ASSUME Inv, Kept, NEW p \in Procs, pc[p] \in Working,
         NEW keys \in SUBSET Keys, NEW spilled \in BOOLEAN,
         keys \subseteq KeyRange(nchunks, ckeys, mine[p]),
         PutChunk(p, keys, spilled), UNCHANGED <<nchunks, ckeys, phase, index, view>>
  PROVE  Kept'
<1>1. ~Failed /\ phase = COLLECTING /\ index = None
  BY WorkingCollects
<1>2. \A q \in Procs : /\ pc'[q] = IF q = p THEN "claim" ELSE pc[q]
                       /\ mine'[q] = IF q = p THEN None ELSE mine[q]
                       /\ got'[q] = IF q = p THEN {} ELSE got[q]
  BY DEF PutChunk, Goto, Inv, Types
<1>3. \A c \in 0 .. MaxChunks - 1 :
        chunk'[c] = IF c = mine[p] THEN [keys |-> keys, spilled |-> spilled]
                    ELSE chunk[c]
  BY DEF PutChunk, Inv, Types, TypeOK
<1>4. Chunks' = Chunks /\ Chunks \subseteq 0 .. MaxChunks - 1
  BY CutAssumption DEF Inv, Types, TypeOK, Chunks
<1>5. \A c \in Chunks' : chunk'[c].keys \subseteq KeyRange(nchunks', ckeys', c)
  BY <1>3, <1>4 DEF Kept
<1>6. \A q \in At({"reserve", "place", "giveback"})' :
        got'[q] \subseteq KeyRange(nchunks', ckeys', mine'[q])
  BY <1>2 DEF Kept, At
<1>7. \A q \in Procs : pc'[q] \notin {"reading", "failed"} => view'[q] = None
  BY <1>2 DEF Kept, Working
<1> QED
  BY <1>1, <1>5, <1>6, <1>7 DEF Kept

\* The five steps of collecting a chunk keep it.
LEMMA ChunkKept ==
  ASSUME Inv, Kept, NEW p \in Procs,
         ReadRoom(p) \/ Collect(p) \/ Reserve(p) \/ Place(p) \/ GiveBack(p)
  PROVE  Kept'
<1>1. /\ ~Failed /\ phase = COLLECTING /\ pc[p] \in Working
      /\ UNCHANGED <<nchunks, ckeys, phase, index, view>>
  <2>1. pc[p] \in Working
    BY DEF ReadRoom, Collect, Reserve, Place, GiveBack, Working
  <2> QED
    BY <2>1, WorkingCollects DEF ReadRoom, Collect, Reserve, Place, GiveBack,
       cutVars, barrierVars, copyVars, procVars
<1>2. got[p] \in SUBSET Keys
  BY DEF Inv, Types
<1>3. ASSUME NEW l \in Working, Goto(p, l), UNCHANGED <<chunk, mine, got>>,
             \/ l \notin {"reserve", "place", "giveback"}
             \/ pc[p] \in {"reserve", "place", "giveback"}
      PROVE  Kept'
  <2>1. \A q \in Procs : pc'[q] = IF q = p THEN l ELSE pc[q]
    BY <1>3 DEF Goto, Inv, Types
  <2>2. \A q \in Procs :
           /\ pc'[q] \in {"reserve", "place", "giveback"} =>
                got'[q] \subseteq KeyRange(nchunks, ckeys, mine'[q])
           /\ pc'[q] \notin {"reading", "failed"} =>
                pc[q] \notin {"reading", "failed"}
    BY <1>1, <1>3, <2>1 DEF Kept, At, Working
  <2> QED
    BY <1>1, <1>3, <2>2, QuietKept
<1>4. CASE ReadRoom(p)
  BY <1>3, <1>4 DEF ReadRoom, Working, copyVars
<1>5. CASE Collect(p)
  <2> DEFINE range == KeyRange(nchunks, ckeys, mine[p])
  <2>1. PICK others \in SUBSET (range \ seen) :
          LET keys == (seen \cap range) \cup others
          IN IF keys = {} \/ Outgrows(keys, room[p])
             THEN PutChunk(p, keys, keys # {})
             ELSE /\ got' = [got EXCEPT ![p] = keys]
                  /\ Goto(p, "reserve")
                  /\ UNCHANGED <<chunk, mine, room>>
    BY <1>5 DEF Collect
  <2> DEFINE keys == (seen \cap range) \cup others
  <2>2. keys \in SUBSET Keys /\ keys \subseteq range
    BY DEF KeyRange
  <2> HIDE DEF keys
  <2>3. CASE PutChunk(p, keys, keys # {})
    <3>1. PICK spilled \in BOOLEAN : spilled <=> keys # {}
      OBVIOUS
    <3>2. PutChunk(p, keys, spilled)
      BY <2>3, <3>1
    <3> QED
      BY <1>1, <2>2, <3>2, PutKept
  <2>4. CASE /\ got' = [got EXCEPT ![p] = keys]
             /\ Goto(p, "reserve")
             /\ UNCHANGED <<chunk, mine, room>>
    <3>1. \A q \in Procs : /\ pc'[q] = IF q = p THEN "reserve" ELSE pc[q]
                           /\ got'[q] = IF q = p THEN keys ELSE got[q]
      BY <2>4 DEF Goto, Inv, Types
    <3>2. \A q \in Procs :
             /\ pc'[q] \in {"reserve", "place", "giveback"} =>
                  got'[q] \subseteq KeyRange(nchunks, ckeys, mine'[q])
             /\ pc'[q] \notin {"reading", "failed"} =>
                  pc[q] \notin {"reading", "failed"}
      BY <1>1, <2>2, <2>4, <3>1 DEF Kept, At, Working
    <3> QED
      BY <1>1, <2>4, <3>2, QuietKept
  <2> QED
    BY <2>1, <2>3, <2>4 DEF keys
<1>6. CASE Reserve(p)
  <2>1. /\ pc[p] = "reserve" /\ UNCHANGED <<chunk, mine, got>>
        /\ Goto(p, "place") \/ Goto(p, "giveback")
    BY <1>6 DEF Reserve, procVars
  <2>2. PICK l \in {"place", "giveback"} : Goto(p, l)
    BY <2>1
  <2> QED
    BY <1>3, <2>1, <2>2 DEF Working
<1>7. CASE Place(p)
  <2>1. got[p] \subseteq KeyRange(nchunks, ckeys, mine[p]) /\ pc[p] = "place"
    BY <1>7 DEF Place, Kept, At
  <2>2. CASE PutChunk(p, got[p], FALSE)
    <3>1. FALSE \in BOOLEAN
      OBVIOUS
    <3> QED
      BY <1>1, <1>2, <2>1, <2>2, <3>1, PutKept
  <2>3. CASE Goto(p, "giveback") /\ UNCHANGED <<chunk, mine, room, got>>
    BY <1>3, <2>1, <2>3 DEF Working
  <2> QED
    BY <1>7, <2>2, <2>3 DEF Place
<1>8. CASE GiveBack(p)
  <2>1. got[p] \subseteq KeyRange(nchunks, ckeys, mine[p])
    BY <1>8 DEF GiveBack, Kept, At
  <2>2. PutChunk(p, got[p], TRUE) /\ TRUE \in BOOLEAN
    BY <1>8 DEF GiveBack
  <2> QED
    BY <1>1, <1>2, <2>1, <2>2, PutKept
<1> QED
  BY <1>4, <1>5, <1>6, <1>7, <1>8

\* Indexing makes the index of the chunks.
LEMMA BuildKept == ASSUME Inv, Kept, NEW p \in Procs, Build(p) PROVE Kept'
<1>1. /\ index' = CopyIndex /\ pc[p] = "index"
      /\ UNCHANGED <<nchunks, ckeys, chunk, mine, got, view>>
  BY DEF Build, cutVars, procVars
<1>2. \A q \in Procs : pc'[q] = IF q = p THEN "arrive" ELSE pc[q]
  BY DEF Build, Goto, Inv, Types
<1>3. index' # None /\ index' = CopyIndex' /\ Chunks' = Chunks
  BY <1>1, CutKept, CopyIndexType, SameIndex DEF Chunks
<1>4. \A q \in At({"reserve", "place", "giveback"})' :
        got'[q] \subseteq KeyRange(nchunks', ckeys', mine'[q])
  BY <1>1, <1>2 DEF Kept, At
<1>5. \A q \in Procs : pc'[q] \notin {"reading", "failed"} => view'[q] = None
  BY <1>1, <1>2 DEF Kept
<1> QED
  BY <1>1, <1>3, <1>4, <1>5 DEF Kept

\* What a participant reads, each container where its chunk has it, is the
\* index's keys.
LEMMA ViewIs ==
  ASSUME Cutting, index = CopyIndex
  PROVE  CopyView = index.keys
<1>1. /\ N \in Nat
      /\ CopyIndex.keys = [i \in 1 .. N |-> Key(i)]
      /\ CopyIndex.ents = [i \in 1 .. N |-> PlaceIn(i)]
      /\ CopyIndex.chunkfirst = ChunkFirst
  BY CopyIndexIs
<1>2. Len(CopyIndex.keys) = N
  BY CopyIndexType
<1>3. CopyView = [i \in 1 .. N |-> KeyOf(ChunkOf(ChunkFirst, i), PlaceIn(i))]
  <2>1. CopyView = [i \in 1 .. N |-> KeyOf(ChunkOf(ChunkFirst, i), index.ents[i])]
    BY <1>1, <1>2 DEF CopyView
  <2>2. \A i \in 1 .. N : index.ents[i] = PlaceIn(i)
    BY <1>1
  <2> QED
    BY <2>1, <2>2
<1> QED
  BY <1>1, <1>3 DEF Key, Its

\* Who reads finds the copy indexed.
LEMMA ViewKept ==
  ASSUME Inv, Kept, NEW p \in Procs, View(p)
  PROVE  /\ Kept'
         /\ index # None /\ view[p] = None
         /\ view' = [view EXCEPT ![p] = index.keys]
<1>1. /\ pc[p] = "view"
      /\ UNCHANGED <<nchunks, ckeys, chunk, index, mine, got, phase>>
      /\ view' = [view EXCEPT ![p] = CopyView]
  BY DEF View, cutVars, copyVars, barrierVars
<1>2. ~Failed /\ phase = DONE
  BY <1>1, Running DEF Gathering, Working, Awaiting
<1>3. At({"index"}) = {}
  BY <1>2 DEF Inv, Barrier, At, COLLECTING, INDEXING, DONE
<1>4. index # None
  BY <1>2, <1>3 DEF Kept, COLLECTING, DONE
<1>5. CopyView = index.keys /\ InOrder(index.keys)
  <2>1. index = CopyIndex /\ Cutting
    BY <1>4, CutKept DEF Kept
  <2> QED
    BY <2>1, ViewIs, CopyIndexType
<1>6. \A q \in Procs : pc'[q] = IF q = p THEN "reading" ELSE pc[q]
  BY DEF View, Goto, Inv, Types
<1>7. /\ view' \in [Procs -> Seq(Nat) \cup {None}]
      /\ \A q \in Procs : q # p => view'[q] = view[q]
  BY <1>1, <1>5 DEF Kept, InOrder
<1>8. \A q \in Procs : pc'[q] \notin {"reading", "failed"} => view'[q] = None
  BY <1>6, <1>7 DEF Kept
<1>9. \A q \in At({"reserve", "place", "giveback"})' :
        got'[q] \subseteq KeyRange(nchunks', ckeys', mine'[q])
  BY <1>1, <1>6 DEF Kept, At
<1>10. CopyIndex' = CopyIndex /\ Chunks' = Chunks
  BY <1>1, SameIndex DEF Chunks
<1>11. Kept'
  BY <1>1, <1>4, <1>7, <1>8, <1>9, <1>10 DEF Kept
<1> QED
  BY <1>1, <1>4, <1>5, <1>11 DEF Kept

\* The first state has it.
LEMMA InitKept == Init => Kept
<1> SUFFICES ASSUME Init PROVE Kept
  OBVIOUS
<1>1. nchunks \in 1 .. MaxChunks
  BY InitInv DEF Inv, Types, TypeOK
<1>2. \A c \in Chunks : chunk[c].keys = {}
  <2>1. Chunks \subseteq 0 .. MaxChunks - 1
    BY <1>1, CutAssumption DEF Chunks
  <2>2. chunk = [c \in 0 .. MaxChunks - 1 |-> EmptyChunk]
    BY DEF Init
  <2> QED
    BY <2>1, <2>2 DEF EmptyChunk
<1> QED
  BY <1>2 DEF Init, Kept, At

\* A new run begins as the first one did.
LEMMA ReinitKept == ASSUME Inv', Reinit PROVE Kept'
<1>1. PICK n \in 1 .. MaxChunks : n = nchunks'
  BY DEF Inv, Types, TypeOK
<1>2. Chunks' \subseteq 0 .. MaxChunks - 1
  <2>1. n \in Nat /\ n <= MaxChunks /\ MaxChunks \in Nat
    BY CutAssumption
  <2>2. Chunks' = 0 .. n - 1
    BY <1>1 DEF Chunks
  <2>3. 0 .. n - 1 \subseteq 0 .. MaxChunks - 1
    BY <2>1
  <2> QED
    BY <2>2, <2>3
<1>3. \A c \in Chunks' : chunk'[c].keys = {}
  <2>1. chunk' = [c \in 0 .. MaxChunks - 1 |-> EmptyChunk]
    BY DEF Reinit
  <2> QED
    BY <1>2, <2>1 DEF EmptyChunk
<1>4. /\ index' = None /\ phase' = COLLECTING
      /\ \A q \in Procs : pc'[q] = "out" /\ view'[q] = None
      /\ view' \in [Procs -> {None}]
  BY DEF Reinit
<1> QED
  BY <1>3, <1>4 DEF Kept, At

\* Every step keeps it.
LEMMA NextKept == Inv /\ Inv' /\ Kept /\ [Next]_vars => Kept'
<1> SUFFICES ASSUME Inv, Inv', Kept, [Next]_vars PROVE Kept'
  OBVIOUS
<1>1. CASE Reinit
  BY <1>1, ReinitKept
<1>2. CASE QueryFails
  <2>1. /\ UNCHANGED <<nchunks, ckeys, chunk, index, view>>
        /\ \A q \in Procs : pc'[q] = "failed"
        /\ Procs # {}
    BY <1>2 DEF QueryFails, cutVars, copyVars, procVars
  <2>2. Failed'
    BY <2>1 DEF Failed, At
  <2> QED
    BY <2>1, <2>2, QuietKept
\* a participant that neither collects, nor indexes, nor reads
<1>3. ASSUME NEW p \in Procs,
             NEW l \in {"claim", "room", "finish", "arrive", "detach", "index",
                        "waitIndexing", "waitDone", "view"},
             Goto(p, l), pc[p] \notin {"reading", "failed"},
             UNCHANGED <<nchunks, ckeys, chunk, index, view, got>>,
             \A q \in Procs : q # p => mine'[q] = mine[q],
             ~Failed /\ phase' # COLLECTING /\ l # "index" =>
               phase # COLLECTING /\ pc[p] # "index"
      PROVE  Kept'
  <2>1. \A q \in Procs : pc'[q] = IF q = p THEN l ELSE pc[q]
    BY <1>3 DEF Goto, Inv, Types
  <2>2. \A q \in Procs :
           /\ pc'[q] \in {"reserve", "place", "giveback"} =>
                got'[q] \subseteq KeyRange(nchunks, ckeys, mine'[q])
           /\ pc'[q] \notin {"reading", "failed"} =>
                pc[q] \notin {"reading", "failed"}
    BY <1>3, <2>1 DEF Kept, At
  <2>3. ~Failed
    BY <1>3, Running
  <2>4. ASSUME phase' # COLLECTING, At({"index"})' = {} PROVE index # None
    <3>1. l # "index"
      BY <2>1, <2>4 DEF At
    <3>2. phase # COLLECTING /\ At({"index"}) = {}
      BY <1>3, <2>1, <2>3, <2>4, <3>1 DEF At
    <3> QED
      BY <2>3, <3>2 DEF Kept
  <2> QED
    BY <1>3, <2>2, <2>4, QuietKept
<1>4. ASSUME NEW p \in Procs, Attach(p) PROVE Kept'
  <2>1. /\ pc[p] = "out"
        /\ UNCHANGED <<nchunks, ckeys, chunk, index, view, got, mine, phase>>
    BY <1>4 DEF Attach, cutVars, copyVars, procVars
  <2>2. PICK l \in {"claim", "arrive", "detach"} : Goto(p, l)
    BY <1>4 DEF Attach, Inv, Types, TypeOK, COLLECTING, INDEXING, DONE
  <2> QED
    BY <1>3, <2>1, <2>2
<1>5. ASSUME NEW p \in Procs, Step(p) PROVE Kept'
  <2>1. CASE Claim(p)
    <3>1. phase = COLLECTING /\ pc[p] = "claim"
      BY <2>1, WorkingCollects DEF Claim
    <3>2. /\ UNCHANGED <<nchunks, ckeys, chunk, index, view, got, phase>>
          /\ \A q \in Procs : q # p => mine'[q] = mine[q]
      BY <2>1 DEF Claim, cutVars, barrierVars, Inv, Types
    <3>3. PICK l \in {"finish", "room"} : Goto(p, l)
      BY <2>1 DEF Claim
    <3> QED
      BY <1>3, <3>1, <3>2, <3>3
  <2>2. CASE ReadRoom(p) \/ Collect(p) \/ Reserve(p) \/ Place(p) \/ GiveBack(p)
    BY <2>2, ChunkKept
  <2>3. CASE ArriveCollected(p)
    <3>1. /\ pc[p] = "finish" /\ phase = COLLECTING
          /\ UNCHANGED <<nchunks, ckeys, chunk, index, view, got, mine>>
      BY <2>3, WorkingCollects DEF ArriveCollected, cutVars, copyVars, procVars
    <3>2. CASE Elected(p)
      <4>1. Goto(p, "index")
        BY <2>3, <3>2 DEF ArriveCollected
      <4> QED
        BY <1>3, <3>1, <4>1
    <3>3. CASE ~Elected(p)
      <4>1. Goto(p, "waitIndexing") /\ phase' = phase
        BY <2>3, <3>3 DEF ArriveCollected, Arrive
      <4> QED
        BY <1>3, <3>1, <4>1
    <3> QED
      BY <3>2, <3>3
  <2>4. CASE Build(p)
    BY <2>4, BuildKept
  <2>5. CASE ArriveIndexed(p) \/ Wake(p) \/ Leave(p)
    <3>1. /\ pc[p] \in {"arrive", "waitIndexing", "waitDone", "detach"}
          /\ UNCHANGED <<nchunks, ckeys, chunk, index, view, got, mine>>
          /\ pc[p] = "waitIndexing" => phase # COLLECTING
      BY <2>5 DEF ArriveIndexed, Wake, Leave, cutVars, copyVars, procVars
    <3>2. PICK l \in {"waitDone", "arrive", "detach", "view"} : Goto(p, l)
      BY <2>5 DEF ArriveIndexed, Wake, Leave
    <3>3. phase # COLLECTING
      BY <3>1, Running DEF Gathering, Working
    <3> QED
      BY <1>3, <3>1, <3>2, <3>3
  <2>6. CASE View(p)
    BY <2>6, ViewKept
  <2> QED
    BY <1>5, <2>1, <2>2, <2>3, <2>4, <2>5, <2>6 DEF Step
<1>6. CASE UNCHANGED vars
  <2>1. /\ UNCHANGED <<nchunks, ckeys, chunk, index, view, got, mine, pc, phase>>
        /\ At({"index"})' = At({"index"}) /\ Failed' = Failed
    BY <1>6 DEF vars, cutVars, barrierVars, copyVars, procVars, At, Failed
  <2> QED
    BY <2>1, QuietKept DEF Kept, At
<1> QED
  BY <1>1, <1>2, <1>4, <1>5, <1>6 DEF Next

\* It holds in every state.
LEMMA KeptInvariant == Spec => [](Inv /\ Kept)
<1> QED
  BY InitInv, InitKept, NextInv, NextKept, PTL DEF Spec

\* SeekFinds, for any number of chunks and keys and any density: by the
\* direct index or by the binary search, lion_mat_seek() (lion_count_int.h)
\* finds the first container from where it starts whose key is at or above
\* the target.
THEOREM SeeksFind == Spec => []SeekFinds
<1>1. Inv /\ Kept => SeekFinds
  <2> SUFFICES ASSUME Inv, Kept, index # None,
                      NEW from \in 0 .. Len(index.keys), NEW target \in Keys
               PROVE  LET n == Len(index.keys)
                          i == Seek(from, target)
                      IN /\ i \in from .. n
                         /\ i < n => index.keys[i + 1] >= target
                         /\ i > from => index.keys[i] < target
    BY DEF SeekFinds
  <2>1. index = CopyIndex /\ Cutting
    BY CutKept DEF Kept
  <2>2. InOrder(index.keys) /\ index.dir = Direct(index.keys)
    BY <2>1, CopyIndexType, CopyIndexIs
  <2>3. target \in Nat
    BY CutAssumption
  <2>4. Found(index.keys, from, target, Seek(from, target))
    BY <2>2, <2>3, SeekIs
  <2> QED
    BY <2>4 DEF Found
<1> QED
  BY <1>1, KeptInvariant, PTL

\* What the first wait ends with: the index, if it is made, is of all chunks.
LEMMA IndexHasAll ==
  ASSUME Inv, Kept, phase # COLLECTING, NEW k \in seen
  PROVE  \E i \in 1 .. Len(CopyIndex.keys) : CopyIndex.keys[i] = k
<1>1. PICK c \in Chunks : k \in chunk[c].keys
  <2>1. /\ k \in Keys /\ k < ckeys /\ ckeys \in Nat \ {0}
        /\ nchunks \in Nat \ {0}
    BY CutAssumption DEF Inv, Types, TypeOK
  <2>2. PICK c \in 0 .. nchunks - 1 : k \in KeyRange(nchunks, ckeys, c)
    BY <2>1, RangesCover
  <2>3. c \in Chunks /\ Complete(c)
    BY <2>2 DEF Inv, Claims, Chunks
  <2> QED
    BY <2>2, <2>3 DEF Complete
<1>2. Cutting
  BY CutKept
<1>3. PICK i \in 1 .. N : Key(i) = k
  BY <1>1, <1>2, KeysThere
<1> QED
  BY <1>2, <1>3, CopyIndexIs, CopyIndexType

\* Every step of the shared copy is one of AtomicCopy's or none.
LEMMA CopySteps ==
  Inv /\ Kept /\ Inv' /\ [Next]_vars => [Copy!CNext]_(Copy!cvars)
<1> SUFFICES ASSUME Inv, Kept, Inv', [Next]_vars
             PROVE  Copy!CNext \/ UNCHANGED <<seen, index, view>>
  BY DEF Copy!cvars
<1>1. CASE Reinit
  <2>1. Copy!Rescan
    BY <1>1 DEF Reinit, Copy!Rescan
  <2> QED
    BY <2>1 DEF Copy!CNext
<1>2. CASE QueryFails
  BY <1>2 DEF QueryFails, cutVars, copyVars, procVars
<1>3. ASSUME NEW p \in Procs, Attach(p) PROVE UNCHANGED <<seen, index, view>>
  BY <1>3 DEF Attach, cutVars, copyVars, procVars
<1>4. ASSUME NEW p \in Procs, Build(p) PROVE Copy!Make
  <2>1. /\ pc[p] = "index" /\ index' = CopyIndex /\ UNCHANGED <<seen, view>>
    BY <1>4 DEF Build, cutVars, procVars
  <2>2. ~Failed /\ phase = INDEXING
    BY <2>1, Running DEF Gathering, Working
  <2>3. index = None
    BY <2>1, <2>2 DEF Inv, Barrier, At, COLLECTING, INDEXING
  <2>4. /\ CopyIndex # None /\ CopyIndex.keys # None /\ InOrder(CopyIndex.keys)
    BY CutKept, CopyIndexType
  <2>5. \A k \in seen : \E i \in 1 .. Len(CopyIndex.keys) : CopyIndex.keys[i] = k
    BY <2>2, IndexHasAll DEF COLLECTING, INDEXING
  <2>6. Copy!Ascending(CopyIndex.keys) /\ Copy!Has(CopyIndex.keys, seen)
    BY <2>4, <2>5 DEF Copy!Ascending, Copy!Has, InOrder
  <2> QED
    BY <2>1, <2>3, <2>4, <2>6 DEF Copy!Make
<1>5. ASSUME NEW p \in Procs, View(p) PROVE Copy!Read(p)
  <2>1. /\ index # None /\ view[p] = None
        /\ view' = [view EXCEPT ![p] = index.keys]
        /\ UNCHANGED <<seen, index>>
    BY <1>5, ViewKept DEF View, cutVars, copyVars
  <2>2. index.keys # None
    BY <2>1, CutKept, CopyIndexType DEF Kept
  <2> QED
    BY <2>1, <2>2 DEF Copy!Read
<1>6. ASSUME NEW p \in Procs, Step(p), ~Build(p), ~View(p)
      PROVE  UNCHANGED <<seen, index, view>>
  BY <1>6 DEF Step, Claim, ReadRoom, Collect, Reserve, Place, GiveBack,
     ArriveCollected, ArriveIndexed, Wake, Leave, cutVars, copyVars, procVars
<1>7. CASE UNCHANGED vars
  BY <1>7 DEF vars, cutVars, copyVars, procVars
<1> QED
  BY <1>1, <1>2, <1>3, <1>4, <1>5, <1>6, <1>7 DEF Next, Copy!CNext

\* CopiedOnce: for any number of participants, chunks and keys the shared
\* copy implements AtomicCopy, one copy a run, made at once by the elected
\* participant, complete and in order, and the same for all that read it.
THEOREM CopyImplements == Spec => CopiedOnce
<1>1. Init => Copy!CInit
  BY DEF Init, Copy!CInit
<1> QED
  BY <1>1, KeptInvariant, CopySteps, PTL DEF Spec, CopiedOnce, Copy!CSpec

=============================================================================
