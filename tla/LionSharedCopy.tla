--------------------------- MODULE LionSharedCopy ---------------------------
(***************************************************************************)
(* The copy of a join's fact filters that the participants of a parallel   *)
(* plan make together and all read (lion_count_shared.c): the heap's       *)
(* container keys are cut into chunks, each participant claims chunks and  *)
(* collects them into shared memory or a file, the one elected indexes     *)
(* them, and each then reads the copy through a view of its own.           *)
(*                                                                         *)
(* The barrier is PostgreSQL's, of which the code uses BarrierAttach(),    *)
(* BarrierArriveAndWait() and BarrierDetach().  Collecting a chunk is the  *)
(* merge over the participant's own located sources: it finds every key    *)
(* with rows the snapshot selects (seen) and may find others, of rows that *)
(* come and go; what it finds is a choice, made when the chunk is done.    *)
(* A container is its key, and takes one unit of memory.                   *)
(***************************************************************************)
EXTENDS Integers, FiniteSets, Sequences

CONSTANTS Procs,        \* processes that may take part in a run of the plan
          Keys,         \* container keys rows may come to have, 0..n
          HeapSizes,    \* blocks the heap may have when a run begins
          BlocksPerKey, \* LION_BLOCKS_PER_CONTAINER
          Planned,      \* participants the plan was made for
          ChunksEach,   \* LION_COPY_CHUNKS_EACH
          MaxChunks,    \* LION_COPY_MAX_CHUNKS
          MinKeys,      \* pg_lion.parallel_range_keys
          Memory,       \* what the chunks may take of the shared memory
          Overhead,     \* a copy's memory beside its containers'
          DirSpread,    \* LION_MAT_DIR_SPREAD
          Runs,         \* bound: times the plan is run
          None          \* no chunk, no index, no direct index, no view

ASSUME CutAssumption == /\ BlocksPerKey \in Nat \ {0}
                        /\ Planned \in Nat
                        /\ ChunksEach \in Nat \ {0}
                        /\ MaxChunks \in Nat \ {0}
                        /\ MinKeys \in Nat
                        /\ HeapSizes \subseteq Nat
                        /\ Keys \subseteq Nat
                        /\ IsFiniteSet(Keys)
ASSUME MemoryAssumption == /\ Memory \in Nat
                           /\ Overhead \in Nat
                           /\ DirSpread \in Nat
                           /\ Runs \in Nat
ASSUME ProcsAssumption == IsFiniteSet(Procs)

\* what lion_copy_index() makes: a container's key, its place in its chunk,
\* the first container of each chunk, the direct index
Indexes == [keys : Seq(Keys), ents : Seq(Nat), chunkfirst : Seq(Nat),
            dir : Seq(Nat) \cup {None}]
ASSUME NoneAssumption == None \notin Seq(Nat) \cup Indexes

VARIABLES run,       \* runs of the plan begun so far
          seen,      \* keys with rows the filters select for the snapshot
          nchunks,   \* how many chunks there are
          ckeys,     \* the container keys they are cut from
          phase,     \* of the barrier
          attached,  \* participants attached to it
          arrived,   \* of these, the ones that wait at it
          nextchunk, \* the next chunk nobody has claimed
          held,      \* the chunks' bytes in shared memory
          chunk,     \* chunk -> its keys, and whether they are in its file
          index,     \* what the elected participant makes of the chunks
          pc,        \* participant -> what it does next
          mine,      \* participant -> the chunk it has claimed
          room,      \* participant -> memory it may collect the chunk into
          got,       \* participant -> keys it has collected
          view       \* participant -> the keys it reads, in order

cutVars == <<run, seen, nchunks, ckeys>>
barrierVars == <<phase, attached, arrived>>
copyVars == <<nextchunk, held, chunk, index>>
procVars == <<mine, room, got, view>>
vars == <<cutVars, barrierVars, copyVars, pc, procVars>>

COLLECTING == 0
INDEXING == 1
DONE == 2

Lesser(a, b) == IF a < b THEN a ELSE b
Greater(a, b) == IF a > b THEN a ELSE b

-----------------------------------------------------------------------------
(* The chunks: ranges of container keys.                                   *)

\* lion_key_ranges(): keys of the heap, and the chunks they are cut into
HeapKeys(blocks) == blocks \div BlocksPerKey + 1
KeyRanges(blocks) ==
  Lesser(Lesser(MaxChunks, Greater(Planned, 1) * ChunksEach),
         Greater(HeapKeys(blocks) \div Greater(MinKeys, 1), 1))

\* lion_key_range(): where range r of n begins, and its keys; the last range
\* has no end
RangeFirst(n, keys, r) == (r * keys) \div n

\* Not the code: a chunk has its end, and the next one begins with it
KeyRangeTouching(n, keys, r) ==
  {k \in Keys : /\ k >= RangeFirst(n, keys, r)
                /\ r = n - 1 \/ k <= RangeFirst(n, keys, r + 1)}

\* Not the code: chunks of one width, the last one too
KeyRangeEven(n, keys, r) ==
  {k \in Keys : /\ k >= r * (keys \div n)
                /\ k < (r + 1) * (keys \div n)}

KeyRange(n, keys, r) ==
  {k \in Keys : /\ k >= RangeFirst(n, keys, r)
                /\ r = n - 1 \/ k < RangeFirst(n, keys, r + 1)}

Chunks == 0 .. nchunks - 1
EmptyChunk == [keys |-> {}, spilled |-> FALSE]

\* lion_collect_container(): past its room a chunk goes to a file
Outgrows(keys, space) == keys # {} /\ Overhead + Cardinality(keys) > space

-----------------------------------------------------------------------------
(* The index, and the seek over it.                                        *)

\* container i of chunk c, in key order
KeyOf(c, i) == CHOOSE k \in chunk[c].keys :
                 Cardinality({j \in chunk[c].keys : j <= k}) = i

\* the containers of the chunks before c, and where c's begin
Before(c) == UNION {{d} \X chunk[d].keys : d \in 0 .. c - 1}
ChunkFirst == [c \in 1 .. nchunks + 1 |-> Cardinality(Before(c - 1))]

\* the chunk that has container i
ChunkOf(first, i) == CHOOSE c \in Chunks : first[c + 1] < i /\ i <= first[c + 2]

\* the direct index: slot k is the first container at or above the first
\* key + k; its slots count from 0, the sequence's elements from 1
Direct(keys) ==
  LET n == Len(keys)
  IN IF n >= 2 /\ keys[n] - keys[1] + 1 <= n * DirSpread
     THEN [k \in 1 .. keys[n] - keys[1] + 1 |->
             CHOOSE i \in 0 .. n - 1 : /\ keys[i + 1] >= keys[1] + k - 1
                                       /\ i = 0 \/ keys[i] < keys[1] + k - 1]
     ELSE None

\* lion_copy_index(): container after container, chunk after chunk
CopyIndex ==
  LET first == ChunkFirst
      n == Cardinality(Before(nchunks))
      ents == [i \in 1 .. n |-> i - first[ChunkOf(first, i) + 1]]
      keys == [i \in 1 .. n |-> KeyOf(ChunkOf(first, i), ents[i])]
  IN [keys |-> keys, ents |-> ents, chunkfirst |-> first, dir |-> Direct(keys)]

\* lion_copy_view(): container i, read where its chunk has it
CopyView ==
  [i \in 1 .. Len(index.keys) |->
     KeyOf(ChunkOf(index.chunkfirst, i), index.ents[i])]

\* one round of lion_mat_seek()'s binary search, without a branch: where the
\* search is, and of how many containers it still is
Round(x, target) ==
  LET half == x[2] \div 2
  IN IF x[2] <= 1 THEN x
     ELSE <<IF index.keys[x[1] + half + 1] < target THEN x[1] + half ELSE x[1],
            x[2] - half>>
Rounds(base, n, target) ==
  LET at[s \in 0 .. n] ==
        IF s = 0 THEN <<base, n>> ELSE Round(at[s - 1], target)
  IN at

\* Not the code: the last container is not compared
HalveShort(base, n, target) == Rounds(base, n, target)[n][1]

\* the binary search
Halve(base, n, target) ==
  LET b == Rounds(base, n, target)[n][1]
  IN IF index.keys[b + 1] < target THEN b + 1 ELSE b

\* ... and the direct index's answer
Look(from, target) ==
  LET slot == target - index.keys[1]
  IN IF slot <= 0 THEN from
     ELSE IF slot >= Len(index.dir) THEN Len(index.keys)
     ELSE Greater(from, index.dir[slot + 1])

\* lion_mat_seek(): container numbers count from 0
Seek(from, target) ==
  LET n == Len(index.keys)
  IN IF from >= n THEN n
     ELSE IF index.dir = None THEN Halve(from, n - from, target)
     ELSE Look(from, target)

-----------------------------------------------------------------------------
(* The barrier (PostgreSQL's storage/ipc/barrier.c, as it is used here).   *)

\* BarrierArriveAndWait(): the last to arrive is elected and goes on
Elected(p) == arrived \cup {p} = attached
Arrive(p) ==
  IF Elected(p)
  THEN /\ phase' = phase + 1
       /\ arrived' = {}
       /\ UNCHANGED attached
  ELSE /\ arrived' = arrived \cup {p}
       /\ UNCHANGED <<phase, attached>>

\* BarrierDetach(): those who wait for nobody else any more go on
Detach(p) ==
  LET rest == attached \ {p}
  IN /\ attached' = rest
     /\ IF rest # {} /\ arrived = rest
        THEN phase' = phase + 1 /\ arrived' = {}
        ELSE UNCHANGED <<phase, arrived>>

-----------------------------------------------------------------------------
(* lion_copy_empty() and the cut, at the start of each run.                *)

Empty(blocks) ==
  [nchunks |-> KeyRanges(blocks), ckeys |-> HeapKeys(blocks)]

Init ==
  /\ run = 1
  /\ \E blocks \in HeapSizes :
       /\ nchunks = Empty(blocks).nchunks
       /\ ckeys = Empty(blocks).ckeys
       /\ seen \in SUBSET {k \in Keys : k < ckeys}
  /\ phase = COLLECTING
  /\ attached = {}
  /\ arrived = {}
  /\ nextchunk = 0
  /\ held = 0
  /\ chunk = [c \in 0 .. MaxChunks - 1 |-> EmptyChunk]
  /\ index = None
  /\ pc = [p \in Procs |-> "out"]
  /\ mine = [p \in Procs |-> None]
  /\ room = [p \in Procs |-> 0]
  /\ got = [p \in Procs |-> {}]
  /\ view = [p \in Procs |-> None]

\* lion_shared_copy_reinit(): no participant is running
Reinit ==
  /\ \A p \in Procs : pc[p] \in {"out", "reading"}
  /\ run < Runs
  /\ run' = run + 1
  /\ \E blocks \in HeapSizes :
       /\ nchunks' = Empty(blocks).nchunks
       /\ ckeys' = Empty(blocks).ckeys
       /\ seen' \in SUBSET {k \in Keys : k < ckeys'}
  /\ phase' = COLLECTING
  /\ attached' = {}
  /\ arrived' = {}
  /\ nextchunk' = 0
  /\ held' = 0
  /\ chunk' = [c \in 0 .. MaxChunks - 1 |-> EmptyChunk]
  /\ index' = None
  /\ pc' = [p \in Procs |-> "out"]
  /\ view' = [p \in Procs |-> None]
  /\ UNCHANGED <<mine, room, got>>

-----------------------------------------------------------------------------
(* lion_shared_copy_collect(), step by step.                               *)

Goto(p, label) == pc' = [pc EXCEPT ![p] = label]

\* BarrierAttach(): the phase says where to join
Attach(p) ==
  /\ pc[p] = "out"
  /\ attached' = attached \cup {p}
  /\ Goto(p, CASE phase = COLLECTING -> "claim"
               [] phase = INDEXING -> "arrive"
               [] phase = DONE -> "detach")
  /\ UNCHANGED <<cutVars, phase, arrived, copyVars, procVars>>

\* Not the code: attached, but gone when no chunk is left
ClaimLeaves(p) ==
  /\ pc[p] = "claim"
  /\ nextchunk' = nextchunk + 1
  /\ IF nextchunk >= nchunks
     THEN Goto(p, "out") /\ UNCHANGED mine
     ELSE Goto(p, "room") /\ mine' = [mine EXCEPT ![p] = nextchunk]
  /\ UNCHANGED <<cutVars, barrierVars, held, chunk, index, room, got, view>>

\* the next chunk nobody has, from the atomic counter
Claim(p) ==
  /\ pc[p] = "claim"
  /\ nextchunk' = nextchunk + 1
  /\ IF nextchunk >= nchunks
     THEN Goto(p, "finish") /\ UNCHANGED mine
     ELSE Goto(p, "room") /\ mine' = [mine EXCEPT ![p] = nextchunk]
  /\ UNCHANGED <<cutVars, barrierVars, held, chunk, index, room, got, view>>

\* lion_copy_chunk() begins: what the copy has left of its memory
ReadRoom(p) ==
  /\ pc[p] = "room"
  /\ room' = [room EXCEPT ![p] = IF held < Memory THEN Memory - held ELSE 0]
  /\ Goto(p, "collect")
  /\ UNCHANGED <<cutVars, barrierVars, copyVars, mine, got, view>>

\* the chunk is in its file, or is empty, or is in memory
PutChunk(p, keys, spilled) ==
  /\ chunk' = [chunk EXCEPT ![mine[p]] = [keys |-> keys, spilled |-> spilled]]
  /\ Goto(p, "claim")
  /\ mine' = [mine EXCEPT ![p] = None]
  /\ room' = [room EXCEPT ![p] = 0]
  /\ got' = [got EXCEPT ![p] = {}]

\* the merge over the chunk's keys, into its file where it outgrows its room
Collect(p) ==
  /\ pc[p] = "collect"
  /\ LET range == KeyRange(nchunks, ckeys, mine[p])
     IN \E others \in SUBSET (range \ seen) :
          LET keys == (seen \cap range) \cup others
          IN IF keys = {} \/ Outgrows(keys, room[p])
             THEN PutChunk(p, keys, keys # {})
             ELSE /\ got' = [got EXCEPT ![p] = keys]
                  /\ Goto(p, "reserve")
                  /\ UNCHANGED <<chunk, mine, room>>
  /\ UNCHANGED <<cutVars, barrierVars, nextchunk, held, index, view>>

\* Not the code: the room read before the chunk was collected still counts
ReserveStale(p) ==
  /\ pc[p] = "reserve"
  /\ held' = held + Cardinality(got[p])
  /\ Goto(p, IF Cardinality(got[p]) <= room[p] THEN "place" ELSE "giveback")
  /\ UNCHANGED <<cutVars, barrierVars, nextchunk, chunk, index, procVars>>

\* memory is reserved before it is taken
Reserve(p) ==
  /\ pc[p] = "reserve"
  /\ held' = held + Cardinality(got[p])
  /\ Goto(p, IF held' <= Memory THEN "place" ELSE "giveback")
  /\ UNCHANGED <<cutVars, barrierVars, nextchunk, chunk, index, procVars>>

\* dsa_allocate_extended() with NO_OOM, which may have nothing to give
Place(p) ==
  /\ pc[p] = "place"
  /\ \/ PutChunk(p, got[p], FALSE)
     \/ Goto(p, "giveback") /\ UNCHANGED <<chunk, mine, room, got>>
  /\ UNCHANGED <<cutVars, barrierVars, nextchunk, held, index, view>>

\* ... and given back, the chunk written to its file after all
GiveBack(p) ==
  /\ pc[p] = "giveback"
  /\ held' = held - Cardinality(got[p])
  /\ PutChunk(p, got[p], TRUE)
  /\ UNCHANGED <<cutVars, barrierVars, nextchunk, index, view>>

\* Not the code: whoever is done indexes, without a wait
ArriveCollectedNoWait(p) ==
  /\ pc[p] = "finish"
  /\ Arrive(p)
  /\ Goto(p, "index")
  /\ UNCHANGED <<cutVars, copyVars, procVars>>

\* every chunk is claimed: the first wait, whose last to arrive indexes
ArriveCollected(p) ==
  /\ pc[p] = "finish"
  /\ Arrive(p)
  /\ Goto(p, IF Elected(p) THEN "index" ELSE "waitIndexing")
  /\ UNCHANGED <<cutVars, copyVars, procVars>>

Build(p) ==
  /\ pc[p] = "index"
  /\ Goto(p, "arrive")
  /\ index' = CopyIndex
  /\ UNCHANGED <<cutVars, barrierVars, nextchunk, held, chunk, procVars>>

\* the second wait, for the index
ArriveIndexed(p) ==
  /\ pc[p] = "arrive"
  /\ Arrive(p)
  /\ Goto(p, IF Elected(p) THEN "detach" ELSE "waitDone")
  /\ UNCHANGED <<cutVars, copyVars, procVars>>

\* a waiter finds the phase it waits for begun
Wake(p) ==
  /\ \/ pc[p] = "waitIndexing" /\ phase # COLLECTING /\ Goto(p, "arrive")
     \/ pc[p] = "waitDone" /\ phase # INDEXING /\ Goto(p, "detach")
  /\ UNCHANGED <<cutVars, barrierVars, copyVars, procVars>>

Leave(p) ==
  /\ pc[p] = "detach"
  /\ Detach(p)
  /\ Goto(p, "view")
  /\ UNCHANGED <<cutVars, copyVars, procVars>>

View(p) ==
  /\ pc[p] = "view"
  /\ Goto(p, "reading")
  /\ view' = [view EXCEPT ![p] = CopyView]
  /\ UNCHANGED <<cutVars, barrierVars, copyVars, mine, room, got>>

\* an ERROR or a cancel in any participant ends the query for all
QueryFails ==
  /\ \E p \in Procs : pc[p] \notin {"out", "failed"}
  /\ pc' = [p \in Procs |-> "failed"]
  /\ UNCHANGED <<cutVars, barrierVars, copyVars, procVars>>

Step(p) == \/ Claim(p) \/ ReadRoom(p) \/ Collect(p) \/ Reserve(p) \/ Place(p)
           \/ GiveBack(p) \/ ArriveCollected(p) \/ Build(p)
           \/ ArriveIndexed(p) \/ Wake(p) \/ Leave(p) \/ View(p)

Next == Reinit \/ QueryFails \/ \E p \in Procs : Attach(p) \/ Step(p)

Spec == Init /\ [][Next]_vars

\* a participant that takes part goes on; nobody has to come
FairSpec == Spec /\ \A p \in Procs : WF_vars(Step(p))

-----------------------------------------------------------------------------
(* Properties.                                                             *)

\* The type invariant of the shared copy and of its participants.
TypeOK ==
  /\ nchunks \in 1 .. MaxChunks
  /\ phase \in {COLLECTING, INDEXING, DONE}
  /\ arrived \subseteq attached
  /\ attached \subseteq Procs
  /\ nextchunk \in Nat
  /\ held \in Int
  /\ chunk \in [0 .. MaxChunks - 1 -> [keys : SUBSET Keys, spilled : BOOLEAN]]
  /\ \A p \in Procs : /\ mine[p] # None => mine[p] \in Chunks
                      /\ room[p] \in Nat
                      /\ got[p] \subseteq Keys

\* Once the phase is past COLLECTING the chunks have every key the snapshot
\* selects rows of, however claims, late participants and spills interleave.
NothingMissed ==
  phase # COLLECTING => seen \subseteq UNION {chunk[c].keys : c \in Chunks}

\* Nothing of an indexed copy is written again in its run, as the participants
\* that read it in place rely on (lion_count_shared.c:43).
NeverWrittenAgain ==
  [][index # None /\ run' = run => UNCHANGED <<chunk, index>>]_vars

\* the containers the chunks have in shared memory, each with its chunk
InMemory == {x \in Chunks \X Keys : /\ ~chunk[x[1]].spilled
                                   /\ x[2] \in chunk[x[1]].keys}

\* However the participants' reservations interleave, the chunks placed in
\* shared memory (lion_count_shared.c:333) never take more than the copy may,
\* and once all are collected held is what they take: nothing is reserved for
\* a chunk that went to its file.
MemoryBound ==
  /\ Cardinality(InMemory) <= Memory
  /\ phase # COLLECTING => held = Cardinality(InMemory)

\* A seek of lion_mat_seek() over a finished copy, by the direct index or by
\* binary search, finds the first container at or after the one it starts
\* from whose key is at or above the target.
SeekFinds ==
  index # None =>
    LET n == Len(index.keys)
    IN \A from \in 0 .. n, target \in Keys :
         LET i == Seek(from, target)
         IN /\ i \in from .. n
            /\ i < n => index.keys[i + 1] >= target
            /\ i > from => index.keys[i] < target

\* A participant that takes part ends up reading the copy, whenever it came
\* and however many others came, unless the query fails
\* (lion_shared_copy_collect()'s two waits).
EveryoneReads == \A p \in Procs : pc[p] = "claim" ~> pc[p] \in {"reading", "failed"}

\* The participants make one copy of the intersection a run, complete, in
\* order, and all of them read it: AtomicCopy, whose copy is the elected
\* participant's index once the phase is DONE.
Copy == INSTANCE AtomicCopy WITH
  Participants <- Procs,
  NoCopy <- None,
  selected <- seen,
  copy <- IF index = None THEN None ELSE index.keys,
  reads <- view

CopiedOnce == Copy!CSpec
=============================================================================
