---------------------------- MODULE LionRingHash ----------------------------
(***************************************************************************)
(* The hash by which the ring finds a tracked block                        *)
(* (lion_readahead_ring.c): open addressing with linear probing, and a     *)
(* removal that moves back the keys after the hole it makes, one of the    *)
(* loop's rounds a step.  murmurhash32() is any function.                  *)
(***************************************************************************)
EXTENDS Integers, FiniteSets

CONSTANTS Blocks, NoKey,
          Size   \* hmask + 1

ASSUME HashAssumption == Size \in Nat \ {0} /\ NoKey \notin Blocks

VARIABLES home,     \* block -> the slot its hash gives, never changed
          hash,     \* slot -> the block of its key, or no key
          tracked,  \* the blocks the ring has
          pc,       \* whether a removal is under way
          hole,     \* ... the slot it empties (i)
          at        \* ... and the slot it looked at last (j)

vars == <<home, hash, tracked, pc, hole, at>>

Slots == 0 .. Size - 1
After(s) == IF s + 1 = Size THEN 0 ELSE s + 1
\* how far slot t lies after slot s, around the table
Ahead(s, t) == IF t >= s THEN t - s ELSE t - s + Size

\* lion_ring_find() ends at slot s: no empty slot before it
Reached(b, s) ==
  \A t \in Slots : Ahead(home[b], t) < Ahead(home[b], s) => hash[t] # NoKey

Init ==
  /\ home \in [Blocks -> Slots]
  /\ hash = [s \in Slots |-> NoKey]
  /\ tracked = {}
  /\ pc = "idle"
  /\ hole = 0
  /\ at = 0

\* lion_ring_sizes(): "every tracked block has a key: at most half full"
HasRoom == 2 * (Cardinality(tracked) + 1) <= Size

\* lion_ring_key_add(): the first empty slot from the block's own on
Add(b) ==
  /\ pc = "idle"
  /\ b \notin tracked /\ HasRoom
  /\ \E s \in Slots : /\ hash[s] = NoKey
                      /\ Reached(b, s)
                      /\ hash' = [hash EXCEPT ![s] = b]
  /\ tracked' = tracked \cup {b}
  /\ UNCHANGED <<home, pc, hole, at>>

\* lion_ring_key_remove() begins, with the key's slot
RemoveKey(b) ==
  /\ pc = "idle"
  /\ b \in tracked
  /\ \E s \in Slots : /\ hash[s] = b
                      /\ hash' = [hash EXCEPT ![s] = NoKey]
                      /\ hole' = s
                      /\ at' = s
  /\ tracked' = tracked \ {b}
  /\ pc' = "moving"
  /\ UNCHANGED home

\* Not the code: the order of the slots without their wrapping around
KeepsPlaceFlat(i, j, h) == h > i /\ h <= j

\* "j's key stays if its home lies cyclically in (i, j]"
KeepsPlace(i, j, h) ==
  IF i <= j THEN h > i /\ h <= j ELSE h > i \/ h <= j

\* a round of its loop, or its end at an empty slot
MoveBack ==
  /\ pc = "moving"
  /\ LET j == After(at)
     IN IF hash[j] = NoKey
        THEN /\ pc' = "idle"
             /\ hole' = 0
             /\ at' = 0
             /\ UNCHANGED hash
        ELSE /\ at' = j
             /\ UNCHANGED pc
             /\ IF KeepsPlace(hole, j, home[hash[j]])
                THEN UNCHANGED <<hash, hole>>
                ELSE /\ hash' = [hash EXCEPT ![hole] = hash[j], ![j] = NoKey]
                     /\ hole' = j
  /\ UNCHANGED <<home, tracked>>

Next == MoveBack \/ \E b \in Blocks : Add(b) \/ RemoveKey(b)
Spec == Init /\ [][Next]_vars

-----------------------------------------------------------------------------
(* Properties.                                                             *)

\* The type invariant of the hash.
TypeOK ==
  /\ home \in [Blocks -> Slots]
  /\ hash \in [Slots -> Blocks \cup {NoKey}]
  /\ tracked \subseteq Blocks
  /\ pc \in {"idle", "moving"}
  /\ hole \in Slots
  /\ at \in Slots

\* Between the ring's calls lion_ring_find() finds every tracked block, by the
\* one slot that has its key, and no key is of a block that is not tracked: no
\* removal cuts a probe short or leaves a key twice.
FindsTracked ==
  pc = "idle" =>
    /\ \A b \in tracked : \E s \in Slots : hash[s] = b /\ Reached(b, s)
    /\ \A s \in Slots : hash[s] # NoKey => hash[s] \in tracked
    /\ \A s, t \in Slots : hash[s] # NoKey /\ hash[s] = hash[t] => s = t
=============================================================================
