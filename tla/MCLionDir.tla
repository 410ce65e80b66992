----------------------------- MODULE MCLionDir -----------------------------
(* Directories of one to three levels, with one entry to a leaf; in one of *)
(* them a walk may go on.                                                  *)
EXTENDS LionDirWalk

CONSTANTS s1, s2, w

SessionSymmetry == Permutations({s1, s2})

Leaf(keys, high, left, right) ==
  [New EXCEPT !.kind = "leaf", !.keys = keys, !.high = high, !.left = left,
              !.right = right]
Inner(level, down, high, left, right) ==
  [New EXCEPT !.kind = "inner", !.level = level, !.down = down, !.high = high,
              !.left = left, !.right = right]
Down(sep, child) == [sep |-> sep, child |-> child]

\* spare blocks are still new, and the rest belong to posting sets
Start(pages, top, spare) ==
  [page |-> [p \in Pages |-> IF p \in DOMAIN pages THEN pages[p]
                             ELSE IF p <= Len(pages) + spare THEN New
                             ELSE [New EXCEPT !.kind = "posting"]],
   root |-> top]

\* the root is a leaf
LeafStart == Start(<<Leaf({3}, 0, 0, 0)>>, 1, 3)

\* two leaves under the root: the new entry goes after key 3, or before key 5
PairStart(key) ==
  Start(<<Leaf({key}, 6, 0, 2), Leaf({6}, 0, 1, 0),
          Inner(1, <<Down(0, 1), Down(6, 2)>>, 0, 0, 0)>>, 3, 1)

\* three leaves under the root, which is full
WideStart ==
  Start(<<Leaf({1}, 5, 0, 2), Leaf({5}, 6, 1, 3), Leaf({6}, 0, 2, 0),
          Inner(1, <<Down(0, 1), Down(5, 2), Down(6, 3)>>, 0, 0, 0)>>, 4, 3)

\* two internal pages under the root, with an only child each
ThinStart ==
  Start(<<Leaf({5}, 6, 0, 2), Leaf({6}, 0, 1, 0),
          Inner(1, <<Down(0, 1)>>, 6, 0, 4), Inner(1, <<Down(0, 2)>>, 0, 3, 0),
          Inner(2, <<Down(0, 3), Down(6, 4)>>, 0, 0, 0)>>, 5, 2)

\* the same, and the right one is full
FullStart ==
  Start(<<Leaf({1}, 2, 0, 2), Leaf({2}, 3, 1, 3), Leaf({3}, 6, 2, 4),
          Leaf({6}, 0, 3, 0),
          Inner(1, <<Down(0, 1)>>, 2, 0, 6),
          Inner(1, <<Down(0, 2), Down(3, 3), Down(6, 4)>>, 0, 5, 0),
          Inner(2, <<Down(0, 5), Down(2, 6)>>, 0, 0, 0)>>, 7, 2)

\* three leaves under a full root, for three more
WaitStart ==
  Start(<<Leaf({1}, 3, 0, 2), Leaf({3}, 5, 1, 3), Leaf({5}, 0, 2, 0),
          Inner(1, <<Down(0, 1), Down(3, 2), Down(5, 3)>>, 0, 0, 0)>>, 4, 6)

MCStarts == {LeafStart, PairStart(3), PairStart(5), WideStart,
             ThinStart, FullStart}
WaitStarts == {WaitStart}
MCWalkStarts == {PairStart(5)}
MCSessions == {s1, s2, w}
=============================================================================
