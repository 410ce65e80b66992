--------------------------- MODULE MCLionSummary ---------------------------
(* Buckets of one row and of two: an empty column, and one of two leaves. *)
EXTENDS LionSummary

MCRows == 1 .. 4
Part(land, low, high) == [land |-> land, low |-> low, high |-> high]
\* up to 2; from 2 on
MCParts == {Part(0, 1, 2), Part(2, 2, TopKey)}

Start(n, born, keys, f) == [limit |-> n, born |-> born, key |-> keys, items |-> f]
Empty == Start(1, {1, 2, 3}, <<1, 2, 3, 2>>, [l \in {0} |-> <<>>])
Full == Start(2, {3, 4}, <<1, 2, 3, 2>>,
              [l \in {0, 2} |-> IF l = 0 THEN <<Bucket(1, FALSE, {1})>>
                                ELSE <<Bucket(2, TRUE, {2})>>])
MCSumStarts == {Empty, Full}
============================================================================
