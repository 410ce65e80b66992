---------------------------- MODULE MCLionMerge ----------------------------
(* Rows 1 and 2 are of one heap block, row 3 of the next. *)
EXTENDS LionMerge

Node(k, args, order, minus) ==
  [kind |-> k, args |-> args, order |-> order, minus |-> minus]
Key == Node("key", <<>>, <<>>, <<>>)
Merge(args, order, minus) == Node("merge", args, order, minus)

\* two sources, driven by the second; one source, and a negated one
QMerge == <<Key, Key, Merge(<<1, 2>>, <<2, 1>>, <<>>)>>
QMinus == <<Key, Key, Merge(<<1>>, <<1>>, <<2>>)>>
\* a source that is a union, an intersection, a difference of two sets
Source(n) == <<Key, Key, n, Merge(<<3>>, <<3>>, <<>>)>>
QOr == Source(Node("or", <<1, 2>>, <<1, 2>>, <<>>))
QAnd == Source(Node("and", <<1, 2>>, <<2, 1>>, <<>>))
QNot == Source(Node("andnot", <<1>>, <<1>>, <<2>>))

\* three sets: a union and a set intersected, an intersection and a set united
Nested(n, m) == <<Key, Key, Key, n, m, Merge(<<5>>, <<5>>, <<>>)>>
QAndOr == Nested(Node("or", <<1, 2>>, <<1, 2>>, <<>>),
                 Node("and", <<4, 3>>, <<3, 4>>, <<>>))
QOrAnd == Nested(Node("and", <<1, 2>>, <<1, 2>>, <<>>),
                 Node("or", <<3, 4>>, <<3, 4>>, <<>>))

MCTids == {1, 2, 3}
MCKeyOf == <<1, 1, 2>>
MCRowSets == {{1, 2, 3}}

\* rows 1 and 2 apart, row 3 in both sets; row 1 in both, the others in the first
Apart == <<{1}, {2}, {1, 2}>>
First == <<{1, 2}, {1}, {1}>>
Setups2 ==
  [query : {QMerge, QAnd}, budget : {1}, rows : {Apart},
   kind : {<<"chain", "chain">>, <<"copy", "chain">>, <<"nopin", "inline">>}]
  \cup
  [query : {QOr}, budget : {1, 2}, rows : {First},
   kind : {<<"chain", "chain">>, <<"inline", "copy">>}]
  \cup
  [query : {QMinus, QNot}, budget : {1}, rows : {First},
   kind : {<<"chain", "chain">>, <<"copy", "chain">>}]
Setups3 ==
  [query : {QAndOr, QOrAnd}, budget : {1},
   rows : {<<{1, 3}, {2}, {1, 2, 3}>>}, kind : {<<"chain", "copy", "chain">>}]
MCSetups == Setups2 \cup Setups3
=============================================================================
