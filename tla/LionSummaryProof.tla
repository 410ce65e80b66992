-------------------------- MODULE LionSummaryProof --------------------------
(***************************************************************************)
(* The buckets of a column stay in order, no insert finds them otherwise,  *)
(* and a range counted by them is counted exactly, for any rows, keys,     *)
(* leaves and parts of ranges.                                             *)
(***************************************************************************)
EXTENDS LionSummary, SequenceTheorems, FiniteSetTheorems,
        WellFoundedInduction, TLAPS

(* Numbers                                                                 *)

\* A set of numbers has a least one,
LEMMA LeastOf ==
  ASSUME NEW T \in SUBSET Nat, T # {}
  PROVE  \E k \in T : \A m \in T : k <= m
<1>1. T \in (SUBSET Nat) \ {{}}  OBVIOUS
<1>2. PICK k \in T : \A m \in T : ~(<<m, k>> \in OpToRel(<, Nat))
  BY <1>1, WFMin, NatLessThanWellFounded
<1>3. ASSUME NEW i \in Nat, NEW j \in Nat, i < j
      PROVE  <<i, j>> \in OpToRel(<, Nat)
  BY <1>3, Zenon DEF OpToRel
<1>4. ASSUME NEW m \in T, m < k  PROVE FALSE
  <2>1. m \in Nat /\ k \in Nat  OBVIOUS
  <2>2. <<m, k>> \in OpToRel(<, Nat)  BY <1>3, <1>4, <2>1, Zenon
  <2> QED  BY <1>2, <2>2, Zenon
<1> QED  BY <1>4

\* which Min is,
LEMMA MinIs ==
  ASSUME NEW T \in SUBSET Nat, T # {}
  PROVE  Min(T) \in T /\ \A m \in T : Min(T) <= m
BY LeastOf DEF Min

\* and a bounded one a greatest one, which Max is.
LEMMA MaxIs ==
  ASSUME NEW n \in Nat, NEW T \in SUBSET (0 .. n), T # {}
  PROVE  Max(T) \in T /\ \A m \in T : m <= Max(T)
<1> DEFINE U == {n - m : m \in T}
<1>1. U \in SUBSET Nat /\ U # {}  OBVIOUS
<1>2. PICK k \in U : \A m \in U : k <= m  BY <1>1, LeastOf
<1>3. n - k \in T /\ \A m \in T : n - k >= m
  <2>1. PICK x \in T : k = n - x  OBVIOUS
  <2>2. ASSUME NEW m \in T  PROVE x >= m
    <3>1. n - m \in U  OBVIOUS
    <3>2. n - x <= n - m  BY <1>2, <2>1, <3>1
    <3>3. m \in Nat /\ x \in Nat  OBVIOUS
    <3> QED  BY <3>2, <3>3
  <2> QED  BY <2>1, <2>2
<1>4. \E x \in T : \A y \in T : x >= y  BY <1>3
<1>5. Max(T) \in T /\ \A y \in T : Max(T) >= y  BY <1>4 DEF Max
<1> QED  BY <1>5

-----------------------------------------------------------------------------
(* Sequences                                                               *)

LEMMA InsertAtIs ==
  ASSUME NEW R, NEW s \in Seq(R), NEW e \in R, NEW k \in 1 .. Len(s)
  PROVE  /\ InsertAt(s, k + 1, e) \in Seq(R)
         /\ Len(InsertAt(s, k + 1, e)) = Len(s) + 1
         /\ \A i \in 1 .. k : InsertAt(s, k + 1, e)[i] = s[i]
         /\ InsertAt(s, k + 1, e)[k + 1] = e
         /\ \A i \in k + 2 .. Len(s) + 1 : InsertAt(s, k + 1, e)[i] = s[i - 1]
<1> DEFINE a == SubSeq(s, 1, k)
           b == SubSeq(s, k + 1, Len(s))
<1>1. Len(s) \in Nat /\ k \in Nat  OBVIOUS
<1>2. /\ a \in Seq(R) /\ Len(a) = k /\ \A i \in 1 .. k : a[i] = s[i]
      /\ b \in Seq(R) /\ Len(b) = Len(s) - k
      /\ \A i \in 1 .. Len(s) - k : b[i] = s[k + i]
  BY <1>1
<1>3. <<e>> \in Seq(R) /\ Len(<<e>>) = 1 /\ <<e>>[1] = e  OBVIOUS
<1>4. InsertAt(s, k + 1, e) = (a \o <<e>>) \o b
  <2>1. (k + 1) - 1 = k  BY <1>1
  <2> QED  BY <2>1 DEF InsertAt
<1> HIDE DEF a, b
<1>5. /\ a \o <<e>> \in Seq(R) /\ Len(a \o <<e>>) = k + 1
      /\ \A i \in 1 .. k + 1 : (a \o <<e>>)[i] = IF i <= k THEN s[i] ELSE e
  BY <1>1, <1>2, <1>3
<1> DEFINE c == a \o <<e>>
<1> HIDE DEF c
<1>6. c \in Seq(R) /\ Len(c) = k + 1
      /\ \A i \in 1 .. k + 1 : c[i] = IF i <= k THEN s[i] ELSE e
  BY <1>5 DEF c
<1>7. /\ c \o b \in Seq(R) /\ Len(c \o b) = Len(s) + 1
      /\ \A i \in 1 .. Len(s) + 1 :
           (c \o b)[i] = IF i <= k + 1 THEN c[i] ELSE b[i - (k + 1)]
  <2>1. /\ c \o b \in Seq(R) /\ Len(c \o b) = Len(c) + Len(b)
        /\ \A i \in 1 .. Len(c) + Len(b) :
             (c \o b)[i] = IF i <= Len(c) THEN c[i] ELSE b[i - Len(c)]
    BY <1>2, <1>6, ConcatProperties
  <2>2. Len(c) + Len(b) = Len(s) + 1  BY <1>1, <1>2, <1>6
  <2> QED  BY <1>6, <2>1, <2>2
<1>8. \A i \in k + 2 .. Len(s) + 1 : b[i - (k + 1)] = s[i - 1]
  <2>1. ASSUME NEW i \in k + 2 .. Len(s) + 1  PROVE b[i - (k + 1)] = s[i - 1]
    <3>1. i - (k + 1) \in 1 .. Len(s) - k /\ k + (i - (k + 1)) = i - 1  BY <1>1
    <3> QED  BY <1>2, <3>1
  <2> QED  BY <2>1
<1>9. InsertAt(s, k + 1, e) = c \o b  BY <1>4 DEF c
<1>10. /\ \A i \in 1 .. k : i \in 1 .. Len(s) + 1 /\ i \in 1 .. k + 1 /\ i <= k + 1
       /\ k + 1 \in 1 .. Len(s) + 1 /\ k + 1 \in 1 .. k + 1 /\ ~(k + 1 <= k)
       /\ \A i \in k + 2 .. Len(s) + 1 : i \in 1 .. Len(s) + 1 /\ ~(i <= k + 1)
       /\ \A i \in 1 .. k : i <= k
  BY <1>1
<1> DEFINE t == c \o b
<1>11. \A i \in 1 .. k : t[i] = s[i]  BY <1>6, <1>7, <1>10
<1>12. t[k + 1] = e  BY <1>6, <1>7, <1>10
<1>13. \A i \in k + 2 .. Len(s) + 1 : t[i] = s[i - 1]  BY <1>7, <1>8, <1>10
<1>14. t \in Seq(R) /\ Len(t) = Len(s) + 1  BY <1>7
<1> HIDE DEF t
<1>15. InsertAt(s, k + 1, e) = t  BY <1>9 DEF t
<1> QED  BY <1>11, <1>12, <1>13, <1>14, <1>15

LEMMA RemoveAtIs ==
  ASSUME NEW R, NEW s \in Seq(R), NEW k \in 1 .. Len(s)
  PROVE  /\ RemoveAt(s, k) \in Seq(R)
         /\ Len(RemoveAt(s, k)) = Len(s) - 1
         /\ \A i \in 1 .. Len(s) - 1 :
              RemoveAt(s, k)[i] = IF i < k THEN s[i] ELSE s[i + 1]
<1> DEFINE a == SubSeq(s, 1, k - 1)
           b == SubSeq(s, k + 1, Len(s))
<1>1. Len(s) \in Nat /\ k \in Nat  OBVIOUS
<1>2. /\ a \in Seq(R) /\ Len(a) = k - 1 /\ \A i \in 1 .. k - 1 : a[i] = s[i]
      /\ b \in Seq(R) /\ Len(b) = Len(s) - k
      /\ \A i \in 1 .. Len(s) - k : b[i] = s[k + i]
  BY <1>1
<1> HIDE DEF a, b
<1>3. /\ a \o b \in Seq(R) /\ Len(a \o b) = Len(s) - 1
      /\ \A i \in 1 .. Len(s) - 1 :
           (a \o b)[i] = IF i <= k - 1 THEN a[i] ELSE b[i - (k - 1)]
  <2>1. /\ a \o b \in Seq(R) /\ Len(a \o b) = Len(a) + Len(b)
        /\ \A i \in 1 .. Len(a) + Len(b) :
             (a \o b)[i] = IF i <= Len(a) THEN a[i] ELSE b[i - Len(a)]
    BY <1>2, ConcatProperties
  <2>2. Len(a) + Len(b) = Len(s) - 1  BY <1>1, <1>2
  <2> QED  BY <1>2, <2>1, <2>2
<1>4. \A i \in k .. Len(s) - 1 : b[i - (k - 1)] = s[i + 1]
  <2>1. ASSUME NEW i \in k .. Len(s) - 1  PROVE b[i - (k - 1)] = s[i + 1]
    <3>1. i - (k - 1) \in 1 .. Len(s) - k /\ k + (i - (k - 1)) = i + 1  BY <1>1
    <3> QED  BY <1>2, <3>1
  <2> QED  BY <2>1
<1>5. RemoveAt(s, k) = a \o b  BY DEF RemoveAt, a, b
<1> QED  BY <1>1, <1>2, <1>3, <1>4, <1>5


-----------------------------------------------------------------------------
(* Buckets on leaves                                                       *)

Bkt == [top : ColumnKeys, open : BOOLEAN, rows : SUBSET Rows]

\* the buckets of f, those on leaves before x, and what they have to be
In(f) == UNION {{f[l][i] : i \in DOMAIN f[l]} : l \in DOMAIN f}
Before(f, x) == UNION {{f[l][i] : i \in DOMAIN f[l]} : l \in {m \in DOMAIN f : m < x}}

Typed(f) == DOMAIN f \subseteq 0 .. TopKey /\ 0 \in DOMAIN f /\ f \in [DOMAIN f -> Buckets]
LastFull(f) == \A l \in DOMAIN f : f[l] = <<>> /\ (\A m \in DOMAIN f : m <= l) => l = 0
Good(f, k) == Typed(f) /\ Ascend(f, k) /\ InPlace(f, k) /\ LastFull(f)

\* What a step may do to the buckets f, which become g; S are the rows of a walk's
\* snapshot, D those VACUUM may take.
KeepsBefore(f, g) ==
  \A x \in DOMAIN f : (\A e \in Before(f, x) : ~e.open) =>
     \A d \in Before(g, x) : ~d.open /\ \E e \in Before(f, x) : e.top = d.top
IsNew(d, f, S) == d.rows \cap S = {} /\ \A e \in In(f) : e.top < d.top
ComesFrom(d, e, S) ==
  /\ d.rows \cap S \subseteq e.rows
  /\ d.open => e.open
  /\ d.top = e.top \/ (e.open /\ d.top > e.top)
KeepsKinds(f, g, S) ==
  \A d \in In(g) : IsNew(d, f, S) \/ \E e \in In(f) : ComesFrom(d, e, S)
KeepsTops(f, g) == \A e \in In(f) : \E d \in In(g) : d.top >= e.top
KeepsRows(f, g, D) == \A e \in In(f) : \A r \in e.rows : r \in D \/ \E d \in In(g) : r \in d.rows
Turn(f, g, S, D) ==
  /\ DOMAIN f \subseteq DOMAIN g
  /\ KeepsBefore(f, g) /\ KeepsKinds(f, g, S) /\ KeepsTops(f, g) /\ KeepsRows(f, g, D)

LEMMA InIs ==
  ASSUME NEW f, NEW e
  PROVE  e \in In(f) <=> \E l \in DOMAIN f : \E i \in DOMAIN f[l] : e = f[l][i]
<1>1. ASSUME e \in In(f)  PROVE \E l \in DOMAIN f : \E i \in DOMAIN f[l] : e = f[l][i]
  BY <1>1 DEF In
<1>2. ASSUME NEW l \in DOMAIN f, NEW i \in DOMAIN f[l], e = f[l][i]  PROVE e \in In(f)
  BY <1>2 DEF In
<1> QED  BY <1>1, <1>2

LEMMA BeforeIs ==
  ASSUME NEW f, NEW e, NEW x
  PROVE  e \in Before(f, x) <=> \E l \in DOMAIN f : l < x /\ \E i \in DOMAIN f[l] : e = f[l][i]
<1>1. ASSUME e \in Before(f, x)
      PROVE  \E l \in DOMAIN f : l < x /\ \E i \in DOMAIN f[l] : e = f[l][i]
  BY <1>1 DEF Before
<1>2. ASSUME NEW l \in DOMAIN f, l < x, NEW i \in DOMAIN f[l], e = f[l][i]
      PROVE  e \in Before(f, x)
  BY <1>2 DEF Before
<1> QED  BY <1>1, <1>2

LEMMA KeysAre ==
  /\ TopKey \in Nat /\ ColumnKeys \subseteq Nat /\ 0 \notin ColumnKeys
  /\ \A x : x \in ColumnKeys <=> x \in Nat /\ 1 <= x /\ x <= TopKey
  /\ Descent \in Nat /\ Descent > TopKey
BY SummaryAssumption DEF ColumnKeys, Descent

LEMMA OnLeaf ==
  ASSUME NEW f, Typed(f), NEW l \in DOMAIN f
  PROVE  /\ l \in Nat /\ l <= TopKey
         /\ f[l] \in Seq(Bkt) /\ Len(f[l]) \in Nat /\ DOMAIN f[l] = 1 .. Len(f[l])
         /\ f[l] = <<>> <=> Len(f[l]) = 0
         /\ \A i \in DOMAIN f[l] :
              /\ i \in Nat /\ 1 <= i /\ i <= Len(f[l])
              /\ f[l][i] \in Bkt /\ f[l][i].top \in ColumnKeys /\ f[l][i].top \in Nat
              /\ f[l][i].open \in BOOLEAN /\ f[l][i].rows \in SUBSET Rows
<1>1. l \in Nat /\ l <= TopKey  BY KeysAre DEF Typed
<1>2. f[l] \in Seq(Bkt)  BY DEF Typed, Buckets, Bkt
<1> DEFINE s == f[l]
<1>3. s \in Seq(Bkt)  BY <1>2
<1> HIDE DEF s
<1>4. Len(s) \in Nat /\ DOMAIN s = 1 .. Len(s) /\ \A i \in DOMAIN s : s[i] \in Bkt
  BY <1>3, LenProperties, ElementOfSeq
<1>5. s = <<>> <=> Len(s) = 0  BY <1>3, EmptySeq
<1>6. \A i \in DOMAIN s : i \in Nat /\ 1 <= i /\ i <= Len(s)  BY <1>4
<1>7. \A i \in DOMAIN s : /\ s[i].top \in ColumnKeys /\ s[i].open \in BOOLEAN
                          /\ s[i].rows \in SUBSET Rows
  BY <1>4 DEF Bkt
<1>8. \A i \in DOMAIN s : s[i].top \in Nat  BY <1>7, KeysAre
<1> QED  BY <1>1, <1>2, <1>4, <1>5, <1>6, <1>7, <1>8 DEF s

\* A bucket's fields.
LEMMA BktIs ==
  ASSUME NEW f, Typed(f), NEW e \in In(f)
  PROVE  /\ e \in Bkt /\ e.top \in ColumnKeys /\ e.top \in Nat /\ e.top > 0
         /\ e.open \in BOOLEAN /\ e.rows \in SUBSET Rows
<1>1. PICK l \in DOMAIN f : \E i \in DOMAIN f[l] : e = f[l][i]  BY InIs
<1>2. PICK i \in DOMAIN f[l] : e = f[l][i]  BY <1>1
<1> QED  BY <1>2, OnLeaf, KeysAre

\* The leaf that is last, and what an empty one or an open bucket says of it.
LEMMA OpenIsLast ==
  ASSUME NEW f, NEW k, Good(f, k), NEW l \in DOMAIN f, NEW i \in DOMAIN f[l], f[l][i].open
  PROVE  i = Len(f[l]) /\ \A m \in DOMAIN f : m <= l
<1>1. Typed(f) /\ Ascend(f, k) /\ LastFull(f)  BY DEF Good
<1>2. ASSUME NEW m \in DOMAIN f, NEW j \in DOMAIN f[m], InFront(l, i, m, j)  PROVE FALSE
  BY <1>1, <1>2 DEF Ascend
<1>3. i = Len(f[l])
  <2>1. i \in Nat /\ Len(f[l]) \in DOMAIN f[l] /\ i <= Len(f[l])  BY <1>1, OnLeaf
  <2>2. ~(i < Len(f[l]))  BY <1>2, <2>1 DEF InFront
  <2>3. Len(f[l]) \in Nat  BY <1>1, OnLeaf
  <2> QED  BY <2>1, <2>2, <2>3
<1>4. \A m \in DOMAIN f : m <= l
  <2> SUFFICES ASSUME NEW x \in DOMAIN f, x > l  PROVE FALSE
    <3>1. l \in Nat /\ \A m \in DOMAIN f : m \in Nat  BY <1>1, OnLeaf
    <3> QED  BY <3>1
  <2>1. TopKey \in Nat /\ DOMAIN f \in SUBSET (0 .. TopKey) /\ DOMAIN f # {}
    BY <1>1, KeysAre DEF Typed
  <2>2. PICK m \in DOMAIN f : \A y \in DOMAIN f : y <= m  BY <2>1, MaxIs
  <2>3. l < m /\ m # 0
    <3>1. l \in Nat /\ m \in Nat /\ x \in Nat /\ x <= m  BY <1>1, <2>2, OnLeaf
    <3> QED  BY <3>1
  <2>4. f[m] # <<>>  BY <1>1, <2>2, <2>3 DEF LastFull
  <2>5. Len(f[m]) \in DOMAIN f[m]
    <3>1. DOMAIN f[m] = 1 .. Len(f[m]) /\ Len(f[m]) \in Nat /\ Len(f[m]) # 0
      BY <1>1, <2>4, OnLeaf
    <3> QED  BY <3>1
  <2> QED  BY <1>2, <2>3, <2>5 DEF InFront
<1> QED  BY <1>3, <1>4
-----------------------------------------------------------------------------
(* A leaf is cut                                                           *)

\* The leaf l of g cut after n entries; the entry j of a leaf m is then the one that
\* was Whence(j) on the leaf From(m).
NewLeaf(g, l, n) == g[l][n + 1].top
CutOf(g, l, n) == [m \in DOMAIN g \cup {NewLeaf(g, l, n)} |->
                     IF m = l THEN SubSeq(g[l], 1, n)
                     ELSE IF m = NewLeaf(g, l, n) THEN SubSeq(g[l], n + 1, Len(g[l]))
                     ELSE g[m]]
From(t, l, m) == IF m = t THEN l ELSE m
Whence(t, n, m, j) == IF m = t THEN n + j ELSE j

LEMMA NewLeafIs ==
  ASSUME NEW g, NEW k, Good(g, k), NEW l \in DOMAIN g, NEW n \in 1 .. Len(g[l]) - 1
  PROVE  /\ NewLeaf(g, l, n) \in ColumnKeys /\ NewLeaf(g, l, n) \in Nat
         /\ NewLeaf(g, l, n) > l /\ NewLeaf(g, l, n) # l
         /\ \A m \in DOMAIN g : m > l => m > NewLeaf(g, l, n)
         /\ NewLeaf(g, l, n) \notin DOMAIN g
<1> DEFINE t == NewLeaf(g, l, n)
<1>1. Typed(g) /\ Ascend(g, k) /\ InPlace(g, k)  BY DEF Good
<1>2. n + 1 \in DOMAIN g[l] /\ n \in DOMAIN g[l] /\ n < n + 1
  <2>1. Len(g[l]) \in Nat /\ DOMAIN g[l] = 1 .. Len(g[l])  BY <1>1, OnLeaf
  <2> QED  BY <2>1
<1>3. t \in ColumnKeys /\ t \in Nat  BY <1>1, <1>2, OnLeaf DEF NewLeaf
<1>4. t > l
  <2>1. InFront(l, n, l, n + 1)  BY <1>2 DEF InFront
  <2>2. g[l][n].top < g[l][n + 1].top  BY <1>1, <1>2, <2>1 DEF Ascend
  <2>3. g[l][n].top >= l  BY <1>1, <1>2 DEF InPlace
  <2>4. g[l][n].top \in Nat /\ g[l][n + 1].top \in Nat /\ l \in Nat  BY <1>1, <1>2, OnLeaf
  <2> QED  BY <2>2, <2>3, <2>4 DEF NewLeaf
<1>5. ASSUME NEW m \in DOMAIN g, m > l  PROVE m > t
  <2>1. g[l][n + 1].top < m
    <3>1. l < m  BY <1>1, <1>5, OnLeaf
    <3> QED  BY <1>1, <1>2, <3>1 DEF InPlace
  <2>2. m \in Nat  BY <1>1, OnLeaf
  <2> QED  BY <1>3, <2>1, <2>2 DEF NewLeaf
<1>6. t \notin DOMAIN g
  <2> HIDE DEF t
  <2>1. l \in Nat  BY <1>1, OnLeaf
  <2> QED  BY <1>3, <1>4, <1>5, <2>1
<1>7. t # l  BY <1>6
<1> QED  BY <1>3, <1>4, <1>5, <1>6, <1>7

IsCut(g, l, n, t, h) ==
  /\ DOMAIN h = DOMAIN g \cup {t}
  /\ h[l] \in Buckets /\ DOMAIN h[l] = 1 .. n /\ \A j \in 1 .. n : h[l][j] = g[l][j]
  /\ h[t] \in Buckets /\ DOMAIN h[t] = 1 .. Len(g[l]) - n
  /\ \A j \in 1 .. Len(g[l]) - n : h[t][j] = g[l][n + j]
  /\ \A m \in DOMAIN g : m # l => h[m] = g[m]
  /\ \A m \in DOMAIN g : m # t
  /\ n \in Nat /\ Len(g[l]) \in Nat /\ DOMAIN g[l] = 1 .. Len(g[l])

LEMMA CutIs ==
  ASSUME NEW g, NEW k, Good(g, k), NEW l \in DOMAIN g, NEW n \in 1 .. Len(g[l]) - 1,
         NEW t, t = NewLeaf(g, l, n), NEW h, h = CutOf(g, l, n)
  PROVE  IsCut(g, l, n, t, h)
<1> DEFINE s == g[l]
<1>1. Typed(g)  BY DEF Good
<1>2. s \in Seq(Bkt) /\ Len(s) \in Nat /\ DOMAIN s = 1 .. Len(s)  BY <1>1, OnLeaf
<1>3. t # l /\ t \notin DOMAIN g  BY NewLeafIs
<1>4. n \in 1 .. Len(s) - 1  OBVIOUS
<1>5. h = [m \in DOMAIN g \cup {t} |->
             IF m = l THEN SubSeq(s, 1, n)
             ELSE IF m = t THEN SubSeq(s, n + 1, Len(s)) ELSE g[m]]
  BY DEF CutOf
<1>6. /\ DOMAIN h = DOMAIN g \cup {t}
      /\ h[l] = SubSeq(s, 1, n) /\ h[t] = SubSeq(s, n + 1, Len(s))
      /\ \A m \in DOMAIN g : m # l => h[m] = g[m]
  <2> HIDE DEF s
  <2> QED  BY <1>3, <1>5
<1> HIDE DEF s
<1>7. n \in Nat  BY <1>2, <1>4
<1>8. /\ SubSeq(s, 1, n) \in Seq(Bkt) /\ Len(SubSeq(s, 1, n)) = n
      /\ \A j \in 1 .. n : SubSeq(s, 1, n)[j] = s[j]
      /\ SubSeq(s, n + 1, Len(s)) \in Seq(Bkt) /\ Len(SubSeq(s, n + 1, Len(s))) = Len(s) - n
      /\ \A j \in 1 .. Len(s) - n : SubSeq(s, n + 1, Len(s))[j] = s[n + j]
  BY <1>2, <1>4
<1>9. DOMAIN SubSeq(s, 1, n) = 1 .. n
      /\ DOMAIN SubSeq(s, n + 1, Len(s)) = 1 .. Len(s) - n
  BY <1>8, LenProperties
<1>10. Buckets = Seq(Bkt)  BY DEF Buckets, Bkt
<1>11. /\ h[l] \in Buckets /\ DOMAIN h[l] = 1 .. n /\ \A j \in 1 .. n : h[l][j] = s[j]
       /\ h[t] \in Buckets /\ DOMAIN h[t] = 1 .. Len(s) - n
       /\ \A j \in 1 .. Len(s) - n : h[t][j] = s[n + j]
  BY <1>6, <1>8, <1>9, <1>10
<1>12. \A m \in DOMAIN g : m # t  BY <1>3
<1> QED  BY <1>2, <1>6, <1>7, <1>11, <1>12 DEF s, IsCut

\* Where an entry of the leaves after the cut was before it,
LEMMA CutFrom ==
  ASSUME NEW g, NEW k, Good(g, k), NEW l \in DOMAIN g, NEW n \in 1 .. Len(g[l]) - 1,
         NEW t, t = NewLeaf(g, l, n), NEW h, h = CutOf(g, l, n),
         NEW m \in DOMAIN h, NEW j \in DOMAIN h[m]
  PROVE  /\ From(t, l, m) \in DOMAIN g
         /\ Whence(t, n, m, j) \in DOMAIN g[From(t, l, m)]
         /\ h[m][j] = g[From(t, l, m)][Whence(t, n, m, j)]
         /\ j \in Nat /\ n \in Nat
<1>1. Typed(g)  BY DEF Good
<1>c. IsCut(g, l, n, t, h)  BY CutIs
<1>2. n \in Nat /\ Len(g[l]) \in Nat /\ DOMAIN g[l] = 1 .. Len(g[l]) /\ n <= Len(g[l])
  <2>1. n \in Nat /\ Len(g[l]) \in Nat /\ DOMAIN g[l] = 1 .. Len(g[l])  BY <1>c DEF IsCut
  <2> QED  BY <2>1
<1>3. CASE m = t
  <2>1. From(t, l, m) = l /\ Whence(t, n, m, j) = n + j  BY <1>3 DEF From, Whence
  <2>2. j \in 1 .. Len(g[l]) - n  BY <1>3, <1>c DEF IsCut
  <2>3. n + j \in 1 .. Len(g[l])  BY <1>2, <2>2
  <2>4. h[t][j] = g[l][n + j]  BY <2>2, <1>c DEF IsCut
  <2>5. h[m][j] = g[l][n + j]  BY <1>3, <2>4
  <2>6. j \in Nat  BY <1>2, <2>2
  <2> QED  BY <1>2, <2>1, <2>3, <2>5, <2>6
<1>4. CASE m = l
  <2>1. m # t  BY <1>4, NewLeafIs
  <2>2. From(t, l, m) = l /\ Whence(t, n, m, j) = j  BY <1>4, <2>1 DEF From, Whence
  <2>3. j \in 1 .. n  BY <1>4, <1>c DEF IsCut
  <2>4. j \in 1 .. Len(g[l]) /\ j \in Nat  BY <1>2, <2>3
  <2>5. h[l][j] = g[l][j]  BY <2>3, <1>c DEF IsCut
  <2>6. h[m][j] = g[l][j]  BY <1>4, <2>5
  <2> QED  BY <1>2, <2>2, <2>4, <2>6
<1>5. CASE m # t /\ m # l
  <2>1. m \in DOMAIN g /\ h[m] = g[m]
    <3>1. m \in DOMAIN g  BY <1>5, <1>c DEF IsCut
    <3> QED  BY <1>5, <3>1, <1>c DEF IsCut
  <2>2. From(t, l, m) = m /\ Whence(t, n, m, j) = j  BY <1>5 DEF From, Whence
  <2>3. j \in Nat  BY <1>1, <2>1, OnLeaf
  <2> QED  BY <1>2, <2>1, <2>2, <2>3
<1> QED  BY <1>3, <1>4, <1>5

\* which keeps the order of the entries,
LEMMA CutOrder ==
  ASSUME NEW g, NEW k, Good(g, k), NEW l \in DOMAIN g, NEW n \in 1 .. Len(g[l]) - 1,
         NEW t, t = NewLeaf(g, l, n), NEW h, h = CutOf(g, l, n),
         NEW m \in DOMAIN h, NEW j \in DOMAIN h[m],
         NEW p \in DOMAIN h, NEW q \in DOMAIN h[p], InFront(m, j, p, q)
  PROVE  InFront(From(t, l, m), Whence(t, n, m, j), From(t, l, p), Whence(t, n, p, q))
<1>1. Typed(g)  BY DEF Good
<1>c. IsCut(g, l, n, t, h)  BY CutIs
<1>2. j \in Nat /\ q \in Nat /\ n \in Nat  BY CutFrom
<1>3. l \in Nat /\ t \in Nat /\ l < t /\ \A x \in DOMAIN g : x \in Nat /\ (x > l => x > t)
  <2>1. t > l /\ t \in Nat /\ l \in Nat  BY <1>1, NewLeafIs, OnLeaf
  <2> QED  BY <1>1, <2>1, NewLeafIs, OnLeaf
<1>4. \A x \in DOMAIN h : x = t \/ x \in DOMAIN g  BY <1>c DEF IsCut
<1>5. CASE m = p
  <2>1. j < q  BY <1>3, <1>4, <1>5 DEF InFront
  <2>2. CASE m = t  BY <1>2, <1>5, <2>1, <2>2 DEF InFront, From, Whence
  <2>3. CASE m # t  BY <1>2, <1>5, <2>1, <2>3 DEF InFront, From, Whence
  <2> QED  BY <2>2, <2>3
<1>6. CASE m # p
  <2>1. m < p  BY <1>6 DEF InFront
  <2>2. CASE m = t
    <3>1. p # t /\ p \in DOMAIN g /\ p > t  BY <1>3, <1>4, <1>6, <2>1, <2>2
    <3>2. l < p  BY <1>3, <3>1
    <3> QED  BY <2>2, <3>1, <3>2 DEF InFront, From, Whence
  <2>3. CASE p = t
    <3>1. m # t /\ m \in DOMAIN g  BY <1>4, <1>6, <2>3
    <3>2. ~(m > l)  BY <1>3, <2>1, <2>3, <3>1
    <3>3. CASE m = l
      <4>1. j \in 1 .. n  BY <3>3, <1>c DEF IsCut
      <4>2. q \in 1 .. Len(g[l]) - n  BY <2>3, <1>c DEF IsCut
      <4>3. Len(g[l]) \in Nat  BY <1>1, OnLeaf
      <4>4. j < n + q  BY <1>2, <4>1, <4>2, <4>3
      <4> QED  BY <2>3, <3>1, <3>3, <4>4 DEF InFront, From, Whence
    <3>4. CASE m # l
      <4>1. m < l  BY <1>3, <3>1, <3>2, <3>4
      <4> QED  BY <2>3, <3>1, <4>1 DEF InFront, From, Whence
    <3> QED  BY <3>3, <3>4
  <2>4. CASE m # t /\ p # t  BY <2>1, <2>4 DEF InFront, From, Whence
  <2> QED  BY <2>2, <2>3, <2>4
<1> QED  BY <1>5, <1>6

\* so that they stay in order and in their places,
LEMMA CutGood ==
  ASSUME NEW g, NEW k, Good(g, k), NEW l \in DOMAIN g, NEW n \in 1 .. Len(g[l]) - 1,
         NEW t, t = NewLeaf(g, l, n), NEW h, h = CutOf(g, l, n)
  PROVE  Good(h, k)
<1>1. Typed(g) /\ Ascend(g, k) /\ InPlace(g, k) /\ LastFull(g)  BY DEF Good
<1>2. IsCut(g, l, n, t, h)  BY CutIs
<1>3. l \in Nat /\ t \in Nat /\ t \in ColumnKeys /\ l < t
  <2>1. t > l /\ t \in Nat /\ l \in Nat /\ t \in ColumnKeys  BY <1>1, NewLeafIs, OnLeaf
  <2> QED  BY <2>1
<1>4. \A x \in DOMAIN g : x \in Nat /\ (x > l => x > t) /\ x # t
  BY <1>1, NewLeafIs, OnLeaf
<1>5. Typed(h)
  <2>1. \A x \in DOMAIN h : x = t \/ x = l \/ (x \in DOMAIN g /\ x # l)
    BY <1>2 DEF IsCut
  <2>2. \A x \in DOMAIN h : h[x] \in Buckets
    <3>1. \A x \in DOMAIN g : g[x] \in Buckets  BY <1>1 DEF Typed
    <3> QED  BY <1>2, <2>1, <3>1 DEF IsCut
  <2>3. t \in 0 .. TopKey
    <3>1. t \in Nat /\ t <= TopKey  BY <1>3, KeysAre
    <3> QED  BY <3>1, KeysAre
  <2>4. h \in [DOMAIN h -> Buckets]
    <3>1. h = [x \in DOMAIN h |-> h[x]]
      <4>1. h = [x \in DOMAIN g \cup {t} |->
             IF x = l THEN SubSeq(g[l], 1, n)
             ELSE IF x = t THEN SubSeq(g[l], n + 1, Len(g[l])) ELSE g[x]]
        BY DEF CutOf
      <4> QED  BY <4>1
    <3> QED  BY <2>2, <3>1
  <2>5. DOMAIN h \subseteq 0 .. TopKey /\ 0 \in DOMAIN h
    <3>1. DOMAIN h = DOMAIN g \cup {t}  BY <1>2 DEF IsCut
    <3>2. DOMAIN g \subseteq 0 .. TopKey /\ 0 \in DOMAIN g  BY <1>1 DEF Typed
    <3> QED  BY <2>3, <3>1, <3>2
  <2> QED  BY <2>4, <2>5 DEF Typed
<1>6. Ascend(h, k)
  <2> SUFFICES ASSUME NEW m \in DOMAIN h, NEW p \in DOMAIN h, NEW j \in DOMAIN h[m],
                      NEW q \in DOMAIN h[p], InFront(m, j, p, q)
               PROVE  /\ ~h[m][j].open /\ h[m][j].top < h[p][q].top
                      /\ \A r \in h[p][q].rows : k[r] > h[m][j].top
    BY DEF Ascend
  <2>1. PICK m0, j0 : m0 = From(t, l, m) /\ j0 = Whence(t, n, m, j)  OBVIOUS
  <2>2. PICK p0, q0 : p0 = From(t, l, p) /\ q0 = Whence(t, n, p, q)  OBVIOUS
  <2>3. m0 \in DOMAIN g /\ j0 \in DOMAIN g[m0] /\ h[m][j] = g[m0][j0]
    BY <2>1, CutFrom
  <2>4. p0 \in DOMAIN g /\ q0 \in DOMAIN g[p0] /\ h[p][q] = g[p0][q0]
    BY <2>2, CutFrom
  <2>5. InFront(m0, j0, p0, q0)  BY <2>1, <2>2, CutOrder
  <2>6. /\ ~g[m0][j0].open /\ g[m0][j0].top < g[p0][q0].top
        /\ \A r \in g[p0][q0].rows : k[r] > g[m0][j0].top
    BY <1>1, <2>3, <2>4, <2>5 DEF Ascend
  <2> QED  BY <2>3, <2>4, <2>6
<1>7. InPlace(h, k)
  <2> SUFFICES ASSUME NEW m \in DOMAIN h, NEW j \in DOMAIN h[m]
               PROVE  /\ \A r \in h[m][j].rows : k[r] <= h[m][j].top
                      /\ h[m][j].top >= m
                      /\ \A p \in DOMAIN h : m < p => h[m][j].top < p
    BY DEF InPlace
  <2>1. PICK m0, j0 : m0 = From(t, l, m) /\ j0 = Whence(t, n, m, j)  OBVIOUS
  <2>2. m0 \in DOMAIN g /\ j0 \in DOMAIN g[m0] /\ h[m][j] = g[m0][j0] /\ j \in Nat
    BY <2>1, CutFrom
  <2>3. /\ \A r \in g[m0][j0].rows : k[r] <= g[m0][j0].top
        /\ g[m0][j0].top >= m0
        /\ \A p \in DOMAIN g : m0 < p => g[m0][j0].top < p
        /\ g[m0][j0].top \in Nat
    BY <1>1, <2>2, OnLeaf DEF InPlace
  <2>4. n + 1 \in DOMAIN g[l] /\ n \in Nat
    <3>1. n \in Nat /\ Len(g[l]) \in Nat /\ DOMAIN g[l] = 1 .. Len(g[l])  BY <1>2 DEF IsCut
    <3> QED  BY <3>1
  <2>5. m \in DOMAIN g \/ m = t  BY <1>2 DEF IsCut
  <2>6. h[m][j].top >= m
    <3>1. CASE m = t
      <4>1. m0 = l /\ j0 = n + j  BY <2>1, <3>1 DEF From, Whence
      <4>2. j \in 1 .. Len(g[l]) - n /\ Len(g[l]) \in Nat  BY <1>2, <3>1 DEF IsCut
      <4>3. j = 1 \/ InFront(l, n + 1, l, j0)
        <5>1. j = 1 \/ n + 1 < j0  BY <2>4, <4>1, <4>2
        <5> QED  BY <5>1 DEF InFront
      <4>4. g[l][n + 1].top <= g[m0][j0].top
        <5>1. CASE j = 1  BY <2>3, <4>1, <5>1
        <5>2. CASE InFront(l, n + 1, l, j0)
          <6>1. g[l][n + 1].top < g[l][j0].top
            BY <1>1, <2>2, <2>4, <4>1, <5>2 DEF Ascend
          <6>2. g[l][n + 1].top \in Nat  BY <1>1, <2>4, OnLeaf
          <6> QED  BY <2>3, <4>1, <6>1, <6>2
        <5> QED  BY <4>3, <5>1, <5>2
      <4>5. t = g[l][n + 1].top  BY DEF NewLeaf
      <4> QED  BY <1>3, <2>2, <2>3, <3>1, <4>4, <4>5
    <3>2. CASE m # t
      <4>1. m0 = m  BY <2>1, <3>2 DEF From
      <4> QED  BY <2>2, <2>3, <4>1
    <3> QED  BY <3>1, <3>2
  <2>7. ASSUME NEW p \in DOMAIN h, m < p  PROVE h[m][j].top < p
    <3>1. p \in DOMAIN g \/ p = t  BY <1>2 DEF IsCut
    <3>2. CASE p = t
      <4>1. m # t /\ m \in DOMAIN g /\ m0 = m /\ j0 = j
        <5>1. m # t  BY <1>3, <2>7, <3>2
        <5> QED  BY <2>1, <2>5, <5>1 DEF From, Whence
      <4>2. CASE m = l
        <5>1. j \in 1 .. n  BY <1>2, <4>2 DEF IsCut
        <5>2. j < n + 1  BY <2>4, <5>1
        <5>3. InFront(l, j, l, n + 1)  BY <5>2 DEF InFront
        <5>4. g[l][j].top < g[l][n + 1].top
          BY <1>1, <2>2, <2>4, <4>1, <4>2, <5>3 DEF Ascend
        <5> QED  BY <2>2, <3>2, <4>1, <4>2, <5>4 DEF NewLeaf
      <4>3. CASE m # l
        <5>1. m < l  BY <1>3, <1>4, <2>7, <3>2, <4>1, <4>3
        <5>2. g[m0][j0].top < l  BY <2>3, <4>1, <5>1
        <5> QED  BY <1>3, <2>2, <2>3, <3>2, <5>2
      <4> QED  BY <4>2, <4>3
    <3>3. CASE p # t
      <4>1. p \in DOMAIN g /\ p \in Nat  BY <1>4, <3>1, <3>3
      <4>2. m0 < p
        <5>1. CASE m = t  BY <1>3, <2>1, <2>7, <4>1, <5>1 DEF From
        <5>2. CASE m # t  BY <2>1, <2>7, <5>2 DEF From
        <5> QED  BY <5>1, <5>2
      <4> QED  BY <2>2, <2>3, <4>1, <4>2
    <3> QED  BY <3>2, <3>3
  <2> QED  BY <2>2, <2>3, <2>6, <2>7
<1>8. LastFull(h)
  <2> SUFFICES ASSUME NEW m \in DOMAIN h, h[m] = <<>>, \A p \in DOMAIN h : p <= m
               PROVE  m = 0
    BY DEF LastFull
  <2>1. t \in DOMAIN h /\ \A p \in DOMAIN g : p \in DOMAIN h  BY <1>2 DEF IsCut
  <2>2. m # l  BY <1>3, <2>1
  <2>3. m # t
    <3>1. DOMAIN h[t] = 1 .. Len(g[l]) - n /\ n \in Nat /\ Len(g[l]) \in Nat
      BY <1>2 DEF IsCut
    <3>2. 1 \in DOMAIN h[t]  BY <3>1
    <3>3. h[t] # <<>>
      <4>1. h[t] \in Seq(Bkt)  BY <1>2 DEF IsCut, Buckets, Bkt
      <4>2. DOMAIN h[t] = 1 .. Len(h[t])  BY <4>1, LenProperties
      <4>3. h[t] = <<>> => Len(h[t]) = 0  BY <4>1, EmptySeq
      <4> QED  BY <3>2, <4>2, <4>3
    <3> QED  BY <3>3
  <2>4. m \in DOMAIN g /\ h[m] = g[m]
    <3>1. m \in DOMAIN g  BY <1>2, <2>3 DEF IsCut
    <3> QED  BY <1>2, <2>2, <3>1 DEF IsCut
  <2> QED  BY <1>1, <2>1, <2>4 DEF LastFull
<1> QED  BY <1>5, <1>6, <1>7, <1>8 DEF Good

\* and there are the same of them, before any leaf there was.
LEMMA CutKeeps ==
  ASSUME NEW g, NEW k, Good(g, k), NEW l \in DOMAIN g, NEW n \in 1 .. Len(g[l]) - 1,
         NEW t, t = NewLeaf(g, l, n), NEW h, h = CutOf(g, l, n)
  PROVE  /\ DOMAIN g \subseteq DOMAIN h
         /\ \A e : e \in In(g) <=> e \in In(h)
         /\ \A x \in DOMAIN g : \A e : e \in Before(h, x) => e \in Before(g, x)
<1>1. Typed(g)  BY DEF Good
<1>2. IsCut(g, l, n, t, h)  BY CutIs
<1>3. ASSUME NEW m \in DOMAIN g, NEW j \in DOMAIN g[m]
      PROVE  g[m][j] \in In(h)
  <2>1. CASE m # l
    <3>1. h[m] = g[m] /\ m \in DOMAIN h  BY <1>2, <2>1 DEF IsCut
    <3> QED  BY <3>1, InIs
  <2>2. CASE m = l
    <3>1. n \in Nat /\ Len(g[l]) \in Nat /\ j \in 1 .. Len(g[l])  BY <1>2, <2>2 DEF IsCut
    <3>2. CASE j <= n
      <4>1. j \in 1 .. n  BY <3>1, <3>2
      <4>2. h[l][j] = g[l][j] /\ j \in DOMAIN h[l] /\ l \in DOMAIN h
        BY <1>2, <4>1 DEF IsCut
      <4> QED  BY <2>2, <4>2, InIs
    <3>3. CASE j > n
      <4>1. PICK i : i = j - n  OBVIOUS
      <4>2. i \in 1 .. Len(g[l]) - n /\ n + i = j  BY <3>1, <3>3, <4>1
      <4>3. h[t][i] = g[l][n + i] /\ i \in DOMAIN h[t] /\ t \in DOMAIN h
        BY <1>2, <4>2 DEF IsCut
      <4>4. h[t][i] = g[m][j]  BY <2>2, <4>2, <4>3
      <4> QED  BY <4>3, <4>4, InIs
    <3>4. j <= n \/ j > n  BY <3>1
    <3> QED  BY <3>2, <3>3, <3>4
  <2> QED  BY <2>1, <2>2
<1>4. ASSUME NEW m \in DOMAIN h, NEW j \in DOMAIN h[m]
      PROVE  /\ h[m][j] \in In(g)
             /\ \A x \in DOMAIN g : m < x => h[m][j] \in Before(g, x)
  <2>1. PICK m0, j0 : m0 = From(t, l, m) /\ j0 = Whence(t, n, m, j)  OBVIOUS
  <2>2. m0 \in DOMAIN g /\ j0 \in DOMAIN g[m0] /\ h[m][j] = g[m0][j0]
    BY <2>1, CutFrom
  <2>3. ASSUME NEW x \in DOMAIN g, m < x  PROVE m0 < x
    <3>1. CASE m = t
      <4>1. t > l /\ t \in Nat /\ l \in Nat /\ x \in Nat  BY <1>1, NewLeafIs, OnLeaf
      <4>2. l < x  BY <2>3, <3>1, <4>1
      <4> QED  BY <2>1, <3>1, <4>2 DEF From
    <3>2. CASE m # t  BY <2>1, <2>3, <3>2 DEF From
    <3> QED  BY <3>1, <3>2
  <2>4. h[m][j] \in In(g)  BY <2>2, InIs
  <2>5. \A x \in DOMAIN g : m < x => h[m][j] \in Before(g, x)  BY <2>2, <2>3, BeforeIs
  <2> QED  BY <2>4, <2>5
<1>5. DOMAIN g \subseteq DOMAIN h  BY <1>2 DEF IsCut
<1>6. ASSUME NEW e, e \in In(g)  PROVE e \in In(h)
  BY <1>3, <1>6, InIs
<1>7. ASSUME NEW e, e \in In(h)  PROVE e \in In(g)
  BY <1>4, <1>7, InIs
<1>8. ASSUME NEW x \in DOMAIN g, NEW e, e \in Before(h, x)  PROVE e \in Before(g, x)
  <2>1. PICK m \in DOMAIN h : m < x /\ \E i \in DOMAIN h[m] : e = h[m][i]
    BY <1>8, BeforeIs
  <2> QED  BY <1>4, <2>1
<1> QED  BY <1>5, <1>6, <1>7, <1>8

-----------------------------------------------------------------------------
(* What steps do to the buckets                                            *)

LEMMA TurnOfCut ==
  ASSUME NEW f, NEW g, NEW h, NEW S, NEW D, Turn(f, g, S, D),
         DOMAIN g \subseteq DOMAIN h,
         \A e : e \in In(g) <=> e \in In(h),
         \A x \in DOMAIN g : \A e : e \in Before(h, x) => e \in Before(g, x)
  PROVE  Turn(f, h, S, D)
<1>1. DOMAIN f \subseteq DOMAIN g /\ KeepsBefore(f, g) /\ KeepsKinds(f, g, S)
      /\ KeepsTops(f, g) /\ KeepsRows(f, g, D)
  BY DEF Turn
<1>2. DOMAIN f \subseteq DOMAIN h  BY <1>1
<1>3. KeepsBefore(f, h)  BY <1>1 DEF KeepsBefore
<1>4. KeepsKinds(f, h, S)  BY <1>1 DEF KeepsKinds
<1>5. KeepsTops(f, h)  BY <1>1 DEF KeepsTops
<1>6. KeepsRows(f, h, D)  BY <1>1 DEF KeepsRows
<1> QED  BY <1>2, <1>3, <1>4, <1>5, <1>6 DEF Turn

LEMMA TurnTwice ==
  ASSUME NEW f, NEW g, NEW h, NEW S, NEW D, Typed(f), Typed(g), Typed(h),
         Turn(f, g, S, D), Turn(g, h, S, D)
  PROVE  Turn(f, h, S, D)
<1>1. DOMAIN f \subseteq DOMAIN g /\ KeepsBefore(f, g) /\ KeepsKinds(f, g, S)
      /\ KeepsTops(f, g) /\ KeepsRows(f, g, D)
  BY DEF Turn
<1>2. DOMAIN g \subseteq DOMAIN h /\ KeepsBefore(g, h) /\ KeepsKinds(g, h, S)
      /\ KeepsTops(g, h) /\ KeepsRows(g, h, D)
  BY DEF Turn
<1>3. /\ \A e \in In(f) : e.top \in Nat
      /\ \A e \in In(g) : e.top \in Nat
      /\ \A e \in In(h) : e.top \in Nat
  BY BktIs
<1>4. DOMAIN f \subseteq DOMAIN h  BY <1>1, <1>2
<1>5. KeepsBefore(f, h)
  <2> SUFFICES ASSUME NEW x \in DOMAIN f, \A e \in Before(f, x) : ~e.open,
                      NEW d \in Before(h, x)
               PROVE  ~d.open /\ \E e \in Before(f, x) : e.top = d.top
    BY DEF KeepsBefore
  <2>1. \A c \in Before(g, x) : ~c.open /\ \E e \in Before(f, x) : e.top = c.top
    BY <1>1 DEF KeepsBefore
  <2>2. x \in DOMAIN g  BY <1>1
  <2>3. ~d.open /\ \E c \in Before(g, x) : c.top = d.top
    BY <1>2, <2>1, <2>2 DEF KeepsBefore
  <2> QED  BY <2>1, <2>3
<1>6. KeepsKinds(f, h, S)
  <2> SUFFICES ASSUME NEW d \in In(h), ~IsNew(d, f, S)
               PROVE  \E e \in In(f) : ComesFrom(d, e, S)
    BY DEF KeepsKinds
  <2>1. ~IsNew(d, g, S)
    <3> SUFFICES ASSUME d.rows \cap S = {}, \A c \in In(g) : c.top < d.top,
                        NEW e \in In(f)
                 PROVE  e.top < d.top
      BY DEF IsNew
    <3>1. PICK c \in In(g) : c.top >= e.top  BY <1>1 DEF KeepsTops
    <3>2. c.top < d.top  OBVIOUS
    <3> QED  BY <1>3, <3>1, <3>2
  <2>2. PICK c \in In(g) : ComesFrom(d, c, S)  BY <1>2, <2>1 DEF KeepsKinds
  <2>3. ~IsNew(c, f, S)
    <3> SUFFICES ASSUME IsNew(c, f, S)  PROVE IsNew(d, f, S)
      OBVIOUS
    <3>1. d.rows \cap S = {}  BY <2>2 DEF IsNew, ComesFrom
    <3>2. ASSUME NEW e \in In(f)  PROVE e.top < d.top
      <4>1. e.top < c.top  BY DEF IsNew
      <4>2. d.top >= c.top  BY <1>3, <2>2 DEF ComesFrom
      <4> QED  BY <1>3, <4>1, <4>2
    <3> QED  BY <3>1, <3>2 DEF IsNew
  <2>4. PICK e \in In(f) : ComesFrom(c, e, S)  BY <1>1, <2>3 DEF KeepsKinds
  <2>5. d.rows \cap S \subseteq e.rows  BY <2>2, <2>4 DEF ComesFrom
  <2>6. d.open => e.open  BY <2>2, <2>4 DEF ComesFrom
  <2>7. d.top = e.top \/ (e.open /\ d.top > e.top)
    <3>1. d.top = c.top \/ (c.open /\ d.top > c.top)  BY <2>2 DEF ComesFrom
    <3>2. c.top = e.top \/ (e.open /\ c.top > e.top)  BY <2>4 DEF ComesFrom
    <3>3. c.open => e.open  BY <2>4 DEF ComesFrom
    <3> QED  BY <1>3, <3>1, <3>2, <3>3
  <2>8. ComesFrom(d, e, S)  BY <2>5, <2>6, <2>7 DEF ComesFrom
  <2> QED  BY <2>8
<1>7. KeepsTops(f, h)
  <2> SUFFICES ASSUME NEW e \in In(f)  PROVE \E d \in In(h) : d.top >= e.top
    BY DEF KeepsTops
  <2>1. PICK c \in In(g) : c.top >= e.top  BY <1>1 DEF KeepsTops
  <2>2. PICK d \in In(h) : d.top >= c.top  BY <1>2 DEF KeepsTops
  <2> QED  BY <1>3, <2>1, <2>2
<1>8. KeepsRows(f, h, D)
  <2> SUFFICES ASSUME NEW e \in In(f), NEW r \in e.rows, r \notin D
               PROVE  \E d \in In(h) : r \in d.rows
    BY DEF KeepsRows
  <2>1. PICK c \in In(g) : r \in c.rows  BY <1>1 DEF KeepsRows
  <2> QED  BY <1>2, <2>1 DEF KeepsRows
<1> QED  BY <1>4, <1>5, <1>6, <1>7, <1>8 DEF Turn

\* An entry is put in the place of another: d for the entry i of leaf l.
Put(f, l, i, d) == [f EXCEPT ![l] = [f[l] EXCEPT ![i] = d]]
MayPut(f, k, l, i, d, S, D) ==
  /\ d \in Bkt
  /\ ComesFrom(d, f[l][i], S)
  /\ \A r \in f[l][i].rows : r \in D \/ r \in d.rows
  /\ \A r \in d.rows :
       /\ k[r] <= d.top
       /\ \A m \in DOMAIN f : \A j \in DOMAIN f[m] : InFront(m, j, l, i) => k[r] > f[m][j].top

IsPut(f, l, i, d, g) ==
  /\ Typed(g) /\ DOMAIN g = DOMAIN f
  /\ \A m \in DOMAIN f : DOMAIN g[m] = DOMAIN f[m]
  /\ g[l][i] = d
  /\ \A m \in DOMAIN f : \A j \in DOMAIN f[m] : (m = l /\ j = i) \/ g[m][j] = f[m][j]

LEMMA PutIs ==
  ASSUME NEW f, Typed(f), NEW l \in DOMAIN f, NEW i \in DOMAIN f[l], NEW d \in Bkt,
         NEW g, g = Put(f, l, i, d)
  PROVE  IsPut(f, l, i, d, g)
<1>1. f \in [DOMAIN f -> Buckets]  BY DEF Typed
<1>2. f[l] \in Seq(Bkt) /\ DOMAIN f[l] = 1 .. Len(f[l]) /\ Len(f[l]) \in Nat  BY OnLeaf
<1> DEFINE s == f[l]
           t == [s EXCEPT ![i] = d]
<1>3. s \in Seq(Bkt) /\ i \in 1 .. Len(s)  BY <1>2
<1>4. t \in Seq(Bkt)
  <2> HIDE DEF s
  <2> QED  BY <1>3
<1>5. DOMAIN t = DOMAIN s /\ t[i] = d /\ \A j \in DOMAIN s : j = i \/ t[j] = s[j]
  <2>1. i \in DOMAIN s  OBVIOUS
  <2> HIDE DEF s
  <2> QED  BY <2>1
<1>6. Buckets = Seq(Bkt)  BY DEF Buckets, Bkt
<1>7. g = [f EXCEPT ![l] = t]  BY DEF Put
<1> HIDE DEF t
<1>8. DOMAIN g = DOMAIN f /\ g[l] = t /\ \A m \in DOMAIN f : m = l \/ g[m] = f[m]
  BY <1>7
<1>9. g \in [DOMAIN g -> Buckets]  BY <1>1, <1>4, <1>6, <1>7
<1>10. Typed(g)  BY <1>8, <1>9 DEF Typed
<1>11. \A m \in DOMAIN f : DOMAIN g[m] = DOMAIN f[m]
  <2>1. ASSUME NEW m \in DOMAIN f  PROVE DOMAIN g[m] = DOMAIN f[m]
    <3>1. CASE m = l  BY <1>5, <1>8, <3>1
    <3>2. CASE m # l  BY <1>8, <3>2
    <3> QED  BY <3>1, <3>2
  <2> QED  BY <2>1
<1>12. g[l][i] = d  BY <1>5, <1>8
<1>13. ASSUME NEW m \in DOMAIN f, NEW j \in DOMAIN f[m]
       PROVE  (m = l /\ j = i) \/ g[m][j] = f[m][j]
  <2>1. CASE m = l  BY <1>5, <1>8, <2>1
  <2>2. CASE m # l  BY <1>8, <2>2
  <2> QED  BY <2>1, <2>2
<1> QED  BY <1>8, <1>10, <1>11, <1>12, <1>13 DEF IsPut

LEMMA PutGood ==
  ASSUME NEW f, NEW k, Good(f, k), NEW l \in DOMAIN f, NEW i \in DOMAIN f[l],
         NEW d, NEW S, NEW D, MayPut(f, k, l, i, d, S, D), NEW g, g = Put(f, l, i, d)
  PROVE  Good(g, k)
<1>1. Typed(f) /\ Ascend(f, k) /\ InPlace(f, k) /\ LastFull(f)  BY DEF Good
<1>2. d \in Bkt /\ ComesFrom(d, f[l][i], S)  BY DEF MayPut
<1>3. IsPut(f, l, i, d, g)  BY <1>1, <1>2, PutIs
<1>4. Typed(g) /\ DOMAIN g = DOMAIN f /\ (\A m \in DOMAIN f : DOMAIN g[m] = DOMAIN f[m])
      /\ g[l][i] = d
      /\ (\A m \in DOMAIN f : \A j \in DOMAIN f[m] : (m = l /\ j = i) \/ g[m][j] = f[m][j])
  BY <1>3 DEF IsPut
<1> DEFINE e == f[l][i]
<1>5. e.top \in Nat /\ d.top \in Nat /\ d.top >= e.top /\ (d.open => e.open)
  <2>1. e.top \in Nat /\ d.top \in Nat
    <3>1. d.top \in ColumnKeys  BY <1>2 DEF Bkt
    <3> QED  BY <1>1, <3>1, OnLeaf, KeysAre
  <2> QED  BY <1>2, <2>1 DEF ComesFrom
<1>6. d.top = e.top \/ (e.open /\ d.top > e.top)  BY <1>2 DEF ComesFrom
<1>7. \A r \in d.rows :
        /\ k[r] <= d.top
        /\ \A m \in DOMAIN f : \A j \in DOMAIN f[m] : InFront(m, j, l, i) => k[r] > f[m][j].top
  BY DEF MayPut
<1> HIDE DEF e
<1>8. e = f[l][i]  BY DEF e
<1>9. \A m \in DOMAIN f : \A j \in DOMAIN f[m] : f[m][j].top \in Nat
  BY <1>1, OnLeaf
<1>10. Ascend(g, k)
  <2> SUFFICES ASSUME NEW m \in DOMAIN g, NEW p \in DOMAIN g, NEW j \in DOMAIN g[m],
                      NEW q \in DOMAIN g[p], InFront(m, j, p, q)
               PROVE  /\ ~g[m][j].open /\ g[m][j].top < g[p][q].top
                      /\ \A r \in g[p][q].rows : k[r] > g[m][j].top
    BY DEF Ascend
  <2>1. m \in DOMAIN f /\ p \in DOMAIN f /\ j \in DOMAIN f[m] /\ q \in DOMAIN f[p]
    BY <1>4
  <2>2. /\ ~f[m][j].open /\ f[m][j].top < f[p][q].top
        /\ \A r \in f[p][q].rows : k[r] > f[m][j].top
    BY <1>1, <2>1 DEF Ascend
  <2>3. ~(m = p /\ j = q)
    <3>1. m \in Nat /\ j \in Nat  BY <1>1, <2>1, OnLeaf
    <3> QED  BY <3>1 DEF InFront
  <2>4. CASE m = l /\ j = i
    <3>1. ~e.open /\ d.top = e.top /\ ~d.open  BY <1>5, <1>6, <1>8, <2>2, <2>4
    <3>2. g[m][j] = d  BY <1>4, <2>4
    <3>3. g[p][q] = f[p][q]  BY <1>4, <2>1, <2>3, <2>4
    <3> QED  BY <1>8, <2>2, <2>4, <3>1, <3>2, <3>3
  <2>5. CASE p = l /\ q = i
    <3>1. g[m][j] = f[m][j]  BY <1>4, <2>1, <2>3, <2>5
    <3>2. g[p][q] = d  BY <1>4, <2>5
    <3>3. \A r \in d.rows : k[r] > f[m][j].top  BY <1>7, <2>1, <2>5
    <3>4. f[m][j].top < d.top  BY <1>5, <1>8, <1>9, <2>1, <2>2, <2>5
    <3> QED  BY <2>2, <3>1, <3>2, <3>3, <3>4
  <2>6. CASE ~(m = l /\ j = i) /\ ~(p = l /\ q = i)
    <3>1. g[m][j] = f[m][j] /\ g[p][q] = f[p][q]  BY <1>4, <2>1, <2>6
    <3> QED  BY <2>2, <3>1
  <2> QED  BY <2>4, <2>5, <2>6
<1>11. InPlace(g, k)
  <2> SUFFICES ASSUME NEW m \in DOMAIN g, NEW j \in DOMAIN g[m]
               PROVE  /\ \A r \in g[m][j].rows : k[r] <= g[m][j].top
                      /\ g[m][j].top >= m
                      /\ \A p \in DOMAIN g : m < p => g[m][j].top < p
    BY DEF InPlace
  <2>1. m \in DOMAIN f /\ j \in DOMAIN f[m] /\ m \in Nat  BY <1>1, <1>4, OnLeaf
  <2>2. /\ \A r \in f[m][j].rows : k[r] <= f[m][j].top
        /\ f[m][j].top >= m
        /\ \A p \in DOMAIN f : m < p => f[m][j].top < p
    BY <1>1, <2>1 DEF InPlace
  <2>3. CASE m = l /\ j = i
    <3>1. g[m][j] = d  BY <1>4, <2>3
    <3>2. d.top >= m  BY <1>5, <1>8, <2>1, <2>2, <2>3
    <3>3. \A p \in DOMAIN g : m < p => d.top < p
      <4>1. CASE d.top = e.top  BY <1>4, <1>8, <2>2, <2>3, <4>1
      <4>2. CASE e.open
        <5>1. \A p \in DOMAIN f : p <= l  BY <1>8, <4>2, OpenIsLast
        <5>2. \A p \in DOMAIN f : p \in Nat  BY <1>1, OnLeaf
        <5>3. \A p \in DOMAIN f : ~(m < p)  BY <2>1, <2>3, <5>1, <5>2
        <5> QED  BY <1>4, <5>3
      <4> QED  BY <1>6, <4>1, <4>2
    <3> QED  BY <1>7, <3>1, <3>2, <3>3
  <2>4. CASE ~(m = l /\ j = i)
    <3>1. g[m][j] = f[m][j]  BY <1>4, <2>1, <2>4
    <3> QED  BY <1>4, <2>2, <3>1
  <2> QED  BY <2>3, <2>4
<1>12. LastFull(g)
  <2> SUFFICES ASSUME NEW m \in DOMAIN g, g[m] = <<>>, \A p \in DOMAIN g : p <= m
               PROVE  m = 0
    BY DEF LastFull
  <2>1. m \in DOMAIN f /\ DOMAIN g[m] = DOMAIN f[m]  BY <1>4
  <2>2. DOMAIN f[m] = 1 .. Len(f[m]) /\ DOMAIN g[m] = 1 .. Len(g[m])
        /\ Len(f[m]) \in Nat /\ Len(g[m]) \in Nat /\ Len(g[m]) = 0
        /\ (f[m] = <<>> <=> Len(f[m]) = 0)
    BY <1>1, <1>4, <2>1, OnLeaf
  <2>3. Len(f[m]) = 0
    <3>1. ASSUME Len(f[m]) # 0  PROVE FALSE
      <4>1. 1 \in DOMAIN f[m]  BY <2>2, <3>1
      <4>2. 1 \in DOMAIN g[m]  BY <2>1, <4>1
      <4> QED  BY <2>2, <4>2
    <3> QED  BY <3>1
  <2> QED  BY <1>1, <1>4, <2>1, <2>2, <2>3 DEF LastFull
<1> QED  BY <1>4, <1>10, <1>11, <1>12 DEF Good

LEMMA PutTurn ==
  ASSUME NEW f, NEW k, Good(f, k), NEW l \in DOMAIN f, NEW i \in DOMAIN f[l],
         NEW d, NEW S, NEW D, MayPut(f, k, l, i, d, S, D), NEW g, g = Put(f, l, i, d)
  PROVE  Turn(f, g, S, D) /\ d \in In(g)
<1>1. Typed(f)  BY DEF Good
<1>2. d \in Bkt /\ ComesFrom(d, f[l][i], S)  BY DEF MayPut
<1>3. IsPut(f, l, i, d, g)  BY <1>1, <1>2, PutIs
<1>4. Typed(g) /\ DOMAIN g = DOMAIN f /\ (\A m \in DOMAIN f : DOMAIN g[m] = DOMAIN f[m])
      /\ g[l][i] = d
      /\ (\A m \in DOMAIN f : \A j \in DOMAIN f[m] : (m = l /\ j = i) \/ g[m][j] = f[m][j])
  BY <1>3 DEF IsPut
<1>5. PICK e : e = f[l][i]  OBVIOUS
<1>6. \A m \in DOMAIN f : \A j \in DOMAIN f[m] : f[m][j].top \in Nat
  BY <1>1, OnLeaf
<1>7. d.top \in Nat /\ e.top \in Nat
  <2>1. d.top \in ColumnKeys  BY <1>2 DEF Bkt
  <2> QED  BY <1>5, <1>6, <2>1, KeysAre
<1>8. /\ d.top = e.top \/ (e.open /\ d.top > e.top)
      /\ d.open => e.open
      /\ d.rows \cap S \subseteq e.rows
  BY <1>2, <1>5 DEF ComesFrom
<1>9. d.top >= e.top  BY <1>7, <1>8
<1>10. KeepsBefore(f, g)
  <2> SUFFICES ASSUME NEW x \in DOMAIN f, \A c \in Before(f, x) : ~c.open,
                      NEW b \in Before(g, x)
               PROVE  ~b.open /\ \E c \in Before(f, x) : c.top = b.top
    BY DEF KeepsBefore
  <2>1. PICK m \in DOMAIN g : m < x /\ \E j \in DOMAIN g[m] : b = g[m][j]  BY BeforeIs
  <2>2. PICK j \in DOMAIN g[m] : b = g[m][j]  BY <2>1
  <2>3. m \in DOMAIN f /\ j \in DOMAIN f[m]  BY <1>4, <2>1, <2>2
  <2>4. f[m][j] \in Before(f, x)  BY <2>1, <2>3, BeforeIs
  <2>5. ~f[m][j].open  BY <2>4
  <2>6. ~b.open /\ b.top = f[m][j].top
    <3>1. CASE m = l /\ j = i  BY <1>4, <1>5, <1>8, <2>2, <2>5, <3>1
    <3>2. CASE ~(m = l /\ j = i)  BY <1>4, <2>2, <2>3, <2>5, <3>2
    <3> QED  BY <3>1, <3>2
  <2> QED  BY <2>4, <2>6
<1>11. KeepsKinds(f, g, S)
  <2> SUFFICES ASSUME NEW b \in In(g)  PROVE \E c \in In(f) : ComesFrom(b, c, S)
    BY DEF KeepsKinds
  <2>1. PICK m \in DOMAIN g : \E j \in DOMAIN g[m] : b = g[m][j]  BY InIs
  <2>2. PICK j \in DOMAIN g[m] : b = g[m][j]  BY <2>1
  <2>3. m \in DOMAIN f /\ j \in DOMAIN f[m]  BY <1>4, <2>1, <2>2
  <2>4. f[m][j] \in In(f)  BY <2>3, InIs
  <2>5. ComesFrom(b, f[m][j], S)
    <3>1. CASE m = l /\ j = i  BY <1>2, <1>4, <2>2, <3>1
    <3>2. CASE ~(m = l /\ j = i)
      <4>1. b = f[m][j]  BY <1>4, <2>2, <2>3, <3>2
      <4> QED  BY <4>1 DEF ComesFrom
    <3> QED  BY <3>1, <3>2
  <2> QED  BY <2>4, <2>5
<1>12. \A c \in In(f) : c \in In(g) \/ c = e
  <2> SUFFICES ASSUME NEW c \in In(f), c # e  PROVE c \in In(g)
    OBVIOUS
  <2>1. PICK m \in DOMAIN f : \E j \in DOMAIN f[m] : c = f[m][j]  BY InIs
  <2>2. PICK j \in DOMAIN f[m] : c = f[m][j]  BY <2>1
  <2>3. g[m][j] = f[m][j] /\ m \in DOMAIN g /\ j \in DOMAIN g[m]  BY <1>4, <1>5, <2>2
  <2> QED  BY <2>2, <2>3, InIs
<1>13. d \in In(g)
  <2>1. l \in DOMAIN g /\ i \in DOMAIN g[l] /\ d = g[l][i]  BY <1>4
  <2> QED  BY <2>1, InIs
<1>14. KeepsTops(f, g)
  <2> SUFFICES ASSUME NEW c \in In(f)  PROVE \E b \in In(g) : b.top >= c.top
    BY DEF KeepsTops
  <2>1. c.top \in Nat  BY <1>1, BktIs
  <2>2. c.top >= c.top  BY <2>1
  <2> QED  BY <1>9, <1>12, <1>13, <2>2
<1>15. KeepsRows(f, g, D)
  <2> SUFFICES ASSUME NEW c \in In(f), NEW r \in c.rows, r \notin D
               PROVE  \E b \in In(g) : r \in b.rows
    BY DEF KeepsRows
  <2>1. CASE c \in In(g)  BY <2>1
  <2>2. CASE c = e
    <3>1. r \in d.rows  BY <1>5, <2>2 DEF MayPut
    <3> QED  BY <1>13, <3>1
  <2> QED  BY <1>12, <2>1, <2>2
<1>16. DOMAIN f \subseteq DOMAIN g  BY <1>4
<1> QED  BY <1>10, <1>11, <1>13, <1>14, <1>15, <1>16 DEF Turn

\* A bucket is opened after the others.
IsLast(f, l) == l \in DOMAIN f /\ \A m \in DOMAIN f : m <= l
Opened(f, l, d) == [f EXCEPT ![l] = Append(f[l], d)]
MayOpen(f, k, d, S) ==
  /\ d \in Bkt /\ d.rows \cap S = {}
  /\ \A e \in In(f) : ~e.open /\ e.top < d.top
  /\ \A r \in d.rows : k[r] = d.top

IsOpened(f, l, d, g) ==
  /\ Typed(g) /\ DOMAIN g = DOMAIN f
  /\ Len(f[l]) \in Nat /\ DOMAIN f[l] = 1 .. Len(f[l])
  /\ DOMAIN g[l] = 1 .. Len(f[l]) + 1
  /\ g[l][Len(f[l]) + 1] = d
  /\ \A i \in DOMAIN f[l] : g[l][i] = f[l][i]
  /\ \A m \in DOMAIN f : m # l => g[m] = f[m]

LEMMA OpenIs ==
  ASSUME NEW f, Typed(f), NEW l \in DOMAIN f, NEW d \in Bkt, NEW g, g = Opened(f, l, d)
  PROVE  IsOpened(f, l, d, g)
<1>1. f \in [DOMAIN f -> Buckets]  BY DEF Typed
<1>2. f[l] \in Seq(Bkt) /\ DOMAIN f[l] = 1 .. Len(f[l]) /\ Len(f[l]) \in Nat  BY OnLeaf
<1> DEFINE s == f[l]
           t == Append(s, d)
<1>3. s \in Seq(Bkt) /\ Len(s) \in Nat /\ DOMAIN s = 1 .. Len(s)  BY <1>2
<1>4. /\ t \in Seq(Bkt) /\ Len(t) = Len(s) + 1 /\ t[Len(s) + 1] = d
      /\ \A i \in 1 .. Len(s) : t[i] = s[i]
  <2> HIDE DEF s
  <2> QED  BY <1>3, AppendProperties
<1>5. Buckets = Seq(Bkt)  BY DEF Buckets, Bkt
<1>6. g = [f EXCEPT ![l] = t]  BY DEF Opened
<1> HIDE DEF t
<1>7. DOMAIN t = 1 .. Len(s) + 1
  <2> HIDE DEF s
  <2> QED  BY <1>4, LenProperties
<1>8. DOMAIN g = DOMAIN f /\ g[l] = t /\ \A m \in DOMAIN f : m # l => g[m] = f[m]
  BY <1>6
<1>9. g \in [DOMAIN g -> Buckets]  BY <1>1, <1>4, <1>5, <1>6
<1>10. Typed(g)  BY <1>8, <1>9 DEF Typed
<1>11. \A i \in DOMAIN f[l] : g[l][i] = f[l][i]  BY <1>3, <1>4, <1>8
<1>12. g[l][Len(f[l]) + 1] = d  BY <1>4, <1>8
<1>13. DOMAIN g[l] = 1 .. Len(f[l]) + 1  BY <1>7, <1>8
<1> HIDE DEF s
<1> QED  BY <1>2, <1>8, <1>10, <1>11, <1>12, <1>13 DEF IsOpened

\* Where an entry comes from that is there after it.
LEMMA OpenFrom ==
  ASSUME NEW f, Typed(f), NEW l \in DOMAIN f, NEW d \in Bkt, NEW g, IsOpened(f, l, d, g),
         NEW m \in DOMAIN g, NEW j \in DOMAIN g[m]
  PROVE  /\ m \in DOMAIN f
         /\ \/ m = l /\ j = Len(f[l]) + 1 /\ g[m][j] = d
            \/ j \in DOMAIN f[m] /\ g[m][j] = f[m][j]
<1>1. m \in DOMAIN f  BY DEF IsOpened
<1>2. CASE m # l  BY <1>1, <1>2 DEF IsOpened
<1>3. CASE m = l
  <2>1. j \in 1 .. Len(f[l]) + 1 /\ Len(f[l]) \in Nat /\ DOMAIN f[l] = 1 .. Len(f[l])
    BY <1>3 DEF IsOpened
  <2>2. j = Len(f[l]) + 1 \/ j \in DOMAIN f[l]  BY <2>1
  <2>3. CASE j = Len(f[l]) + 1  BY <1>1, <1>3, <2>3 DEF IsOpened
  <2>4. CASE j \in DOMAIN f[l]  BY <1>1, <1>3, <2>4 DEF IsOpened
  <2> QED  BY <2>2, <2>3, <2>4
<1> QED  BY <1>2, <1>3

LEMMA OpenGood ==
  ASSUME NEW f, NEW k, Good(f, k), NEW l, IsLast(f, l), NEW d, NEW S, MayOpen(f, k, d, S),
         NEW g, g = Opened(f, l, d)
  PROVE  Good(g, k)
<1>1. Typed(f) /\ Ascend(f, k) /\ InPlace(f, k) /\ LastFull(f)  BY DEF Good
<1>2. d \in Bkt /\ (\A e \in In(f) : ~e.open /\ e.top < d.top)
      /\ (\A r \in d.rows : k[r] = d.top) /\ d.top \in Nat /\ d.top > 0
  <2>1. d.top \in ColumnKeys /\ d.top \in Nat  BY KeysAre DEF MayOpen, Bkt
  <2>2. d.top > 0  BY <2>1, KeysAre
  <2> QED  BY <2>1, <2>2 DEF MayOpen
<1>3. l \in DOMAIN f /\ \A m \in DOMAIN f : m <= l  BY DEF IsLast
<1>4. IsOpened(f, l, d, g)  BY <1>1, <1>2, <1>3, OpenIs
<1>5. Typed(g) /\ DOMAIN g = DOMAIN f /\ Len(f[l]) \in Nat  BY <1>4 DEF IsOpened
<1>6. \A m \in DOMAIN f : \A j \in DOMAIN f[m] : /\ f[m][j] \in In(f)
                                                /\ f[m][j].top \in Nat
                                                /\ j \in Nat
  BY <1>1, InIs, OnLeaf
<1>7. Ascend(g, k)
  <2> SUFFICES ASSUME NEW m \in DOMAIN g, NEW p \in DOMAIN g, NEW j \in DOMAIN g[m],
                      NEW q \in DOMAIN g[p], InFront(m, j, p, q)
               PROVE  /\ ~g[m][j].open /\ g[m][j].top < g[p][q].top
                      /\ \A r \in g[p][q].rows : k[r] > g[m][j].top
    BY DEF Ascend
  <2>1. m \in DOMAIN f /\ p \in DOMAIN f /\ m \in Nat /\ p \in Nat /\ p <= l /\ l \in Nat
    BY <1>1, <1>3, <1>5, OnLeaf
  <2>2. j \in DOMAIN f[m] /\ g[m][j] = f[m][j]
    <3>1. CASE m = l /\ j = Len(f[l]) + 1
      <4>1. p = l /\ j < q  BY <2>1, <3>1 DEF InFront
      <4>2. q \in 1 .. Len(f[l]) + 1  BY <1>4, <4>1 DEF IsOpened
      <4> QED  BY <1>5, <3>1, <4>1, <4>2
    <3> QED  BY <1>1, <1>2, <1>3, <1>4, <3>1, OpenFrom
  <2>3. CASE p = l /\ q = Len(f[l]) + 1 /\ g[p][q] = d
    <3>1. ~f[m][j].open /\ f[m][j].top < d.top  BY <1>2, <1>6, <2>1, <2>2
    <3>2. \A r \in d.rows : k[r] > f[m][j].top  BY <1>2, <1>6, <2>1, <2>2, <3>1
    <3> QED  BY <2>2, <2>3, <3>1, <3>2
  <2>4. CASE q \in DOMAIN f[p] /\ g[p][q] = f[p][q]
    BY <1>1, <2>1, <2>2, <2>4 DEF Ascend
  <2>5. \/ p = l /\ q = Len(f[l]) + 1 /\ g[p][q] = d
        \/ q \in DOMAIN f[p] /\ g[p][q] = f[p][q]
    BY <1>1, <1>2, <1>3, <1>4, OpenFrom
  <2> QED  BY <2>3, <2>4, <2>5
<1>8. d.top >= l
  <2>1. l \in Nat /\ Len(f[l]) \in Nat /\ DOMAIN f[l] = 1 .. Len(f[l])
        /\ (f[l] = <<>> <=> Len(f[l]) = 0)
    BY <1>1, <1>3, OnLeaf
  <2>2. CASE f[l] = <<>>
    <3>1. l = 0  BY <1>1, <1>3, <2>2 DEF LastFull
    <3> QED  BY <1>2, <3>1
  <2>3. CASE f[l] # <<>>
    <3>1. 1 \in DOMAIN f[l]  BY <2>1, <2>3
    <3>2. f[l][1].top >= l  BY <1>1, <1>3, <3>1 DEF InPlace
    <3>3. f[l][1].top < d.top /\ f[l][1].top \in Nat  BY <1>2, <1>3, <1>6, <3>1
    <3> QED  BY <1>2, <2>1, <3>2, <3>3
  <2> QED  BY <2>2, <2>3
<1>9. InPlace(g, k)
  <2> SUFFICES ASSUME NEW m \in DOMAIN g, NEW j \in DOMAIN g[m]
               PROVE  /\ \A r \in g[m][j].rows : k[r] <= g[m][j].top
                      /\ g[m][j].top >= m
                      /\ \A p \in DOMAIN g : m < p => g[m][j].top < p
    BY DEF InPlace
  <2>1. CASE m = l /\ j = Len(f[l]) + 1 /\ g[m][j] = d
    <3>1. \A r \in d.rows : k[r] <= d.top  BY <1>2
    <3>2. \A p \in DOMAIN g : ~(m < p)
      <4>1. \A p \in DOMAIN f : p \in Nat /\ p <= l  BY <1>1, <1>3, OnLeaf
      <4> QED  BY <1>3, <1>5, <2>1, <4>1
    <3> QED  BY <1>8, <2>1, <3>1, <3>2
  <2>2. CASE j \in DOMAIN f[m] /\ g[m][j] = f[m][j]
    BY <1>1, <1>5, <2>2 DEF InPlace
  <2>3. \/ m = l /\ j = Len(f[l]) + 1 /\ g[m][j] = d
        \/ j \in DOMAIN f[m] /\ g[m][j] = f[m][j]
    BY <1>1, <1>2, <1>3, <1>4, OpenFrom
  <2> QED  BY <2>1, <2>2, <2>3
<1>10. LastFull(g)
  <2> SUFFICES ASSUME NEW m \in DOMAIN g, g[m] = <<>>, \A p \in DOMAIN g : p <= m
               PROVE  m = 0
    BY DEF LastFull
  <2>1. m \in DOMAIN f  BY <1>5
  <2>2. m # l
    <3>1. ASSUME m = l  PROVE FALSE
      <4>1. 1 \in DOMAIN g[m]  BY <1>4, <1>5, <3>1 DEF IsOpened
      <4>2. DOMAIN g[m] = 1 .. Len(g[m]) /\ Len(g[m]) = 0  BY <1>5, OnLeaf
      <4> QED  BY <4>1, <4>2
    <3> QED  BY <3>1
  <2>3. g[m] = f[m]  BY <1>4, <2>1, <2>2 DEF IsOpened
  <2> QED  BY <1>1, <1>5, <2>1, <2>3 DEF LastFull
<1> QED  BY <1>5, <1>7, <1>9, <1>10 DEF Good

LEMMA OpenTurn ==
  ASSUME NEW f, NEW k, Good(f, k), NEW l, IsLast(f, l), NEW d, NEW S, NEW D,
         MayOpen(f, k, d, S), NEW g, g = Opened(f, l, d)
  PROVE  Turn(f, g, S, D) /\ d \in In(g)
<1>1. Typed(f)  BY DEF Good
<1>2. d \in Bkt /\ (\A e \in In(f) : ~e.open /\ e.top < d.top) /\ d.rows \cap S = {}
  BY DEF MayOpen
<1>3. l \in DOMAIN f /\ \A m \in DOMAIN f : m <= l  BY DEF IsLast
<1>4. IsOpened(f, l, d, g)  BY <1>1, <1>2, <1>3, OpenIs
<1>5. Typed(g) /\ DOMAIN g = DOMAIN f /\ Len(f[l]) \in Nat  BY <1>4 DEF IsOpened
<1>6. KeepsBefore(f, g)
  <2> SUFFICES ASSUME NEW x \in DOMAIN f, \A c \in Before(f, x) : ~c.open,
                      NEW b \in Before(g, x)
               PROVE  ~b.open /\ \E c \in Before(f, x) : c.top = b.top
    BY DEF KeepsBefore
  <2>1. PICK m \in DOMAIN g : m < x /\ \E j \in DOMAIN g[m] : b = g[m][j]  BY BeforeIs
  <2>2. PICK j \in DOMAIN g[m] : b = g[m][j]  BY <2>1
  <2>3. m # l
    <3>1. m \in Nat /\ x \in Nat /\ l \in Nat /\ x <= l  BY <1>1, <1>3, <1>5, OnLeaf
    <3> QED  BY <2>1, <3>1
  <2>4. m \in DOMAIN f /\ g[m] = f[m]  BY <1>4, <1>5, <2>3 DEF IsOpened
  <2>5. b \in Before(f, x)  BY <2>1, <2>2, <2>4, BeforeIs
  <2> QED  BY <2>5
<1>7. KeepsKinds(f, g, S)
  <2> SUFFICES ASSUME NEW b \in In(g)
               PROVE  IsNew(b, f, S) \/ \E c \in In(f) : ComesFrom(b, c, S)
    BY DEF KeepsKinds
  <2>1. PICK m \in DOMAIN g : \E j \in DOMAIN g[m] : b = g[m][j]  BY InIs
  <2>2. PICK j \in DOMAIN g[m] : b = g[m][j]  BY <2>1
  <2>3. m \in DOMAIN f /\ (b = d \/ (j \in DOMAIN f[m] /\ b = f[m][j]))
    BY <1>1, <1>2, <1>3, <1>4, <2>2, OpenFrom
  <2>4. CASE b = d  BY <1>2, <2>4 DEF IsNew
  <2>5. CASE j \in DOMAIN f[m] /\ b = f[m][j]
    <3>1. b \in In(f)  BY <2>3, <2>5, InIs
    <3>2. ComesFrom(b, b, S)  BY DEF ComesFrom
    <3> QED  BY <3>1, <3>2
  <2> QED  BY <2>3, <2>4, <2>5
<1>8. \A c \in In(f) : c \in In(g)
  <2> SUFFICES ASSUME NEW c \in In(f)  PROVE c \in In(g)
    OBVIOUS
  <2>1. PICK m \in DOMAIN f : \E j \in DOMAIN f[m] : c = f[m][j]  BY InIs
  <2>2. PICK j \in DOMAIN f[m] : c = f[m][j]  BY <2>1
  <2>3. CASE m = l
    <3>1. j \in DOMAIN g[l]  BY <1>4, <2>3 DEF IsOpened
    <3>2. g[l][j] = f[l][j]  BY <1>4, <2>3 DEF IsOpened
    <3> QED  BY <1>5, <2>2, <2>3, <3>1, <3>2, InIs
  <2>4. CASE m # l
    <3>1. g[m] = f[m]  BY <1>4, <2>4 DEF IsOpened
    <3> QED  BY <1>5, <2>2, <3>1, InIs
  <2> QED  BY <2>3, <2>4
<1>9. d \in In(g)
  <2>1. l \in DOMAIN g /\ Len(f[l]) + 1 \in DOMAIN g[l] /\ g[l][Len(f[l]) + 1] = d
    <3>1. Len(f[l]) + 1 \in 1 .. Len(f[l]) + 1  BY <1>5
    <3> QED  BY <1>3, <1>4, <1>5, <3>1 DEF IsOpened
  <2> QED  BY <2>1, InIs
<1>10. KeepsTops(f, g)
  <2>1. \A c \in In(f) : c.top >= c.top  BY <1>1, BktIs
  <2> QED  BY <1>8, <2>1 DEF KeepsTops
<1>11. KeepsRows(f, g, D)  BY <1>8 DEF KeepsRows
<1>12. DOMAIN f \subseteq DOMAIN g  BY <1>5
<1> QED  BY <1>6, <1>7, <1>9, <1>10, <1>11, <1>12 DEF Turn

\* A bucket that is not the last one is removed.
Removed(f, l, i) == [f EXCEPT ![l] = RemoveAt(f[l], i)]
MayRemove(f, l, i) ==
  /\ f[l][i].rows = {}
  /\ \E m \in DOMAIN f : \E j \in DOMAIN f[m] : InFront(l, i, m, j)
WasAt(l, i, m, j) == IF m = l /\ ~(j < i) THEN j + 1 ELSE j

IsRemoved(f, l, i, g) ==
  /\ Typed(g) /\ DOMAIN g = DOMAIN f
  /\ Len(f[l]) \in Nat /\ DOMAIN f[l] = 1 .. Len(f[l])
  /\ DOMAIN g[l] = 1 .. Len(f[l]) - 1
  /\ \A j \in DOMAIN g[l] : g[l][j] = IF j < i THEN f[l][j] ELSE f[l][j + 1]
  /\ \A m \in DOMAIN f : m # l => g[m] = f[m]

LEMMA RemovedIs ==
  ASSUME NEW f, Typed(f), NEW l \in DOMAIN f, NEW i \in DOMAIN f[l],
         NEW g, g = Removed(f, l, i)
  PROVE  IsRemoved(f, l, i, g)
<1>1. f \in [DOMAIN f -> Buckets]  BY DEF Typed
<1>2. f[l] \in Seq(Bkt) /\ DOMAIN f[l] = 1 .. Len(f[l]) /\ Len(f[l]) \in Nat  BY OnLeaf
<1> DEFINE s == f[l]
           t == RemoveAt(s, i)
<1>3. s \in Seq(Bkt) /\ Len(s) \in Nat /\ i \in 1 .. Len(s)  BY <1>2
<1>4. /\ t \in Seq(Bkt) /\ Len(t) = Len(s) - 1
      /\ \A j \in 1 .. Len(s) - 1 : t[j] = IF j < i THEN s[j] ELSE s[j + 1]
  <2> HIDE DEF s
  <2> QED  BY <1>3, RemoveAtIs
<1>5. Buckets = Seq(Bkt)  BY DEF Buckets, Bkt
<1>6. g = [f EXCEPT ![l] = t]  BY DEF Removed
<1> HIDE DEF t
<1>7. DOMAIN t = 1 .. Len(s) - 1
  <2> HIDE DEF s
  <2> QED  BY <1>4, LenProperties
<1>8. DOMAIN g = DOMAIN f /\ g[l] = t /\ \A m \in DOMAIN f : m # l => g[m] = f[m]
  BY <1>6
<1>9. g \in [DOMAIN g -> Buckets]  BY <1>1, <1>4, <1>5, <1>6
<1>10. Typed(g)  BY <1>8, <1>9 DEF Typed
<1>11. DOMAIN g[l] = 1 .. Len(f[l]) - 1  BY <1>7, <1>8
<1>12. \A j \in DOMAIN g[l] : g[l][j] = IF j < i THEN f[l][j] ELSE f[l][j + 1]
  BY <1>4, <1>8, <1>11
<1> HIDE DEF s
<1> QED  BY <1>2, <1>8, <1>10, <1>11, <1>12 DEF IsRemoved

\* Where an entry comes from that is there after it,
LEMMA RemovedFrom ==
  ASSUME NEW f, Typed(f), NEW l \in DOMAIN f, NEW i \in DOMAIN f[l], NEW g,
         IsRemoved(f, l, i, g), NEW m \in DOMAIN g, NEW j \in DOMAIN g[m]
  PROVE  /\ m \in DOMAIN f /\ WasAt(l, i, m, j) \in DOMAIN f[m]
         /\ g[m][j] = f[m][WasAt(l, i, m, j)] /\ j \in Nat /\ i \in Nat
<1>1. m \in DOMAIN f /\ Typed(g)  BY DEF IsRemoved
<1>2. j \in Nat /\ i \in Nat  BY <1>1, OnLeaf
<1>3. CASE m # l
  <2>1. g[m] = f[m]  BY <1>1, <1>3 DEF IsRemoved
  <2> QED  BY <1>1, <1>2, <1>3, <2>1 DEF WasAt
<1>4. CASE m = l
  <2>1. j \in 1 .. Len(f[l]) - 1 /\ Len(f[l]) \in Nat /\ DOMAIN f[l] = 1 .. Len(f[l])
    BY <1>4 DEF IsRemoved
  <2>2. j \in DOMAIN f[l] /\ j + 1 \in DOMAIN f[l]  BY <2>1
  <2>3. g[l][j] = IF j < i THEN f[l][j] ELSE f[l][j + 1]  BY <1>4 DEF IsRemoved
  <2>4. CASE j < i
    <3>1. g[l][j] = f[l][j]  BY <2>3, <2>4
    <3>2. WasAt(l, i, m, j) = j  BY <2>4 DEF WasAt
    <3> QED  BY <1>1, <1>2, <1>4, <2>2, <3>1, <3>2
  <2>5. CASE ~(j < i)
    <3>1. g[l][j] = f[l][j + 1]  BY <2>3, <2>5
    <3>2. WasAt(l, i, m, j) = j + 1  BY <1>4, <2>5 DEF WasAt
    <3> QED  BY <1>1, <1>2, <1>4, <2>2, <3>1, <3>2
  <2> QED  BY <2>4, <2>5
<1> QED  BY <1>3, <1>4

\* and that it is still there.
LEMMA RemovedKeeps ==
  ASSUME NEW f, Typed(f), NEW l \in DOMAIN f, NEW i \in DOMAIN f[l], NEW g,
         IsRemoved(f, l, i, g), NEW m \in DOMAIN f, NEW j \in DOMAIN f[m], ~(m = l /\ j = i)
  PROVE  f[m][j] \in In(g)
<1>1. m \in DOMAIN g  BY DEF IsRemoved
<1>2. j \in Nat /\ i \in Nat /\ i >= 1 /\ i <= Len(f[l])  BY OnLeaf
<1>3. CASE m # l
  <2>1. g[m] = f[m]  BY <1>3 DEF IsRemoved
  <2> QED  BY <1>1, <2>1, InIs
<1>4. CASE m = l
  <2>1. j \in 1 .. Len(f[l]) /\ Len(f[l]) \in Nat /\ DOMAIN g[l] = 1 .. Len(f[l]) - 1
    BY <1>4 DEF IsRemoved
  <2>2. CASE j < i
    <3>1. j \in DOMAIN g[l]  BY <1>2, <2>1, <2>2
    <3>2. g[l][j] = f[l][j]  BY <2>2, <3>1 DEF IsRemoved
    <3> QED  BY <1>1, <1>4, <3>1, <3>2, InIs
  <2>3. CASE j > i
    <3>1. PICK q : q = j - 1  OBVIOUS
    <3>2. q + 1 = j /\ ~(q < i) /\ q \in 1 .. Len(f[l]) - 1  BY <1>2, <2>1, <2>3, <3>1
    <3>3. q \in DOMAIN g[l]  BY <2>1, <3>2
    <3>4. g[l][q] = f[l][q + 1]  BY <3>2, <3>3 DEF IsRemoved
    <3>5. g[l][q] = f[m][j]  BY <1>4, <3>2, <3>4
    <3> QED  BY <1>1, <1>4, <3>3, <3>5, InIs
  <2>4. j < i \/ j > i  BY <1>2, <1>4
  <2> QED  BY <2>2, <2>3, <2>4
<1> QED  BY <1>3, <1>4

LEMMA RemoveGood ==
  ASSUME NEW f, NEW k, Good(f, k), NEW l \in DOMAIN f, NEW i \in DOMAIN f[l],
         MayRemove(f, l, i), NEW g, g = Removed(f, l, i)
  PROVE  Good(g, k)
<1>1. Typed(f) /\ Ascend(f, k) /\ InPlace(f, k) /\ LastFull(f)  BY DEF Good
<1>2. IsRemoved(f, l, i, g)  BY <1>1, RemovedIs
<1>3. Typed(g) /\ DOMAIN g = DOMAIN f  BY <1>2 DEF IsRemoved
<1>4. Ascend(g, k)
  <2> SUFFICES ASSUME NEW m \in DOMAIN g, NEW p \in DOMAIN g, NEW j \in DOMAIN g[m],
                      NEW q \in DOMAIN g[p], InFront(m, j, p, q)
               PROVE  /\ ~g[m][j].open /\ g[m][j].top < g[p][q].top
                      /\ \A r \in g[p][q].rows : k[r] > g[m][j].top
    BY DEF Ascend
  <2>1. PICK j0, q0 : j0 = WasAt(l, i, m, j) /\ q0 = WasAt(l, i, p, q)  OBVIOUS
  <2>2. m \in DOMAIN f /\ j0 \in DOMAIN f[m] /\ g[m][j] = f[m][j0] /\ j \in Nat /\ i \in Nat
    BY <1>1, <1>2, <2>1, RemovedFrom
  <2>3. p \in DOMAIN f /\ q0 \in DOMAIN f[p] /\ g[p][q] = f[p][q0] /\ q \in Nat
    BY <1>1, <1>2, <2>1, RemovedFrom
  <2>4. InFront(m, j0, p, q0)
    <3>1. CASE m < p  BY <3>1 DEF InFront
    <3>2. CASE m = p /\ j < q
      <4>1. j0 < q0  BY <2>1, <2>2, <2>3, <3>2 DEF WasAt
      <4> QED  BY <3>2, <4>1 DEF InFront
    <3> QED  BY <3>1, <3>2 DEF InFront
  <2>5. /\ ~f[m][j0].open /\ f[m][j0].top < f[p][q0].top
        /\ \A r \in f[p][q0].rows : k[r] > f[m][j0].top
    BY <1>1, <2>2, <2>3, <2>4 DEF Ascend
  <2> QED  BY <2>2, <2>3, <2>5
<1>5. InPlace(g, k)
  <2> SUFFICES ASSUME NEW m \in DOMAIN g, NEW j \in DOMAIN g[m]
               PROVE  /\ \A r \in g[m][j].rows : k[r] <= g[m][j].top
                      /\ g[m][j].top >= m
                      /\ \A p \in DOMAIN g : m < p => g[m][j].top < p
    BY DEF InPlace
  <2>1. PICK j0 : j0 = WasAt(l, i, m, j)  OBVIOUS
  <2>2. m \in DOMAIN f /\ j0 \in DOMAIN f[m] /\ g[m][j] = f[m][j0]
    BY <1>1, <1>2, <2>1, RemovedFrom
  <2>3. /\ \A r \in f[m][j0].rows : k[r] <= f[m][j0].top
        /\ f[m][j0].top >= m
        /\ \A p \in DOMAIN f : m < p => f[m][j0].top < p
    BY <1>1, <2>2 DEF InPlace
  <2> QED  BY <1>3, <2>2, <2>3
<1>6. LastFull(g)
  <2> SUFFICES ASSUME NEW m \in DOMAIN g, g[m] = <<>>, \A p \in DOMAIN g : p <= m
               PROVE  m = 0
    BY DEF LastFull
  <2>1. CASE m # l
    <3>1. g[m] = f[m]  BY <1>2, <1>3, <2>1 DEF IsRemoved
    <3> QED  BY <1>1, <1>3, <3>1 DEF LastFull
  <2>2. CASE m = l
    <3>1. PICK p \in DOMAIN f : \E j \in DOMAIN f[p] : InFront(l, i, p, j)  BY DEF MayRemove
    <3>2. PICK j \in DOMAIN f[p] : InFront(l, i, p, j)  BY <3>1
    <3>3. p = l /\ i < j
      <4>1. p \in Nat /\ l \in Nat /\ p <= l  BY <1>1, <1>3, <2>2, OnLeaf
      <4> QED  BY <3>2, <4>1 DEF InFront
    <3>4. DOMAIN g[l] = 1 .. Len(f[l]) - 1 /\ i \in Nat /\ j \in Nat /\ 1 <= i
          /\ j <= Len(f[l]) /\ Len(f[l]) \in Nat
      BY <1>1, <1>2, <3>2, <3>3, OnLeaf DEF IsRemoved
    <3>5. 1 \in DOMAIN g[m]  BY <2>2, <3>3, <3>4
    <3>6. DOMAIN g[m] = 1 .. Len(g[m]) /\ Len(g[m]) = 0  BY <1>3, OnLeaf
    <3> QED  BY <3>5, <3>6
  <2> QED  BY <2>1, <2>2
<1> QED  BY <1>3, <1>4, <1>5, <1>6 DEF Good

LEMMA RemoveTurn ==
  ASSUME NEW f, NEW k, Good(f, k), NEW l \in DOMAIN f, NEW i \in DOMAIN f[l],
         NEW S, NEW D, MayRemove(f, l, i), NEW g, g = Removed(f, l, i)
  PROVE  Turn(f, g, S, D)
<1>1. Typed(f) /\ Ascend(f, k)  BY DEF Good
<1>2. IsRemoved(f, l, i, g)  BY <1>1, RemovedIs
<1>3. Typed(g) /\ DOMAIN g = DOMAIN f  BY <1>2 DEF IsRemoved
<1>4. KeepsBefore(f, g)
  <2> SUFFICES ASSUME NEW x \in DOMAIN f, \A c \in Before(f, x) : ~c.open,
                      NEW b \in Before(g, x)
               PROVE  ~b.open /\ \E c \in Before(f, x) : c.top = b.top
    BY DEF KeepsBefore
  <2>1. PICK m \in DOMAIN g : m < x /\ \E j \in DOMAIN g[m] : b = g[m][j]  BY BeforeIs
  <2>2. PICK j \in DOMAIN g[m] : b = g[m][j]  BY <2>1
  <2>3. PICK j0 : j0 = WasAt(l, i, m, j)  OBVIOUS
  <2>4. m \in DOMAIN f /\ j0 \in DOMAIN f[m] /\ g[m][j] = f[m][j0]
    BY <1>1, <1>2, <2>3, RemovedFrom
  <2>5. b \in Before(f, x)  BY <2>1, <2>2, <2>4, BeforeIs
  <2> QED  BY <2>5
<1>5. KeepsKinds(f, g, S)
  <2> SUFFICES ASSUME NEW b \in In(g)  PROVE \E c \in In(f) : ComesFrom(b, c, S)
    BY DEF KeepsKinds
  <2>1. PICK m \in DOMAIN g : \E j \in DOMAIN g[m] : b = g[m][j]  BY InIs
  <2>2. PICK j \in DOMAIN g[m] : b = g[m][j]  BY <2>1
  <2>3. PICK j0 : j0 = WasAt(l, i, m, j)  OBVIOUS
  <2>4. m \in DOMAIN f /\ j0 \in DOMAIN f[m] /\ g[m][j] = f[m][j0]
    BY <1>1, <1>2, <2>3, RemovedFrom
  <2>5. b \in In(f)  BY <2>2, <2>4, InIs
  <2>6. ComesFrom(b, b, S)  BY DEF ComesFrom
  <2> QED  BY <2>5, <2>6
<1>6. KeepsTops(f, g)
  <2> SUFFICES ASSUME NEW e \in In(f)  PROVE \E b \in In(g) : b.top >= e.top
    BY DEF KeepsTops
  <2>1. PICK m \in DOMAIN f : \E j \in DOMAIN f[m] : e = f[m][j]  BY InIs
  <2>2. PICK j \in DOMAIN f[m] : e = f[m][j]  BY <2>1
  <2>3. e.top \in Nat  BY <1>1, BktIs
  <2>4. CASE ~(m = l /\ j = i)
    <3>1. e \in In(g)  BY <1>1, <1>2, <2>2, <2>4, RemovedKeeps
    <3>2. e.top >= e.top  BY <2>3
    <3> QED  BY <3>1, <3>2
  <2>5. CASE m = l /\ j = i
    <3>1. PICK p \in DOMAIN f : \E q \in DOMAIN f[p] : InFront(l, i, p, q)
      BY DEF MayRemove
    <3>2. PICK q \in DOMAIN f[p] : InFront(l, i, p, q)  BY <3>1
    <3>3. f[l][i].top < f[p][q].top  BY <1>1, <3>2 DEF Ascend
    <3>4. ~(p = l /\ q = i)
      <4>1. l \in Nat /\ i \in Nat  BY <1>1, OnLeaf
      <4> QED  BY <3>2, <4>1 DEF InFront
    <3>5. f[p][q] \in In(g)  BY <1>1, <1>2, <3>4, RemovedKeeps
    <3>6. f[p][q].top >= e.top
      <4>1. f[p][q].top \in Nat  BY <1>1, OnLeaf
      <4> QED  BY <2>2, <2>3, <2>5, <3>3, <4>1
    <3> QED  BY <3>5, <3>6
  <2> QED  BY <2>4, <2>5
<1>7. KeepsRows(f, g, D)
  <2> SUFFICES ASSUME NEW e \in In(f), NEW r \in e.rows
               PROVE  \E b \in In(g) : r \in b.rows
    BY DEF KeepsRows
  <2>1. PICK m \in DOMAIN f : \E j \in DOMAIN f[m] : e = f[m][j]  BY InIs
  <2>2. PICK j \in DOMAIN f[m] : e = f[m][j]  BY <2>1
  <2>3. ~(m = l /\ j = i)  BY <2>2 DEF MayRemove
  <2>4. e \in In(g)  BY <1>1, <1>2, <2>2, <2>3, RemovedKeeps
  <2> QED  BY <2>4
<1> QED  BY <1>3, <1>4, <1>5, <1>6, <1>7 DEF Turn

-----------------------------------------------------------------------------
(* The invariant                                                           *)

Phases == {"idle", "landing", "lower", "sums", "setup", "upper", "done"}
PartOrAny == Parts \cup {AnyPart}
WalkType == [phase : Phases, part : PartOrAny, snap : SUBSET Rows, at : Nat,
             clip : Nat, prev : Nat, pos : Nat, got : [Rows -> Nat]]
Types ==
  /\ limit \in Nat /\ key \in [Rows -> ColumnKeys]
  /\ stage \in [Rows -> {"unused", "lookup", "create", "stored", "live", "gone"}]
  /\ leafAt \in [Rows -> Nat] /\ guarded \in [Rows -> BOOLEAN] /\ vals \in SUBSET Rows
  /\ rd \in WalkType
  /\ Phase("idle") \/ rd.part \in Parts

\* An insert that steps right from leaf to leaf has a summary to find only ahead,
LooksOf(r) ==
  /\ leafAt[r] \in Leaf \cup {Descent}
  /\ (stage[r] = "lookup" /\ leafAt[r] # Descent) =>
       \A e \in Before(items, leafAt[r]) : ~e.open /\ e.top < key[r]

\* one that has found a missed one finds it again or another,
GuardsOf(r) ==
  guarded[r] => /\ stage[r] # "create"
                /\ \E e \in In(items) : e.top >= key[r]

\* and a row that is in, or that a walk's snapshot sees, is in its key's set and in
\* a bucket.
IsIn(r) == r \in vals /\ \E e \in In(items) : r \in e.rows
StoredOf(r) ==
  /\ stage[r] \in {"lookup", "create"} => r \in vals
  /\ stage[r] \in {"stored", "live"} => IsIn(r)
  /\ r \in rd.snap => stage[r] \in {"live", "gone"} /\ IsIn(r)

\* What a walk has counted: the snapshot's rows with keys of the part up to x.
CountedTo(x) == \A r \in Rows :
  rd.got[r] = IF r \in rd.snap /\ rd.part.low <= key[r] /\ key[r] <= x THEN 1 ELSE 0

\* Key k is where a bucket ended, and none with a key of the snapshot above it will
\* hold one at or below it.
AtEnd(k) ==
  /\ k = 0 \/ \E e \in In(items) : e.top >= k
  /\ \A e \in In(items) : /\ e.open => e.top > k
                          /\ e.top > k => \A r \in e.rows \cap rd.snap : key[r] > k

AtLanding == /\ rd.part.land # 0 /\ rd.prev = 0 /\ CountedTo(0)
             /\ rd.at \in Leaf \cup {Descent}
AtLower == /\ rd.part.low <= rd.pos + 1 /\ rd.pos <= rd.clip /\ rd.clip <= rd.part.high
           /\ rd.clip \in ColumnKeys /\ rd.prev = 0 /\ AtEnd(rd.clip) /\ CountedTo(rd.pos)
AtSums == /\ rd.part.low <= rd.prev + 1 /\ rd.prev <= rd.part.high /\ AtEnd(rd.prev)
          /\ rd.at \in Leaf /\ (\A e \in Before(items, rd.at) : ~e.open /\ e.top <= rd.prev)
          /\ CountedTo(rd.prev)
AtSetup == rd.part.low <= rd.prev + 1 /\ rd.prev <= rd.part.high /\ CountedTo(rd.prev)
AtUpper == /\ rd.part.low <= rd.pos + 1
           /\ rd.pos <= rd.part.high \/ rd.pos + 1 = rd.part.low
           /\ CountedTo(rd.pos)
Walking ==
  \/ Phase("idle")
  \/ Phase("landing") /\ AtLanding
  \/ Phase("lower") /\ AtLower
  \/ Phase("sums") /\ AtSums
  \/ Phase("setup") /\ AtSetup
  \/ Phase("upper") /\ AtUpper
  \/ Phase("done") /\ RangeExact

Inv == /\ Types /\ Good(items, key)
       /\ \A r \in Rows : LooksOf(r) /\ GuardsOf(r) /\ StoredOf(r)
       /\ Walking

-----------------------------------------------------------------------------
(* Steps that change the buckets                                           *)

\* An entry rewritten or added is written where it is, or its leaf is cut.
CutsTo(f, l, g) == g = f \/ \E n \in 1 .. Len(f[l]) - 1 : g = CutOf(f, l, n)

LEMMA CutsToKeeps ==
  ASSUME NEW f, NEW k, NEW h, NEW g, NEW l, NEW S, NEW D, Good(h, k),
         Turn(f, h, S, D), l \in DOMAIN h, CutsTo(h, l, g)
  PROVE  Good(g, k) /\ Turn(f, g, S, D) /\ \A e \in In(h) : e \in In(g)
<1>1. CASE g = h  BY <1>1
<1>2. CASE \E n \in 1 .. Len(h[l]) - 1 : g = CutOf(h, l, n)
  <2>1. PICK n \in 1 .. Len(h[l]) - 1 : g = CutOf(h, l, n)  BY <1>2
  <2>2. PICK t : t = NewLeaf(h, l, n)  OBVIOUS
  <2>3. Good(g, k)  BY <2>1, <2>2, CutGood
  <2>4. /\ DOMAIN h \subseteq DOMAIN g
        /\ \A e : e \in In(h) <=> e \in In(g)
        /\ \A x \in DOMAIN h : \A e : e \in Before(g, x) => e \in Before(h, x)
    BY <2>1, <2>2, CutKeeps
  <2>5. Turn(f, g, S, D)  BY <2>4, TurnOfCut
  <2> QED  BY <2>3, <2>4, <2>5
<1> QED  BY <1>1, <1>2 DEF CutsTo

LEMMA CutIsCutOf ==
  ASSUME NEW l \in Leaf, NEW s, NEW n
  PROVE  Cut(l, s, n) = CutOf(Fits(l, s), l, n)
<1> DEFINE f == Fits(l, s)
           t == s[n + 1].top
<1>1. DOMAIN f = Leaf /\ f[l] = s /\ \A m \in Leaf : m # l => f[m] = items[m]
  BY DEF Fits, Leaf
<1>2. NewLeaf(f, l, n) = t  BY <1>1 DEF NewLeaf
<1> HIDE DEF f
<1>3. CutOf(f, l, n) = [m \in Leaf \cup {t} |->
                   IF m = l THEN SubSeq(s, 1, n)
                   ELSE IF m = t THEN SubSeq(s, n + 1, Len(s))
                   ELSE f[m]]
  BY <1>1, <1>2 DEF CutOf
<1>4. Cut(l, s, n) = [m \in Leaf \cup {t} |->
                   IF m = l THEN SubSeq(s, 1, n)
                   ELSE IF m = t THEN SubSeq(s, n + 1, Len(s))
                   ELSE items[m]]
  BY DEF Cut
<1> HIDE DEF t
<1>5. \A m \in Leaf \cup {t} : m # l /\ m # t => f[m] = items[m]  BY <1>1
<1>6. CutOf(f, l, n) = Cut(l, s, n)  BY <1>3, <1>4, <1>5, Zenon
<1> QED  BY <1>6 DEF f

LEMMA PlacedIs ==
  ASSUME NEW l \in Leaf, NEW s, NEW g \in Placed(l, s)
  PROVE  CutsTo(Fits(l, s), l, g)
<1>1. CASE g = Fits(l, s)  BY <1>1 DEF CutsTo
<1>2. CASE \E n \in CutsOf(s) : g = Cut(l, s, n)
  <2>1. PICK n \in CutsOf(s) : g = Cut(l, s, n)  BY <1>2
  <2>2. n \in 1 .. Len(s) - 1  BY DEF CutsOf
  <2>3. Fits(l, s)[l] = s  BY DEF Fits, Leaf
  <2>4. g = CutOf(Fits(l, s), l, n)  BY <2>1, CutIsCutOf
  <2> QED  BY <2>2, <2>3, <2>4 DEF CutsTo
<1> QED  BY <1>1, <1>2 DEF Placed

\* The first summary at or above a key, as a search of a leaf finds it.
LEMMA FirstIs ==
  ASSUME Typed(items), NEW l \in Leaf, NEW k, NEW i, i = FirstOn(l, k)
  PROVE  /\ i = 0 => \A j \in DOMAIN items[l] : ~AtOrAbove(items[l][j], k)
         /\ i # 0 => /\ i \in DOMAIN items[l] /\ AtOrAbove(items[l][i], k)
                     /\ \A j \in DOMAIN items[l] : j < i => ~AtOrAbove(items[l][j], k)
<1> DEFINE I == {j \in 1 .. Len(items[l]) : AtOrAbove(items[l][j], k)}
<1>1. i = IF I # {} THEN Min(I) ELSE 0  BY DEF FirstOn, SelectInSeq
<1>2. DOMAIN items[l] = 1 .. Len(items[l])  BY OnLeaf DEF Leaf
<1>3. I \in SUBSET Nat  OBVIOUS
<1>4. \A j : j \in I <=> j \in DOMAIN items[l] /\ AtOrAbove(items[l][j], k)
  BY <1>2
<1>5. \A j \in I : j \in Nat /\ j # 0  OBVIOUS
<1> HIDE DEF I
<1>6. CASE I = {}  BY <1>1, <1>4, <1>6
<1>7. CASE I # {}
  <2>1. i \in I /\ \A j \in I : i <= j  BY <1>1, <1>3, <1>7, MinIs
  <2>2. ASSUME NEW j \in DOMAIN items[l], j < i, AtOrAbove(items[l][j], k)  PROVE FALSE
    <3>1. j \in I  BY <1>4, <2>2
    <3> QED  BY <1>5, <2>1, <2>2, <3>1
  <2> QED  BY <1>4, <1>5, <2>1, <2>2
<1> QED  BY <1>6, <1>7

\* Where a descent ends, and that every bucket before it is closed and below the key.
LEMMA LandingIs ==
  ASSUME NEW k0, Good(items, k0), NEW k \in ColumnKeys
  PROVE  /\ Landing(k) \in Leaf
         /\ \A e \in Before(items, Landing(k)) : ~e.open /\ e.top < k
<1>1. Typed(items) /\ InPlace(items, k0)  BY DEF Good
<1> DEFINE T == {m \in Leaf : m < k}
<1>2. k \in Nat /\ k > 0 /\ TopKey \in Nat  BY KeysAre
<1>3. T \in SUBSET (0 .. TopKey) /\ 0 \in T
  BY <1>1, <1>2 DEF Typed, Leaf
<1>4. Landing(k) = Max(T)  BY DEF Landing
<1>5. \A m \in T : m \in Leaf /\ m < k  OBVIOUS
<1> HIDE DEF T
<1>6. Max(T) \in T  BY <1>2, <1>3, MaxIs
<1>7. PICK l : l = Landing(k)  OBVIOUS
<1>8. l \in Leaf /\ l < k /\ l \in Nat
  <2>1. l \in Leaf /\ l < k  BY <1>4, <1>5, <1>6, <1>7
  <2> QED  BY <1>1, <2>1, OnLeaf DEF Leaf
<1>9. ASSUME NEW e \in Before(items, l)  PROVE ~e.open /\ e.top < k
  <2>1. PICK m \in DOMAIN items : m < l /\ \E j \in DOMAIN items[m] : e = items[m][j]
    BY BeforeIs
  <2>2. PICK j \in DOMAIN items[m] : e = items[m][j]  BY <2>1
  <2>3. e.top < l  BY <1>1, <1>8, <2>1, <2>2 DEF InPlace, Leaf
  <2>4. ~e.open
    <3>1. ASSUME e.open  PROVE FALSE
      <4>1. \A p \in DOMAIN items : p <= m  BY <2>2, <3>1, OpenIsLast
      <4>2. m \in Nat /\ l <= m  BY <1>1, <1>8, <4>1, OnLeaf DEF Leaf
      <4> QED  BY <1>8, <2>1, <4>2
    <3> QED  BY <3>1
  <2>5. e.top \in Nat  BY <1>1, <2>2, OnLeaf
  <2> QED  BY <1>2, <1>8, <2>3, <2>4, <2>5
<1> QED  BY <1>7, <1>8, <1>9

LEMMA RightIs ==
  ASSUME Typed(items), NEW l \in Leaf
  PROVE  /\ Rightmost(l) => \A m \in Leaf : m <= l
         /\ ~Rightmost(l) => /\ RightLink(l) \in Leaf /\ RightLink(l) > l
                             /\ \A m \in Leaf : m > l => RightLink(l) <= m
<1>1. \A m \in Leaf : m \in Nat  BY OnLeaf DEF Leaf
<1>2. l \in Nat  BY <1>1
<1> DEFINE T == Rights(l)
<1>3. T \in SUBSET Nat /\ \A m : m \in T <=> m \in Leaf /\ m > l  BY <1>1 DEF Rights
<1>4. CASE Rightmost(l)
  <2>1. \A m \in Leaf : ~(m > l)  BY <1>3, <1>4 DEF Rightmost
  <2> QED  BY <1>1, <1>2, <1>4, <2>1
<1>5. CASE ~Rightmost(l)
  <2>1. T # {}  BY <1>5 DEF Rightmost
  <2>2. RightLink(l) = Min(T)  BY DEF RightLink
  <2> HIDE DEF T
  <2>3. Min(T) \in T /\ \A m \in T : Min(T) <= m  BY <1>3, <2>1, MinIs
  <2> QED  BY <1>3, <1>5, <2>2, <2>3
<1> QED  BY <1>4, <1>5

-----------------------------------------------------------------------------
(* What a turn of the buckets leaves true                                  *)

LEMMA LooksKept ==
  ASSUME NEW S, NEW D, Turn(items, items', S, D), NEW r \in Rows, LooksOf(r), key' = key,
         leafAt'[r] = leafAt[r], stage'[r] = stage[r]
  PROVE  LooksOf(r)'
<1>1. DOMAIN items \subseteq DOMAIN items' /\ KeepsBefore(items, items')  BY DEF Turn
<1>2. leafAt[r] \in DOMAIN items \cup {Descent}  BY DEF LooksOf, Leaf
<1>3. leafAt'[r] \in DOMAIN items' \cup {Descent}  BY <1>1, <1>2
<1>4. ASSUME stage'[r] = "lookup", leafAt'[r] # Descent, NEW e \in Before(items', leafAt'[r])
      PROVE  ~e.open /\ e.top < key'[r]
  <2>1. PICK x : x = leafAt[r]  OBVIOUS
  <2>2. x \in DOMAIN items  BY <1>2, <1>4, <2>1
  <2>3. \A d \in Before(items, x) : ~d.open /\ d.top < key[r]
    BY <1>4, <2>1 DEF LooksOf
  <2>4. e \in Before(items', x)  BY <1>4, <2>1
  <2>5. ~e.open /\ \E d \in Before(items, x) : d.top = e.top
    BY <1>1, <2>2, <2>3, <2>4 DEF KeepsBefore
  <2> QED  BY <2>3, <2>5
<1> QED  BY <1>3, <1>4 DEF LooksOf, Leaf

\* An insert whose next leaf a descent finds.
LEMMA LooksNew ==
  ASSUME NEW r \in Rows, leafAt'[r] = Descent  PROVE LooksOf(r)'
BY DEF LooksOf

LEMMA GuardsKept ==
  ASSUME NEW S, NEW D, Turn(items, items', S, D), Typed(items), Typed(items'),
         key \in [Rows -> ColumnKeys], NEW r \in Rows, GuardsOf(r), key' = key,
         guarded'[r] = guarded[r], stage[r] = "create" \/ stage'[r] # "create"
  PROVE  GuardsOf(r)'
<1>1. KeepsTops(items, items')  BY DEF Turn
<1> SUFFICES ASSUME guarded[r]
             PROVE  stage'[r] # "create" /\ \E e \in In(items') : e.top >= key[r]
  BY DEF GuardsOf
<1>2. PICK e \in In(items) : e.top >= key[r]  BY DEF GuardsOf
<1>3. PICK d \in In(items') : d.top >= e.top  BY <1>1 DEF KeepsTops
<1>4. key[r] \in Nat /\ e.top \in Nat /\ d.top \in Nat
  <2>1. key[r] \in ColumnKeys  OBVIOUS
  <2> QED  BY <2>1, BktIs, KeysAre
<1>5. d.top >= key[r]  BY <1>2, <1>3, <1>4
<1>6. stage[r] # "create"  BY DEF GuardsOf
<1> QED  BY <1>5, <1>6

LEMMA IsInKept ==
  ASSUME NEW S, NEW D, Turn(items, items', S, D), NEW r \in Rows, IsIn(r), r \notin D,
         r \in vals'
  PROVE  IsIn(r)'
BY DEF IsIn, Turn, KeepsRows

LEMMA AtEndKept ==
  ASSUME NEW D, Turn(items, items', rd.snap, D), Typed(items), Typed(items'), NEW k \in Nat,
         AtEnd(k), key' = key, rd'.snap = rd.snap
  PROVE  AtEnd(k)'
<1>1. KeepsTops(items, items') /\ KeepsKinds(items, items', rd.snap)  BY DEF Turn
<1>2. /\ \A e \in In(items) : e.top \in Nat /\ e.top > 0
      /\ \A e \in In(items') : e.top \in Nat /\ e.top > 0
  BY BktIs
<1>3. k = 0 \/ \E e \in In(items) : e.top >= k  BY DEF AtEnd
<1>4. \A e \in In(items) : /\ e.open => e.top > k
                           /\ e.top > k => \A r \in e.rows \cap rd.snap : key[r] > k
  BY DEF AtEnd
<1>5. k = 0 \/ \E d \in In(items') : d.top >= k
  <2>1. ASSUME NEW e \in In(items), e.top >= k  PROVE \E d \in In(items') : d.top >= k
    <3>1. PICK d \in In(items') : d.top >= e.top  BY <1>1 DEF KeepsTops
    <3>2. d.top >= k  BY <1>2, <2>1, <3>1
    <3> QED  BY <3>2
  <2> QED  BY <1>3, <2>1
<1>6. ASSUME NEW d \in In(items')
      PROVE  /\ d.open => d.top > k
             /\ d.top > k => \A r \in d.rows \cap rd.snap : key[r] > k
  <2>1. CASE IsNew(d, items, rd.snap)
    <3>1. d.top > k
      <4>1. \A e \in In(items) : e.top < d.top  BY <2>1 DEF IsNew
      <4>2. CASE k = 0  BY <1>2, <4>2
      <4>3. ASSUME NEW e \in In(items), e.top >= k  PROVE d.top > k
        BY <1>2, <4>1, <4>3
      <4> QED  BY <1>3, <4>2, <4>3
    <3>2. d.rows \cap rd.snap = {}  BY <2>1 DEF IsNew
    <3> QED  BY <3>1, <3>2
  <2>2. ASSUME NEW e \in In(items), ComesFrom(d, e, rd.snap)
        PROVE  /\ d.open => d.top > k
               /\ d.top > k => \A r \in d.rows \cap rd.snap : key[r] > k
    <3>1. /\ d.rows \cap rd.snap \subseteq e.rows /\ (d.open => e.open)
          /\ d.top = e.top \/ (e.open /\ d.top > e.top)
      BY <2>2 DEF ComesFrom
    <3>2. d.top > k => e.top > k
      <4>1. CASE d.top = e.top  BY <4>1
      <4>2. ASSUME e.open  PROVE e.top > k  BY <1>4, <4>2, Zenon
      <4> QED  BY <3>1, <4>1, <4>2
    <3>3. d.open => d.top > k
      <4>1. ASSUME d.open  PROVE e.top > k  BY <1>4, <3>1, <4>1, Zenon
      <4>2. d.top >= e.top  BY <1>2, <3>1
      <4> QED  BY <1>2, <4>1, <4>2
    <3>4. ASSUME d.top > k, NEW r \in d.rows \cap rd.snap  PROVE key[r] > k
      <4>1. e.top > k  BY <3>2, <3>4
      <4>2. r \in e.rows \cap rd.snap  BY <3>1, <3>4
      <4> QED  BY <1>4, <4>1, <4>2
    <3> QED  BY <3>3, <3>4
  <2> QED  BY <1>1, <2>1, <2>2 DEF KeepsKinds
<1> QED  BY <1>5, <1>6 DEF AtEnd

\* A walk between two of its reads.
LEMMA WalkKept ==
  ASSUME Inv, NEW D, Turn(items, items', rd.snap, D), Typed(items'), key' = key, rd' = rd
  PROVE  Walking'
<1>1. Typed(items) /\ rd.prev \in Nat /\ rd.clip \in Nat /\ Walking
  <2>1. rd \in WalkType /\ Typed(items) /\ Walking  BY DEF Inv, Good, Types
  <2> QED  BY <2>1 DEF WalkType
<1>2. DOMAIN items \subseteq DOMAIN items' /\ KeepsBefore(items, items')  BY DEF Turn
<1>3. \A x : CountedTo(x) => CountedTo(x)'  BY DEF CountedTo
<1>4. \A k \in Nat : AtEnd(k) => AtEnd(k)'
  <2>1. rd'.snap = rd.snap  OBVIOUS
  <2> QED  BY <1>1, <2>1, AtEndKept
<1>5. CASE Phase("idle")  BY <1>5 DEF Walking, Phase
<1>6. CASE Phase("landing") /\ AtLanding
  <2>1. CountedTo(0)'  BY <1>3, <1>6 DEF AtLanding
  <2>2. rd.at \in DOMAIN items' \cup {Descent}  BY <1>2, <1>6 DEF AtLanding, Leaf
  <2>3. AtLanding'  BY <1>6, <2>1, <2>2 DEF AtLanding, Leaf
  <2> QED  BY <1>6, <2>3 DEF Walking, Phase
<1>7. CASE Phase("lower") /\ AtLower
  <2>1. CountedTo(rd.pos)'
    <3>1. CountedTo(rd.pos)  BY <1>7 DEF AtLower
    <3> QED  BY <3>1 DEF CountedTo
  <2>2. AtEnd(rd.clip)'
    <3>1. PICK k \in Nat : k = rd.clip  BY <1>1
    <3>2. AtEnd(k)'  BY <1>4, <1>7, <3>1 DEF AtLower
    <3>3. k = rd'.clip  BY <3>1
    <3> QED  BY <3>2, <3>3 DEF AtEnd
  <2>3. AtLower'  BY <1>7, <2>1, <2>2 DEF AtLower
  <2> QED  BY <1>7, <2>3 DEF Walking, Phase
<1>8. CASE Phase("sums") /\ AtSums
  <2>1. CountedTo(rd.prev)'
    <3>1. CountedTo(rd.prev)  BY <1>8 DEF AtSums
    <3> QED  BY <3>1 DEF CountedTo
  <2>2. AtEnd(rd.prev)'
    <3>1. PICK k \in Nat : k = rd.prev  BY <1>1
    <3>2. AtEnd(k)'  BY <1>4, <1>8, <3>1 DEF AtSums
    <3>3. k = rd'.prev  BY <3>1
    <3> QED  BY <3>2, <3>3 DEF AtEnd
  <2>3. PICK x : x = rd.at  OBVIOUS
  <2>4. x \in DOMAIN items /\ \A e \in Before(items, x) : ~e.open /\ e.top <= rd.prev
    BY <1>8, <2>3 DEF AtSums, Leaf
  <2>5. x \in DOMAIN items' /\ \A e \in Before(items', x) : ~e.open /\ e.top <= rd.prev
    BY <1>2, <2>4 DEF KeepsBefore
  <2>6. AtSums'  BY <1>8, <2>1, <2>2, <2>3, <2>5 DEF AtSums, Leaf
  <2> QED  BY <1>8, <2>6 DEF Walking, Phase
<1>9. CASE Phase("setup") /\ AtSetup
  <2>1. AtSetup'  BY <1>9 DEF AtSetup, CountedTo
  <2> QED  BY <1>9, <2>1 DEF Walking, Phase
<1>10. CASE Phase("upper") /\ AtUpper
  <2>1. AtUpper'  BY <1>10 DEF AtUpper, CountedTo
  <2> QED  BY <1>10, <2>1 DEF Walking, Phase
<1>11. CASE Phase("done") /\ RangeExact
  <2>1. RangeExact'  BY <1>11 DEF RangeExact, Phase
  <2> QED  BY <1>11, <2>1 DEF Walking, Phase
<1> QED  BY <1>1, <1>5, <1>6, <1>7, <1>8, <1>9, <1>10, <1>11 DEF Walking

-----------------------------------------------------------------------------
(* Inserting a row                                                         *)

Stages == {"unused", "lookup", "create", "stored", "live", "gone"}

LEMMA TurnSame ==
  ASSUME NEW f, Typed(f), NEW S, NEW D
  PROVE  Turn(f, f, S, D)
<1>1. KeepsBefore(f, f)  BY DEF KeepsBefore
<1>2. KeepsKinds(f, f, S)  BY DEF KeepsKinds, ComesFrom
<1>3. KeepsTops(f, f)
  <2>1. \A e \in In(f) : e.top >= e.top  BY BktIs
  <2> QED  BY <2>1 DEF KeepsTops
<1>4. KeepsRows(f, f, D)  BY DEF KeepsRows
<1> QED  BY <1>1, <1>2, <1>3, <1>4 DEF Turn

LEMMA GoesIs ==
  ASSUME Types, NEW r \in Rows, NEW p \in Stages, Goes(r, p)
  PROVE  /\ stage' \in [Rows -> Stages] /\ leafAt' \in [Rows -> Nat]
         /\ stage'[r] = p /\ leafAt'[r] = Descent
         /\ \A q \in Rows : q # r => stage'[q] = stage[q] /\ leafAt'[q] = leafAt[q]
<1>1. stage \in [Rows -> Stages] /\ leafAt \in [Rows -> Nat]  BY DEF Types, Stages
<1>2. Descent \in Nat  BY KeysAre
<1>3. stage' = [stage EXCEPT ![r] = p] /\ leafAt' = [leafAt EXCEPT ![r] = Descent]
  BY DEF Goes
<1> QED  BY <1>1, <1>2, <1>3

\* A step of one row's insert keeps the invariant where it does so for that row.
Others(r) ==
  /\ limit' = limit /\ key' = key /\ rd' = rd
  /\ stage' \in [Rows -> Stages] /\ leafAt' \in [Rows -> Nat]
  /\ guarded' \in [Rows -> BOOLEAN] /\ vals' \in SUBSET Rows /\ vals \subseteq vals'
  /\ \A q \in Rows : q # r => /\ stage'[q] = stage[q] /\ leafAt'[q] = leafAt[q]
                              /\ guarded'[q] = guarded[q]

LEMMA RowKeeps ==
  ASSUME Inv, NEW r \in Rows, Others(r), Good(items', key),
         Turn(items, items', rd.snap, {}),
         LooksOf(r)', GuardsOf(r)', StoredOf(r)'
  PROVE  Inv'
<1>1. Types /\ Good(items, key) /\ Walking
      /\ \A q \in Rows : LooksOf(q) /\ GuardsOf(q) /\ StoredOf(q)
  BY DEF Inv
<1>2. Typed(items) /\ Typed(items') /\ key \in [Rows -> ColumnKeys]
  BY <1>1 DEF Good, Types
<1>3. limit' = limit /\ key' = key /\ rd' = rd  BY DEF Others
<1>4. Types'  BY <1>1, <1>3 DEF Types, Others, Stages, Phase
<1>5. Good(items, key)'  BY <1>3
<1>6. ASSUME NEW q \in Rows, q # r  PROVE LooksOf(q)' /\ GuardsOf(q)' /\ StoredOf(q)'
  <2>1. stage'[q] = stage[q] /\ leafAt'[q] = leafAt[q] /\ guarded'[q] = guarded[q]
    BY <1>6 DEF Others
  <2>2. LooksOf(q)'  BY <1>1, <1>3, <2>1, LooksKept
  <2>3. GuardsOf(q)'
    <3>1. stage[q] = "create" \/ stage'[q] # "create"  BY <2>1
    <3> QED  BY <1>1, <1>2, <1>3, <2>1, <3>1, GuardsKept
  <2>4. IsIn(q) => IsIn(q)'
    <3>1. q \in vals => q \in vals'  BY DEF Others
    <3>2. q \notin {}  OBVIOUS
    <3> QED  BY <3>1, <3>2, IsInKept DEF IsIn
  <2>5. StoredOf(q)'  BY <1>1, <1>3, <2>1, <2>4 DEF StoredOf, Others
  <2> QED  BY <2>2, <2>3, <2>5
<1>7. Walking'  BY <1>2, <1>3, WalkKept
<1> QED  BY <1>4, <1>5, <1>6, <1>7 DEF Inv

\* where no bucket changes.
LEMMA RowKeepsSame ==
  ASSUME Inv, NEW r \in Rows, Others(r), items' = items,
         LooksOf(r)', GuardsOf(r)', StoredOf(r)'
  PROVE  Inv'
<1>1. Good(items, key) /\ Typed(items)  BY DEF Inv, Good
<1>2. Good(items', key)  BY <1>1
<1>3. Turn(items, items', rd.snap, {})
  <2>1. Turn(items, items, rd.snap, {})  BY <1>1, TurnSame
  <2> QED  BY <2>1
<1> QED  BY <1>2, <1>3, RowKeeps

\* An insert that looks at entry i of leaf l, or at none.
LEMMA LookingIs ==
  ASSUME Inv, NEW r \in Rows, NEW l \in Leaf, NEW i, LooksAt(r, l, i)
  PROVE  /\ r \in vals /\ r \notin rd.snap /\ stage[r] = "lookup"
         /\ key[r] \in ColumnKeys /\ key[r] \in Nat
         /\ \A e \in Before(items, l) : ~e.open /\ e.top < key[r]
         /\ i = 0 => \A j \in DOMAIN items[l] : ~items[l][j].open /\ items[l][j].top < key[r]
         /\ i # 0 => /\ i \in DOMAIN items[l]
                     /\ items[l][i].open \/ items[l][i].top >= key[r]
                     /\ \A m \in Leaf : \A j \in DOMAIN items[m] :
                          InFront(m, j, l, i) =>
                            ~items[m][j].open /\ items[m][j].top < key[r]
<1>1. Types /\ Good(items, key) /\ LooksOf(r) /\ StoredOf(r)  BY DEF Inv
<1>2. Typed(items)  BY <1>1 DEF Good
<1>3. stage[r] = "lookup" /\ l = LookupLeaf(r) /\ i = FirstOn(l, key[r])  BY DEF LooksAt
<1>4. r \in vals /\ r \notin rd.snap  BY <1>1, <1>3 DEF StoredOf
<1>5. key[r] \in ColumnKeys /\ key[r] \in Nat
  <2>1. key[r] \in ColumnKeys  BY <1>1 DEF Types
  <2> QED  BY <2>1, KeysAre
<1>6. \A e \in Before(items, l) : ~e.open /\ e.top < key[r]
  <2>1. CASE leafAt[r] = Descent
    <3>1. l = Landing(key[r])  BY <1>3, <2>1 DEF LookupLeaf
    <3> QED  BY <1>1, <1>5, <3>1, LandingIs
  <2>2. CASE leafAt[r] # Descent
    <3>1. l = leafAt[r]  BY <1>3, <2>2 DEF LookupLeaf
    <3> QED  BY <1>1, <1>3, <2>2, <3>1 DEF LooksOf
  <2> QED  BY <2>1, <2>2
<1>7. \A j \in DOMAIN items[l] : items[l][j].top \in Nat /\ j \in Nat  BY <1>2, OnLeaf DEF Leaf
<1>8. /\ i = 0 => \A j \in DOMAIN items[l] : ~AtOrAbove(items[l][j], key[r])
      /\ i # 0 => /\ i \in DOMAIN items[l] /\ AtOrAbove(items[l][i], key[r])
                  /\ \A j \in DOMAIN items[l] : j < i => ~AtOrAbove(items[l][j], key[r])
  BY <1>2, <1>3, FirstIs
<1>9. \A j \in DOMAIN items[l] :
        ~AtOrAbove(items[l][j], key[r]) => ~items[l][j].open /\ items[l][j].top < key[r]
  BY <1>5, <1>7 DEF AtOrAbove
<1>10. i = 0 => \A j \in DOMAIN items[l] : ~items[l][j].open /\ items[l][j].top < key[r]
  BY <1>8, <1>9
<1>11. i # 0 => /\ i \in DOMAIN items[l]
                /\ items[l][i].open \/ items[l][i].top >= key[r]
  BY <1>8 DEF AtOrAbove
<1>12. ASSUME i # 0, NEW m \in Leaf, NEW j \in DOMAIN items[m], InFront(m, j, l, i)
       PROVE  ~items[m][j].open /\ items[m][j].top < key[r]
  <2>1. CASE m < l
    <3>1. items[m][j] \in Before(items, l)  BY <2>1, BeforeIs DEF Leaf
    <3> QED  BY <1>6, <3>1
  <2>2. CASE m = l /\ j < i  BY <1>8, <1>9, <1>12, <2>2
  <2> QED  BY <1>12, <2>1, <2>2 DEF InFront
<1> QED  BY <1>3, <1>4, <1>5, <1>6, <1>10, <1>11, <1>12

LEMMA InsertKeeps ==
  ASSUME Inv, NEW r \in Rows, SumInsert(r)  PROVE Inv'
<1>1. Types /\ GuardsOf(r) /\ StoredOf(r) /\ Good(items, key)  BY DEF Inv
<1>2. stage[r] = "unused" /\ Goes(r, "lookup") /\ vals' = vals \cup {r} /\ limit' = limit
      /\ key' = key /\ guarded' = guarded /\ items' = items /\ rd' = rd
  BY DEF SumInsert
<1>3. "lookup" \in Stages  BY DEF Stages
<1>4. /\ stage' \in [Rows -> Stages] /\ leafAt' \in [Rows -> Nat]
      /\ stage'[r] = "lookup" /\ leafAt'[r] = Descent
      /\ \A q \in Rows : q # r => stage'[q] = stage[q] /\ leafAt'[q] = leafAt[q]
  BY <1>1, <1>2, <1>3, GoesIs
<1>5. Others(r)  BY <1>1, <1>2, <1>4 DEF Others, Types
<1>6. LooksOf(r)'  BY <1>4, LooksNew
<1>7. GuardsOf(r)'  BY <1>1, <1>2, <1>4 DEF GuardsOf
<1>8. StoredOf(r)'  BY <1>1, <1>2, <1>4 DEF StoredOf
<1> QED  BY <1>2, <1>5, <1>6, <1>7, <1>8, RowKeepsSame

LEMMA StepsRightKeeps ==
  ASSUME Inv, NEW r \in Rows, StepsRight(r)  PROVE Inv'
<1>1. Types /\ GuardsOf(r) /\ StoredOf(r) /\ Good(items, key) /\ Typed(items)
  BY DEF Inv, Good
<1>2. PICK l \in Leaf :
        /\ LooksAt(r, l, 0)
        /\ ~Rightmost(l)
        /\ leafAt' = [leafAt EXCEPT ![r] = RightLink(l)]
        /\ UNCHANGED <<limit, key, stage, guarded, vals, items, rd>>
  BY DEF StepsRight
<1>3. PICK i : i = 0  OBVIOUS
<1>4. /\ r \in vals /\ r \notin rd.snap /\ stage[r] = "lookup"
      /\ \A e \in Before(items, l) : ~e.open /\ e.top < key[r]
      /\ \A j \in DOMAIN items[l] : ~items[l][j].open /\ items[l][j].top < key[r]
  <2>1. LooksAt(r, l, i)  BY <1>2, <1>3
  <2> QED  BY <1>3, <2>1, LookingIs
<1>5. PICK x : x = RightLink(l)  OBVIOUS
<1>6. x \in Leaf /\ x > l /\ \A m \in Leaf : m > l => x <= m  BY <1>1, <1>2, <1>5, RightIs
<1>7. x \in Nat /\ l \in Nat /\ \A m \in Leaf : m \in Nat  BY <1>1, <1>6, OnLeaf DEF Leaf
<1>8. \A e \in Before(items, x) : ~e.open /\ e.top < key[r]
  <2> SUFFICES ASSUME NEW e \in Before(items, x)  PROVE ~e.open /\ e.top < key[r]
    OBVIOUS
  <2>1. PICK m \in DOMAIN items : m < x /\ \E j \in DOMAIN items[m] : e = items[m][j]
    BY BeforeIs
  <2>2. PICK j \in DOMAIN items[m] : e = items[m][j]  BY <2>1
  <2>3. m < l \/ m = l  BY <1>6, <1>7, <2>1 DEF Leaf
  <2>4. CASE m = l  BY <1>4, <2>2, <2>4
  <2>5. CASE m < l
    <3>1. e \in Before(items, l)  BY <2>2, <2>5, BeforeIs
    <3> QED  BY <1>4, <3>1
  <2> QED  BY <2>3, <2>4, <2>5
<1>9. leafAt' \in [Rows -> Nat] /\ leafAt'[r] = x
      /\ \A q \in Rows : q # r => leafAt'[q] = leafAt[q]
  BY <1>1, <1>2, <1>5, <1>7 DEF Types
<1>10. Others(r)  BY <1>1, <1>2, <1>9 DEF Others, Types, Stages
<1>11. LooksOf(r)'
  <2>1. x \in DOMAIN items' /\ items' = items /\ key' = key  BY <1>2, <1>6 DEF Leaf
  <2> QED  BY <1>8, <1>9, <2>1 DEF LooksOf, Leaf
<1>12. GuardsOf(r)'  BY <1>1, <1>2, <1>4 DEF GuardsOf
<1>13. StoredOf(r)'  BY <1>1, <1>2, <1>4 DEF StoredOf
<1> QED  BY <1>2, <1>10, <1>11, <1>12, <1>13, RowKeepsSame

\* A row is put into a bucket, whose key may be raised for it.
LEMMA MayPutIs ==
  ASSUME NEW f, NEW k, Good(f, k), NEW l \in DOMAIN f, NEW i \in DOMAIN f[l],
         NEW d \in Bkt, NEW S, NEW D,
         d.top = f[l][i].top \/ (f[l][i].open /\ d.top > f[l][i].top),
         d.open => f[l][i].open,
         d.rows \cap S \subseteq f[l][i].rows,
         \A r \in f[l][i].rows : r \in D \/ r \in d.rows,
         k \in [Rows -> ColumnKeys],
         \A r \in d.rows :
           \/ r \in f[l][i].rows
           \/ /\ k[r] <= d.top
              /\ \A m \in DOMAIN f : \A j \in DOMAIN f[m] :
                   InFront(m, j, l, i) => k[r] > f[m][j].top
  PROVE  MayPut(f, k, l, i, d, S, D)
<1>1. Typed(f) /\ Ascend(f, k) /\ InPlace(f, k)  BY DEF Good
<1>2. ComesFrom(d, f[l][i], S)  BY DEF ComesFrom
<1>3. f[l][i].top \in Nat /\ d.top \in Nat
  <2>1. d.top \in ColumnKeys  BY DEF Bkt
  <2> QED  BY <1>1, <2>1, OnLeaf, KeysAre
<1>4. ASSUME NEW r \in d.rows, r \in f[l][i].rows
      PROVE  /\ k[r] <= d.top
             /\ \A m \in DOMAIN f : \A j \in DOMAIN f[m] :
                  InFront(m, j, l, i) => k[r] > f[m][j].top
  <2>1. k[r] <= f[l][i].top  BY <1>1, <1>4 DEF InPlace
  <2>2. d.top >= f[l][i].top  BY <1>3
  <2>3. k[r] \in Nat
    <3>1. r \in Rows  BY DEF Bkt
    <3> QED  BY <3>1, KeysAre
  <2>4. k[r] <= d.top  BY <1>3, <2>1, <2>2, <2>3
  <2>5. \A m \in DOMAIN f : \A j \in DOMAIN f[m] :
           InFront(m, j, l, i) => k[r] > f[m][j].top
    BY <1>1, <1>4 DEF Ascend
  <2> QED  BY <2>4, <2>5
<1> QED  BY <1>2, <1>4 DEF MayPut

LEMMA FitsIsPut ==
  ASSUME NEW l \in Leaf, NEW i \in DOMAIN items[l], NEW d, NEW s,
         s = [items[l] EXCEPT ![i] = d]
  PROVE  Fits(l, s) = Put(items, l, i, d)
BY DEF Fits, Put

\* A step that puts d for the entry i of leaf l, which may be cut for it.
LEMMA PutKeeps ==
  ASSUME Inv, NEW r \in Rows, NEW l \in Leaf, NEW i, i # 0, LooksAt(r, l, i), NEW d \in Bkt,
         d.top = items[l][i].top
           \/ (items[l][i].open /\ d.top > items[l][i].top /\ d.top = key[r]),
         d.open => items[l][i].open,
         items[l][i].rows \subseteq d.rows,
         \A q \in d.rows : q \in items[l][i].rows \/ (q = r /\ key[r] <= d.top),
         NEW s, s = [items[l] EXCEPT ![i] = d], items' \in Placed(l, s)
  PROVE  /\ Good(items', key) /\ Turn(items, items', rd.snap, {})
         /\ \E e \in In(items') : e.rows = d.rows
<1>1. PICK f, k, g, S : f = items /\ k = key /\ g = items' /\ S = rd.snap  OBVIOUS
<1>2. Good(f, k) /\ k \in [Rows -> ColumnKeys]  BY <1>1 DEF Inv, Types
<1>3. l \in DOMAIN f /\ i \in DOMAIN f[l] /\ r \notin S
      /\ \A m \in DOMAIN f : \A j \in DOMAIN f[m] : InFront(m, j, l, i) => f[m][j].top < k[r]
  BY <1>1, LookingIs DEF Leaf
<1>4. k[r] \in Nat /\ \A m \in DOMAIN f : \A j \in DOMAIN f[m] : f[m][j].top \in Nat
  <2>1. Typed(f)  BY <1>2 DEF Good
  <2> QED  BY <1>2, <2>1, OnLeaf, KeysAre
<1>5. MayPut(f, k, l, i, d, S, {})
  <2>1. d.top = f[l][i].top \/ (f[l][i].open /\ d.top > f[l][i].top)  BY <1>1
  <2>2. d.open => f[l][i].open  BY <1>1
  <2>3. d.rows \cap S \subseteq f[l][i].rows  BY <1>1, <1>3
  <2>4. \A q \in f[l][i].rows : q \in {} \/ q \in d.rows  BY <1>1
  <2>5. \A q \in d.rows :
           \/ q \in f[l][i].rows
           \/ /\ k[q] <= d.top
              /\ \A m \in DOMAIN f : \A j \in DOMAIN f[m] :
                   InFront(m, j, l, i) => k[q] > f[m][j].top
    <3>1. \A m \in DOMAIN f : \A j \in DOMAIN f[m] : InFront(m, j, l, i) => k[r] > f[m][j].top
      BY <1>3, <1>4
    <3> QED  BY <1>1, <3>1
  <2> QED  BY <1>2, <1>3, <2>1, <2>2, <2>3, <2>4, <2>5, MayPutIs
<1>6. PICK h : h = Put(f, l, i, d)  OBVIOUS
<1>7. Good(h, k) /\ Turn(f, h, S, {}) /\ d \in In(h)
  BY <1>2, <1>3, <1>5, <1>6, PutGood, PutTurn
<1>8. CutsTo(h, l, g)
  <2>1. h = Fits(l, s)  BY <1>1, <1>3, <1>6, FitsIsPut
  <2>2. CutsTo(Fits(l, s), l, g)  BY <1>1, PlacedIs
  <2> QED  BY <2>1, <2>2
<1>9. l \in DOMAIN h
  <2>1. DOMAIN f \subseteq DOMAIN h  BY <1>7 DEF Turn
  <2> QED  BY <1>3, <2>1
<1>10. Good(g, k) /\ Turn(f, g, S, {}) /\ \A e \in In(h) : e \in In(g)
  BY <1>7, <1>8, <1>9, CutsToKeeps
<1> QED  BY <1>1, <1>7, <1>10

\* An insert whose next step is p.
LEMMA GoesKeeps ==
  ASSUME Inv, NEW r \in Rows, stage[r] \in {"lookup", "create"},
         NEW p \in {"lookup", "stored", "gone"}, Goes(r, p),
         UNCHANGED <<limit, key, guarded, vals, rd>>,
         Good(items', key), Turn(items, items', rd.snap, {}),
         p = "stored" => \E e \in In(items') : r \in e.rows
  PROVE  Inv'
<1>1. Types /\ GuardsOf(r) /\ StoredOf(r) /\ Good(items, key)  BY DEF Inv
<1>2. limit' = limit /\ key' = key /\ guarded' = guarded /\ vals' = vals /\ rd' = rd
  OBVIOUS
<1>3. p \in Stages  BY DEF Stages
<1>4. /\ stage' \in [Rows -> Stages] /\ leafAt' \in [Rows -> Nat]
      /\ stage'[r] = p /\ leafAt'[r] = Descent
      /\ \A q \in Rows : q # r => stage'[q] = stage[q] /\ leafAt'[q] = leafAt[q]
  BY <1>1, <1>3, GoesIs
<1>5. Others(r)  BY <1>1, <1>2, <1>4 DEF Others, Types
<1>6. LooksOf(r)'  BY <1>4, LooksNew
<1>7. GuardsOf(r)'
  <2>1. Typed(items) /\ Typed(items') /\ key \in [Rows -> ColumnKeys]
    BY <1>1 DEF Good, Types
  <2>2. stage'[r] # "create"  BY <1>4
  <2> QED  BY <1>1, <1>2, <2>1, <2>2, GuardsKept
<1>8. StoredOf(r)'
  <2>1. r \in vals /\ r \notin rd.snap  BY <1>1 DEF StoredOf
  <2>2. p = "stored" => IsIn(r)'  BY <1>2, <2>1 DEF IsIn
  <2> QED  BY <1>2, <1>4, <2>1, <2>2 DEF StoredOf
<1> QED  BY <1>5, <1>6, <1>7, <1>8, RowKeeps

LEMMA WithIs ==
  ASSUME NEW e \in Bkt, NEW r \in Rows, key[r] \in ColumnKeys
  PROVE  /\ With(e, r) \in Bkt /\ With(e, r).top = e.top /\ With(e, r).open = e.open
         /\ With(e, r).rows = e.rows \cup {r}
         /\ Raised(r, e) \in Bkt /\ Raised(r, e).top = key[r] /\ Raised(r, e).open = e.open
         /\ Raised(r, e).rows = e.rows
<1>1. PICK x : x = key[r]  OBVIOUS
<1>2. [e EXCEPT !.top = x] \in Bkt /\ [e EXCEPT !.top = x].top = x
      /\ [e EXCEPT !.top = x].open = e.open /\ [e EXCEPT !.top = x].rows = e.rows
  BY <1>1 DEF Bkt
<1>3. PICK S : S = e.rows \cup {r}  OBVIOUS
<1>4. S \in SUBSET Rows  BY <1>3 DEF Bkt
<1>5. [e EXCEPT !.rows = S] \in Bkt /\ [e EXCEPT !.rows = S].top = e.top
      /\ [e EXCEPT !.rows = S].open = e.open /\ [e EXCEPT !.rows = S].rows = S
  BY <1>4 DEF Bkt
<1>6. With(e, r) = [e EXCEPT !.rows = S]  BY <1>3 DEF With
<1>7. Raised(r, e) = [e EXCEPT !.top = x]  BY <1>1 DEF Raised
<1> QED  BY <1>1, <1>2, <1>3, <1>5, <1>6, <1>7

LEMMA JoinKeeps ==
  ASSUME Inv, NEW r \in Rows, Join(r)  PROVE Inv'
<1>1. PICK l \in Leaf : \E j \in DOMAIN items[l] :
        /\ LooksAt(r, l, j)
        /\ items[l][j].top >= key[r]
        /\ items' \in Placed(l, [items[l] EXCEPT ![j] = With(@, r)])
        /\ Goes(r, "stored")
        /\ UNCHANGED <<limit, key, guarded, vals, rd>>
  BY DEF Join
<1>2. PICK i \in DOMAIN items[l] :
        /\ LooksAt(r, l, i)
        /\ items[l][i].top >= key[r]
        /\ items' \in Placed(l, [items[l] EXCEPT ![i] = With(@, r)])
        /\ Goes(r, "stored")
        /\ UNCHANGED <<limit, key, guarded, vals, rd>>
  BY <1>1
<1>3. Typed(items)  BY DEF Inv, Good
<1>4. items[l][i] \in Bkt /\ i # 0  BY <1>3, OnLeaf DEF Leaf
<1>5. stage[r] = "lookup" /\ key[r] \in ColumnKeys /\ key[r] \in Nat  BY <1>2, LookingIs
<1>6. PICK e, d, s : /\ e = items[l][i] /\ d = With(e, r)
                     /\ s = [items[l] EXCEPT ![i] = d]
  OBVIOUS
<1>7. d \in Bkt /\ d.top = e.top /\ d.open = e.open /\ d.rows = e.rows \cup {r}
  BY <1>4, <1>5, <1>6, WithIs
<1>8. items' \in Placed(l, s)
  <2>1. s = [items[l] EXCEPT ![i] = With(@, r)]  BY <1>6
  <2> QED  BY <1>2, <2>1
<1>9. /\ Good(items', key) /\ Turn(items, items', rd.snap, {})
      /\ \E c \in In(items') : c.rows = d.rows
  <2>1. d.top = items[l][i].top
           \/ (items[l][i].open /\ d.top > items[l][i].top /\ d.top = key[r])
    BY <1>6, <1>7
  <2>2. d.open => items[l][i].open  BY <1>6, <1>7
  <2>3. items[l][i].rows \subseteq d.rows  BY <1>6, <1>7
  <2>4. key[r] <= d.top
    <3>1. e.top \in Nat  BY <1>3, <1>6, OnLeaf DEF Leaf
    <3> QED  BY <1>2, <1>5, <1>6, <1>7, <3>1
  <2>5. \A q \in d.rows : q \in items[l][i].rows \/ (q = r /\ key[r] <= d.top)
    BY <1>6, <1>7, <2>4
  <2> QED  BY <1>2, <1>4, <1>6, <1>7, <1>8, <2>1, <2>2, <2>3, <2>5, PutKeeps
<1>10. \E c \in In(items') : r \in c.rows  BY <1>7, <1>9
<1> QED  BY <1>2, <1>5, <1>9, <1>10, GoesKeeps

\* The open bucket raised to the row's key, with the row or without it.
LEMMA RaisedKeeps ==
  ASSUME Inv, NEW r \in Rows, NEW l \in Leaf, NEW i \in DOMAIN items[l], OpenBelow(r, l, i),
         NEW d, d = With(Raised(r, items[l][i]), r) \/ d = Raised(r, items[l][i]),
         NEW s, s = [items[l] EXCEPT ![i] = d], items' \in Placed(l, s)
  PROVE  /\ Good(items', key) /\ Turn(items, items', rd.snap, {})
         /\ \E c \in In(items') : c.rows = d.rows
         /\ stage[r] = "lookup"
         /\ d = With(Raised(r, items[l][i]), r) => r \in d.rows
<1>1. LooksAt(r, l, i) /\ items[l][i].top < key[r]  BY DEF OpenBelow
<1>2. Typed(items)  BY DEF Inv, Good
<1>3. PICK e : e = items[l][i]  OBVIOUS
<1>4. e \in Bkt /\ i # 0 /\ e.top \in Nat  BY <1>2, <1>3, OnLeaf DEF Leaf
<1>5. stage[r] = "lookup" /\ key[r] \in ColumnKeys /\ key[r] \in Nat
      /\ (e.open \/ e.top >= key[r])
  BY <1>1, <1>3, <1>4, LookingIs
<1>6. e.open /\ key[r] > e.top  BY <1>1, <1>3, <1>4, <1>5
<1>7. d \in Bkt /\ d.top = key[r] /\ d.open = e.open
      /\ (d.rows = e.rows \/ d.rows = e.rows \cup {r})
      /\ (d = With(Raised(r, e), r) => r \in d.rows)
  <2>1. PICK c : c = Raised(r, e)  OBVIOUS
  <2>2. c \in Bkt /\ c.top = key[r] /\ c.open = e.open /\ c.rows = e.rows
    BY <1>4, <1>5, <2>1, WithIs
  <2>3. PICK b : b = With(c, r)  OBVIOUS
  <2>4. b \in Bkt /\ b.top = c.top /\ b.open = c.open /\ b.rows = c.rows \cup {r}
    BY <1>5, <2>2, <2>3, WithIs
  <2>5. d = b \/ d = c  BY <1>3, <2>1, <2>3
  <2>6. d = With(Raised(r, e), r) => d = b  BY <2>1, <2>3
  <2> QED  BY <2>2, <2>4, <2>5, <2>6
<1>8. /\ Good(items', key) /\ Turn(items, items', rd.snap, {})
      /\ \E c \in In(items') : c.rows = d.rows
  <2>1. d.top = items[l][i].top
           \/ (items[l][i].open /\ d.top > items[l][i].top /\ d.top = key[r])
    BY <1>3, <1>6, <1>7
  <2>2. d.open => items[l][i].open  BY <1>3, <1>7
  <2>3. items[l][i].rows \subseteq d.rows  BY <1>3, <1>7
  <2>4. key[r] <= d.top  BY <1>5, <1>7
  <2>5. \A q \in d.rows : q \in items[l][i].rows \/ (q = r /\ key[r] <= d.top)
    BY <1>3, <1>7, <2>4
  <2> QED  BY <1>1, <1>4, <1>7, <2>1, <2>2, <2>3, <2>5, PutKeeps
<1> QED  BY <1>3, <1>5, <1>7, <1>8

LEMMA RaiseInlineKeeps ==
  ASSUME Inv, NEW r \in Rows, RaiseInline(r)  PROVE Inv'
<1>1. PICK l \in Leaf : \E j \in DOMAIN items[l] :
        /\ OpenBelow(r, l, j)
        /\ items' \in Placed(l, [items[l] EXCEPT ![j] = With(Raised(r, @), r)])
        /\ Goes(r, "stored")
        /\ UNCHANGED <<limit, key, guarded, vals, rd>>
  BY DEF RaiseInline
<1>2. PICK i \in DOMAIN items[l] :
        /\ OpenBelow(r, l, i)
        /\ items' \in Placed(l, [items[l] EXCEPT ![i] = With(Raised(r, @), r)])
        /\ Goes(r, "stored")
        /\ UNCHANGED <<limit, key, guarded, vals, rd>>
  BY <1>1
<1>3. PICK d, s : d = With(Raised(r, items[l][i]), r) /\ s = [items[l] EXCEPT ![i] = d]
  OBVIOUS
<1>4. s = [items[l] EXCEPT ![i] = With(Raised(r, @), r)]  BY <1>3
<1>5. /\ Good(items', key) /\ Turn(items, items', rd.snap, {})
      /\ \E c \in In(items') : c.rows = d.rows
      /\ stage[r] = "lookup" /\ r \in d.rows
  BY <1>2, <1>3, <1>4, RaisedKeeps
<1>6. \E c \in In(items') : r \in c.rows  BY <1>5
<1> QED  BY <1>2, <1>5, <1>6, GoesKeeps

RaisesChain(r, l, i) ==
  /\ OpenBelow(r, l, i)
  /\ LET raised == [items[l] EXCEPT ![i] = Raised(r, @)]
         both == [raised EXCEPT ![i] = With(@, r)]
     IN \/ /\ items' \in {Fits(l, both)}
                           \cup {Cut(l, both, n) : n \in CutsOf(both) \ 1 .. i - 1}
           /\ Goes(r, "stored")
        \/ /\ items' \in {Cut(l, raised, n) : n \in CutsOf(raised) \cap 1 .. i - 1}
           /\ Goes(r, "lookup")
        \/ items' \in Placed(l, raised) /\ Goes(r, "gone")
  /\ UNCHANGED <<limit, key, guarded, vals, rd>>

LEMMA RaiseChainKeeps ==
  ASSUME Inv, NEW r \in Rows, RaiseChain(r)  PROVE Inv'
<1>0. PICK l \in Leaf : \E j \in DOMAIN items[l] : RaisesChain(r, l, j)
  BY DEF RaiseChain, RaisesChain
<1>1. PICK i \in DOMAIN items[l] : RaisesChain(r, l, i)  BY <1>0
<1>2. PICK e, c, d : e = items[l][i] /\ c = Raised(r, e) /\ d = With(c, r)  OBVIOUS
<1>3. PICK raised, both : /\ raised = [items[l] EXCEPT ![i] = c]
                          /\ both = [items[l] EXCEPT ![i] = d]
  OBVIOUS
<1>4. raised = [items[l] EXCEPT ![i] = Raised(r, @)]  BY <1>2, <1>3
<1>5. both = [raised EXCEPT ![i] = With(@, r)]
  <2>1. raised[i] = c  BY <1>3
  <2>2. [raised EXCEPT ![i] = With(@, r)] = [raised EXCEPT ![i] = d]  BY <1>2, <2>1
  <2>3. [raised EXCEPT ![i] = d] = both  BY <1>3
  <2> QED  BY <2>2, <2>3
<1>6. \/ items' \in Placed(l, both) /\ Goes(r, "stored")
      \/ items' \in Placed(l, raised) /\ (Goes(r, "lookup") \/ Goes(r, "gone"))
  <2>1. \/ /\ items' \in {Fits(l, both)}
                          \cup {Cut(l, both, n) : n \in CutsOf(both) \ 1 .. i - 1}
           /\ Goes(r, "stored")
        \/ /\ items' \in {Cut(l, raised, n) : n \in CutsOf(raised) \cap 1 .. i - 1}
           /\ Goes(r, "lookup")
        \/ items' \in Placed(l, raised) /\ Goes(r, "gone")
    BY <1>1, <1>4, <1>5, Zenon DEF RaisesChain
  <2>2. \A x : x \in {Fits(l, both)} \cup {Cut(l, both, n) : n \in CutsOf(both) \ 1 .. i - 1}
               => x \in Placed(l, both)
    BY DEF Placed
  <2>3. \A x : x \in {Cut(l, raised, n) : n \in CutsOf(raised) \cap 1 .. i - 1}
               => x \in Placed(l, raised)
    BY DEF Placed
  <2> QED  BY <2>1, <2>2, <2>3, Zenon
<1>7. UNCHANGED <<limit, key, guarded, vals, rd>> /\ OpenBelow(r, l, i)  BY <1>1 DEF RaisesChain
<1>8. CASE items' \in Placed(l, both) /\ Goes(r, "stored")
  <2>1. d = With(Raised(r, items[l][i]), r)  BY <1>2
  <2>2. /\ Good(items', key) /\ Turn(items, items', rd.snap, {})
        /\ \E b \in In(items') : b.rows = d.rows
        /\ stage[r] = "lookup" /\ r \in d.rows
    BY <1>3, <1>7, <1>8, <2>1, RaisedKeeps
  <2>3. \E b \in In(items') : r \in b.rows  BY <2>2
  <2> QED  BY <1>7, <1>8, <2>2, <2>3, GoesKeeps
<1>9. CASE items' \in Placed(l, raised) /\ (Goes(r, "lookup") \/ Goes(r, "gone"))
  <2>1. c = Raised(r, items[l][i])  BY <1>2
  <2>2. /\ Good(items', key) /\ Turn(items, items', rd.snap, {}) /\ stage[r] = "lookup"
    BY <1>3, <1>7, <1>9, <2>1, RaisedKeeps
  <2>3. PICK p \in {"lookup", "gone"} : Goes(r, p)  BY <1>9
  <2>4. p \in {"lookup", "stored", "gone"} /\ p # "stored"  OBVIOUS
  <2> QED  BY <1>7, <2>2, <2>3, <2>4, GoesKeeps
<1> QED  BY <1>6, <1>8, <1>9

\* An entry inserted after the last is appended.
LEMMA InsertLast ==
  ASSUME NEW R, NEW s \in Seq(R), NEW e \in R, Len(s) > 0
  PROVE  InsertAt(s, Len(s) + 1, e) = Append(s, e)
<1>1. Len(s) \in Nat /\ Len(s) \in 1 .. Len(s)  BY LenProperties
<1>2. PICK n : n = Len(s)  OBVIOUS
<1>3. n \in 1 .. Len(s) /\ n \in Nat  BY <1>1, <1>2
<1> DEFINE t == InsertAt(s, n + 1, e)
<1>4. /\ t \in Seq(R) /\ Len(t) = Len(s) + 1
      /\ \A i \in 1 .. n : t[i] = s[i]
      /\ t[n + 1] = e
  BY <1>3, InsertAtIs
<1> HIDE DEF t
<1> DEFINE a == Append(s, e)
<1>5. /\ a \in Seq(R) /\ Len(a) = Len(s) + 1
      /\ \A i \in 1 .. Len(s) : a[i] = s[i]
      /\ a[Len(s) + 1] = e
  BY AppendProperties
<1> HIDE DEF a
<1>6. \A i \in 1 .. Len(t) : t[i] = a[i]
  <2>1. \A i \in 1 .. n + 1 : i \in 1 .. n \/ i = n + 1  BY <1>3
  <2> QED  BY <1>2, <1>4, <1>5, <2>1
<1>7. t = a  BY <1>2, <1>4, <1>5, <1>6, SeqEqual
<1> QED  BY <1>2, <1>7 DEF t, a

\* The last leaf, and the last of the buckets.
LEMMA LastIs ==
  ASSUME NEW k, Good(items, k)
  PROVE  /\ LastLeaf \in Leaf /\ IsLast(items, LastLeaf)
         /\ items[LastLeaf] = <<>> => In(items) = {}
         /\ items[LastLeaf] # <<>> =>
              /\ LastItem \in In(items)
              /\ \A e \in In(items) : e = LastItem \/ (~e.open /\ e.top < LastItem.top)
<1>1. Typed(items) /\ Ascend(items, k) /\ LastFull(items)  BY DEF Good
<1>2. PICK l : l = LastLeaf  OBVIOUS
<1>3. l \in Leaf /\ \A m \in Leaf : m <= l
  <2> DEFINE T == Leaf
  <2>1. TopKey \in Nat /\ T \in SUBSET (0 .. TopKey) /\ T # {}
    BY <1>1, KeysAre DEF Typed, Leaf
  <2>2. l = Max(T)  BY <1>2 DEF LastLeaf
  <2> HIDE DEF T
  <2>3. l \in T /\ \A m \in T : m <= l  BY <2>1, <2>2, MaxIs
  <2> QED  BY <2>3 DEF T
<1>4. l \in DOMAIN items /\ \A m \in DOMAIN items : m <= l  BY <1>3 DEF Leaf
<1>5. \A m \in DOMAIN items : m \in Nat  BY <1>1, OnLeaf
<1>6. ASSUME items[l] = <<>>  PROVE In(items) = {}
  <2>1. l = 0  BY <1>1, <1>4, <1>6 DEF LastFull
  <2>2. \A m \in DOMAIN items : m = l  BY <1>4, <1>5, <2>1
  <2>3. ASSUME NEW e \in In(items)  PROVE FALSE
    <3>1. PICK m \in DOMAIN items : \E j \in DOMAIN items[m] : e = items[m][j]  BY InIs
    <3>2. DOMAIN items[l] = 1 .. Len(items[l]) /\ Len(items[l]) = 0  BY <1>1, <1>4, <1>6, OnLeaf
    <3>3. DOMAIN items[m] = {}  BY <2>2, <3>2
    <3> QED  BY <3>1, <3>3
  <2> QED  BY <2>3
<1>7. ASSUME items[l] # <<>>
      PROVE  /\ LastItem \in In(items)
             /\ \A e \in In(items) : e = LastItem \/ (~e.open /\ e.top < LastItem.top)
  <2>1. PICK n : n = Len(items[l])  OBVIOUS
  <2>2. n \in DOMAIN items[l] /\ n \in Nat /\ DOMAIN items[l] = 1 .. n
    <3>1. DOMAIN items[l] = 1 .. Len(items[l]) /\ Len(items[l]) \in Nat
          /\ (items[l] = <<>> <=> Len(items[l]) = 0)
      BY <1>1, <1>4, OnLeaf
    <3> QED  BY <1>7, <2>1, <3>1
  <2>3. LastItem = items[l][n]  BY <1>2, <2>1 DEF LastItem
  <2>4. LastItem \in In(items)  BY <1>4, <2>2, <2>3, InIs
  <2>5. ASSUME NEW e \in In(items), e # LastItem  PROVE ~e.open /\ e.top < LastItem.top
    <3>1. PICK m \in DOMAIN items : \E j \in DOMAIN items[m] : e = items[m][j]  BY InIs
    <3>2. PICK j \in DOMAIN items[m] : e = items[m][j]  BY <3>1
    <3>3. InFront(m, j, l, n)
      <4>1. m <= l /\ m \in Nat /\ l \in Nat  BY <1>4, <1>5
      <4>2. CASE m < l  BY <4>2 DEF InFront
      <4>3. CASE m = l
        <5>1. j \in 1 .. n /\ j # n  BY <2>2, <2>3, <2>5, <3>2, <4>3
        <5>2. j < n  BY <2>2, <5>1
        <5> QED  BY <4>3, <5>2 DEF InFront
      <4> QED  BY <4>1, <4>2, <4>3
    <3> QED  BY <1>1, <1>4, <2>2, <2>3, <3>2, <3>3 DEF Ascend
  <2> QED  BY <2>4, <2>5
<1> QED  BY <1>2, <1>3, <1>4, <1>6, <1>7 DEF IsLast

FirstBucket(r, k) == Bucket(k, TRUE, {r})

LEMMA BucketIs ==
  ASSUME NEW r \in Rows, NEW k \in ColumnKeys, NEW d, d = FirstBucket(r, k)
  PROVE  d \in Bkt /\ d.top = k /\ d.open = TRUE /\ d.rows = {r}
<1>1. PICK S \in SUBSET Rows : S = {r}  OBVIOUS
<1>2. d = [top |-> k, open |-> TRUE, rows |-> S]  BY <1>1 DEF FirstBucket, Bucket
<1>3. d.top = k /\ d.open = TRUE /\ d.rows = S  BY <1>2
<1>4. d \in Bkt  BY <1>2 DEF Bkt
<1> QED  BY <1>1, <1>3, <1>4

\* The open bucket closed, and another opened.
Closes(r, l, i) ==
  /\ OpenBelow(r, l, i)
  /\ ~HasSpace(items[l][i])
  /\ LET closed == [items[l] EXCEPT ![i].open = FALSE]
         opened == FirstBucket(r, key[r])
     IN \/ items' \in Placed(l, InsertAt(closed, i + 1, opened)) /\ Goes(r, "stored")
        \/ items' = Fits(l, closed) /\ Goes(r, "gone")
  /\ UNCHANGED <<limit, key, guarded, vals, rd>>

LEMMA CloseKeeps ==
  ASSUME Inv, NEW r \in Rows, Close(r)  PROVE Inv'
<1>1. PICK l \in Leaf : \E j \in DOMAIN items[l] : Closes(r, l, j)
  BY DEF Close, Closes, FirstBucket
<1>2. PICK i \in DOMAIN items[l] : Closes(r, l, i)  BY <1>1
<1>3. PICK f, k, S : f = items /\ k = key /\ S = rd.snap  OBVIOUS
<1>4. PICK e, c, d, s : /\ e = f[l][i] /\ c = [e EXCEPT !.open = FALSE]
                        /\ d = FirstBucket(r, k[r])
                        /\ s = [f[l] EXCEPT ![i] = c]
  OBVIOUS
<1>5. Good(f, k) /\ Typed(f) /\ k \in [Rows -> ColumnKeys] /\ l \in DOMAIN f /\ i \in DOMAIN f[l]
  BY <1>3 DEF Inv, Good, Types, Leaf
<1>6. LooksAt(r, l, i) /\ e.top < k[r] /\ UNCHANGED <<limit, key, guarded, vals, rd>>
  BY <1>2, <1>3, <1>4 DEF Closes, OpenBelow
<1>7. e \in Bkt /\ i # 0 /\ i \in Nat /\ e.top \in Nat /\ i <= Len(f[l])
      /\ f[l] \in Seq(Bkt) /\ Len(f[l]) \in Nat /\ DOMAIN f[l] = 1 .. Len(f[l])
  BY <1>4, <1>5, OnLeaf
<1>8. stage[r] = "lookup" /\ r \in vals /\ r \notin S /\ k[r] \in Nat /\ k[r] \in ColumnKeys
      /\ (e.open \/ e.top >= k[r])
      /\ \A m \in DOMAIN f : \A j \in DOMAIN f[m] :
           InFront(m, j, l, i) => ~f[m][j].open /\ f[m][j].top < k[r]
  BY <1>3, <1>4, <1>6, <1>7, LookingIs DEF Leaf
<1>9. e.open  BY <1>6, <1>7, <1>8
<1>10. i = Len(f[l]) /\ \A m \in DOMAIN f : m <= l  BY <1>4, <1>5, <1>9, OpenIsLast
<1>11. c \in Bkt /\ c.top = e.top /\ c.open = FALSE /\ c.rows = e.rows  BY <1>4, <1>7 DEF Bkt
<1>12. PICK h : h = Put(f, l, i, c)  OBVIOUS
<1>13. MayPut(f, k, l, i, c, S, {})
  <2>1. c.top = f[l][i].top \/ (f[l][i].open /\ c.top > f[l][i].top)  BY <1>4, <1>11
  <2>2. c.open => f[l][i].open  BY <1>11
  <2>3. c.rows \cap S \subseteq f[l][i].rows  BY <1>4, <1>11
  <2>4. \A q \in f[l][i].rows : q \in {} \/ q \in c.rows  BY <1>4, <1>11
  <2>5. \A q \in c.rows : q \in f[l][i].rows  BY <1>4, <1>11
  <2> QED  BY <1>5, <1>11, <2>1, <2>2, <2>3, <2>4, <2>5, MayPutIs
<1>14. Good(h, k) /\ Turn(f, h, S, {})  BY <1>5, <1>12, <1>13, PutGood, PutTurn
<1>15. IsPut(f, l, i, c, h)  BY <1>5, <1>11, <1>12, PutIs
<1>16. h = Fits(l, s)  BY <1>3, <1>4, <1>5, <1>12, FitsIsPut DEF Leaf
<1>17. s = [items[l] EXCEPT ![i].open = FALSE]
  <2>1. [items[l] EXCEPT ![i].open = FALSE]
           = [items[l] EXCEPT ![i] = [items[l][i] EXCEPT !.open = FALSE]]
    OBVIOUS
  <2> QED  BY <1>3, <1>4, <2>1
<1>18. d \in Bkt /\ d.top = k[r] /\ d.rows = {r}
  <2>1. PICK x \in ColumnKeys : x = k[r]  BY <1>8
  <2>2. d = FirstBucket(r, x)  BY <1>4, <2>1
  <2> QED  BY <2>1, <2>2, BucketIs
<1>19. d = FirstBucket(r, key[r])  BY <1>3, <1>4
<1>20. \/ items' \in Placed(l, InsertAt(s, i + 1, d)) /\ Goes(r, "stored")
       \/ items' = Fits(l, s) /\ Goes(r, "gone")
  BY <1>2, <1>17, <1>19 DEF Closes
<1>21. CASE items' = Fits(l, s) /\ Goes(r, "gone")
  <2>1. Good(items', key) /\ Turn(items, items', rd.snap, {})  BY <1>3, <1>14, <1>16, <1>21
  <2>2. "gone" \in {"lookup", "stored", "gone"} /\ "gone" # "stored"  OBVIOUS
  <2> QED  BY <1>6, <1>8, <1>21, <2>1, <2>2, GoesKeeps
<1>22. CASE items' \in Placed(l, InsertAt(s, i + 1, d)) /\ Goes(r, "stored")
  <2>1. DOMAIN h = DOMAIN f /\ h[l] = s /\ Typed(h) /\ s \in Seq(Bkt) /\ Len(s) = Len(f[l])
    <3>1. DOMAIN h = DOMAIN f /\ h[l] = s  BY <1>4, <1>5, <1>12 DEF Put
    <3>2. Typed(h)  BY <1>14 DEF Good
    <3>3. s \in Seq(Bkt) /\ DOMAIN s = 1 .. Len(s) /\ Len(s) \in Nat  BY <1>5, <3>1, <3>2, OnLeaf
    <3>4. DOMAIN s = DOMAIN f[l]  BY <1>4
    <3>5. Len(s) = Len(f[l])
      <4>1. Len(f[l]) \in 1 .. Len(s)  BY <1>7, <1>10, <3>3, <3>4
      <4>2. Len(s) \in 1 .. Len(f[l])  BY <1>7, <1>10, <3>3, <3>4, <4>1
      <4> QED  BY <1>7, <3>3, <4>1, <4>2
    <3> QED  BY <3>1, <3>2, <3>3, <3>5
  <2>2. InsertAt(s, i + 1, d) = Append(s, d)
    <3>1. i = Len(s) /\ Len(s) > 0  BY <1>7, <1>10, <2>1
    <3> QED  BY <1>18, <2>1, <3>1, InsertLast
  <2>3. PICK h2 : h2 = Opened(h, l, d)  OBVIOUS
  <2>4. h2 = Fits(l, Append(s, d))
    <3>1. h2 = [h EXCEPT ![l] = Append(s, d)]  BY <2>1, <2>3 DEF Opened
    <3>2. h = [items EXCEPT ![l] = s]  BY <1>16 DEF Fits
    <3> QED  BY <3>1, <3>2 DEF Fits
  <2>5. IsLast(h, l)  BY <1>5, <1>10, <2>1 DEF IsLast
  <2>6. \A b \in In(h) : ~b.open /\ b.top < d.top
    <3> SUFFICES ASSUME NEW b \in In(h)  PROVE ~b.open /\ b.top < d.top
      OBVIOUS
    <3>1. PICK m \in DOMAIN h : \E j \in DOMAIN h[m] : b = h[m][j]  BY InIs
    <3>2. PICK j \in DOMAIN h[m] : b = h[m][j]  BY <3>1
    <3>3. m \in DOMAIN f /\ j \in DOMAIN f[m] /\ ((m = l /\ j = i) \/ h[m][j] = f[m][j])
          /\ h[l][i] = c
      BY <1>15, <3>2 DEF IsPut
    <3>4. CASE m = l /\ j = i  BY <1>6, <1>11, <1>18, <3>2, <3>3, <3>4
    <3>5. CASE ~(m = l /\ j = i)
      <4>1. m \in Nat /\ l \in Nat /\ m <= l /\ j \in Nat /\ j <= Len(f[m])
        BY <1>5, <1>10, <3>3, OnLeaf
      <4>2. InFront(m, j, l, i)
        <5>1. CASE m < l  BY <5>1 DEF InFront
        <5>2. CASE m = l
          <6>1. j < i  BY <1>7, <1>10, <3>5, <4>1, <5>2
          <6> QED  BY <5>2, <6>1 DEF InFront
        <5> QED  BY <4>1, <5>1, <5>2
      <4>3. ~f[m][j].open /\ f[m][j].top < k[r]  BY <1>8, <3>3, <4>2
      <4> QED  BY <1>18, <3>2, <3>3, <3>5, <4>3
    <3> QED  BY <3>4, <3>5
  <2>7. MayOpen(h, k, d, S)
    <3>1. d.rows \cap S = {} /\ \A q \in d.rows : k[q] = d.top  BY <1>8, <1>18
    <3> QED  BY <1>18, <2>6, <3>1 DEF MayOpen
  <2>8. Good(h2, k)  BY <1>14, <2>3, <2>5, <2>7, OpenGood
  <2>9. Turn(h, h2, S, {}) /\ d \in In(h2)  BY <1>14, <2>3, <2>5, <2>7, OpenTurn
  <2>10. Turn(f, h2, S, {})
    <3>1. Typed(h2)  BY <2>8 DEF Good
    <3> QED  BY <1>5, <1>14, <2>1, <2>9, <3>1, TurnTwice
  <2>11. PICK g : g = items'  OBVIOUS
  <2>12. CutsTo(h2, l, g)
    <3>1. g \in Placed(l, Append(s, d))  BY <1>22, <2>2, <2>11
    <3>2. CutsTo(Fits(l, Append(s, d)), l, g)  BY <3>1, PlacedIs
    <3> QED  BY <2>4, <3>2
  <2>13. l \in DOMAIN h2  BY <1>5, <2>1, <2>9 DEF Turn
  <2>14. Good(g, k) /\ Turn(f, g, S, {}) /\ \A b \in In(h2) : b \in In(g)
    BY <2>8, <2>10, <2>12, <2>13, CutsToKeeps
  <2>15. Good(items', key) /\ Turn(items, items', rd.snap, {})  BY <1>3, <2>11, <2>14
  <2>16. \E b \in In(items') : r \in b.rows  BY <1>18, <2>9, <2>11, <2>14
  <2>17. "stored" \in {"lookup", "stored", "gone"}  OBVIOUS
  <2> QED  BY <1>6, <1>8, <1>22, <2>15, <2>16, <2>17, GoesKeeps
<1> QED  BY <1>20, <1>21, <1>22

LEMMA NoSummaryKeeps ==
  ASSUME Inv, NEW r \in Rows, NoSummary(r)  PROVE Inv'
<1>1. PICK l \in Leaf :
        /\ LooksAt(r, l, 0)
        /\ Rightmost(l)
        /\ Goes(r, "create")
        /\ UNCHANGED <<limit, key, guarded, vals, items, rd>>
  BY DEF NoSummary
<1>2. Types /\ Typed(items) /\ GuardsOf(r) /\ StoredOf(r)  BY DEF Inv, Good
<1>3. PICK i : i = 0  OBVIOUS
<1>4. /\ r \in vals /\ r \notin rd.snap /\ key[r] \in Nat
      /\ \A e \in Before(items, l) : ~e.open /\ e.top < key[r]
      /\ \A j \in DOMAIN items[l] : ~items[l][j].open /\ items[l][j].top < key[r]
  <2>1. LooksAt(r, l, i)  BY <1>1, <1>3
  <2> QED  BY <1>3, <2>1, LookingIs
<1>5. "create" \in Stages  BY DEF Stages
<1>6. /\ stage' \in [Rows -> Stages] /\ leafAt' \in [Rows -> Nat]
      /\ stage'[r] = "create" /\ leafAt'[r] = Descent
      /\ \A q \in Rows : q # r => stage'[q] = stage[q] /\ leafAt'[q] = leafAt[q]
  BY <1>1, <1>2, <1>5, GoesIs
<1>7. Others(r)  BY <1>1, <1>2, <1>6 DEF Others, Types
<1>8. LooksOf(r)'  BY <1>6, LooksNew
<1>9. ~guarded[r]
  <2> SUFFICES ASSUME guarded[r]  PROVE FALSE
    OBVIOUS
  <2>1. PICK e \in In(items) : e.top >= key[r]  BY <1>2 DEF GuardsOf
  <2>2. PICK m \in DOMAIN items : \E j \in DOMAIN items[m] : e = items[m][j]  BY InIs
  <2>3. PICK j \in DOMAIN items[m] : e = items[m][j]  BY <2>2
  <2>4. m <= l /\ m \in Nat /\ l \in Nat
    <3>1. \A x \in Leaf : x <= l  BY <1>1, <1>2, RightIs
    <3> QED  BY <1>2, <3>1, OnLeaf DEF Leaf
  <2>5. e.top < key[r]
    <3>1. CASE m < l
      <4>1. e \in Before(items, l)  BY <2>3, <3>1, BeforeIs
      <4> QED  BY <1>4, <4>1
    <3>2. CASE m = l  BY <1>4, <2>3, <3>2
    <3> QED  BY <2>4, <3>1, <3>2
  <2>6. e.top \in Nat  BY <1>2, BktIs
  <2> QED  BY <1>4, <2>1, <2>5, <2>6
<1>10. GuardsOf(r)'  BY <1>1, <1>9 DEF GuardsOf
<1>11. StoredOf(r)'  BY <1>1, <1>4, <1>6 DEF StoredOf
<1> QED  BY <1>1, <1>7, <1>8, <1>10, <1>11, RowKeepsSame

LEMMA FindsOpenKeeps ==
  ASSUME Inv, NEW r \in Rows, FindsOpen(r)  PROVE Inv'
<1>1. stage[r] = "create" /\ Goes(r, "lookup") /\ items' = items
      /\ UNCHANGED <<limit, key, guarded, vals, rd>>
  BY DEF FindsOpen
<1>2. Good(items, key) /\ Typed(items)  BY DEF Inv, Good
<1>3. Good(items', key) /\ Turn(items, items', rd.snap, {})
  <2>1. Turn(items, items, rd.snap, {})  BY <1>2, TurnSame
  <2> QED  BY <1>1, <1>2, <2>1
<1>4. "lookup" \in {"lookup", "stored", "gone"} /\ "lookup" # "stored"  OBVIOUS
<1> QED  BY <1>1, <1>3, <1>4, GoesKeeps

LEMMA LooksAgainKeeps ==
  ASSUME Inv, NEW r \in Rows, LooksAgain(r)  PROVE Inv'
<1>1. /\ Missed(r) /\ guarded' = [guarded EXCEPT ![r] = TRUE] /\ Goes(r, "lookup")
      /\ limit' = limit /\ key' = key /\ vals' = vals /\ items' = items /\ rd' = rd
  BY DEF LooksAgain
<1>2. Types /\ Good(items, key) /\ StoredOf(r)  BY DEF Inv
<1>3. stage[r] = "create" /\ items[LastLeaf] # <<>> /\ LastItem.top >= key[r]
  BY <1>1 DEF Missed, IsMissed
<1>4. LastItem \in In(items)  BY <1>2, <1>3, LastIs
<1>5. "lookup" \in Stages  BY DEF Stages
<1>6. /\ stage' \in [Rows -> Stages] /\ leafAt' \in [Rows -> Nat]
      /\ stage'[r] = "lookup" /\ leafAt'[r] = Descent
      /\ \A q \in Rows : q # r => stage'[q] = stage[q] /\ leafAt'[q] = leafAt[q]
  BY <1>1, <1>2, <1>5, GoesIs
<1>7. guarded' \in [Rows -> BOOLEAN] /\ \A q \in Rows : q # r => guarded'[q] = guarded[q]
  BY <1>1, <1>2 DEF Types
<1>8. Others(r)  BY <1>1, <1>2, <1>6, <1>7 DEF Others, Types
<1>9. LooksOf(r)'  BY <1>6, LooksNew
<1>10. GuardsOf(r)'
  <2>1. \E e \in In(items') : e.top >= key'[r]  BY <1>1, <1>3, <1>4
  <2>2. stage'[r] # "create"  BY <1>6
  <2> QED  BY <2>1, <2>2 DEF GuardsOf
<1>11. StoredOf(r)'  BY <1>1, <1>2, <1>3, <1>6 DEF StoredOf
<1> QED  BY <1>1, <1>8, <1>9, <1>10, <1>11, RowKeepsSame

LEMMA OpenKeeps ==
  ASSUME Inv, NEW r \in Rows, Open(r)  PROVE Inv'
<1>1. /\ stage[r] = "create" /\ ~HasOpen /\ ~Missed(r)
      /\ items' \in Placed(LastLeaf, Append(items[LastLeaf], FirstBucket(r, key[r])))
      /\ Goes(r, "stored")
      /\ UNCHANGED <<limit, key, guarded, vals, rd>>
  BY DEF Open, FirstBucket
<1>2. PICK f, k, S, l : f = items /\ k = key /\ S = rd.snap /\ l = LastLeaf  OBVIOUS
<1>3. Good(f, k) /\ Typed(f) /\ k \in [Rows -> ColumnKeys] /\ StoredOf(r)
  BY <1>2 DEF Inv, Good, Types
<1>4. l \in DOMAIN f /\ IsLast(f, l)
      /\ (items[l] = <<>> => In(f) = {})
      /\ (items[l] # <<>> => \A e \in In(f) : e = LastItem \/ (~e.open /\ e.top < LastItem.top))
  BY <1>2, <1>3, LastIs DEF Leaf
<1>5. k[r] \in ColumnKeys /\ k[r] \in Nat /\ r \notin S
  <2>1. k[r] \in ColumnKeys  BY <1>3
  <2>2. r \notin S  BY <1>1, <1>2, <1>3 DEF StoredOf
  <2> QED  BY <2>1, <2>2, KeysAre
<1>6. PICK d : d = FirstBucket(r, k[r])  OBVIOUS
<1>7. d \in Bkt /\ d.top = k[r] /\ d.rows = {r}
  <2>1. PICK x \in ColumnKeys : x = k[r]  BY <1>5
  <2>2. d = FirstBucket(r, x)  BY <1>6, <2>1
  <2> QED  BY <2>1, <2>2, BucketIs
<1>8. \A e \in In(f) : ~e.open /\ e.top < d.top
  <2> SUFFICES ASSUME NEW e \in In(f)  PROVE ~e.open /\ e.top < d.top
    OBVIOUS
  <2>1. items[l] # <<>>  BY <1>4
  <2>2. LastItem \in In(f)  BY <1>2, <1>3, <2>1, LastIs
  <2>3. ~LastItem.open  BY <1>1, <1>2, <2>1 DEF HasOpen
  <2>4. ~(LastItem.top >= key[r])  BY <1>1, <1>2, <2>1, <2>3 DEF Missed, IsMissed
  <2>5. LastItem.top \in Nat /\ e.top \in Nat  BY <1>3, <2>2, BktIs
  <2>6. LastItem.top < d.top  BY <1>2, <1>5, <1>7, <2>4, <2>5
  <2>7. CASE e = LastItem  BY <2>3, <2>6, <2>7
  <2>8. CASE ~e.open /\ e.top < LastItem.top  BY <1>5, <1>7, <2>5, <2>6, <2>8
  <2> QED  BY <1>4, <2>1, <2>7, <2>8
<1>9. MayOpen(f, k, d, S)
  <2>1. d.rows \cap S = {} /\ \A q \in d.rows : k[q] = d.top  BY <1>5, <1>7
  <2> QED  BY <1>7, <1>8, <2>1 DEF MayOpen
<1>10. PICK h : h = Opened(f, l, d)  OBVIOUS
<1>11. Good(h, k) /\ Turn(f, h, S, {}) /\ d \in In(h)
  BY <1>3, <1>4, <1>9, <1>10, OpenGood, OpenTurn
<1>12. PICK g : g = items'  OBVIOUS
<1>13. CutsTo(h, l, g)
  <2>1. PICK s : s = Append(f[l], d)  OBVIOUS
  <2>2. g \in Placed(l, s) /\ l \in Leaf  BY <1>1, <1>2, <1>4, <1>6, <1>12, <2>1 DEF Leaf
  <2>3. CutsTo(Fits(l, s), l, g)  BY <2>2, PlacedIs
  <2>4. h = Fits(l, s)  BY <1>2, <1>10, <2>1 DEF Opened, Fits
  <2> QED  BY <2>3, <2>4
<1>14. l \in DOMAIN h  BY <1>4, <1>11 DEF Turn
<1>15. Good(g, k) /\ Turn(f, g, S, {}) /\ \A e \in In(h) : e \in In(g)
  BY <1>11, <1>13, <1>14, CutsToKeeps
<1>16. Good(items', key) /\ Turn(items, items', rd.snap, {})  BY <1>2, <1>12, <1>15
<1>17. \E e \in In(items') : r \in e.rows  BY <1>7, <1>11, <1>12, <1>15
<1>18. "stored" \in {"lookup", "stored", "gone"}  OBVIOUS
<1> QED  BY <1>1, <1>16, <1>17, <1>18, GoesKeeps

\* A row that dies, or whose transaction commits.
LEMMA EndsKeeps ==
  ASSUME Inv, NEW r \in Rows, Dies(r) \/ Commit(r)  PROVE Inv'
<1>1. Types /\ GuardsOf(r) /\ StoredOf(r)  BY DEF Inv
<1>2. PICK p \in {"live", "gone"} :
        /\ Goes(r, p)
        /\ limit' = limit /\ key' = key /\ guarded' = guarded /\ vals' = vals
        /\ items' = items /\ rd' = rd
        /\ p = "live" => stage[r] = "stored"
        /\ stage[r] \in {"lookup", "create", "stored", "live"}
  <2>1. CASE Dies(r)  BY <2>1 DEF Dies, Inserting
  <2>2. CASE Commit(r)  BY <2>2 DEF Commit
  <2> QED  BY <2>1, <2>2
<1>3. p \in Stages  BY DEF Stages
<1>4. /\ stage' \in [Rows -> Stages] /\ leafAt' \in [Rows -> Nat]
      /\ stage'[r] = p /\ leafAt'[r] = Descent
      /\ \A q \in Rows : q # r => stage'[q] = stage[q] /\ leafAt'[q] = leafAt[q]
  BY <1>1, <1>2, <1>3, GoesIs
<1>5. Others(r)  BY <1>1, <1>2, <1>4 DEF Others, Types
<1>6. LooksOf(r)'  BY <1>4, LooksNew
<1>7. GuardsOf(r)'  BY <1>1, <1>2, <1>4 DEF GuardsOf
<1>8. IsIn(r)' <=> IsIn(r)  BY <1>2 DEF IsIn
<1>9. StoredOf(r)'  BY <1>1, <1>2, <1>4, <1>8 DEF StoredOf
<1> QED  BY <1>2, <1>5, <1>6, <1>7, <1>9, RowKeepsSame

-----------------------------------------------------------------------------
(* VACUUM                                                                  *)

\* A row VACUUM takes is none that is in use.
LEMMA DeadAre ==
  ASSUME NEW r \in Dead
  PROVE  r \in Rows /\ stage[r] = "gone" /\ r \notin rd.snap
BY DEF Dead

LEMMA VacuumKeeps ==
  ASSUME Inv, UNCHANGED <<rowVars, rd>>, Good(items', key), Turn(items, items', rd.snap, Dead),
         vals' \subseteq vals, vals \ vals' \subseteq Dead
  PROVE  Inv'
<1>1. Types /\ Good(items, key) /\ Walking
      /\ \A q \in Rows : LooksOf(q) /\ GuardsOf(q) /\ StoredOf(q)
  BY DEF Inv
<1>2. Typed(items) /\ Typed(items') /\ key \in [Rows -> ColumnKeys]
  BY <1>1 DEF Good, Types
<1>3. limit' = limit /\ key' = key /\ stage' = stage /\ leafAt' = leafAt
      /\ guarded' = guarded /\ rd' = rd
  BY DEF rowVars
<1>4. Types'  BY <1>1, <1>3 DEF Types, Phase
<1>5. Good(items, key)'  BY <1>3
<1>6. ASSUME NEW q \in Rows  PROVE LooksOf(q)' /\ GuardsOf(q)' /\ StoredOf(q)'
  <2>1. stage'[q] = stage[q] /\ leafAt'[q] = leafAt[q] /\ guarded'[q] = guarded[q]
    BY <1>3
  <2>2. LooksOf(q)'  BY <1>1, <1>3, <2>1, LooksKept
  <2>3. GuardsOf(q)'
    <3>1. stage[q] = "create" \/ stage'[q] # "create"  BY <2>1
    <3> QED  BY <1>1, <1>2, <1>3, <2>1, <3>1, GuardsKept
  <2>4. q \notin Dead /\ IsIn(q) => IsIn(q)'
    <3>1. q \notin Dead /\ q \in vals => q \in vals'  OBVIOUS
    <3> QED  BY <3>1, IsInKept DEF IsIn
  <2>5. q \in Dead => stage[q] = "gone" /\ q \notin rd.snap  BY DeadAre
  <2>6. StoredOf(q)'
    <3>1. q \notin Dead /\ q \in vals => q \in vals'  OBVIOUS
    <3> QED  BY <1>1, <1>3, <2>4, <2>5, <3>1 DEF StoredOf
  <2> QED  BY <2>2, <2>3, <2>6
<1>7. Walking'  BY <1>2, <1>3, WalkKept
<1> QED  BY <1>4, <1>5, <1>6, <1>7 DEF Inv

LEMMA VacuumValueKeeps ==
  ASSUME Inv, NEW k \in ColumnKeys, VacuumValue(k)  PROVE Inv'
<1>1. vals' = vals \ {r \in Dead : key[r] = k} /\ UNCHANGED <<rowVars, rd>> /\ items' = items
  BY DEF VacuumValue
<1>2. Good(items, key) /\ Typed(items)  BY DEF Inv, Good
<1>3. Good(items', key) /\ Turn(items, items', rd.snap, Dead)
  <2>1. Turn(items, items, rd.snap, Dead)  BY <1>2, TurnSame
  <2> QED  BY <1>1, <1>2, <2>1
<1>4. vals' \subseteq vals /\ vals \ vals' \subseteq Dead  BY <1>1
<1> QED  BY <1>1, <1>3, <1>4, VacuumKeeps

LEMMA VacuumSummaryKeeps ==
  ASSUME Inv, VacuumSummary  PROVE Inv'
<1>1. PICK l \in Leaf : \E j \in DOMAIN items[l] :
        /\ items' = [items EXCEPT ![l][j].rows = @ \ Dead]
        /\ UNCHANGED <<rowVars, vals, rd>>
  BY DEF VacuumSummary
<1>2. PICK i \in DOMAIN items[l] :
        /\ items' = [items EXCEPT ![l][i].rows = @ \ Dead]
        /\ UNCHANGED <<rowVars, vals, rd>>
  BY <1>1
<1>3. PICK f, k, S, D : f = items /\ k = key /\ S = rd.snap /\ D = Dead  OBVIOUS
<1>4. PICK e, R, d : e = f[l][i] /\ R = e.rows \ D /\ d = [e EXCEPT !.rows = R]  OBVIOUS
<1>5. Good(f, k) /\ Typed(f) /\ k \in [Rows -> ColumnKeys] /\ l \in DOMAIN f /\ i \in DOMAIN f[l]
  BY <1>3 DEF Inv, Good, Types, Leaf
<1>6. e \in Bkt  BY <1>4, <1>5, OnLeaf
<1>7. R \in SUBSET Rows  BY <1>4, <1>6 DEF Bkt
<1>8. d \in Bkt /\ d.top = e.top /\ d.open = e.open /\ d.rows = R  BY <1>4, <1>6, <1>7 DEF Bkt
<1>9. MayPut(f, k, l, i, d, S, D)
  <2>1. d.top = f[l][i].top \/ (f[l][i].open /\ d.top > f[l][i].top)  BY <1>4, <1>8
  <2>2. d.open => f[l][i].open  BY <1>4, <1>8
  <2>3. d.rows \cap S \subseteq f[l][i].rows  BY <1>4, <1>8
  <2>4. \A q \in f[l][i].rows : q \in D \/ q \in d.rows  BY <1>4, <1>8
  <2>5. \A q \in d.rows : q \in f[l][i].rows  BY <1>4, <1>8
  <2> QED  BY <1>5, <1>8, <2>1, <2>2, <2>3, <2>4, <2>5, MayPutIs
<1>10. PICK g : g = Put(f, l, i, d)  OBVIOUS
<1>11. Good(g, k) /\ Turn(f, g, S, D)  BY <1>5, <1>9, <1>10, PutGood, PutTurn
<1>12. items' = g
  <2>1. items' = [items EXCEPT ![l] = [items[l] EXCEPT ![i] = [items[l][i] EXCEPT !.rows =
                                                               items[l][i].rows \ Dead]]]
    BY <1>2
  <2> QED  BY <1>3, <1>4, <1>10, <2>1 DEF Put
<1>13. Good(items', key) /\ Turn(items, items', rd.snap, Dead)  BY <1>3, <1>11, <1>12
<1>14. UNCHANGED <<rowVars, rd>> /\ vals' \subseteq vals /\ vals \ vals' \subseteq Dead
  BY <1>2
<1> QED  BY <1>13, <1>14, VacuumKeeps

LEMMA DeleteSummaryKeeps ==
  ASSUME Inv, ~DropsTop, DeleteSummary  PROVE Inv'
<1>1. PICK l \in Leaf : \E j \in DOMAIN items[l] :
        /\ Deletable(items[l][j])
        /\ IsTop(l, j) => items[l][j].open \/ DropsTop
        /\ items' = [items EXCEPT ![l] = RemoveAt(@, j)]
        /\ UNCHANGED <<rowVars, vals, rd>>
  BY DEF DeleteSummary
<1>2. PICK i \in DOMAIN items[l] :
        /\ Deletable(items[l][i])
        /\ IsTop(l, i) => items[l][i].open \/ DropsTop
        /\ items' = [items EXCEPT ![l] = RemoveAt(@, i)]
        /\ UNCHANGED <<rowVars, vals, rd>>
  BY <1>1
<1>3. PICK f, k, S, D : f = items /\ k = key /\ S = rd.snap /\ D = Dead  OBVIOUS
<1>4. Good(f, k) /\ Typed(f) /\ l \in DOMAIN f /\ i \in DOMAIN f[l]
  BY <1>3 DEF Inv, Good, Leaf
<1>5. f[l][i].rows = {} /\ ~f[l][i].open  BY <1>2, <1>3 DEF Deletable
<1>6. ~IsTop(l, i)  BY <1>2, <1>3, <1>5
<1>7. \E m \in DOMAIN f : \E j \in DOMAIN f[m] : InFront(l, i, m, j)
  <2>1. i # Len(f[l]) \/ \E m \in Rights(l) : f[m] # <<>>  BY <1>3, <1>6 DEF IsTop
  <2>2. CASE i # Len(f[l])
    <3>1. i \in Nat /\ 1 <= i /\ i <= Len(f[l]) /\ Len(f[l]) \in Nat
          /\ DOMAIN f[l] = 1 .. Len(f[l])
      BY <1>4, OnLeaf
    <3>2. Len(f[l]) \in DOMAIN f[l] /\ i < Len(f[l])  BY <2>2, <3>1
    <3>3. InFront(l, i, l, Len(f[l]))  BY <3>2 DEF InFront
    <3> QED  BY <1>4, <3>2, <3>3
  <2>3. ASSUME NEW m \in Rights(l), f[m] # <<>>
        PROVE  \E j \in DOMAIN f[m] : m \in DOMAIN f /\ InFront(l, i, m, j)
    <3>1. m \in DOMAIN f /\ m > l  BY <1>3 DEF Rights, Leaf
    <3>2. Len(f[m]) \in Nat /\ DOMAIN f[m] = 1 .. Len(f[m]) /\ Len(f[m]) # 0
          /\ m \in Nat /\ l \in Nat
      BY <1>4, <2>3, <3>1, OnLeaf
    <3>3. 1 \in DOMAIN f[m] /\ l < m  BY <3>1, <3>2
    <3>4. InFront(l, i, m, 1)  BY <3>3 DEF InFront
    <3> QED  BY <3>1, <3>3, <3>4
  <2> QED  BY <2>1, <2>2, <2>3
<1>8. MayRemove(f, l, i)  BY <1>5, <1>7 DEF MayRemove
<1>9. PICK g : g = Removed(f, l, i)  OBVIOUS
<1>10. Good(g, k) /\ Turn(f, g, S, D)  BY <1>4, <1>8, <1>9, RemoveGood, RemoveTurn
<1>11. items' = g  BY <1>2, <1>3, <1>9 DEF Removed
<1>12. Good(items', key) /\ Turn(items, items', rd.snap, Dead)  BY <1>3, <1>10, <1>11
<1>13. UNCHANGED <<rowVars, rd>> /\ vals' \subseteq vals /\ vals \ vals' \subseteq Dead
  BY <1>2
<1> QED  BY <1>12, <1>13, VacuumKeeps

-----------------------------------------------------------------------------
(* Counting a range                                                        *)

LEMMA PartIs ==
  ASSUME NEW p \in Parts
  PROVE  /\ p.low \in Nat /\ p.low > 0 /\ p.land \in Nat /\ p.low <= p.land + 1
         /\ p.high \in Nat /\ p.high <= TopKey
         /\ p.land = 0 \/ p.land \in ColumnKeys
<1>1. /\ p.land \in {0} \cup ColumnKeys
      /\ p.low \in Nat \ {0} /\ p.low <= p.land + 1
      /\ p.high \in 0 .. TopKey
  BY PartAssumption
<1>2. p.land \in Nat  BY <1>1, KeysAre
<1> QED  BY <1>1, <1>2, KeysAre

\* What a step of a walk has to keep.
LEMMA WalksKeeps ==
  ASSUME Inv, UNCHANGED <<rowVars, vals, items>>, rd' \in WalkType,
         Phase("idle")' \/ rd'.part \in Parts,
         \A r \in rd'.snap : stage[r] \in {"live", "gone"} /\ IsIn(r),
         Walking'
  PROVE  Inv'
<1>1. Types /\ Good(items, key) /\ \A q \in Rows : LooksOf(q) /\ GuardsOf(q) /\ StoredOf(q)
  BY DEF Inv
<1>2. limit' = limit /\ key' = key /\ stage' = stage /\ leafAt' = leafAt
      /\ guarded' = guarded /\ vals' = vals /\ items' = items
  BY DEF rowVars
<1>3. Types'  BY <1>1, <1>2 DEF Types
<1>4. Good(items, key)'  BY <1>1, <1>2
<1>5. ASSUME NEW q \in Rows  PROVE LooksOf(q)' /\ GuardsOf(q)' /\ StoredOf(q)'
  <2>1. LooksOf(q)'  BY <1>1, <1>2 DEF LooksOf, Leaf
  <2>2. GuardsOf(q)'  BY <1>1, <1>2 DEF GuardsOf
  <2>3. IsIn(q)' <=> IsIn(q)  BY <1>2 DEF IsIn
  <2>4. StoredOf(q)'  BY <1>1, <1>2, <2>3 DEF StoredOf
  <2> QED  BY <2>1, <2>2, <2>4
<1> QED  BY <1>3, <1>4, <1>5 DEF Inv

\* The rows of a walk's snapshot.
LEMMA SnapIs ==
  ASSUME Inv
  PROVE  \A r \in rd.snap : r \in Rows /\ r \in vals /\ stage[r] \in {"live", "gone"}
                            /\ IsIn(r)
<1>1. Types /\ \A r \in Rows : StoredOf(r)  BY DEF Inv
<1>2. rd.snap \in SUBSET Rows  BY <1>1 DEF Types, WalkType
<1> QED  BY <1>1, <1>2 DEF StoredOf, IsIn

LEMMA BeginRangeKeeps ==
  ASSUME Inv, BeginRange  PROVE Inv'
<1>1. PICK S \in SUBSET Rows : S = {r \in Rows : stage[r] = "live"}  OBVIOUS
<1>2. PICK p \in Parts :
        Walks(IF p.land = 0
              THEN [[Idle EXCEPT !.part = p, !.snap = S] EXCEPT !.phase = "sums"]
              ELSE [[Idle EXCEPT !.part = p, !.snap = S] EXCEPT !.phase = "landing",
                                                               !.at = Descent])
  BY <1>1 DEF BeginRange
<1>3. UNCHANGED <<rowVars, vals, items>>  BY <1>2 DEF Walks
<1>4. key' = key /\ items' = items  BY <1>3 DEF rowVars
<1>5. Types /\ Good(items, key) /\ Typed(items)  BY DEF Inv, Good
<1>6. p.low \in Nat /\ p.low > 0 /\ p.low <= p.land + 1 /\ p.high \in Nat
      /\ (p.land = 0 \/ p.land \in ColumnKeys)
  BY PartIs
<1>7. Descent \in Nat  BY KeysAre
<1>8. PICK G \in [Rows -> Nat] : G = [r \in Rows |-> 0]  OBVIOUS
<1>9. PICK z : z = [Idle EXCEPT !.part = p, !.snap = S]  OBVIOUS
<1>10. z = [phase |-> "idle", part |-> p, snap |-> S, at |-> 0, clip |-> 0,
            prev |-> 0, pos |-> 0, got |-> G]
  BY <1>8, <1>9 DEF Idle, NoneCounted
<1>11. z \in WalkType /\ z.part = p /\ z.snap = S /\ z.prev = 0 /\ z.got = G /\ z.at = 0
  <2>1. "idle" \in Phases /\ p \in PartOrAny  BY DEF Phases, PartOrAny
  <2>2. z \in WalkType  BY <1>10, <2>1 DEF WalkType
  <2> QED  BY <1>10, <2>2
<1>12. \A r \in Rows : key'[r] \in Nat /\ key'[r] > 0
  <2>1. \A r \in Rows : key[r] \in ColumnKeys  BY <1>5 DEF Types
  <2> QED  BY <1>4, <2>1, KeysAre
<1>13. \A r \in S : stage[r] \in {"live", "gone"} /\ IsIn(r)
  BY <1>1 DEF Inv, StoredOf
<1>14. CASE p.land = 0
  <2>1. rd' = [z EXCEPT !.phase = "sums"]  BY <1>2, <1>9, <1>14 DEF Walks
  <2>0. "sums" \in Phases  BY DEF Phases
  <2>2. rd' \in WalkType /\ rd'.phase = "sums" /\ rd'.part = p /\ rd'.snap = S
        /\ rd'.prev = 0 /\ rd'.got = G /\ rd'.at = 0
    BY <1>11, <2>0, <2>1 DEF WalkType
  <2>3. CountedTo(rd.prev)'
    <3> SUFFICES ASSUME NEW r \in Rows
                 PROVE  rd'.got[r] = IF r \in rd'.snap /\ rd'.part.low <= key'[r]
                                                   /\ key'[r] <= rd'.prev THEN 1 ELSE 0
      BY DEF CountedTo
    <3>1. ~(key'[r] <= rd'.prev)  BY <1>12, <2>2
    <3>2. rd'.got[r] = 0  BY <1>8, <2>2
    <3> QED  BY <3>1, <3>2
  <2>4. AtEnd(rd.prev)'
    <3>1. \A e \in In(items') : e.top > 0 /\ e.rows \in SUBSET Rows  BY <1>4, <1>5, BktIs
    <3>2. rd'.prev = 0  BY <2>2
    <3> QED  BY <1>12, <3>1, <3>2 DEF AtEnd
  <2>5. rd'.at \in DOMAIN items'  BY <1>4, <1>5, <2>2 DEF Typed
  <2>6. \A e \in Before(items', rd'.at) : FALSE
    <3> SUFFICES ASSUME NEW e \in Before(items, 0)  PROVE FALSE
      BY <1>4, <2>2
    <3>1. PICK m \in DOMAIN items : m < 0 /\ \E j \in DOMAIN items[m] : e = items[m][j]
      BY BeforeIs
    <3>2. m \in Nat  BY <1>5, OnLeaf
    <3> QED  BY <3>1, <3>2
  <2>7. rd'.part.low <= rd'.prev + 1 /\ rd'.prev <= rd'.part.high  BY <1>6, <1>14, <2>2
  <2>8. AtSums'  BY <2>3, <2>4, <2>5, <2>6, <2>7 DEF AtSums, Leaf
  <2>9. Walking'  BY <2>2, <2>8 DEF Walking, Phase
  <2> QED  BY <1>3, <1>13, <2>2, <2>9, WalksKeeps
<1>15. CASE p.land # 0
  <2>1. rd' = [z EXCEPT !.phase = "landing", !.at = Descent]  BY <1>2, <1>9, <1>15 DEF Walks
  <2>0. "landing" \in Phases  BY DEF Phases
  <2>2. rd' \in WalkType /\ rd'.phase = "landing" /\ rd'.part = p /\ rd'.snap = S
        /\ rd'.prev = 0 /\ rd'.got = G /\ rd'.at = Descent
    BY <1>7, <1>11, <2>0, <2>1 DEF WalkType
  <2>3. CountedTo(0)'
    <3> SUFFICES ASSUME NEW r \in Rows
                 PROVE  rd'.got[r] = IF r \in rd'.snap /\ rd'.part.low <= key'[r]
                                                   /\ key'[r] <= 0 THEN 1 ELSE 0
      BY DEF CountedTo
    <3>1. ~(key'[r] <= 0)  BY <1>12
    <3>2. rd'.got[r] = 0  BY <1>8, <2>2
    <3> QED  BY <3>1, <3>2
  <2>4. AtLanding'  BY <1>15, <2>2, <2>3 DEF AtLanding
  <2>5. Walking'  BY <2>2, <2>4 DEF Walking, Phase
  <2> QED  BY <1>3, <1>13, <2>2, <2>5, WalksKeeps
<1> QED  BY <1>14, <1>15

\* The greatest of two numbers.
LEMMA MaxOfTwo ==
  ASSUME NEW a \in Nat, NEW b \in Nat
  PROVE  Max({a, b}) = IF a >= b THEN a ELSE b
<1>1. PICK n \in Nat : n = a + b  OBVIOUS
<1>2. {a, b} \in SUBSET (0 .. n) /\ {a, b} # {}  BY <1>1
<1> DEFINE T == {a, b}
<1>3. a \in T /\ b \in T /\ \A x \in T : x = a \/ x = b  OBVIOUS
<1>4. T \in SUBSET (0 .. n) /\ T # {}  BY <1>2
<1> HIDE DEF T
<1>5. Max(T) \in T /\ \A m \in T : m <= Max(T)  BY <1>4, MaxIs
<1>6. PICK c \in Nat : c = Max(T)  BY <1>3, <1>5
<1>7. (c = a \/ c = b) /\ a <= c /\ b <= c  BY <1>3, <1>5, <1>6
<1>8. c = IF a >= b THEN a ELSE b  BY <1>7
<1> QED  BY <1>6, <1>8 DEF T

\* The plain walk begins after the last key counted.
LEMMA ValuesKeeps ==
  ASSUME Inv, NEW x \in Nat, x = Max({rd.prev, rd.part.low - 1}),
         rd' = [rd EXCEPT !.phase = "upper", !.pos = x], UNCHANGED <<rowVars, vals, items>>,
         rd.part \in Parts, CountedTo(rd.prev),
         \/ rd.prev = 0
         \/ rd.part.low <= rd.prev + 1 /\ rd.prev <= rd.part.high
  PROVE  Inv'
<1>1. rd \in WalkType  BY DEF Inv, Types
<1>2. rd.prev \in Nat /\ rd.part.low \in Nat /\ rd.part.low > 0 /\ rd.part.high \in Nat
  BY <1>1, PartIs DEF WalkType
<1>3. rd' \in WalkType /\ rd'.phase = "upper" /\ rd'.pos = x /\ rd'.part = rd.part
      /\ rd'.snap = rd.snap /\ rd'.got = rd.got
  <2>1. "upper" \in Phases  BY DEF Phases
  <2> QED  BY <1>1, <2>1 DEF WalkType
<1>4. key' = key  BY DEF rowVars
<1>5. x = IF rd.prev >= rd.part.low - 1 THEN rd.prev ELSE rd.part.low - 1
  <2>1. PICK a, b : a = rd.prev /\ b = rd.part.low - 1  OBVIOUS
  <2>2. a \in Nat /\ b \in Nat  BY <1>2, <2>1
  <2>3. Max({a, b}) = IF a >= b THEN a ELSE b  BY <2>2, MaxOfTwo
  <2> QED  BY <2>1, <2>3
<1>6. x + 1 >= rd.part.low /\ (x <= rd.part.high \/ x + 1 = rd.part.low)
      /\ (x = rd.prev \/ (rd.prev = 0 /\ x + 1 = rd.part.low))
  <2>1. PICK a \in Nat, b \in Nat, h \in Nat :
          a = rd.prev /\ b = rd.part.low /\ h = rd.part.high
    BY <1>2
  <2>2. x = (IF a >= b - 1 THEN a ELSE b - 1) /\ b > 0  BY <1>2, <1>5, <2>1
  <2>3. a = 0 \/ (b <= a + 1 /\ a <= h)  BY <2>1
  <2>4. x + 1 >= b /\ (x = a \/ (a = 0 /\ x + 1 = b)) /\ (x <= h \/ x + 1 = b)
    <3>1. CASE a >= b - 1  BY <2>2, <2>3, <3>1
    <3>2. CASE ~(a >= b - 1)  BY <2>2, <2>3, <3>2
    <3> QED  BY <3>1, <3>2
  <2> QED  BY <2>1, <2>4
<1>7. CountedTo(rd.pos)'
  <2> SUFFICES ASSUME NEW r \in Rows
               PROVE  rd'.got[r] = IF r \in rd'.snap /\ rd'.part.low <= key'[r]
                                                   /\ key'[r] <= rd'.pos THEN 1 ELSE 0
    BY DEF CountedTo
  <2>1. rd.got[r] = IF r \in rd.snap /\ rd.part.low <= key[r] /\ key[r] <= rd.prev
                    THEN 1 ELSE 0
    BY DEF CountedTo
  <2>2. key[r] \in Nat /\ key[r] > 0
    <3>1. key[r] \in ColumnKeys  BY DEF Inv, Types
    <3> QED  BY <3>1, KeysAre
  <2>3. (rd.part.low <= key[r] /\ key[r] <= rd.prev) <=> (rd.part.low <= key[r] /\ key[r] <= x)
    BY <1>2, <1>6, <2>2
  <2>4. (r \in rd.snap /\ rd.part.low <= key[r] /\ key[r] <= rd.prev)
          <=> (r \in rd'.snap /\ rd'.part.low <= key'[r] /\ key'[r] <= rd'.pos)
    BY <1>3, <1>4, <2>3
  <2> QED  BY <1>3, <2>1, <2>4
<1>8. AtUpper'  BY <1>2, <1>3, <1>6, <1>7 DEF AtUpper
<1>9. Walking'  BY <1>3, <1>8 DEF Walking, Phase
<1>10. \A r \in rd'.snap : stage[r] \in {"live", "gone"} /\ IsIn(r)  BY <1>3, SnapIs
<1> QED  BY <1>3, <1>9, <1>10, WalksKeeps

LEMMA PlainWalk ==
  ASSUME Inv, Walks(Values), rd.part \in Parts, CountedTo(rd.prev),
         \/ rd.prev = 0
         \/ rd.part.low <= rd.prev + 1 /\ rd.prev <= rd.part.high
  PROVE  Inv'
<1>1. rd \in WalkType  BY DEF Inv, Types
<1>2. rd.prev \in Nat /\ rd.part.low \in Nat /\ rd.part.low > 0
  BY <1>1, PartIs DEF WalkType
<1>3. PICK a \in Nat, b \in Nat : a = rd.prev /\ b = rd.part.low - 1  BY <1>2
<1>4. PICK x : x = Max({rd.prev, rd.part.low - 1})  OBVIOUS
<1>5. x \in Nat
  <2>1. Max({a, b}) = IF a >= b THEN a ELSE b  BY MaxOfTwo
  <2> QED  BY <1>3, <1>4, <2>1
<1>6. rd' = [rd EXCEPT !.phase = "upper", !.pos = x] /\ UNCHANGED <<rowVars, vals, items>>
  BY <1>4 DEF Walks, Values
<1> QED  BY <1>4, <1>5, <1>6, ValuesKeeps

\* The fields of a walk, and the keys.
LEMMA WalkIs ==
  ASSUME Inv
  PROVE  /\ rd \in WalkType /\ rd.phase \in Phases /\ rd.part \in PartOrAny
         /\ rd.snap \in SUBSET Rows /\ rd.at \in Nat /\ rd.clip \in Nat /\ rd.prev \in Nat
         /\ rd.pos \in Nat /\ rd.got \in [Rows -> Nat]
         /\ ~Phase("idle") => rd.part \in Parts
<1>1. rd \in WalkType /\ (Phase("idle") \/ rd.part \in Parts)  BY DEF Inv, Types
<1> QED  BY <1>1 DEF WalkType

LEMMA RowKeyIs ==
  ASSUME Inv, NEW r \in Rows
  PROVE  key[r] \in Nat /\ key[r] > 0 /\ key[r] <= TopKey
<1>1. key[r] \in ColumnKeys  BY DEF Inv, Types
<1> QED  BY <1>1, KeysAre

\* A closed bucket's key is an end that a walk may count up to.
LEMMA EndIs ==
  ASSUME Good(items, key), NEW l \in Leaf, NEW i \in DOMAIN items[l], ~items[l][i].open
  PROVE  AtEnd(items[l][i].top)
<1>1. Typed(items) /\ Ascend(items, key)  BY DEF Good
<1>2. PICK k : k = items[l][i].top  OBVIOUS
<1>3. k \in Nat /\ l \in Nat /\ i \in Nat  BY <1>1, <1>2, OnLeaf DEF Leaf
<1>4. \E e \in In(items) : e.top >= k
  <2>1. items[l][i] \in In(items)  BY InIs DEF Leaf
  <2> QED  BY <1>2, <1>3, <2>1
<1>5. ASSUME NEW e \in In(items)
      PROVE  /\ e.open => e.top > k
             /\ e.top > k => \A r \in e.rows \cap rd.snap : key[r] > k
  <2>1. PICK m \in DOMAIN items : \E j \in DOMAIN items[m] : e = items[m][j]  BY InIs
  <2>2. PICK j \in DOMAIN items[m] : e = items[m][j]  BY <2>1
  <2>3. m \in Nat /\ j \in Nat /\ e.top \in Nat  BY <1>1, <2>2, OnLeaf
  <2>4. CASE InFront(l, i, m, j)
    <3>1. items[l][i].top < items[m][j].top /\ \A r \in items[m][j].rows : key[r] > items[l][i].top
      BY <1>1, <2>4 DEF Ascend, Leaf
    <3> QED  BY <1>2, <1>3, <2>2, <2>3, <3>1
  <2>5. CASE InFront(m, j, l, i)
    <3>1. ~items[m][j].open /\ items[m][j].top < items[l][i].top
      BY <1>1, <2>5 DEF Ascend, Leaf
    <3>2. ~(e.top > k)  BY <1>2, <1>3, <2>2, <2>3, <3>1
    <3> QED  BY <2>2, <3>1, <3>2
  <2>6. CASE l = m /\ i = j
    <3>1. ~(e.top > k) /\ ~e.open  BY <1>2, <1>3, <2>2, <2>6
    <3> QED  BY <3>1
  <2> QED  BY <1>3, <2>3, <2>4, <2>5, <2>6 DEF InFront
<1> QED  BY <1>2, <1>4, <1>5 DEF AtEnd

\* A walk that has come to where the bucket of the part's lower end may be.
LEMMA LandsKeeps ==
  ASSUME Inv, Lands  PROVE Inv'
<1>1. Types /\ Good(items, key) /\ Typed(items) /\ Phase("landing")  BY DEF Inv, Good, Lands
<1>2. AtLanding  BY <1>1 DEF Inv, Walking, Phase
<1>3. /\ rd \in WalkType /\ rd.part \in Parts /\ rd.snap \in SUBSET Rows /\ rd.prev = 0
      /\ rd.got \in [Rows -> Nat] /\ rd.phase = "landing" /\ CountedTo(0)
      /\ rd.at \in Leaf \cup {Descent}
  BY <1>1, <1>2, WalkIs DEF AtLanding, Phase
<1>4. /\ rd.part.low \in Nat /\ rd.part.low > 0 /\ rd.part.land \in ColumnKeys
      /\ rd.part.land \in Nat /\ rd.part.low <= rd.part.land + 1 /\ rd.part.high \in Nat
  BY <1>2, <1>3, PartIs DEF AtLanding
<1>5. PICK l \in Leaf : l = IF rd.at = Descent THEN Landing(rd.part.land) ELSE rd.at
  BY <1>1, <1>3, <1>4, LandingIs
<1>6. PICK i : i = FirstOn(l, rd.part.land)  OBVIOUS
<1>7. PICK use : use = (i # 0 /\ ~items[l][i].open /\ Inside(items[l][i]))  OBVIOUS
<1>8. \/ i = 0 /\ ~Rightmost(l) /\ Walks([rd EXCEPT !.at = RightLink(l)])
      \/ use /\ Walks([rd EXCEPT !.phase = "lower", !.clip = items[l][i].top,
                                !.pos = rd.part.low - 1])
      \/ ~use /\ Walks(Values)
  BY <1>5, <1>6, <1>7 DEF Lands
<1>9. key' = key /\ items' = items /\ UNCHANGED <<rowVars, vals, items>>
  BY <1>8 DEF Walks, rowVars
<1>10. CASE i = 0 /\ ~Rightmost(l) /\ Walks([rd EXCEPT !.at = RightLink(l)])
  <2>1. PICK x : x = RightLink(l)  OBVIOUS
  <2>2. x \in Leaf  BY <1>1, <1>10, <2>1, RightIs
  <2>3. x \in Nat  BY <1>1, <2>2, OnLeaf DEF Leaf
  <2>4. rd' = [rd EXCEPT !.at = x]  BY <1>10, <2>1 DEF Walks
  <2>5. /\ rd' \in WalkType /\ rd'.phase = "landing" /\ rd'.at = x /\ rd'.part = rd.part
        /\ rd'.snap = rd.snap /\ rd'.got = rd.got /\ rd'.prev = rd.prev
    BY <1>3, <2>3, <2>4 DEF WalkType
  <2>6. CountedTo(0)'  BY <1>3, <1>9, <2>5 DEF CountedTo
  <2>7. AtLanding'  BY <1>2, <1>9, <2>2, <2>5, <2>6 DEF AtLanding, Leaf
  <2>8. Walking'  BY <2>5, <2>7 DEF Walking, Phase
  <2>9. \A r \in rd'.snap : stage[r] \in {"live", "gone"} /\ IsIn(r)  BY <2>5, SnapIs
  <2> QED  BY <1>3, <1>9, <2>5, <2>8, <2>9, WalksKeeps
<1>11. CASE use /\ Walks([rd EXCEPT !.phase = "lower", !.clip = items[l][i].top,
                                   !.pos = rd.part.low - 1])
  <2>1. PICK x, y : x = items[l][i].top /\ y = rd.part.low - 1  OBVIOUS
  <2>2. i # 0 /\ ~items[l][i].open /\ Inside(items[l][i])  BY <1>7, <1>11
  <2>3. i \in DOMAIN items[l] /\ AtOrAbove(items[l][i], rd.part.land)
    BY <1>1, <1>6, <2>2, FirstIs
  <2>4. x \in ColumnKeys /\ x \in Nat  BY <1>1, <2>1, <2>3, OnLeaf DEF Leaf
  <2>5. x >= rd.part.land /\ x <= rd.part.high  BY <2>1, <2>2, <2>3 DEF AtOrAbove, Inside
  <2>6. y \in Nat /\ rd.part.low <= y + 1 /\ y <= x /\ y < rd.part.low
    BY <1>4, <2>1, <2>4, <2>5
  <2>7. rd' = [rd EXCEPT !.phase = "lower", !.clip = x, !.pos = y]
    BY <1>11, <2>1 DEF Walks
  <2>8. /\ rd' \in WalkType /\ rd'.phase = "lower" /\ rd'.clip = x /\ rd'.pos = y
        /\ rd'.part = rd.part /\ rd'.snap = rd.snap /\ rd'.got = rd.got /\ rd'.prev = rd.prev
    <3>1. "lower" \in Phases  BY DEF Phases
    <3> QED  BY <1>3, <2>4, <2>6, <2>7, <3>1 DEF WalkType
  <2>9. CountedTo(rd.pos)'
    <3> SUFFICES ASSUME NEW r \in Rows
                 PROVE  rd'.got[r] = IF r \in rd'.snap /\ rd'.part.low <= key'[r]
                                                   /\ key'[r] <= rd'.pos THEN 1 ELSE 0
      BY DEF CountedTo
    <3>1. key[r] \in Nat /\ key[r] > 0  BY RowKeyIs
    <3>2. ~(key[r] <= 0) /\ ~(rd.part.low <= key[r] /\ key[r] <= y)  BY <1>4, <2>6, <3>1
    <3>3. rd.got[r] = 0  BY <1>3, <3>2 DEF CountedTo
    <3> QED  BY <1>9, <2>8, <3>2, <3>3
  <2>10. AtEnd(x)  BY <1>1, <2>1, <2>2, <2>3, EndIs
  <2>11. AtEnd(rd.clip)'  BY <1>9, <2>8, <2>10 DEF AtEnd
  <2>12. AtLower'  BY <1>3, <2>4, <2>5, <2>6, <2>8, <2>9, <2>11 DEF AtLower
  <2>13. Walking'  BY <2>8, <2>12 DEF Walking, Phase
  <2>14. \A r \in rd'.snap : stage[r] \in {"live", "gone"} /\ IsIn(r)  BY <2>8, SnapIs
  <2> QED  BY <1>3, <1>9, <2>8, <2>13, <2>14, WalksKeeps
<1>12. CASE Walks(Values)
  <2>1. CountedTo(rd.prev)  BY <1>3
  <2> QED  BY <1>3, <1>12, <2>1, PlainWalk
<1> QED  BY <1>8, <1>10, <1>11, <1>12

\* The next key with an entry.
LEMMA NextKeyIs ==
  ASSUME Inv, rd.pos <= TopKey
  PROVE  /\ NextKey \in Nat /\ NextKey > rd.pos /\ NextKey <= Descent
         /\ \A r \in vals : key[r] > rd.pos => NextKey <= key[r]
<1>1. vals \in SUBSET Rows /\ rd.pos \in Nat /\ TopKey \in Nat
  BY WalkIs, KeysAre DEF Inv, Types
<1>2. PICK d \in Nat : d = TopKey + 1 /\ d = Descent  BY <1>1 DEF Descent
<1> DEFINE K == {key[r] : r \in {x \in vals : key[x] > rd.pos}}
<1>3. \A x \in K : x \in Nat /\ x > rd.pos  BY <1>1, RowKeyIs
<1>4. \A r \in vals : key[r] > rd.pos => key[r] \in K  OBVIOUS
<1>5. NextKey = Min(K \cup {d})  BY <1>2 DEF NextKey
<1> HIDE DEF K
<1>6. PICK U : U = K \cup {d}  OBVIOUS
<1>7. U \in SUBSET Nat /\ U # {}  BY <1>3, <1>6
<1>8. Min(U) \in U /\ \A m \in U : Min(U) <= m  BY <1>7, MinIs
<1>9. NextKey \in U /\ \A m \in U : NextKey <= m  BY <1>5, <1>6, <1>8
<1>10. NextKey \in Nat /\ NextKey <= Descent  BY <1>2, <1>6, <1>7, <1>9
<1>11. NextKey > rd.pos
  <2>1. CASE NextKey \in K  BY <1>3, <2>1
  <2>2. CASE NextKey = d  BY <1>1, <1>2, <2>2
  <2> QED  BY <1>6, <1>9, <2>1, <2>2
<1> QED  BY <1>4, <1>6, <1>9, <1>10, <1>11

\* Counting a key's rows.
LEMMA TakesKey ==
  ASSUME Inv, rd.part \in Parts, CountedTo(rd.pos), rd.part.low <= rd.pos + 1,
         rd.pos <= TopKey, NextKey <= TopKey, rd' = TakeKey(NextKey),
         UNCHANGED <<rowVars, vals, items>>
  PROVE  /\ rd' \in WalkType /\ rd'.pos = NextKey /\ CountedTo(rd.pos)'
         /\ rd'.part = rd.part /\ rd'.snap = rd.snap /\ rd'.phase = rd.phase
         /\ rd'.prev = rd.prev /\ rd'.clip = rd.clip
<1>1. PICK k : k = NextKey  OBVIOUS
<1>2. k \in Nat /\ k > rd.pos /\ \A r \in vals : key[r] > rd.pos => k <= key[r]
  BY <1>1, NextKeyIs
<1>3. rd \in WalkType /\ rd.got \in [Rows -> Nat] /\ rd.pos \in Nat /\ rd.snap \in SUBSET Rows
  BY WalkIs
<1>4. rd.part.low \in Nat  BY PartIs
<1>5. PICK G : G = [r \in Rows |-> rd.got[r] + IF OfKey(r, k) THEN 1 ELSE 0]  OBVIOUS
<1>6. G \in [Rows -> Nat] /\ \A r \in Rows : G[r] = rd.got[r] + IF OfKey(r, k) THEN 1 ELSE 0
  <2>1. \A r \in Rows : rd.got[r] + (IF OfKey(r, k) THEN 1 ELSE 0) \in Nat  BY <1>3
  <2> QED  BY <1>5, <2>1
<1>7. rd' = [rd EXCEPT !.pos = k, !.got = G]  BY <1>1, <1>5 DEF TakeKey
<1>8. /\ rd' \in WalkType /\ rd'.pos = k /\ rd'.got = G /\ rd'.part = rd.part
      /\ rd'.snap = rd.snap /\ rd'.phase = rd.phase /\ rd'.prev = rd.prev
      /\ rd'.clip = rd.clip
  BY <1>2, <1>3, <1>6, <1>7 DEF WalkType
<1>9. key' = key  BY DEF rowVars
<1>10. CountedTo(rd.pos)'
  <2> SUFFICES ASSUME NEW r \in Rows
               PROVE  rd'.got[r] = IF r \in rd'.snap /\ rd'.part.low <= key'[r]
                                                 /\ key'[r] <= rd'.pos THEN 1 ELSE 0
    BY DEF CountedTo
  <2>1. rd.got[r] = IF r \in rd.snap /\ rd.part.low <= key[r] /\ key[r] <= rd.pos
                    THEN 1 ELSE 0
    BY DEF CountedTo
  <2>2. key[r] \in Nat  BY RowKeyIs
  <2>3. G[r] = IF r \in rd.snap /\ rd.part.low <= key[r] /\ key[r] <= k THEN 1 ELSE 0
    <3>1. CASE r \in rd.snap /\ key[r] = k
      <4>1. OfKey(r, k)  BY <3>1, SnapIs DEF OfKey
      <4>2. rd.got[r] = 0  BY <1>2, <1>3, <2>1, <3>1
      <4>3. rd.part.low <= key[r] /\ key[r] <= k  BY <1>2, <1>3, <1>4, <3>1
      <4> QED  BY <1>6, <3>1, <4>1, <4>2, <4>3
    <3>2. CASE r \in rd.snap /\ key[r] # k
      <4>1. ~OfKey(r, k)  BY <3>2 DEF OfKey
      <4>2. key[r] > rd.pos => key[r] > k  BY <1>2, <2>2, <3>2, SnapIs
      <4>3. key[r] <= rd.pos <=> key[r] <= k  BY <1>2, <1>3, <2>2, <4>2
      <4>4. G[r] = rd.got[r]  BY <1>3, <1>6, <4>1
      <4> QED  BY <2>1, <4>3, <4>4
    <3>3. CASE r \notin rd.snap
      <4>1. ~OfKey(r, k)  BY <3>3 DEF OfKey
      <4>2. G[r] = rd.got[r]  BY <1>3, <1>6, <4>1
      <4> QED  BY <2>1, <3>3, <4>2
    <3> QED  BY <3>1, <3>2, <3>3
  <2> QED  BY <1>8, <1>9, <2>3
<1> QED  BY <1>1, <1>8, <1>10

\* The end of a walk.
LEMMA DoneKeeps ==
  ASSUME Inv, rd' \in WalkType, rd'.phase = "done", rd'.part = rd.part, rd'.snap = rd.snap,
         rd.part \in Parts, UNCHANGED <<rowVars, vals, items>>, NEW x \in Nat, CountedTo(x)',
         \A r \in rd.snap : rd.part.low <= key[r] => (key[r] <= x <=> key[r] <= rd.part.high)
  PROVE  Inv'
<1>1. key' = key  BY DEF rowVars
<1>2. \A r \in Rows : rd'.got[r] = IF r \in rd.snap /\ key[r] >= rd.part.low
                                                  /\ key[r] <= rd.part.high THEN 1 ELSE 0
  <2> TAKE r \in Rows
  <2>1. rd'.got[r] = IF r \in rd.snap /\ rd.part.low <= key[r] /\ key[r] <= x THEN 1 ELSE 0
    BY <1>1 DEF CountedTo
  <2>2. key[r] \in Nat /\ rd.part.low \in Nat  BY RowKeyIs, PartIs
  <2>3. key[r] >= rd.part.low <=> rd.part.low <= key[r]  BY <2>2
  <2> QED  BY <2>1, <2>3
<1>3. rd'.got \in [Rows -> Nat]  BY DEF WalkType
<1>4. RangeExact'  BY <1>1, <1>2, <1>3 DEF RangeExact
<1>5. Walking'  BY <1>4 DEF Walking, Phase
<1>6. \A r \in rd'.snap : stage[r] \in {"live", "gone"} /\ IsIn(r)  BY SnapIs
<1> QED  BY <1>5, <1>6, WalksKeeps

LEMMA EndedIs ==
  ASSUME Inv, rd' = Ended
  PROVE  /\ rd' \in WalkType /\ rd'.phase = "done" /\ rd'.part = rd.part
         /\ rd'.snap = rd.snap /\ rd'.got = rd.got
<1>1. rd \in WalkType  BY WalkIs
<1>2. "done" \in Phases  BY DEF Phases
<1> QED  BY <1>1, <1>2 DEF WalkType, Ended

LEMMA LowerKeeps ==
  ASSUME Inv, Lower  PROVE Inv'
<1>1. Good(items, key) /\ Typed(items) /\ rd.phase = "lower" /\ Phase("lower")
  BY DEF Inv, Good, Lower, Phase
<1>2. AtLower  BY <1>1 DEF Inv, Walking, Phase
<1>3. /\ rd.part.low <= rd.pos + 1 /\ rd.pos <= rd.clip /\ rd.clip <= rd.part.high
      /\ rd.clip \in ColumnKeys /\ rd.prev = 0 /\ AtEnd(rd.clip) /\ CountedTo(rd.pos)
  BY <1>2 DEF AtLower
<1>4. rd.part \in Parts /\ rd.pos \in Nat /\ rd.clip \in Nat /\ rd \in WalkType
  BY <1>1, WalkIs DEF Phase
<1>5. rd.part.low \in Nat /\ rd.part.high \in Nat /\ rd.part.high <= TopKey  BY <1>4, PartIs
<1>6. rd.pos <= TopKey /\ rd.clip <= TopKey  BY <1>3, <1>4, <1>5, KeysAre
<1>7. PICK k : k = NextKey  OBVIOUS
<1>8. k \in Nat /\ k > rd.pos /\ \A r \in vals : key[r] > rd.pos => k <= key[r]
  BY <1>6, <1>7, NextKeyIs
<1>9. UNCHANGED <<rowVars, vals, items>> /\ key' = key /\ items' = items
  BY DEF Lower, Walks, rowVars
<1>10. \A r \in rd'.snap : rd'.snap = rd.snap => stage[r] \in {"live", "gone"} /\ IsIn(r)
  BY SnapIs
<1>11. CASE k > TopKey /\ Walks(Ended)
  <2>1. rd' = Ended  BY <1>11 DEF Walks
  <2>2. PICK x \in Nat : x = rd.pos  BY <1>4
  <2>3. CountedTo(x)'  BY <1>3, <1>9, <2>1, <2>2, EndedIs DEF CountedTo
  <2>4. ASSUME NEW r \in rd.snap, rd.part.low <= key[r]
        PROVE  key[r] <= x <=> key[r] <= rd.part.high
    <3>1. key[r] \in Nat /\ key[r] <= TopKey  BY SnapIs, RowKeyIs
    <3>2. key[r] > rd.pos => k <= key[r]  BY <1>8, SnapIs
    <3>3. key[r] <= rd.pos  BY <1>4, <1>8, <1>11, <3>1, <3>2, KeysAre
    <3> QED  BY <1>3, <1>4, <1>5, <2>2, <3>1, <3>3
  <2> QED  BY <1>4, <1>9, <2>1, <2>3, <2>4, EndedIs, DoneKeeps
<1>12. CASE k <= TopKey /\ k <= rd.clip /\ Walks(TakeKey(k))
  <2>1. rd' = TakeKey(NextKey) /\ NextKey <= TopKey  BY <1>7, <1>12 DEF Walks
  <2>2. /\ rd' \in WalkType /\ rd'.pos = k /\ CountedTo(rd.pos)'
        /\ rd'.part = rd.part /\ rd'.snap = rd.snap /\ rd'.phase = rd.phase
        /\ rd'.prev = rd.prev /\ rd'.clip = rd.clip
    BY <1>3, <1>4, <1>6, <1>7, <1>9, <2>1, TakesKey
  <2>3. AtEnd(rd.clip)'  BY <1>3, <1>9, <2>2 DEF AtEnd
  <2>4. rd.part.low <= k + 1  BY <1>3, <1>4, <1>5, <1>8
  <2>5. AtLower'  BY <1>3, <1>12, <2>2, <2>3, <2>4 DEF AtLower
  <2>6. Walking'  BY <1>1, <2>2, <2>5 DEF Walking, Phase
  <2> QED  BY <1>4, <1>9, <1>10, <2>2, <2>6, WalksKeeps
<1>13. CASE k <= TopKey /\ k > rd.clip /\ Walks(SumsAfter(rd.clip))
  <2>1. PICK l, c : l = Landing(rd.clip) /\ c = rd.clip  OBVIOUS
  <2>2. l \in Leaf /\ \A e \in Before(items, l) : ~e.open /\ e.top < c
    BY <1>1, <1>3, <2>1, LandingIs
  <2>3. l \in Nat /\ c \in Nat  BY <1>1, <1>4, <2>1, <2>2, OnLeaf DEF Leaf
  <2>4. rd' = [rd EXCEPT !.phase = "sums", !.prev = c, !.at = l]
    BY <1>13, <2>1 DEF Walks, SumsAfter
  <2>5. /\ rd' \in WalkType /\ rd'.phase = "sums" /\ rd'.prev = c /\ rd'.at = l
        /\ rd'.part = rd.part /\ rd'.snap = rd.snap /\ rd'.got = rd.got
    <3>1. "sums" \in Phases  BY DEF Phases
    <3> QED  BY <1>4, <2>3, <2>4, <3>1 DEF WalkType
  <2>6. AtEnd(rd.prev)'  BY <1>3, <1>9, <2>1, <2>5 DEF AtEnd
  <2>7. \A e \in Before(items', rd'.at) : ~e.open /\ e.top <= rd'.prev
    <3> SUFFICES ASSUME NEW e \in Before(items, l)  PROVE ~e.open /\ e.top <= c
      BY <1>9, <2>5
    <3>1. PICK m \in DOMAIN items : m < l /\ \E j \in DOMAIN items[m] : e = items[m][j]
      BY BeforeIs
    <3>2. e.top \in Nat  BY <1>1, <3>1, OnLeaf
    <3> QED  BY <2>2, <2>3, <3>2
  <2>8. rd.part.low <= c + 1 /\ c <= rd.part.high  BY <1>3, <1>4, <1>5, <2>1
  <2>9. CountedTo(rd.prev)'
    <3> SUFFICES ASSUME NEW r \in Rows
                 PROVE  rd'.got[r] = IF r \in rd'.snap /\ rd'.part.low <= key'[r]
                                                   /\ key'[r] <= rd'.prev THEN 1 ELSE 0
      BY DEF CountedTo
    <3>1. rd.got[r] = IF r \in rd.snap /\ rd.part.low <= key[r] /\ key[r] <= rd.pos
                      THEN 1 ELSE 0
      BY <1>3 DEF CountedTo
    <3>2. key[r] \in Nat  BY RowKeyIs
    <3>3. r \in rd.snap => (key[r] <= rd.pos <=> key[r] <= c)
      <4> SUFFICES ASSUME r \in rd.snap  PROVE key[r] <= rd.pos <=> key[r] <= c
        OBVIOUS
      <4>1. key[r] > rd.pos => k <= key[r]  BY <1>8, SnapIs
      <4> QED  BY <1>3, <1>4, <1>8, <1>13, <2>1, <3>2, <4>1
    <3> QED  BY <1>9, <2>5, <3>1, <3>3
  <2>10. AtSums'  BY <1>9, <2>2, <2>5, <2>6, <2>7, <2>8, <2>9 DEF AtSums, Leaf
  <2>11. Walking'  BY <2>5, <2>10 DEF Walking, Phase
  <2> QED  BY <1>4, <1>9, <1>10, <2>5, <2>11, WalksKeeps
<1> QED  BY <1>7, <1>11, <1>12, <1>13 DEF Lower

LEMMA UpperKeeps ==
  ASSUME Inv, Upper  PROVE Inv'
<1>1. rd.phase = "upper" /\ Phase("upper")  BY DEF Upper, Phase
<1>2. AtUpper  BY <1>1 DEF Inv, Walking, Phase
<1>3. rd.part \in Parts /\ rd.pos \in Nat /\ rd \in WalkType
  BY <1>1, WalkIs DEF Phase
<1>4. /\ rd.part.low \in Nat /\ rd.part.high \in Nat /\ rd.part.high <= TopKey
      /\ rd.part.low <= rd.part.land + 1 /\ rd.part.land \in Nat /\ rd.part.land <= TopKey
      /\ TopKey \in Nat /\ rd.part.low > 0
  BY <1>3, PartIs, KeysAre
<1>5. /\ rd.part.low <= rd.pos + 1 /\ CountedTo(rd.pos)
      /\ rd.pos <= rd.part.high \/ rd.pos + 1 = rd.part.low
  BY <1>2 DEF AtUpper
<1>6. rd.pos <= TopKey  BY <1>3, <1>4, <1>5
<1>7. PICK k : k = NextKey  OBVIOUS
<1>8. k \in Nat /\ k > rd.pos /\ \A r \in vals : key[r] > rd.pos => k <= key[r]
  BY <1>6, <1>7, NextKeyIs
<1>9. UNCHANGED <<rowVars, vals, items>> /\ key' = key /\ items' = items
  BY DEF Upper, Walks, rowVars
<1>10. CASE k > rd.part.high
  <2>1. rd' = Ended  BY <1>7, <1>10 DEF Walks, Upper
  <2>2. PICK x \in Nat : x = rd.pos  BY <1>3
  <2>3. CountedTo(x)'  BY <1>5, <1>9, <2>1, <2>2, EndedIs DEF CountedTo
  <2>4. ASSUME NEW r \in rd.snap, rd.part.low <= key[r]
        PROVE  key[r] <= x <=> key[r] <= rd.part.high
    <3>1. key[r] \in Nat  BY SnapIs, RowKeyIs
    <3>2. key[r] > rd.pos => k <= key[r]  BY <1>8, SnapIs
    <3> QED  BY <1>3, <1>4, <1>5, <1>8, <1>10, <2>2, <2>4, <3>1, <3>2
  <2> QED  BY <1>3, <1>9, <2>1, <2>3, <2>4, EndedIs, DoneKeeps
<1>11. CASE ~(k > rd.part.high)
  <2>1. rd' = TakeKey(NextKey) /\ NextKey <= TopKey
    <3>1. k <= TopKey  BY <1>4, <1>8, <1>11, KeysAre
    <3> QED  BY <1>7, <1>11, <3>1 DEF Walks, Upper
  <2>2. /\ rd' \in WalkType /\ rd'.pos = k /\ CountedTo(rd.pos)'
        /\ rd'.part = rd.part /\ rd'.snap = rd.snap /\ rd'.phase = rd.phase
    BY <1>3, <1>5, <1>6, <1>7, <1>9, <2>1, TakesKey
  <2>3. rd.part.low <= k + 1 /\ k <= rd.part.high  BY <1>3, <1>4, <1>5, <1>8, <1>11
  <2>4. AtUpper'  BY <2>2, <2>3 DEF AtUpper
  <2>5. Walking'  BY <1>1, <2>2, <2>4 DEF Walking, Phase
  <2>6. \A r \in rd'.snap : stage[r] \in {"live", "gone"} /\ IsIn(r)  BY <2>2, SnapIs
  <2> QED  BY <1>3, <1>9, <2>2, <2>5, <2>6, WalksKeeps
<1> QED  BY <1>10, <1>11

LEMMA SetupKeeps ==
  ASSUME Inv, Setup  PROVE Inv'
<1>1. Phase("setup") /\ Walks(Values)  BY DEF Setup
<1>2. AtSetup /\ rd.part \in Parts  BY <1>1, WalkIs DEF Inv, Walking, Phase
<1> QED  BY <1>1, <1>2, PlainWalk DEF AtSetup

LEMMA IdleIs ==
  Idle \in WalkType /\ Idle.phase = "idle" /\ Idle.snap = {}
<1>1. PICK G \in [Rows -> Nat] : G = [r \in Rows |-> 0]  OBVIOUS
<1>2. "idle" \in Phases /\ AnyPart \in PartOrAny  BY DEF Phases, PartOrAny
<1>3. Idle = [phase |-> "idle", part |-> AnyPart, snap |-> {}, at |-> 0, clip |-> 0,
              prev |-> 0, pos |-> 0, got |-> G]
  BY <1>1 DEF Idle, NoneCounted
<1>4. Idle \in WalkType  BY <1>2, <1>3 DEF WalkType
<1> QED  BY <1>3, <1>4

LEMMA ReturnKeeps ==
  ASSUME Inv, Return  PROVE Inv'
<1>1. rd' = Idle /\ UNCHANGED <<rowVars, vals, items>>  BY DEF Return, Walks
<1>2. rd' \in WalkType /\ rd'.phase = "idle" /\ rd'.snap = {}  BY <1>1, IdleIs
<1>3. Walking' /\ Phase("idle")'  BY <1>2 DEF Walking, Phase
<1> QED  BY <1>1, <1>2, <1>3, WalksKeeps

\* A row is in one bucket.
LEMMA OnlyIn ==
  ASSUME NEW f, NEW k, Good(f, k), k \in [Rows -> ColumnKeys], NEW l \in DOMAIN f,
         NEW i \in DOMAIN f[l], NEW m \in DOMAIN f, NEW j \in DOMAIN f[m],
         NEW r \in f[l][i].rows, r \in f[m][j].rows
  PROVE  l = m /\ i = j
<1>1. Typed(f) /\ Ascend(f, k) /\ InPlace(f, k)  BY DEF Good
<1>2. k[r] <= f[l][i].top /\ k[r] <= f[m][j].top  BY <1>1 DEF InPlace
<1>3. /\ f[l][i].top \in Nat /\ f[m][j].top \in Nat /\ r \in Rows
      /\ l \in Nat /\ m \in Nat /\ i \in Nat /\ j \in Nat
  BY <1>1, OnLeaf
<1>4. k[r] \in Nat  BY <1>3, KeysAre
<1>5. ~InFront(l, i, m, j)
  <2>1. InFront(l, i, m, j) => k[r] > f[l][i].top  BY <1>1 DEF Ascend
  <2> QED  BY <1>2, <1>3, <1>4, <2>1
<1>6. ~InFront(m, j, l, i)
  <2>1. InFront(m, j, l, i) => k[r] > f[m][j].top  BY <1>1 DEF Ascend
  <2> QED  BY <1>2, <1>3, <1>4, <2>1
<1> QED  BY <1>3, <1>5, <1>6 DEF InFront

\* What one read of leaf l takes, and the last key it comes to.
Upto(l) == IF Taken(l) = {} THEN rd.prev ELSE items[l][Max(Taken(l))].top
LEMMA TakenIs ==
  ASSUME Inv, rd.part \in Parts, NEW l \in Leaf, rd.prev <= rd.part.high, AtEnd(rd.prev)
  PROVE  /\ Upto(l) \in Nat /\ rd.prev <= Upto(l) /\ Upto(l) <= rd.part.high
         /\ Taken(l) \subseteq NotTaken(l) /\ NotTaken(l) \subseteq DOMAIN items[l]
         /\ \A i \in Taken(l) : items[l][i].top <= Upto(l)
         /\ \A i \in NotTaken(l) : items[l][i].top > rd.prev
         /\ \A i \in DOMAIN items[l] :
              i \notin NotTaken(l) => ~items[l][i].open /\ items[l][i].top <= rd.prev
         /\ Taken(l) = {} => Upto(l) = rd.prev
         /\ Taken(l) # {} => \E i \in Taken(l) :
              items[l][i].top = Upto(l) /\ \A j \in NotTaken(l) : j <= i => j \in Taken(l)
<1>1. Typed(items) /\ Good(items, key)  BY DEF Inv, Good
<1>2. /\ l \in Nat /\ Len(items[l]) \in Nat /\ DOMAIN items[l] = 1 .. Len(items[l])
      /\ \A i \in DOMAIN items[l] : items[l][i].top \in Nat /\ items[l][i].open \in BOOLEAN
  BY <1>1, OnLeaf DEF Leaf
<1>3. rd.prev \in Nat /\ rd.part.high \in Nat  BY WalkIs, PartIs
<1>4. NotTaken(l) \subseteq DOMAIN items[l] /\ Taken(l) \subseteq NotTaken(l)
  BY DEF NotTaken, Taken
<1>5. \A i \in NotTaken(l) : items[l][i].top > rd.prev
  <2> TAKE i \in NotTaken(l)
  <2>1. i \in DOMAIN items[l] /\ (items[l][i].open \/ items[l][i].top >= rd.prev + 1)
    BY DEF NotTaken, AtOrAbove
  <2>2. items[l][i] \in In(items)  BY <2>1, InIs DEF Leaf
  <2>3. items[l][i].open => items[l][i].top > rd.prev  BY <2>2 DEF AtEnd
  <2> QED  BY <1>2, <1>3, <2>1, <2>3
<1>6. ASSUME NEW i \in DOMAIN items[l], i \notin NotTaken(l)
      PROVE  ~items[l][i].open /\ items[l][i].top <= rd.prev
  <2>1. ~items[l][i].open /\ ~(items[l][i].top >= rd.prev + 1)
    BY <1>6 DEF NotTaken, AtOrAbove
  <2> QED  BY <1>2, <1>3, <2>1
<1>7. CASE Taken(l) = {}
  <2>1. Upto(l) = rd.prev  BY <1>7 DEF Upto
  <2> QED  BY <1>3, <1>4, <1>5, <1>6, <1>7, <2>1
<1>8. CASE Taken(l) # {}
  <2>1. PICK T : T = Taken(l)  OBVIOUS
  <2>2. PICK x \in Nat : x = Len(items[l])  BY <1>2
  <2>3. T \in SUBSET (0 .. x) /\ T # {}  BY <1>2, <1>4, <1>8, <2>1, <2>2
  <2>4. PICK y : y = Max(T)  OBVIOUS
  <2>5. y \in T /\ \A j \in T : j <= y  BY <2>3, <2>4, MaxIs
  <2>6. Upto(l) = items[l][y].top  BY <1>8, <2>1, <2>4 DEF Upto
  <2>7. y \in DOMAIN items[l] /\ y \in NotTaken(l) /\ y \in Nat
    BY <1>2, <1>4, <2>1, <2>5
  <2>8. \A j \in NotTaken(l) : j <= y => Inside(items[l][j])  BY <2>1, <2>5 DEF Taken
  <2>9. items[l][y].top <= rd.part.high  BY <2>7, <2>8 DEF Inside
  <2>10. ASSUME NEW j \in NotTaken(l), j <= y  PROVE j \in T
    <3>1. ASSUME NEW h \in NotTaken(l), h <= j  PROVE Inside(items[l][h])
      <4>1. h \in Nat /\ j \in Nat /\ y \in Nat  BY <1>2, <1>4, <2>7
      <4>2. h <= y  BY <2>10, <3>1, <4>1
      <4> QED  BY <2>8, <4>2
    <3> QED  BY <2>1, <3>1 DEF Taken
  <2>11. ASSUME NEW i \in T  PROVE items[l][i].top <= items[l][y].top
    <3>1. i \in DOMAIN items[l] /\ i <= y /\ i \in Nat  BY <1>2, <1>4, <2>1, <2>5
    <3>2. CASE i = y  BY <1>2, <3>1, <3>2
    <3>3. CASE i < y
      <4>1. InFront(l, i, l, y)  BY <3>3 DEF InFront
      <4>2. items[l][i].top < items[l][y].top
        BY <1>1, <2>7, <3>1, <4>1 DEF Good, Ascend, Leaf
      <4> QED  BY <1>2, <2>7, <3>1, <4>2
    <3> QED  BY <2>7, <3>1, <3>2, <3>3
  <2>12. Upto(l) \in Nat /\ Upto(l) > rd.prev  BY <1>2, <1>5, <2>6, <2>7
  <2>13. rd.prev <= Upto(l)  BY <1>3, <2>12
  <2> QED  BY <1>4, <1>5, <1>6, <1>8, <2>1, <2>5, <2>6, <2>9, <2>10, <2>11, <2>12, <2>13
<1> QED  BY <1>7, <1>8

\* The rows the walk counts on leaf l.
LEMMA CountsLeaf ==
  ASSUME Inv, rd.phase = "sums", AtSums, rd.part \in Parts, NEW l \in Leaf, l = rd.at,
         NEW G, G = Counted(l, Taken(l))
  PROVE  /\ G \in [Rows -> Nat]
         /\ \A r \in Rows : G[r] = IF r \in rd.snap /\ rd.part.low <= key[r]
                                      /\ key[r] <= Upto(l) THEN 1 ELSE 0
<1>1. Typed(items) /\ Good(items, key) /\ Ascend(items, key) /\ InPlace(items, key)
      /\ key \in [Rows -> ColumnKeys]
  BY DEF Inv, Good, Types
<1>2. /\ rd.part.low <= rd.prev + 1 /\ rd.prev <= rd.part.high /\ AtEnd(rd.prev)
      /\ (\A e \in Before(items, l) : ~e.open /\ e.top <= rd.prev)
      /\ CountedTo(rd.prev)
  BY DEF AtSums
<1>3. PICK n : n = Upto(l)  OBVIOUS
<1>4. PICK T : T = Taken(l)  OBVIOUS
<1>5. /\ n \in Nat /\ rd.prev <= n /\ n <= rd.part.high
      /\ T \subseteq NotTaken(l) /\ NotTaken(l) \subseteq DOMAIN items[l]
      /\ \A i \in T : items[l][i].top <= n
      /\ \A i \in NotTaken(l) : items[l][i].top > rd.prev
      /\ \A i \in DOMAIN items[l] :
           i \notin NotTaken(l) => ~items[l][i].open /\ items[l][i].top <= rd.prev
      /\ T = {} => n = rd.prev
      /\ T # {} => \E i \in T :
           items[l][i].top = n /\ \A j \in NotTaken(l) : j <= i => j \in T
  BY <1>2, <1>3, <1>4, TakenIs
<1>6. rd.prev \in Nat /\ rd.got \in [Rows -> Nat] /\ rd.part.low \in Nat /\ rd.snap \in SUBSET Rows
  BY WalkIs, PartIs
<1>7. G = [r \in Rows |-> rd.got[r] + Cardinality({i \in T : r \in items[l][i].rows \cap rd.snap})]
  BY <1>4 DEF Counted
<1>8. ASSUME NEW r \in Rows
      PROVE  G[r] = IF r \in rd.snap /\ rd.part.low <= key[r] /\ key[r] <= n THEN 1 ELSE 0
  <2>1. PICK S : S = {i \in T : r \in items[l][i].rows \cap rd.snap}  OBVIOUS
  <2>2. G[r] = rd.got[r] + Cardinality(S)  BY <1>7, <2>1
  <2>3. rd.got[r] = IF r \in rd.snap /\ rd.part.low <= key[r] /\ key[r] <= rd.prev
                    THEN 1 ELSE 0
    BY <1>2 DEF CountedTo
  <2>4. key[r] \in Nat  BY RowKeyIs
  <2>5. CASE r \notin rd.snap
    <3>1. S = {}  BY <2>1, <2>5
    <3>2. G[r] = 0  BY <2>2, <2>3, <2>5, <3>1, FS_EmptySet
    <3> QED  BY <2>5, <3>2
  <2>6. CASE r \in rd.snap
    <3>1. PICK e \in In(items) : r \in e.rows  BY <2>6, SnapIs DEF IsIn
    <3>2. PICK m \in DOMAIN items : \E j \in DOMAIN items[m] : e = items[m][j]  BY InIs
    <3>3. PICK j \in DOMAIN items[m] : e = items[m][j]  BY <3>2
    <3>4. m \in Nat /\ j \in Nat /\ e.top \in Nat /\ l \in Nat
      BY <1>1, <3>3, OnLeaf DEF Leaf
    <3>5. key[r] <= e.top  BY <1>1, <3>1, <3>3 DEF InPlace
    <3>6. \A i \in S : m = l /\ i = j
      <4> TAKE i \in S
      <4>1. i \in DOMAIN items[l] /\ r \in items[l][i].rows  BY <1>5, <2>1
      <4> QED  BY <1>1, <3>1, <3>3, <4>1, OnlyIn DEF Leaf
    <3>7. CASE m = l /\ j \in T
      <4>1. S = {j}  BY <2>1, <2>6, <3>1, <3>3, <3>6, <3>7
      <4>2. Cardinality(S) = 1  BY <4>1, FS_Singleton
      <4>3. e.top > rd.prev /\ e.top <= n  BY <1>5, <3>3, <3>7
      <4>4. key[r] > rd.prev  BY <1>2, <2>6, <3>1, <4>3 DEF AtEnd
      <4>5. rd.got[r] = 0  BY <1>6, <2>3, <2>4, <4>4
      <4>6. rd.part.low <= key[r] /\ key[r] <= n
        BY <1>2, <1>5, <1>6, <2>4, <3>4, <3>5, <4>3, <4>4
      <4> QED  BY <2>2, <2>6, <4>2, <4>5, <4>6
    <3>8. CASE ~(m = l /\ j \in T)
      <4>1. S = {}  BY <2>1, <3>6, <3>8
      <4>2. G[r] = rd.got[r]  BY <1>6, <2>2, <4>1, FS_EmptySet
      <4>3. ASSUME key[r] > rd.prev  PROVE key[r] > n
        <5>1. e.top > rd.prev  BY <1>6, <2>4, <3>4, <3>5, <4>3
        <5>2. ~(m < l)
          <6>1. m < l => e \in Before(items, l)  BY <3>3, BeforeIs
          <6>2. m < l => e.top <= rd.prev  BY <1>2, <6>1
          <6> QED  BY <1>6, <3>4, <5>1, <6>2
        <5>3. CASE T = {}  BY <1>5, <4>3, <5>3
        <5>4. CASE T # {}
          <6>1. PICK i \in T : items[l][i].top = n
                               /\ \A h \in NotTaken(l) : h <= i => h \in T
            BY <1>5, <5>4
          <6>2. i \in DOMAIN items[l] /\ i \in Nat  BY <1>1, <1>5, OnLeaf DEF Leaf
          <6>3. InFront(l, i, m, j)
            <7>1. CASE m = l
              <8>1. j \in NotTaken(l)  BY <1>5, <1>6, <3>3, <3>4, <5>1, <7>1
              <8>2. ~(j <= i)  BY <3>8, <6>1, <7>1, <8>1
              <8> QED  BY <3>4, <6>2, <7>1, <8>2 DEF InFront
            <7>2. CASE m # l  BY <3>4, <5>2, <7>2 DEF InFront
            <7> QED  BY <7>1, <7>2
          <6>4. key[r] > items[l][i].top  BY <1>1, <3>1, <3>3, <6>2, <6>3 DEF Ascend, Leaf
          <6> QED  BY <6>1, <6>4
        <5> QED  BY <5>3, <5>4
      <4>4. key[r] <= rd.prev <=> key[r] <= n  BY <1>5, <1>6, <2>4, <4>3
      <4> QED  BY <2>3, <2>6, <4>2, <4>4
    <3> QED  BY <3>7, <3>8
  <2> QED  BY <2>5, <2>6
<1>9. G \in [Rows -> Nat]
  <2>1. \A r \in Rows : G[r] \in Nat  BY <1>8
  <2>2. G = [r \in Rows |-> G[r]]  BY <1>7
  <2> QED  BY <2>1, <2>2
<1> QED  BY <1>3, <1>8, <1>9

\* One read of a leaf of summaries.
LEMMA SumsKeeps ==
  ASSUME Inv, Sums  PROVE Inv'
<1>1. Typed(items) /\ Good(items, key) /\ rd.phase = "sums" /\ Phase("sums")
  BY DEF Inv, Good, Sums, Phase
<1>2. AtSums  BY <1>1 DEF Inv, Walking, Phase
<1>3. /\ rd.part.low <= rd.prev + 1 /\ rd.prev <= rd.part.high /\ AtEnd(rd.prev)
      /\ rd.at \in Leaf /\ (\A e \in Before(items, rd.at) : ~e.open /\ e.top <= rd.prev)
      /\ CountedTo(rd.prev)
  BY <1>2 DEF AtSums
<1>4. rd.part \in Parts /\ rd.prev \in Nat /\ rd \in WalkType  BY <1>1, WalkIs DEF Phase
<1>5. rd.part.low \in Nat /\ rd.part.high \in Nat  BY <1>4, PartIs
<1>6. PICK l \in Leaf : l = rd.at  BY <1>3
<1>7. PICK n : n = Upto(l)  OBVIOUS
<1>8. PICK T : T = Taken(l)  OBVIOUS
<1>9. PICK G : G = Counted(l, T)  OBVIOUS
<1>10. /\ n \in Nat /\ rd.prev <= n /\ n <= rd.part.high
       /\ \A i \in T : items[l][i].top <= n
       /\ \A i \in DOMAIN items[l] :
            i \notin NotTaken(l) => ~items[l][i].open /\ items[l][i].top <= rd.prev
       /\ T = {} => n = rd.prev
       /\ T # {} => \E i \in DOMAIN items[l] : items[l][i].top = n
  BY <1>3, <1>4, <1>7, <1>8, TakenIs
<1>11. G \in [Rows -> Nat]
       /\ \A r \in Rows : G[r] = IF r \in rd.snap /\ rd.part.low <= key[r]
                                    /\ key[r] <= n THEN 1 ELSE 0
  BY <1>1, <1>2, <1>4, <1>6, <1>7, <1>8, <1>9, CountsLeaf
<1>12. PICK z : z = [rd EXCEPT !.prev = n, !.got = G]  OBVIOUS
<1>13. /\ z \in WalkType /\ z.prev = n /\ z.got = G /\ z.part = rd.part /\ z.snap = rd.snap
       /\ z.phase = "sums" /\ z.at = l
  BY <1>1, <1>4, <1>6, <1>10, <1>11, <1>12 DEF WalkType
<1>14. UNCHANGED <<rowVars, vals, items>> /\ key' = key /\ items' = items
  BY DEF Sums, Walks, rowVars
<1>15. \/ T # NotTaken(l) /\ rd' = [z EXCEPT !.phase = "setup"]
       \/ T = NotTaken(l) /\ ~Rightmost(l) /\ rd' = [z EXCEPT !.at = RightLink(l)]
       \/ T = NotTaken(l) /\ Rightmost(l)
          /\ \E p \in {"setup", "done"} : rd' = [z EXCEPT !.phase = p]
  <2>1. z = [rd EXCEPT !.prev = IF T = {} THEN @ ELSE items[l][Max(T)].top,
                       !.got = Counted(l, T)]
    BY <1>7, <1>8, <1>9, <1>12 DEF Upto
  <2> QED  BY <1>6, <1>8, <2>1 DEF Sums, Walks
<1>16. rd'.got = G /\ rd'.part = rd.part /\ rd'.snap = rd.snap => CountedTo(n)'
  BY <1>11, <1>14 DEF CountedTo
<1>17. rd.part.low <= n + 1  BY <1>3, <1>4, <1>5, <1>10
<1>18. rd'.snap = rd.snap => \A r \in rd'.snap : stage[r] \in {"live", "gone"} /\ IsIn(r)
  BY SnapIs
<1>19. ASSUME T = NotTaken(l), NEW m \in Leaf, m <= l, NEW j \in DOMAIN items[m]
       PROVE  items[m][j].top <= n
  <2>1. m \in Nat /\ l \in Nat /\ items[m][j].top \in Nat  BY <1>1, OnLeaf DEF Leaf
  <2>2. CASE m < l
    <3>1. items[m][j] \in Before(items, l)  BY <2>2, BeforeIs DEF Leaf
    <3>2. items[m][j].top <= rd.prev  BY <1>3, <1>6, <3>1
    <3> QED  BY <1>4, <1>10, <2>1, <3>2
  <2>3. CASE m = l
    <3>1. items[l][j].top <= rd.prev \/ items[l][j].top <= n
      BY <1>10, <1>19, <2>3
    <3> QED  BY <1>4, <1>10, <2>1, <2>3, <3>1
  <2> QED  BY <1>19, <2>1, <2>2, <2>3
<1>20. CASE rd' = [z EXCEPT !.phase = "setup"]
  <2>1. /\ rd' \in WalkType /\ rd'.phase = "setup" /\ rd'.prev = n /\ rd'.got = G
        /\ rd'.part = rd.part /\ rd'.snap = rd.snap
    <3>1. "setup" \in Phases  BY DEF Phases
    <3> QED  BY <1>13, <1>20, <3>1 DEF WalkType
  <2>2. CountedTo(rd.prev)'  BY <1>16, <2>1 DEF CountedTo
  <2>3. AtSetup'  BY <1>10, <1>17, <2>1, <2>2 DEF AtSetup
  <2>4. Walking'  BY <2>1, <2>3 DEF Walking, Phase
  <2> QED  BY <1>4, <1>14, <1>18, <2>1, <2>4, WalksKeeps
<1>21. CASE T = NotTaken(l) /\ ~Rightmost(l) /\ rd' = [z EXCEPT !.at = RightLink(l)]
  <2>1. PICK x : x = RightLink(l)  OBVIOUS
  <2>2. x \in Leaf /\ x > l /\ \A m \in Leaf : m > l => x <= m  BY <1>1, <1>21, <2>1, RightIs
  <2>3. x \in Nat /\ l \in Nat  BY <1>1, <2>2, OnLeaf DEF Leaf
  <2>4. /\ rd' \in WalkType /\ rd'.phase = "sums" /\ rd'.prev = n /\ rd'.got = G
        /\ rd'.part = rd.part /\ rd'.snap = rd.snap /\ rd'.at = x
    BY <1>13, <1>21, <2>1, <2>3 DEF WalkType
  <2>5. CountedTo(rd.prev)'  BY <1>16, <2>4 DEF CountedTo
  <2>6. ASSUME NEW m \in Leaf, NEW j \in DOMAIN items[m], m <= l
        PROVE  ~items[m][j].open
    <3>1. items[m][j].open => \A h \in Leaf : h <= m  BY <1>1, OpenIsLast DEF Leaf
    <3>2. m \in Nat  BY <1>1, OnLeaf DEF Leaf
    <3> QED  BY <2>2, <2>3, <2>6, <3>1, <3>2
  <2>7. AtEnd(n)
    <3>1. CASE T = {}  BY <1>3, <1>10, <3>1
    <3>2. CASE T # {}
      <4>1. PICK i \in DOMAIN items[l] : items[l][i].top = n  BY <1>10, <3>2
      <4>2. ~items[l][i].open  BY <2>3, <2>6
      <4>3. AtEnd(items[l][i].top)  BY <1>1, <4>2, EndIs
      <4> QED  BY <4>1, <4>3
    <3> QED  BY <3>1, <3>2
  <2>8. AtEnd(rd.prev)'  BY <1>14, <2>4, <2>7 DEF AtEnd
  <2>9. \A e \in Before(items', rd'.at) : ~e.open /\ e.top <= rd'.prev
    <3> SUFFICES ASSUME NEW e \in Before(items, x)  PROVE ~e.open /\ e.top <= n
      BY <1>14, <2>4
    <3>1. PICK m \in DOMAIN items : m < x /\ \E j \in DOMAIN items[m] : e = items[m][j]
      BY BeforeIs
    <3>2. PICK j \in DOMAIN items[m] : e = items[m][j]  BY <3>1
    <3>3. m \in Leaf /\ m \in Nat  BY <1>1, OnLeaf DEF Leaf
    <3>4. m <= l  BY <2>2, <2>3, <3>1, <3>3
    <3> QED  BY <1>19, <1>21, <2>6, <3>2, <3>3, <3>4
  <2>10. AtSums'  BY <1>10, <1>14, <1>17, <2>2, <2>4, <2>5, <2>8, <2>9 DEF AtSums, Leaf
  <2>11. Walking'  BY <2>4, <2>10 DEF Walking, Phase
  <2> QED  BY <1>4, <1>14, <1>18, <2>4, <2>11, WalksKeeps
<1>22. CASE T = NotTaken(l) /\ Rightmost(l) /\ rd' = [z EXCEPT !.phase = "done"]
  <2>1. /\ rd' \in WalkType /\ rd'.phase = "done" /\ rd'.got = G
        /\ rd'.part = rd.part /\ rd'.snap = rd.snap
    <3>1. "done" \in Phases  BY DEF Phases
    <3> QED  BY <1>13, <1>22, <3>1 DEF WalkType
  <2>2. ASSUME NEW r \in rd.snap  PROVE key[r] <= n
    <3>1. r \in Rows /\ IsIn(r)  BY SnapIs
    <3>2. PICK e \in In(items) : r \in e.rows  BY <3>1 DEF IsIn
    <3>3. PICK m \in DOMAIN items : \E j \in DOMAIN items[m] : e = items[m][j]  BY InIs
    <3>4. PICK j \in DOMAIN items[m] : e = items[m][j]  BY <3>3
    <3>5. m <= l  BY <1>1, <1>22, RightIs DEF Leaf
    <3>6. e.top <= n  BY <1>19, <1>22, <3>4, <3>5 DEF Leaf
    <3>7. key[r] <= e.top  BY <1>1, <3>2, <3>4 DEF Good, InPlace
    <3>8. key[r] \in Nat /\ e.top \in Nat  BY <1>1, <3>1, BktIs, RowKeyIs
    <3> QED  BY <1>10, <3>6, <3>7, <3>8
  <2>3. \A r \in rd.snap : rd.part.low <= key[r] => (key[r] <= n <=> key[r] <= rd.part.high)
    <3> TAKE r \in rd.snap
    <3>1. key[r] \in Nat  BY SnapIs, RowKeyIs
    <3>2. key[r] <= n /\ key[r] <= rd.part.high  BY <1>5, <1>10, <2>2, <3>1
    <3> QED  BY <3>2
  <2>4. CountedTo(n)'  BY <1>16, <2>1
  <2> QED  BY <1>4, <1>10, <1>14, <2>1, <2>3, <2>4, DoneKeeps
<1> QED  BY <1>15, <1>20, <1>21, <1>22

-----------------------------------------------------------------------------
(* What follows                                                            *)

LEMMA StoredIs ==
  ASSUME NEW f, NEW r, r \in StoredIn(f)
  PROVE  \E e \in In(f) : r \in e.rows
<1>1. PICK l \in DOMAIN f : r \in UNION {f[l][i].rows : i \in DOMAIN f[l]}
  BY DEF StoredIn
<1>2. PICK i \in DOMAIN f[l] : r \in f[l][i].rows  BY <1>1
<1>3. f[l][i] \in In(f)  BY InIs
<1> QED  BY <1>2, <1>3

\* The invariant holds of a column to start from.
LEMMA InitInv ==
  ASSUME SumInit  PROVE Inv
<1>1. PICK s \in SumStarts :
        /\ limit = s.limit /\ key = s.key /\ items = s.items
        /\ stage = [r \in Rows |-> IF r \in StoredIn(s.items) THEN "live"
                                   ELSE IF r \in s.born THEN "unused" ELSE "gone"]
  BY DEF SumInit
<1>2. /\ vals = StoredIn(items) /\ leafAt = [r \in Rows |-> Descent]
      /\ guarded = [r \in Rows |-> FALSE] /\ rd = Idle
  BY DEF SumInit
<1>3. SumStartOK(s)  BY SumStartsAssumption
<1>4. /\ limit \in Nat /\ key \in [Rows -> ColumnKeys]
      /\ DOMAIN items \subseteq 0 .. TopKey /\ 0 \in DOMAIN items
      /\ items \in [DOMAIN items -> Buckets]
      /\ Ascend(items, key) /\ InPlace(items, key)
      /\ items[Max(DOMAIN items)] = <<>> => DOMAIN items = {0}
  BY <1>1, <1>3 DEF SumStartOK
<1>5. Typed(items)  BY <1>4 DEF Typed
<1>6. LastFull(items)
  <2> SUFFICES ASSUME NEW l \in DOMAIN items, items[l] = <<>>,
                      \A m \in DOMAIN items : m <= l
               PROVE  l = 0
    BY DEF LastFull
  <2>1. PICK T : T = DOMAIN items  OBVIOUS
  <2>2. T \in SUBSET (0 .. TopKey) /\ T # {} /\ TopKey \in Nat  BY <1>4, <2>1, KeysAre
  <2>3. Max(T) \in T /\ \A m \in T : m <= Max(T)  BY <2>2, MaxIs
  <2>4. PICK x \in Nat : x = Max(T)
    <3>1. Max(T) \in 0 .. TopKey  BY <2>2, <2>3
    <3> QED  BY <2>2, <3>1
  <2>5. l \in Nat /\ l <= x /\ x <= l  BY <2>1, <2>2, <2>3, <2>4
  <2>6. l = Max(DOMAIN items)  BY <2>1, <2>4, <2>5
  <2> QED  BY <1>4, <2>6
<1>7. Good(items, key)  BY <1>4, <1>5, <1>6 DEF Good
<1>8. vals \in SUBSET Rows
  <2> SUFFICES ASSUME NEW r \in vals  PROVE r \in Rows
    OBVIOUS
  <2>1. PICK e \in In(items) : r \in e.rows  BY <1>2, StoredIs
  <2> QED  BY <1>5, <2>1, BktIs
<1>9. rd \in WalkType /\ rd.phase = "idle" /\ rd.snap = {}  BY <1>2, IdleIs
<1>10. /\ stage \in [Rows -> {"unused", "lookup", "create", "stored", "live", "gone"}]
       /\ \A r \in Rows : /\ stage[r] \in {"unused", "live", "gone"}
                          /\ stage[r] = "live" => r \in vals
  BY <1>1, <1>2
<1>11. leafAt \in [Rows -> Nat] /\ guarded \in [Rows -> BOOLEAN]  BY <1>2, KeysAre
<1>12. Types  BY <1>4, <1>8, <1>9, <1>10, <1>11 DEF Types, Phase
<1>13. ASSUME NEW r \in Rows  PROVE LooksOf(r) /\ GuardsOf(r) /\ StoredOf(r)
  <2>1. leafAt[r] = Descent /\ ~guarded[r]  BY <1>2
  <2>2. LooksOf(r)  BY <2>1 DEF LooksOf
  <2>3. GuardsOf(r)  BY <2>1 DEF GuardsOf
  <2>4. stage[r] = "live" => IsIn(r)
    <3>1. r \in vals => \E e \in In(items) : r \in e.rows  BY <1>2, StoredIs
    <3> QED  BY <1>10, <3>1 DEF IsIn
  <2>5. StoredOf(r)  BY <1>9, <1>10, <2>4 DEF StoredOf
  <2> QED  BY <2>2, <2>3, <2>5
<1>14. Walking  BY <1>9 DEF Walking, Phase
<1> QED  BY <1>7, <1>12, <1>13, <1>14 DEF Inv

\* and is kept by every step.
LEMMA StutterKeeps ==
  ASSUME Inv, UNCHANGED sumVars  PROVE Inv'
<1>1. UNCHANGED <<rowVars, vals, items>> /\ rd' = rd  BY DEF sumVars
<1>2. key' = key /\ items' = items  BY <1>1 DEF rowVars
<1>3. rd \in WalkType /\ Walking /\ (Phase("idle") \/ rd.part \in Parts)
  BY DEF Inv, Types
<1>4. CountedTo(0)' <=> CountedTo(0)  BY <1>1, <1>2 DEF CountedTo
<1>5. Walking'  BY <1>1, <1>2, <1>3 DEF Walking, Phase, AtLanding, AtLower, AtSums, AtSetup,
         AtUpper, RangeExact, CountedTo, AtEnd, Leaf
<1>6. \A r \in rd'.snap : stage[r] \in {"live", "gone"} /\ IsIn(r)  BY <1>1, SnapIs
<1>7. rd' \in WalkType /\ (Phase("idle")' \/ rd'.part \in Parts)  BY <1>1, <1>3 DEF Phase
<1> QED  BY <1>1, <1>5, <1>6, <1>7, WalksKeeps

LEMMA NextKeepsInv ==
  ASSUME ~DropsTop, Inv, [SumNext]_sumVars  PROVE Inv'
<1>1. CASE UNCHANGED sumVars  BY <1>1, StutterKeeps
<1>2. CASE SumNext
  <2>1. CASE \E r \in Rows : SumInsert(r) \/ StepsRight(r) \/ Join(r) \/ RaiseInline(r)
                             \/ RaiseChain(r) \/ Close(r)
    BY <2>1, InsertKeeps, StepsRightKeeps, JoinKeeps, RaiseInlineKeeps, RaiseChainKeeps,
       CloseKeeps
  <2>2. CASE \E r \in Rows : NoSummary(r) \/ FindsOpen(r) \/ LooksAgain(r) \/ Open(r)
                             \/ Dies(r) \/ Commit(r)
    BY <2>2, NoSummaryKeeps, FindsOpenKeeps, LooksAgainKeeps, OpenKeeps, EndsKeeps
  <2>3. CASE \E k \in ColumnKeys : VacuumValue(k)  BY <2>3, VacuumValueKeeps
  <2>4. CASE VacuumSummary \/ DeleteSummary
    BY <2>4, VacuumSummaryKeeps, DeleteSummaryKeeps
  <2>5. CASE BeginRange \/ Lands \/ Lower \/ Sums \/ Setup \/ Upper \/ Return
    BY <2>5, BeginRangeKeeps, LandsKeeps, LowerKeeps, SumsKeeps, SetupKeeps, UpperKeeps,
       ReturnKeeps
  <2> QED  BY <1>2, <2>1, <2>2, <2>3, <2>4, <2>5 DEF SumNext
<1> QED  BY <1>1, <1>2

\* The invariant is one: from an index to start from, every step keeps it.
THEOREM SummaryInvariant ==
  ASSUME ~DropsTop  PROVE SumSpec => []Inv
<1>1. SumInit => Inv  BY InitInv
<1>2. Inv /\ [SumNext]_sumVars => Inv'  BY NextKeepsInv
<1> QED  BY <1>1, <1>2, PTL DEF SumSpec

\* The buckets of a column ascend, only the last is open, each holds rows of its own keys
\* only, and each entry is where a descent for its key ends, although
\* lion_summary_rekey_insert() changes a bucket's key and lion_summary_close_last() its
\* kind in the place the entry has, and leaves split in between.
THEOREM BucketsInOrder ==
  ASSUME ~DropsTop  PROVE SumSpec => []BucketsOrdered
<1>1. Inv => BucketsOrdered  BY DEF Inv, Good, BucketsOrdered
<1> QED  BY <1>1, SummaryInvariant, PTL

\* No insert raises "the summaries of key column are out of order": an insert that has
\* looked again for a summary it had missed does not come to open a bucket behind one that
\* is at or above its key (lion_summary_insert()).
THEOREM OutOfOrderNever ==
  ASSUME ~DropsTop  PROVE SumSpec => []NeverOutOfOrder
<1>1. Inv => NeverOutOfOrder
  <2> SUFFICES ASSUME Inv, NEW r \in Rows, Missed(r), guarded[r]  PROVE FALSE
    BY DEF NeverOutOfOrder
  <2>1. GuardsOf(r)  BY DEF Inv
  <2> QED  BY <2>1 DEF GuardsOf, Missed
<1> QED  BY <1>1, SummaryInvariant, PTL

\* A range counted by the buckets it covers whole and the keys at its two ends counts every
\* row of its snapshot that it selects once, and no other, whatever inserts, splits and
\* VACUUM do between its reads (lion_range.c, lion_entry_scan_setup_phase()).
THEOREM RangesCounted ==
  ASSUME ~DropsTop  PROVE SumSpec => []RangeExact
<1>1. Inv => RangeExact
  <2> SUFFICES ASSUME Inv, Phase("done")  PROVE RangeExact
    BY DEF RangeExact
  <2> QED  BY DEF Inv, Walking, Phase
<1> QED  BY <1>1, SummaryInvariant, PTL
=============================================================================
