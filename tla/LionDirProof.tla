---------------------------- MODULE LionDirProof ----------------------------
(***************************************************************************)
(* The levels of the entry directory stay linked, for any number of        *)
(* blocks, keys and sessions and whatever is split, repaired, deleted,     *)
(* reused or abandoned at the same time.                                   *)
(*                                                                         *)
(* That a level has one page at each end says little if pages could also   *)
(* be linked in a circle: the invariant has no set of pages that goes on   *)
(* right for ever.  A page that is locked, or in VACUUM's hands, stays in  *)
(* its level.  Only a split and stage 2 of a deletion change the links:    *)
(* each has its lemma, and all other steps keep the shape of the levels.   *)
(***************************************************************************)
EXTENDS LionDir, FiniteSetTheorems, SequenceTheorems, WellFoundedInduction, TLAPS

(* Numbers                                                                 *)

\* A set of numbers has a least one,
LEMMA LeastOf ==
  ASSUME NEW T \in SUBSET Nat, T # {}
  PROVE  \E k \in T : \A m \in T : k <= m
<1>1. T \in (SUBSET Nat) \ {{}}  OBVIOUS
<1>2. PICK k \in T : \A m \in T : ~(<<m, k>> \in OpToRel(<, Nat))
  BY <1>1, WFMin, NatLessThanWellFounded
<1>3. ASSUME NEW i \in Nat, NEW j \in Nat, i < j
      PROVE  <<i, j>> \in OpToRel(<, Nat)
  BY <1>3, Zenon DEF OpToRel
<1>4. ASSUME NEW m \in T, m < k  PROVE FALSE
  <2>1. m \in Nat /\ k \in Nat  OBVIOUS
  <2>2. <<m, k>> \in OpToRel(<, Nat)  BY <1>3, <1>4, <2>1, Zenon
  <2> QED  BY <1>2, <2>2, Zenon
<1> QED  BY <1>4

\* which Min is,
LEMMA MinIs ==
  ASSUME NEW T \in SUBSET Nat, T # {}
  PROVE  Min(T) \in T /\ \A m \in T : Min(T) <= m
BY LeastOf DEF Min

\* and a bounded one a greatest one, which Max is.
LEMMA MaxIs ==
  ASSUME NEW n \in Nat, NEW T \in SUBSET (0 .. n), T # {}
  PROVE  Max(T) \in T /\ \A m \in T : m <= Max(T)
<1> DEFINE U == {n - m : m \in T}
<1>1. U \in SUBSET Nat /\ U # {}  OBVIOUS
<1>2. PICK k \in U : \A m \in U : k <= m  BY <1>1, LeastOf
<1>3. n - k \in T /\ \A m \in T : n - k >= m
  <2>1. PICK x \in T : k = n - x  OBVIOUS
  <2>2. ASSUME NEW m \in T  PROVE x >= m
    <3>1. n - m \in U  OBVIOUS
    <3>2. n - x <= n - m  BY <1>2, <2>1, <3>1
    <3>3. m \in Nat /\ x \in Nat  OBVIOUS
    <3> QED  BY <3>2, <3>3
  <2> QED  BY <2>1, <2>2
<1>4. \E x \in T : \A y \in T : x >= y  BY <1>3
<1>5. Max(T) \in T /\ \A y \in T : Max(T) >= y  BY <1>4 DEF Max
<1> QED  BY <1>5

\* A set of which all members are one has one member.
LEMMA OneMember ==
  ASSUME NEW S, NEW x \in S, \A y \in S : y = x
  PROVE  Cardinality(S) = 1
<1>1. S = {x}  OBVIOUS
<1> QED  BY <1>1, FS_Singleton

-----------------------------------------------------------------------------
(* Sequences                                                               *)

LEMMA InsertAtIs ==
  ASSUME NEW R, NEW s \in Seq(R), NEW e \in R, NEW k \in 1 .. Len(s)
  PROVE  /\ InsertAt(s, k + 1, e) \in Seq(R)
         /\ Len(InsertAt(s, k + 1, e)) = Len(s) + 1
         /\ \A i \in 1 .. k : InsertAt(s, k + 1, e)[i] = s[i]
         /\ InsertAt(s, k + 1, e)[k + 1] = e
         /\ \A i \in k + 2 .. Len(s) + 1 : InsertAt(s, k + 1, e)[i] = s[i - 1]
<1> DEFINE a == SubSeq(s, 1, k)
           b == SubSeq(s, k + 1, Len(s))
<1>1. Len(s) \in Nat /\ k \in Nat  OBVIOUS
<1>2. /\ a \in Seq(R) /\ Len(a) = k /\ \A i \in 1 .. k : a[i] = s[i]
      /\ b \in Seq(R) /\ Len(b) = Len(s) - k
      /\ \A i \in 1 .. Len(s) - k : b[i] = s[k + i]
  BY <1>1
<1>3. <<e>> \in Seq(R) /\ Len(<<e>>) = 1 /\ <<e>>[1] = e  OBVIOUS
<1>4. InsertAt(s, k + 1, e) = (a \o <<e>>) \o b
  <2>1. (k + 1) - 1 = k  BY <1>1
  <2> QED  BY <2>1 DEF InsertAt
<1> HIDE DEF a, b
<1>5. /\ a \o <<e>> \in Seq(R) /\ Len(a \o <<e>>) = k + 1
      /\ \A i \in 1 .. k + 1 : (a \o <<e>>)[i] = IF i <= k THEN s[i] ELSE e
  BY <1>1, <1>2, <1>3
<1> DEFINE c == a \o <<e>>
<1> HIDE DEF c
<1>6. c \in Seq(R) /\ Len(c) = k + 1
      /\ \A i \in 1 .. k + 1 : c[i] = IF i <= k THEN s[i] ELSE e
  BY <1>5 DEF c
<1>7. /\ c \o b \in Seq(R) /\ Len(c \o b) = Len(s) + 1
      /\ \A i \in 1 .. Len(s) + 1 :
           (c \o b)[i] = IF i <= k + 1 THEN c[i] ELSE b[i - (k + 1)]
  <2>1. /\ c \o b \in Seq(R) /\ Len(c \o b) = Len(c) + Len(b)
        /\ \A i \in 1 .. Len(c) + Len(b) :
             (c \o b)[i] = IF i <= Len(c) THEN c[i] ELSE b[i - Len(c)]
    BY <1>2, <1>6, ConcatProperties
  <2>2. Len(c) + Len(b) = Len(s) + 1  BY <1>1, <1>2, <1>6
  <2> QED  BY <1>6, <2>1, <2>2
<1>8. \A i \in k + 2 .. Len(s) + 1 : b[i - (k + 1)] = s[i - 1]
  <2>1. ASSUME NEW i \in k + 2 .. Len(s) + 1  PROVE b[i - (k + 1)] = s[i - 1]
    <3>1. i - (k + 1) \in 1 .. Len(s) - k /\ k + (i - (k + 1)) = i - 1  BY <1>1
    <3> QED  BY <1>2, <3>1
  <2> QED  BY <2>1
<1>9. InsertAt(s, k + 1, e) = c \o b  BY <1>4 DEF c
<1>10. /\ \A i \in 1 .. k : i \in 1 .. Len(s) + 1 /\ i \in 1 .. k + 1 /\ i <= k + 1
       /\ k + 1 \in 1 .. Len(s) + 1 /\ k + 1 \in 1 .. k + 1 /\ ~(k + 1 <= k)
       /\ \A i \in k + 2 .. Len(s) + 1 : i \in 1 .. Len(s) + 1 /\ ~(i <= k + 1)
       /\ \A i \in 1 .. k : i <= k
  BY <1>1
<1> DEFINE t == c \o b
<1>11. \A i \in 1 .. k : t[i] = s[i]  BY <1>6, <1>7, <1>10
<1>12. t[k + 1] = e  BY <1>6, <1>7, <1>10
<1>13. \A i \in k + 2 .. Len(s) + 1 : t[i] = s[i - 1]  BY <1>7, <1>8, <1>10
<1>14. t \in Seq(R) /\ Len(t) = Len(s) + 1  BY <1>7
<1> HIDE DEF t
<1>15. InsertAt(s, k + 1, e) = t  BY <1>9 DEF t
<1> QED  BY <1>11, <1>12, <1>13, <1>14, <1>15

LEMMA RemoveAtIs ==
  ASSUME NEW R, NEW s \in Seq(R), NEW k \in 1 .. Len(s)
  PROVE  /\ RemoveAt(s, k) \in Seq(R)
         /\ Len(RemoveAt(s, k)) = Len(s) - 1
         /\ \A i \in 1 .. Len(s) - 1 :
              RemoveAt(s, k)[i] = IF i < k THEN s[i] ELSE s[i + 1]
<1> DEFINE a == SubSeq(s, 1, k - 1)
           b == SubSeq(s, k + 1, Len(s))
<1>1. Len(s) \in Nat /\ k \in Nat  OBVIOUS
<1>2. /\ a \in Seq(R) /\ Len(a) = k - 1 /\ \A i \in 1 .. k - 1 : a[i] = s[i]
      /\ b \in Seq(R) /\ Len(b) = Len(s) - k
      /\ \A i \in 1 .. Len(s) - k : b[i] = s[k + i]
  BY <1>1
<1> HIDE DEF a, b
<1>3. /\ a \o b \in Seq(R) /\ Len(a \o b) = Len(s) - 1
      /\ \A i \in 1 .. Len(s) - 1 :
           (a \o b)[i] = IF i <= k - 1 THEN a[i] ELSE b[i - (k - 1)]
  <2>1. /\ a \o b \in Seq(R) /\ Len(a \o b) = Len(a) + Len(b)
        /\ \A i \in 1 .. Len(a) + Len(b) :
             (a \o b)[i] = IF i <= Len(a) THEN a[i] ELSE b[i - Len(a)]
    BY <1>2, ConcatProperties
  <2>2. Len(a) + Len(b) = Len(s) - 1  BY <1>1, <1>2
  <2> QED  BY <1>2, <2>1, <2>2
<1>4. \A i \in k .. Len(s) - 1 : b[i - (k - 1)] = s[i + 1]
  <2>1. ASSUME NEW i \in k .. Len(s) - 1  PROVE b[i - (k - 1)] = s[i + 1]
    <3>1. i - (k - 1) \in 1 .. Len(s) - k /\ k + (i - (k - 1)) = i + 1  BY <1>1
    <3> QED  BY <1>2, <3>1
  <2> QED  BY <2>1
<1>5. RemoveAt(s, k) = a \o b  BY DEF RemoveAt, a, b
<1> QED  BY <1>1, <1>2, <1>3, <1>4, <1>5

-----------------------------------------------------------------------------
(* The invariant                                                           *)

Level(p) == page[p].level
DownType == [sep : Keys \cup {MinusInf}, child : Pages]

\* what the fields of a page say of each other
PageOK(p) ==
  /\ IsFiniteSet(page[p].keys) /\ Cardinality(page[p].keys) <= LeafCap
  /\ Len(page[p].down) <= InnerCap
  /\ ~Directory(p) => /\ Rightmost(p) /\ page[p].down = <<>>
                      /\ page[p].state = "live" /\ ~page[p].flagged
  /\ Directory(p) =>
       /\ page[p].kind = "leaf" <=> Level(p) = 0
       /\ page[p].kind = "leaf" => page[p].down = <<>>
       /\ page[p].kind = "inner" => page[p].state # "half"
       /\ Deleted(p) => page[p].down = <<>> /\ ~page[p].flagged
       /\ page[p].state # "live" => ~Rightmost(p) /\ page[p].high = MinusInf
       /\ page[p].kind = "inner" /\ ~Deleted(p) =>
            page[p].down # <<>> /\ page[p].down[1].sep = MinusInf
       /\ page[p].flagged => ~Rightmost(p)
PagesOK == page \in [Pages -> PageType] /\ \A p \in Pages : PageOK(p)

LinkedRight(p) ==
  page[p].right # NoPage =>
    /\ page[p].right \in InLevels /\ page[page[p].right].left = p
    /\ Level(page[p].right) = Level(p)
LinkedLeft(p) ==
  page[p].left # NoPage =>
    page[p].left \in InLevels /\ page[page[p].left].right = p
LeftEnd(p, l) == p \in InLevels /\ Level(p) = l /\ page[p].left = NoPage
RightEnd(p, l) == p \in InLevels /\ Level(p) = l /\ page[p].right = NoPage
OneEnd(l) == /\ \E p \in Pages : LeftEnd(p, l)
             /\ \A p, q \in Pages : LeftEnd(p, l) /\ LeftEnd(q, l) => p = q
             /\ \E p \in Pages : RightEnd(p, l)
             /\ \A p, q \in Pages : RightEnd(p, l) /\ RightEnd(q, l) => p = q
\* S is a set of pages each of which leads right to another of them
Circle(S) == \A p \in S : page[p].right # NoPage /\ page[p].right \in S
NoCircle == \A S \in SUBSET InLevels : Circle(S) => S = {}
RootOK ==
  /\ root \in InLevels
  /\ page[root].left = NoPage /\ page[root].right = NoPage
  /\ \A p \in InLevels : Level(p) <= Height /\ (Level(p) = Height => p = root)
LinksOK ==
  /\ \A p \in InLevels : LinkedRight(p) /\ LinkedLeft(p)
  /\ \A l \in 0 .. Height : OneEnd(l)
  /\ NoCircle
  /\ RootOK
  /\ fsm \subseteq {p \in Pages : Directory(p) /\ Deleted(p)}

CallType ==
  [op : {"rest", "find", "insert"}, key : Keys \cup {MinusInf},
   phase : {"rest", "root", "walk", "scan", "clear"}, at : Links,
   level : Nat, fresh : Nat, stack : Seq([page : Pages, linked : BOOLEAN]),
   placed : BOOLEAN, found : {"none", "there", "absent"}]

\* the pages a session holds are in the levels, and have a right sibling
CallOK(c) ==
  /\ client[c].phase # "rest" => client[c].key \in Keys
  /\ client[c].phase \in {"scan", "clear"} => Climbing(c)
  /\ \A i \in DOMAIN client[c].stack :
       LET p == client[c].stack[i].page IN p \in InLevels /\ ~Rightmost(p)
CallsOK ==
  /\ client \in [Sessions -> CallType]
  /\ cached \in [Sessions -> Links]
  /\ waits \in [Pages -> SUBSET Sessions]
  /\ \A c \in Sessions : CallOK(c)

VacType ==
  [phase : {"asleep", "see", "delete", "look", "root", "walk", "scan",
            "unlink", "left", "sweep"},
   leaf : Links, next : Links, seen : SUBSET Keys, child : Links,
   key : Keys \cup {MinusInf}, heir : Links, at : Links, level : Nat]

\* the leaf VACUUM holds, and the one it is taking out of the tree
VacOK ==
  /\ vac \in VacType
  /\ vac.phase \notin {"asleep", "sweep"} => vac.leaf \in Pages
  /\ vac.phase \in {"root", "walk", "scan"} =>
       vac.leaf \in InLevels /\ Level(vac.leaf) = 0 /\ ~Rightmost(vac.leaf)
  /\ vac.phase \in {"unlink", "left"} => vac.leaf \in HalfDead
  /\ vac.phase = "left" => vac.child \in Pages

Inv == PagesOK /\ LinksOK /\ CallsOK /\ VacOK

-----------------------------------------------------------------------------
(* What holds of pages and their links                                     *)

LEMMA PagesAre ==
  Pages \subseteq Nat /\ NoPage \notin Pages /\ Links = Pages \cup {NoPage}
  /\ IsFiniteSet(Pages) /\ Cardinality(Pages) = NPages /\ NPages \in Nat
<1>1. NPages \in Nat  BY NPagesAssumption
<1>2. IsFiniteSet(1 .. NPages) /\ Cardinality(1 .. NPages) = NPages
  BY <1>1, FS_Interval
<1> QED  BY <1>1, <1>2 DEF Pages, NoPage, Links

LEMMA KeysAre ==
  /\ Keys \subseteq Nat /\ MinusInf = 0 /\ MinusInf \notin Keys
  /\ FindKeys \subseteq Keys /\ InsertKeys \subseteq Keys /\ EmptyKeys \subseteq Keys
BY KeysAssumption DEF MinusInf

LEMMA Fields ==
  ASSUME PagesOK, NEW p \in Pages
  PROVE  /\ page[p].kind \in {"new", "leaf", "inner", "posting"}
         /\ page[p].state \in {"live", "half", "deleted"}
         /\ page[p].level \in Nat /\ page[p].level <= NPages
         /\ page[p].keys \in SUBSET Keys
         /\ page[p].down \in Seq(DownType)
         /\ page[p].high \in Nat /\ page[p].high \in Keys \cup {MinusInf}
         /\ page[p].left \in Links /\ page[p].right \in Links
         /\ page[p].flagged \in BOOLEAN /\ page[p].owner \in Links
<1>1. page[p] \in PageType  BY DEF PagesOK
<1>2. /\ page[p].kind \in {"new", "leaf", "inner", "posting"}
      /\ page[p].state \in {"live", "half", "deleted"}
      /\ page[p].level \in 0 .. NPages
      /\ page[p].keys \in SUBSET Keys
      /\ page[p].down \in Seq([sep : Keys \cup {MinusInf}, child : Pages])
      /\ page[p].high \in Keys \cup {MinusInf}
      /\ page[p].left \in Links /\ page[p].right \in Links
      /\ page[p].flagged \in BOOLEAN /\ page[p].owner \in Links
  BY <1>1 DEF PageType
<1>3. page[p].level \in Nat /\ page[p].level <= NPages  BY <1>2, PagesAre
<1>4. Keys \cup {MinusInf} \subseteq Nat  BY KeysAre
<1>5. page[p].high \in Nat  BY <1>2, <1>4
<1> QED  BY <1>2, <1>3, <1>5 DEF DownType

\* A page with such fields is one.
LEMMA IsPage ==
  ASSUME NEW kind \in {"new", "leaf", "inner", "posting"},
         NEW state \in {"live", "half", "deleted"}, NEW level \in 0 .. NPages,
         NEW keys \in SUBSET Keys, NEW down \in Seq(DownType),
         NEW high \in Keys \cup {MinusInf}, NEW left \in Links, NEW right \in Links,
         NEW flagged \in BOOLEAN, NEW owner \in Links
  PROVE  [kind |-> kind, state |-> state, level |-> level, keys |-> keys,
          down |-> down, high |-> high, left |-> left, right |-> right,
          flagged |-> flagged, owner |-> owner] \in PageType
BY DEF PageType, DownType

LEMMA DownItems ==
  ASSUME PagesOK, NEW p \in Pages
  PROVE  /\ DOMAIN page[p].down = 1 .. Len(page[p].down)
         /\ Len(page[p].down) \in Nat
         /\ \A i \in DOMAIN page[p].down :
              /\ i \in Nat
              /\ page[p].down[i] \in DownType
              /\ page[p].down[i].child \in Pages /\ page[p].down[i].sep \in Nat
<1> DEFINE s == page[p].down
<1>1. s \in Seq(DownType)  BY Fields
<1> HIDE DEF s
<1>2. /\ DOMAIN s = 1 .. Len(s) /\ Len(s) \in Nat
      /\ \A i \in DOMAIN s : i \in Nat /\ s[i] \in DownType
  BY <1>1, LenProperties, ElementOfSeq
<1>3. Keys \cup {MinusInf} \subseteq Nat  BY KeysAre
<1>4. \A i \in DOMAIN s : s[i].child \in Pages /\ s[i].sep \in Nat
  BY <1>2, <1>3 DEF DownType
<1> QED  BY <1>2, <1>4 DEF s

\* The pages of the levels.
LEMMA InLevelsIs ==
  ASSUME NEW p
  PROVE  /\ p \in InLevels <=> p \in Pages /\ page[p].kind \in {"leaf", "inner"}
                              /\ page[p].state # "deleted"
         /\ p \in InLevels => p \in Pages /\ p # NoPage
BY PagesAre DEF InLevels, Directory, Deleted

LEMMA PageIs ==
  ASSUME PagesOK, NEW p \in Pages
  PROVE  PageOK(p)
BY DEF PagesOK

\* A page that is not in the levels leads nowhere by a downlink, and has no flag.
LEMMA OutOfLevels ==
  ASSUME PagesOK, NEW p \in Pages, p \notin InLevels
  PROVE  page[p].down = <<>> /\ ~page[p].flagged /\ page[p].state # "half"
<1>1. PageOK(p)  BY PageIs
<1> QED  BY <1>1, InLevelsIs DEF PageOK, Directory, Deleted

\* The links of a page of the levels.
LEMMA LinksOf ==
  ASSUME LinksOK, NEW p \in InLevels
  PROVE  /\ page[p].right # NoPage =>
              /\ page[p].right \in InLevels /\ page[page[p].right].left = p
              /\ Level(page[p].right) = Level(p)
         /\ page[p].left # NoPage =>
              /\ page[p].left \in InLevels /\ page[page[p].left].right = p
              /\ Level(page[p].left) = Level(p)
<1>1. LinkedRight(p) /\ LinkedLeft(p)  BY DEF LinksOK
<1>2. page[p].left # NoPage => LinkedRight(page[p].left)
  BY <1>1 DEF LinkedLeft, LinksOK
<1>3. p # NoPage  BY InLevelsIs
<1> QED  BY <1>1, <1>2, <1>3 DEF LinkedRight, LinkedLeft

\* No page is its own right sibling, and no two are each other's.
LEMMA NoneTwice ==
  ASSUME LinksOK, NEW p \in InLevels, page[p].right # NoPage
  PROVE  page[p].right # p /\ page[page[p].right].right # p
<1>1. p # NoPage /\ page[p].right \in InLevels  BY InLevelsIs, LinksOf
<1>2. \A S \in SUBSET InLevels : Circle(S) => S = {}  BY DEF LinksOK, NoCircle
<1>3. ASSUME page[page[p].right].right = p  PROVE FALSE
  <2> DEFINE S == {p, page[p].right}
  <2>1. S \in SUBSET InLevels /\ S # {}  BY <1>1
  <2>2. Circle(S)  BY <1>1, <1>3 DEF Circle
  <2> HIDE DEF S
  <2> QED  BY <1>2, <2>1, <2>2
<1> QED  BY <1>3

\* The root is at a level that pages have numbers for.
LEMMA RootIs ==
  ASSUME PagesOK, LinksOK
  PROVE  /\ root \in Pages /\ root \in InLevels /\ Directory(root) /\ Rightmost(root)
         /\ Height \in Nat
         /\ \A p \in InLevels : Level(p) \in Nat /\ Level(p) <= Height
<1>1. root \in InLevels /\ Rightmost(root)  BY DEF LinksOK, RootOK, Rightmost
<1>2. root \in Pages /\ Directory(root)  BY <1>1, InLevelsIs DEF Directory
<1>3. Height \in Nat  BY <1>2, Fields DEF Height
<1>4. \A p \in InLevels : Level(p) \in Nat  BY Fields, InLevelsIs DEF Level
<1> QED  BY <1>1, <1>2, <1>3, <1>4 DEF LinksOK, RootOK

-----------------------------------------------------------------------------
(* Steps and the links                                                     *)

LinkFields(p) == <<page[p].level, page[p].left, page[p].right>>

\* A step that lets no page into the levels or out of them, and no link of one of
\* them change, keeps them linked.
LEMMA KeepsLinks ==
  ASSUME LinksOK, InLevels' = InLevels, root' = root,
         \A p \in InLevels : LinkFields(p)' = LinkFields(p),
         \A p \in fsm' : p \in Pages /\ Directory(p)' /\ Deleted(p)'
  PROVE  LinksOK'
<1>1. \A p \in InLevels : /\ page'[p].level = page[p].level /\ Level(p)' = Level(p)
                          /\ page'[p].left = page[p].left
                          /\ page'[p].right = page[p].right
  BY DEF LinkFields, Level
<1>2. \A p \in InLevels' : LinkedRight(p)' /\ LinkedLeft(p)'
  <2>1. ASSUME NEW p \in InLevels  PROVE LinkedRight(p)' /\ LinkedLeft(p)'
    <3>1. LinkedRight(p) /\ LinkedLeft(p)  BY DEF LinksOK
    <3> QED  BY <1>1, <3>1 DEF LinkedRight, LinkedLeft
  <2> QED  BY <2>1
<1>3. Height' = Height
  BY <1>1 DEF Height, LinksOK, RootOK
<1>4. \A l \in (0 .. Height)' : OneEnd(l)'
  <2>1. ASSUME NEW l \in 0 .. Height  PROVE OneEnd(l)'
    <3>1. OneEnd(l)  BY DEF LinksOK
    <3>2. \A p : /\ LeftEnd(p, l)' <=> LeftEnd(p, l)
                 /\ RightEnd(p, l)' <=> RightEnd(p, l)
      BY <1>1 DEF LeftEnd, RightEnd
    <3> HIDE DEF LeftEnd, RightEnd
    <3> QED  BY <3>1, <3>2 DEF OneEnd
  <2> QED  BY <1>3, <2>1
<1>5. NoCircle'
  <2>1. ASSUME NEW S \in SUBSET InLevels, Circle(S)'  PROVE S = {}
    <3>1. Circle(S)  BY <1>1, <2>1 DEF Circle
    <3> QED  BY <3>1 DEF LinksOK, NoCircle
  <2> QED  BY <2>1 DEF NoCircle
<1>6. RootOK'
  <2>1. RootOK  BY DEF LinksOK
  <2> QED  BY <1>1, <1>3, <2>1 DEF RootOK
<1> QED  BY <1>2, <1>4, <1>5, <1>6 DEF LinksOK

\* An unused page.
LEMMA NewIs ==
  /\ New \in PageType
  /\ New.kind = "new" /\ New.state = "live" /\ New.level = 0 /\ New.keys = {}
  /\ New.down = <<>> /\ New.high = MinusInf /\ New.left = NoPage
  /\ New.right = NoPage /\ New.flagged = FALSE /\ New.owner = NoPage
<1>1. NoPage \in Links /\ 0 \in 0 .. NPages  BY PagesAre
<1>2. <<>> \in Seq(DownType)  OBVIOUS
<1> QED  BY <1>1, <1>2, IsPage DEF New

LEMMA HalfIs ==
  ASSUME PagesOK, NEW p \in Pages, NEW X, X.keys \in SUBSET Keys, X.down \in Seq(DownType)
  PROVE  /\ Half(p, X) \in PageType
         /\ Half(p, X).kind = page[p].kind /\ Half(p, X).state = "live"
         /\ Half(p, X).level = page[p].level /\ Half(p, X).keys = X.keys
         /\ Half(p, X).down = X.down /\ Half(p, X).high = MinusInf
         /\ Half(p, X).left = NoPage /\ Half(p, X).right = NoPage
         /\ Half(p, X).flagged = FALSE /\ Half(p, X).owner = NoPage
<1> DEFINE k == page[p].kind
           l == page[p].level
           S == X.keys
           d == X.down
<1>1. /\ k \in {"new", "leaf", "inner", "posting"} /\ l \in 0 .. NPages
      /\ S \in SUBSET Keys /\ d \in Seq([sep : Keys \cup {MinusInf}, child : Pages])
  BY Fields, PagesAre DEF DownType
<1>2. Half(p, X) = [New EXCEPT !.kind = k, !.level = l, !.keys = S, !.down = d]
  BY DEF Half
<1> HIDE DEF k, l, S, d
<1>3. Half(p, X) \in PageType
      /\ Half(p, X).kind = k /\ Half(p, X).level = l /\ Half(p, X).keys = S
      /\ Half(p, X).down = d
      /\ Half(p, X).state = New.state /\ Half(p, X).high = New.high
      /\ Half(p, X).left = New.left /\ Half(p, X).right = New.right
      /\ Half(p, X).flagged = New.flagged /\ Half(p, X).owner = New.owner
  BY <1>1, <1>2, NewIs DEF PageType
<1> QED  BY <1>3, NewIs DEF k, l, S, d

\* The pages a split writes.
LEMMA SplitLeft ==
  ASSUME PagesOK, NEW p \in Pages, NEW q \in Pages, p # q, NEW n, NEW L, NEW R,
         L.keys \in SUBSET Keys, L.down \in Seq(DownType),
         NEW sep \in Keys \cup {MinusInf}, SplitRecord(p, L, R, sep, q, n)
  PROVE  /\ page'[p] \in PageType
         /\ page'[p].kind = page[p].kind /\ page'[p].state = "live"
         /\ page'[p].level = page[p].level /\ page'[p].keys = L.keys
         /\ page'[p].down = L.down /\ page'[p].high = sep
         /\ page'[p].left = page[p].left /\ page'[p].right = q
         /\ page'[p].flagged = (p # root)
<1> DEFINE a == LeftHalf(p, L, sep, q)
           flag == p # root
           l == page[p].left
           x == Half(p, L)
<1>1. page'[p] = a  BY DEF SplitRecord
<1>2. a = [x EXCEPT !.high = sep, !.left = l, !.right = q, !.flagged = flag]
  BY DEF LeftHalf
<1>3. flag \in BOOLEAN /\ l \in Links /\ q \in Links
  BY Fields, PagesAre
<1>4. /\ x \in PageType /\ x.kind = page[p].kind /\ x.state = "live"
      /\ x.level = page[p].level /\ x.keys = L.keys /\ x.down = L.down
  BY HalfIs
<1> HIDE DEF a, flag, l, x
<1>5. /\ a \in PageType /\ a.high = sep /\ a.left = l /\ a.right = q /\ a.flagged = flag
      /\ a.kind = x.kind /\ a.state = x.state /\ a.level = x.level /\ a.keys = x.keys
      /\ a.down = x.down
  BY <1>2, <1>3, <1>4 DEF PageType
<1>6. /\ a.kind = page[p].kind /\ a.state = "live" /\ a.level = page[p].level
      /\ a.keys = L.keys /\ a.down = L.down
  BY <1>4, <1>5
<1>7. flag = (p # root) /\ l = page[p].left  BY DEF flag, l
<1> QED  BY <1>1, <1>5, <1>6, <1>7

LEMMA SplitRight ==
  ASSUME PagesOK, NEW p \in Pages, NEW q \in Pages, p # q, NEW n, NEW L, NEW R,
         R.keys \in SUBSET Keys, R.down \in Seq(DownType),
         NEW sep \in Keys \cup {MinusInf}, SplitRecord(p, L, R, sep, q, n)
  PROVE  /\ page'[q] \in PageType
         /\ page'[q].kind = page[p].kind /\ page'[q].state = "live"
         /\ page'[q].level = page[p].level /\ page'[q].keys = R.keys
         /\ page'[q].down = R.down /\ page'[q].high = page[p].high
         /\ page'[q].left = p /\ page'[q].right = page[p].right
         /\ ~page'[q].flagged
<1> DEFINE b == RightHalf(p, R)
           h == page[p].high
           r == page[p].right
           y == Half(p, R)
<1>1. page'[q] = b  BY DEF SplitRecord
<1>2. b = [y EXCEPT !.high = h, !.left = p, !.right = r]
  BY DEF RightHalf
<1>3. r \in Links /\ h \in Keys \cup {MinusInf} /\ p \in Links
  BY Fields, PagesAre
<1>4. /\ y \in PageType /\ y.kind = page[p].kind /\ y.state = "live"
      /\ y.level = page[p].level /\ y.keys = R.keys /\ y.down = R.down
      /\ y.flagged = FALSE
  BY HalfIs
<1> HIDE DEF b, h, r, y
<1>5. /\ b \in PageType /\ b.high = h /\ b.left = p /\ b.right = r
      /\ b.kind = y.kind /\ b.state = y.state /\ b.level = y.level /\ b.keys = y.keys
      /\ b.down = y.down /\ b.flagged = y.flagged
  BY <1>2, <1>3, <1>4 DEF PageType
<1>6. /\ b.kind = page[p].kind /\ b.state = "live" /\ b.level = page[p].level
      /\ b.keys = R.keys /\ b.down = R.down /\ b.flagged = FALSE
  BY <1>4, <1>5
<1>7. h = page[p].high /\ r = page[p].right  BY DEF h, r
<1> QED  BY <1>1, <1>5, <1>6, <1>7

\* There is a number for the level above p's.
LevelAbove(p) == page[p].level + 1 \in 0 .. NPages
BothHalves(p, sep, q) == <<[sep |-> MinusInf, child |-> p], [sep |-> sep, child |-> q]>>

LEMMA SplitRoot ==
  ASSUME PagesOK, NEW p \in Pages, NEW q \in Pages, NEW n \in Pages, n # p, n # q,
         LevelAbove(p), NEW L, NEW R,
         NEW sep \in Keys \cup {MinusInf}, SplitRecord(p, L, R, sep, q, n)
  PROVE  /\ page'[n] \in PageType
         /\ page'[n].kind = "inner" /\ page'[n].state = "live"
         /\ page'[n].level = page[p].level + 1 /\ page'[n].keys = {}
         /\ page'[n].down = BothHalves(p, sep, q)
         /\ page'[n].left = NoPage /\ page'[n].right = NoPage
         /\ ~page'[n].flagged
<1> DEFINE two == BothHalves(p, sep, q)
           above == page[p].level + 1
           c == RootOver(p, sep, q)
<1>1. page'[n] = c  BY DEF SplitRecord
<1>2. c = [New EXCEPT !.kind = "inner", !.level = above, !.down = two]
  BY DEF RootOver, BothHalves
<1>3. above \in 0 .. NPages  BY DEF LevelAbove
<1>4. two \in Seq([sep : Keys \cup {MinusInf}, child : Pages])
  <2>1. MinusInf \in Keys \cup {MinusInf}  OBVIOUS
  <2> QED  BY <2>1 DEF BothHalves
<1> HIDE DEF two, above, c
<1>5. /\ c \in PageType /\ c.kind = "inner" /\ c.level = above /\ c.down = two
      /\ c.state = New.state /\ c.keys = New.keys /\ c.left = New.left
      /\ c.right = New.right /\ c.flagged = New.flagged
  BY <1>2, <1>3, <1>4, NewIs DEF PageType
<1> QED  BY <1>1, <1>5, NewIs DEF two, above

\* A split lets one page into a level, to the right of the one that splits; that of
\* the root starts a level.
LEMMA SplitLinks ==
  ASSUME PagesOK, LinksOK, NEW p \in InLevels, NEW q \in Pages, q \notin InLevels,
         NEW n, p = root => n \in Pages /\ n \notin InLevels /\ n # q,
         p # root => n = NoPage,
         p = root => LevelAbove(p), NEW L, NEW R,
         L.keys \in SUBSET Keys, L.down \in Seq(DownType),
         R.keys \in SUBSET Keys, R.down \in Seq(DownType),
         NEW sep \in Keys \cup {MinusInf}, SplitRecord(p, L, R, sep, q, n),
         root' = IF p = root THEN n ELSE root, fsm' = fsm \ {q, n}
  PROVE  /\ LinksOK'
         /\ InLevels' = InLevels \cup {q} \cup (IF p = root THEN {n} ELSE {})
         /\ Height' = IF p = root THEN Height + 1 ELSE Height
<1>r. PICK r : r = page[p].right  OBVIOUS
<1>1. /\ p \in Pages /\ p # NoPage /\ q # NoPage /\ p # q /\ p # n /\ r # p
      /\ r # NoPage => r \in InLevels /\ r # q /\ r # n /\ page[r].left = p
                       /\ Level(r) = Level(p)
  <2>1. p \in Pages /\ p # NoPage /\ q # NoPage /\ p # q /\ p # n
    BY InLevelsIs, PagesAre
  <2>2. r # NoPage => r \in InLevels /\ page[r].left = p /\ Level(r) = Level(p) /\ r # p
    BY <1>r, LinksOf, NoneTwice
  <2>3. r # NoPage => r # q /\ r # n
    BY <2>2
  <2> QED  BY <2>1, <2>2, <2>3
<1>2. /\ page'[p].kind = page[p].kind /\ page'[p].state = "live"
      /\ page'[p].level = page[p].level /\ page'[p].left = page[p].left
      /\ page'[p].right = q
  BY <1>1, SplitLeft
<1>3. /\ page'[q].kind = page[p].kind /\ page'[q].state = "live"
      /\ page'[q].level = page[p].level /\ page'[q].left = p /\ page'[q].right = r
  <2>1. /\ page'[q].kind = page[p].kind /\ page'[q].state = "live"
        /\ page'[q].level = page[p].level /\ page'[q].left = p
        /\ page'[q].right = page[p].right
    BY <1>1, SplitRight
  <2> QED  BY <1>r, <2>1
<1>4. p = root => /\ page'[n].kind = "inner" /\ page'[n].state = "live"
                  /\ page'[n].level = page[p].level + 1
                  /\ page'[n].left = NoPage /\ page'[n].right = NoPage
  <2> SUFFICES ASSUME p = root
               PROVE  /\ page'[n].kind = "inner" /\ page'[n].state = "live"
                      /\ page'[n].level = page[p].level + 1
                      /\ page'[n].left = NoPage /\ page'[n].right = NoPage
    OBVIOUS
  <2>1. n \in Pages /\ n # p /\ n # q /\ LevelAbove(p) /\ p \in Pages
    BY <1>1
  <2> QED  BY <2>1, SplitRoot
<1>5. r # NoPage => page'[r] = [page[r] EXCEPT !.left = q]
  <2>1. r # NoPage => r \in Pages  BY <1>1, InLevelsIs
  <2> QED  BY <1>r, <1>1, <2>1 DEF SplitRecord
<1>6. \A x \in Pages : x \notin {p, q, n, r} => page'[x] = page[x]
  BY <1>r DEF SplitRecord
<1>7. r # NoPage => /\ page'[r].kind = page[r].kind /\ page'[r].state = page[r].state
                    /\ page'[r].level = page[r].level /\ page'[r].left = q
                    /\ page'[r].right = page[r].right
  <2>1. r # NoPage => page[r] \in PageType  BY <1>1, InLevelsIs DEF PagesOK
  <2> QED  BY <1>5, <2>1 DEF PageType
<1>8. \A x \in Pages : x \in InLevels' <=>
         page'[x].kind \in {"leaf", "inner"} /\ page'[x].state # "deleted"
  BY DEF InLevels, Directory, Deleted
<1>9. InLevels' = InLevels \cup {q} \cup (IF p = root THEN {n} ELSE {})
  <2>1. p \in InLevels' /\ q \in InLevels' /\ (p = root => n \in InLevels')
    BY <1>1, <1>2, <1>3, <1>4, <1>8, InLevelsIs
  <2>2. r # NoPage => r \in InLevels'
    BY <1>1, <1>7, <1>8, InLevelsIs
  <2>3. n # NoPage => p = root  OBVIOUS
  <2>4. \A x \in Pages : x \notin {p, q, n, r} => (x \in InLevels' <=> x \in InLevels)
    BY <1>6, <1>8, InLevelsIs
  <2>5. InLevels' \subseteq Pages /\ InLevels \subseteq Pages /\ NoPage \notin Pages
    BY PagesAre DEF InLevels
  <2>6. ASSUME NEW x \in InLevels'
        PROVE  x \in InLevels \cup {q} \cup (IF p = root THEN {n} ELSE {})
    <3>1. CASE x \in {p, q, n, r}
      BY <1>1, <2>3, <2>5, <2>6, <3>1
    <3>2. CASE x \notin {p, q, n, r}  BY <2>4, <2>5, <2>6, <3>2
    <3> QED  BY <3>1, <3>2
  <2>7. ASSUME NEW x \in InLevels \cup {q} \cup (IF p = root THEN {n} ELSE {})
        PROVE  x \in InLevels'
    <3>1. CASE x \in {p, q, n, r}
      BY <1>1, <2>1, <2>2, <2>3, <2>5, <2>7, <3>1
    <3>2. CASE x \notin {p, q, n, r}  BY <2>4, <2>5, <2>7, <3>2
    <3> QED  BY <3>1, <3>2
  <2> QED  BY <2>6, <2>7
<1>10. Height \in Nat /\ Level(p) \in Nat /\ Level(p) <= Height
       /\ (Level(p) = Height <=> p = root)
  BY RootIs DEF Height, Level, LinksOK, RootOK
<1>11. Height' = IF p = root THEN Height + 1 ELSE Height
  <2>1. CASE p = root  BY <1>4, <2>1 DEF Height
  <2>2. CASE p # root
    <3>1. root \in InLevels /\ page[root].right = NoPage /\ page[root].left = NoPage
          /\ root \in Pages
      BY RootIs DEF LinksOK, RootOK
    <3>2. root # q /\ root # n  BY <2>2, <3>1, InLevelsIs
    <3>3. root # r  BY <1>1, <3>1, InLevelsIs
    <3> QED  BY <1>6, <2>2, <3>1, <3>2, <3>3 DEF Height
  <2> QED  BY <2>1, <2>2
\* what the links of each page are after it
<1>12. /\ Level(p)' = Level(p) /\ Level(q)' = Level(p) /\ (r # NoPage => Level(r)' = Level(p))
       /\ p = root => Level(n)' = Level(p) + 1
       /\ \A x \in InLevels : Level(x)' = Level(x)
       /\ \A x \in InLevels : x # p => page'[x].right = page[x].right
       /\ \A x \in InLevels : x # r => page'[x].left = page[x].left
  <2>1. ASSUME NEW x \in InLevels
        PROVE  /\ Level(x)' = Level(x) /\ (x # p => page'[x].right = page[x].right)
               /\ (x # r => page'[x].left = page[x].left)
    <3>1. x \in Pages /\ x # NoPage /\ x # q /\ x # n  BY InLevelsIs
    <3> QED  BY <1>2, <1>6, <1>7, <3>1 DEF Level
  <2> QED  BY <1>1, <1>3, <1>4, <1>7, <2>1 DEF Level
<1>13. \A x \in InLevels' : LinkedRight(x)' /\ LinkedLeft(x)'
  <2>1. LinkedRight(p)' /\ LinkedLeft(p)'
    <3>1. LinkedLeft(p)  BY DEF LinksOK
    <3>2. page[p].left # NoPage => page[p].left # p
      BY <1>r, <1>1, LinksOf
    <3> QED  BY <1>1, <1>2, <1>3, <1>9, <1>12, <3>1, <3>2 DEF LinkedRight, LinkedLeft
  <2>2. LinkedRight(q)' /\ LinkedLeft(q)'
    BY <1>1, <1>2, <1>3, <1>7, <1>9, <1>12 DEF LinkedRight, LinkedLeft
  <2>3. p = root => LinkedRight(n)' /\ LinkedLeft(n)'
    BY <1>4 DEF LinkedRight, LinkedLeft
  <2>4. ASSUME NEW x \in InLevels, x # p  PROVE LinkedRight(x)'
    <3>1. page'[x].right = page[x].right  BY <1>12, <2>4
    <3>2. page[x].right # NoPage =>
            /\ page[x].right \in InLevels /\ page[page[x].right].left = x
            /\ Level(page[x].right) = Level(x)
      BY LinksOf
    <3>3. page[x].right # NoPage => page[x].right # r
      BY <1>1, <2>4, <3>2
    <3> QED  BY <1>9, <1>12, <3>1, <3>2, <3>3 DEF LinkedRight
  <2>5. ASSUME NEW x \in InLevels, x # p  PROVE LinkedLeft(x)'
    <3>1. CASE x = r
      BY <1>3, <1>7, <1>9, <3>1, InLevelsIs DEF LinkedLeft
    <3>2. CASE x # r
      <4>1. page'[x].left = page[x].left  BY <1>12, <3>2
      <4>2. page[x].left # NoPage => page[x].left \in InLevels /\ page[page[x].left].right = x
        BY LinksOf
      <4>3. page[x].left # p  BY <1>r, <1>1, <3>2, <4>2
      <4> QED  BY <1>9, <1>12, <4>1, <4>2, <4>3 DEF LinkedLeft
    <3> QED  BY <3>1, <3>2
  <2> QED  BY <1>9, <2>1, <2>2, <2>3, <2>4, <2>5
<1>14. \A l \in (0 .. Height)' : OneEnd(l)'
  <2>1. ASSUME NEW l \in 0 .. Height  PROVE OneEnd(l)'
    <3>1. OneEnd(l)  BY DEF LinksOK
    <3>2. p = root => Level(n)' # l  BY <1>10, <1>12
    <3>3. \A x : LeftEnd(x, l)' <=> LeftEnd(x, l)
      <4>1. ~LeftEnd(q, l)' /\ ~LeftEnd(q, l)  BY <1>1, <1>3 DEF LeftEnd
      <4>2. p = root => ~LeftEnd(n, l)' /\ ~LeftEnd(n, l)  BY <3>2 DEF LeftEnd
      <4>3. r # NoPage => ~LeftEnd(r, l)' /\ ~LeftEnd(r, l)
        BY <1>1, <1>7 DEF LeftEnd
      <4>4. ASSUME NEW x \in InLevels, x # r
            PROVE  LeftEnd(x, l)' <=> LeftEnd(x, l)
        BY <1>9, <1>12, <4>4 DEF LeftEnd
      <4>5. ASSUME NEW x, x \notin InLevels, x # q, ~(p = root /\ x = n)
            PROVE  ~LeftEnd(x, l)' /\ ~LeftEnd(x, l)
        BY <1>9, <4>5 DEF LeftEnd
      <4>6. \A x \in InLevels : x = r => r # NoPage  BY InLevelsIs
      <4> QED  BY <4>1, <4>2, <4>3, <4>4, <4>5, <4>6
    <3>4. p = root => ~RightEnd(n, l)'  BY <3>2 DEF RightEnd
    <3>5. ~RightEnd(p, l)'  BY <1>1, <1>2 DEF RightEnd
    <3>6. RightEnd(q, l)' <=> RightEnd(p, l)
      BY <1>r, <1>3, <1>9, <1>12 DEF RightEnd
    <3>7. ASSUME NEW x \in InLevels, x # p
          PROVE  RightEnd(x, l)' <=> RightEnd(x, l)
      BY <1>9, <1>12, <3>7 DEF RightEnd
    <3>8. ASSUME NEW x, x \notin InLevels, x # q, ~(p = root /\ x = n)
          PROVE  ~RightEnd(x, l)' /\ ~RightEnd(x, l)
      BY <1>9, <3>8 DEF RightEnd
    <3>9. ~RightEnd(q, l) /\ (p = root => ~RightEnd(n, l))  BY DEF RightEnd
    <3>10. \A x, y \in Pages : RightEnd(x, l)' /\ RightEnd(y, l)' => x = y
      <4>1. ASSUME NEW x \in Pages, NEW y \in Pages, RightEnd(x, l)', RightEnd(y, l)', x # q
            PROVE  x = y
        <5>1. x \in InLevels /\ x # p /\ RightEnd(x, l)
          BY <3>4, <3>5, <3>7, <3>8, <4>1
        <5>2. CASE y = q
          <6>1. RightEnd(p, l)  BY <3>6, <4>1, <5>2
          <6> QED  BY <1>1, <3>1, <5>1, <6>1 DEF OneEnd
        <5>3. CASE y # q
          <6>1. RightEnd(y, l)  BY <3>4, <3>5, <3>7, <3>8, <4>1, <5>3
          <6> QED  BY <3>1, <4>1, <5>1, <6>1 DEF OneEnd
        <5> QED  BY <5>2, <5>3
      <4> QED  BY <4>1
    <3>11. \E x \in Pages : RightEnd(x, l)'
      <4>1. PICK x \in Pages : RightEnd(x, l)  BY <3>1 DEF OneEnd
      <4>2. CASE x = p  BY <3>6, <4>1, <4>2
      <4>3. CASE x # p
        <5>1. x \in InLevels  BY <3>8, <3>9, <4>1
        <5> QED  BY <3>7, <4>1, <4>3, <5>1
      <4> QED  BY <4>2, <4>3
    <3> QED  BY <3>1, <3>3, <3>10, <3>11 DEF OneEnd
  <2>2. ASSUME p = root, NEW top, top = Height + 1  PROVE OneEnd(top)'
    <3>1. \A x \in InLevels \cup {q} : Level(x)' # top
      <4>1. \A x \in InLevels : Level(x)' \in Nat /\ Level(x)' <= Height
        BY <1>12, RootIs
      <4> QED  BY <1>10, <1>12, <2>2, <4>1
    <3>2. Level(n)' = top  BY <1>10, <1>12, <2>2
    <3>3. \A x : LeftEnd(x, top)' <=> x = n
      BY <1>4, <1>9, <2>2, <3>1, <3>2 DEF LeftEnd
    <3>4. \A x : RightEnd(x, top)' <=> x = n
      BY <1>4, <1>9, <2>2, <3>1, <3>2 DEF RightEnd
    <3> QED  BY <2>2, <3>3, <3>4 DEF OneEnd
  <2>3. ASSUME NEW l \in (0 .. Height)'  PROVE OneEnd(l)'
    <3>1. l \in 0 .. Height \/ (p = root /\ l = Height + 1)
      <4>1. CASE p = root
        <5>1. l \in 0 .. Height + 1  BY <1>11, <4>1
        <5> QED  BY <1>10, <4>1, <5>1
      <4>2. CASE p # root  BY <1>11, <4>2
      <4> QED  BY <4>1, <4>2
    <3> QED  BY <2>1, <2>2, <3>1
  <2> QED  BY <2>3
<1>15. NoCircle'
  <2>1. ASSUME NEW S \in SUBSET InLevels', Circle(S)'  PROVE S = {}
    <3> DEFINE T == S \cap InLevels
    <3>1. \A x \in S : page'[x].right # NoPage /\ page'[x].right \in S
      BY <2>1 DEF Circle
    <3>2. ~(p = root /\ n \in S)  BY <1>4, <3>1
    <3>3. q \in S => r \in T /\ r # NoPage  BY <1>1, <1>3, <3>1
    <3>4. ASSUME NEW x \in T  PROVE page[x].right # NoPage /\ page[x].right \in T
      <4>1. CASE x = p
        <5>1. q \in S  BY <1>2, <3>1, <4>1
        <5> QED  BY <1>r, <3>3, <4>1, <5>1
      <4>2. CASE x # p
        <5>1. page[x].right # NoPage /\ page[x].right \in S
          BY <1>12, <3>1, <4>2
        <5> QED  BY <5>1, LinksOf
      <4> QED  BY <4>1, <4>2
    <3>5. T \in SUBSET InLevels  OBVIOUS
    <3> HIDE DEF T
    <3>6. T = {}  BY <3>4, <3>5 DEF Circle, LinksOK, NoCircle
    <3>7. \A x \in S : x \in T  BY <1>9, <3>2, <3>3, <3>6 DEF T
    <3> QED  BY <3>6, <3>7
  <2> QED  BY <2>1 DEF NoCircle
<1>16. RootOK'
  <2>1. RootOK  BY DEF LinksOK
  <2>2. CASE p = root
    <3>1. \A x \in InLevels' : Level(x)' <= Height + 1 /\ (Level(x)' = Height + 1 => x = n)
      <4>1. \A x \in InLevels : Level(x)' \in Nat /\ Level(x)' <= Height
        BY <1>12, RootIs
      <4> QED  BY <1>9, <1>10, <1>12, <2>2, <4>1
    <3> QED  BY <1>4, <1>9, <1>11, <2>2, <3>1 DEF RootOK
  <2>3. CASE p # root
    <3>1. root' = root /\ root # r /\ root \in InLevels  BY <1>1, <2>1, <2>3, InLevelsIs DEF RootOK
    <3>2. page'[root].left = NoPage /\ page'[root].right = NoPage
      BY <1>12, <2>1, <2>3, <3>1 DEF RootOK
    <3>3. \A x \in InLevels' : Level(x)' <= Height /\ (Level(x)' = Height => x = root)
      BY <1>9, <1>10, <1>12, <2>1, <2>3 DEF RootOK
    <3> QED  BY <1>9, <1>11, <2>3, <3>1, <3>2, <3>3 DEF RootOK
  <2> QED  BY <2>2, <2>3
<1>17. fsm' \subseteq {x \in Pages : Directory(x)' /\ Deleted(x)'}
  <2>1. ASSUME NEW x \in fsm'  PROVE x \in Pages /\ Directory(x)' /\ Deleted(x)'
    <3>1. x \in Pages /\ Directory(x) /\ Deleted(x) /\ x # q /\ x # n
      BY DEF LinksOK
    <3>2. x \notin InLevels  BY <3>1 DEF InLevels
    <3>3. x # p /\ x # r  BY <1>1, <3>1, <3>2, PagesAre
    <3>4. page'[x] = page[x]  BY <1>6, <3>1, <3>3
    <3> QED  BY <3>1, <3>4 DEF Directory, Deleted
  <2> QED  BY <2>1
<1> QED  BY <1>9, <1>11, <1>13, <1>14, <1>15, <1>16, <1>17 DEF LinksOK

\* what becomes of the links when t, between a and h, leaves its level
Unlinks(t, a, h) ==
  /\ page'[t].state = "deleted" /\ page'[t].kind = page[t].kind
  /\ \A x \in Pages : x # t =>
       /\ page'[x].kind = page[x].kind /\ page'[x].state = page[x].state
       /\ page'[x].level = page[x].level
       /\ page'[x].right = IF x = a THEN h ELSE page[x].right
       /\ page'[x].left = IF x = h THEN a ELSE page[x].left

\* The last step of a deletion takes one page out of its level.
LEMMA UnlinkLinks ==
  ASSUME PagesOK, LinksOK, NEW t \in InLevels, t # root, page[t].right # NoPage,
         NEW a, a = page[t].left, NEW h, h = page[t].right,
         Unlinks(t, a, h),
         root' = root, fsm' = fsm
  PROVE  LinksOK' /\ InLevels' = InLevels \ {t} /\ Height' = Height
<1> USE DEF Unlinks
<1>1. /\ t # NoPage /\ t \in Pages /\ h \in InLevels /\ h # NoPage /\ page[h].left = t
      /\ Level(h) = Level(t) /\ h # t
      /\ a # NoPage => /\ a \in InLevels /\ page[a].right = t /\ Level(a) = Level(t)
                       /\ a # t /\ a # h
  <2>1. t # NoPage /\ t \in Pages /\ h \in InLevels /\ page[h].left = t
        /\ Level(h) = Level(t) /\ h # NoPage
    BY InLevelsIs, LinksOf
  <2>2. h # t /\ page[h].right # t  BY NoneTwice
  <2>3. a # NoPage => a \in InLevels /\ page[a].right = t /\ Level(a) = Level(t)
    BY LinksOf
  <2>4. a # NoPage => a # t /\ a # h  BY <2>2, <2>3
  <2> QED  BY <2>1, <2>2, <2>3, <2>4
<1>2. \A x \in Pages : x \in InLevels' <=>
         page'[x].kind \in {"leaf", "inner"} /\ page'[x].state # "deleted"
  BY DEF InLevels, Directory, Deleted
<1>3. InLevels' = InLevels \ {t}
  <2>1. InLevels' \subseteq Pages /\ InLevels \subseteq Pages  BY DEF InLevels
  <2>2. t \notin InLevels'  BY <1>1, <1>2
  <2>3. \A x \in Pages : x # t => (x \in InLevels' <=> x \in InLevels)
    BY <1>2, InLevelsIs
  <2> QED  BY <2>1, <2>2, <2>3
<1>4. \A x \in InLevels' : /\ x \in InLevels /\ x # t /\ x \in Pages /\ Level(x)' = Level(x)
         /\ page'[x].right = (IF x = a THEN h ELSE page[x].right)
         /\ page'[x].left = (IF x = h THEN a ELSE page[x].left)
  BY <1>3, InLevelsIs DEF Level
<1>5. \A x \in InLevels : Level(x) \in Nat  BY RootIs
<1>6. \A x \in InLevels' : LinkedRight(x)' /\ LinkedLeft(x)'
  <2>1. ASSUME NEW x \in InLevels'  PROVE LinkedRight(x)'
    <3>1. CASE x = a
      <4>1. a # NoPage  BY <1>4, <3>1, InLevelsIs
      <4>2. page'[x].right = h /\ page'[h].left = a /\ h \in InLevels'
        BY <1>1, <1>3, <1>4, <3>1
      <4>3. Level(h)' = Level(x)'  BY <1>1, <1>3, <1>4, <3>1, <4>1, <4>2
      <4> QED  BY <3>1, <4>2, <4>3 DEF LinkedRight
    <3>2. CASE x # a
      <4>1. page'[x].right = page[x].right  BY <1>4, <3>2
      <4>2. page[x].right # NoPage =>
              /\ page[x].right \in InLevels /\ page[page[x].right].left = x
              /\ Level(page[x].right) = Level(x)
        BY <1>4, LinksOf
      <4>3. page[x].right # NoPage => page[x].right # t /\ page[x].right # h
        BY <1>1, <1>4, <3>2, <4>2
      <4>4. page[x].right # NoPage => page[x].right \in InLevels'  BY <1>3, <4>2, <4>3
      <4> QED  BY <1>4, <4>1, <4>2, <4>3, <4>4 DEF LinkedRight
    <3> QED  BY <3>1, <3>2
  <2>2. ASSUME NEW x \in InLevels'  PROVE LinkedLeft(x)'
    <3>1. CASE x = h
      <4>1. page'[x].left = a  BY <1>4, <3>1
      <4>2. a # NoPage => a \in InLevels' /\ page'[a].right = h
        BY <1>1, <1>3, <1>4
      <4> QED  BY <3>1, <4>1, <4>2 DEF LinkedLeft
    <3>2. CASE x # h
      <4>1. page'[x].left = page[x].left  BY <1>4, <3>2
      <4>2. page[x].left # NoPage =>
              page[x].left \in InLevels /\ page[page[x].left].right = x
        BY <1>4, LinksOf
      <4>3. page[x].left # NoPage => page[x].left # t /\ page[x].left # a
        BY <1>1, <1>4, <3>2, <4>2
      <4>4. page[x].left # NoPage => page[x].left \in InLevels'  BY <1>3, <4>2, <4>3
      <4> QED  BY <1>4, <4>1, <4>2, <4>3, <4>4 DEF LinkedLeft
    <3> QED  BY <3>1, <3>2
  <2> QED  BY <2>1, <2>2
<1>7. Height' = Height
  <2>1. root \in InLevels /\ root \in Pages  BY RootIs
  <2>2. root \in InLevels'  BY <1>3, <2>1
  <2> QED  BY <1>4, <2>2 DEF Height, Level
<1>8. \A l \in (0 .. Height)' : OneEnd(l)'
  <2>1. ASSUME NEW l \in 0 .. Height  PROVE OneEnd(l)'
    <3>1. OneEnd(l)  BY DEF LinksOK
    <3>2. \A x : LeftEnd(x, l)' <=> (x # t /\ LeftEnd(x, l)) \/ (x = h /\ LeftEnd(t, l))
      <4>1. ASSUME NEW x, x \notin InLevels'
            PROVE  ~LeftEnd(x, l)' /\ (x # t => ~LeftEnd(x, l)) /\ x # h
        BY <1>1, <1>3, <4>1 DEF LeftEnd
      <4>2. ASSUME NEW x \in InLevels', x # h
            PROVE  LeftEnd(x, l)' <=> (x # t /\ LeftEnd(x, l))
        BY <1>4, <4>2 DEF LeftEnd
      <4>3. LeftEnd(h, l)' <=> LeftEnd(t, l)
        BY <1>1, <1>3, <1>4 DEF LeftEnd
      <4>4. ~LeftEnd(h, l) /\ h \in InLevels'  BY <1>1, <1>3 DEF LeftEnd
      <4> QED  BY <4>1, <4>2, <4>3, <4>4
    <3>3. \A x : RightEnd(x, l)' <=> RightEnd(x, l)
      <4>1. ASSUME NEW x, x \notin InLevels'
            PROVE  ~RightEnd(x, l)' /\ ~RightEnd(x, l)
        BY <1>1, <1>3, <4>1 DEF RightEnd
      <4>2. ASSUME NEW x \in InLevels'
            PROVE  RightEnd(x, l)' <=> RightEnd(x, l)
        <5>1. x = a => page[x].right # NoPage  BY <1>1, <1>4, InLevelsIs
        <5> QED  BY <1>1, <1>4, <5>1 DEF RightEnd
      <4> QED  BY <4>1, <4>2
    <3>4. h \in Pages /\ h # t  BY <1>1, InLevelsIs
    <3> HIDE DEF LeftEnd, RightEnd
    <3>5. \E x \in Pages : LeftEnd(x, l)'
      <4>1. PICK x \in Pages : LeftEnd(x, l)  BY <3>1 DEF OneEnd
      <4>2. CASE x = t  BY <3>2, <3>4, <4>1, <4>2
      <4>3. CASE x # t  BY <3>2, <4>1, <4>3
      <4> QED  BY <4>2, <4>3
    <3>6. \A x, y \in Pages : LeftEnd(x, l)' /\ LeftEnd(y, l)' => x = y
      BY <1>1, <3>1, <3>2 DEF OneEnd
    <3> QED  BY <3>1, <3>3, <3>5, <3>6 DEF OneEnd
  <2> QED  BY <1>7, <2>1
<1>9. NoCircle'
  <2>1. ASSUME NEW S \in SUBSET InLevels', Circle(S)'  PROVE S = {}
    <3> DEFINE T == IF a \in S THEN S \cup {t} ELSE S
    <3>1. \A x \in S : page'[x].right # NoPage /\ page'[x].right \in S
      BY <2>1 DEF Circle
    <3>2. T \in SUBSET InLevels /\ S \subseteq T  BY <1>3
    <3>3. ASSUME NEW x \in T  PROVE page[x].right # NoPage /\ page[x].right \in T
      <4>1. CASE x = t
        <5>1. a \in S  BY <1>3, <3>3, <4>1
        <5>2. page'[a].right = h  BY <1>4, <5>1
        <5> QED  BY <1>1, <3>1, <3>2, <4>1, <5>1, <5>2
      <4>2. CASE x = a /\ x # t
        <5>1. a \in S  BY <3>3, <4>2
        <5>2. a # NoPage  BY <1>4, <5>1, InLevelsIs
        <5> QED  BY <1>1, <4>2, <5>1, <5>2
      <4>3. CASE x # a /\ x # t
        <5>1. x \in S  BY <3>3, <4>3
        <5> QED  BY <1>4, <3>1, <3>2, <4>3, <5>1
      <4> QED  BY <4>1, <4>2, <4>3
    <3> HIDE DEF T
    <3>4. T = {}  BY <3>2, <3>3 DEF Circle, LinksOK, NoCircle
    <3> QED  BY <3>2, <3>4
  <2> QED  BY <2>1 DEF NoCircle
<1>10. RootOK'
  <2>1. RootOK  BY DEF LinksOK
  <2>2. root' = root /\ root \in InLevels' /\ root # h /\ root # a
    BY <1>1, <1>3, <2>1, InLevelsIs DEF RootOK
  <2>3. page'[root].left = NoPage /\ page'[root].right = NoPage
    BY <1>4, <2>1, <2>2 DEF RootOK
  <2>4. \A x \in InLevels' : Level(x)' <= Height /\ (Level(x)' = Height => x = root)
    BY <1>4, <2>1 DEF RootOK
  <2> QED  BY <1>7, <2>2, <2>3, <2>4 DEF RootOK
<1>11. fsm' \subseteq {x \in Pages : Directory(x)' /\ Deleted(x)'}
  <2>1. ASSUME NEW x \in fsm'  PROVE x \in Pages /\ Directory(x)' /\ Deleted(x)'
    <3>1. x \in Pages /\ Directory(x) /\ Deleted(x)  BY DEF LinksOK
    <3>2. x # t  BY <3>1, InLevelsIs DEF Deleted
    <3> QED  BY <3>1, <3>2 DEF Directory, Deleted
  <2> QED  BY <2>1
<1> QED  BY <1>3, <1>6, <1>7, <1>8, <1>9, <1>10, <1>11 DEF LinksOK

-----------------------------------------------------------------------------
(* New pages                                                               *)

\* The blocks allocated are in no level, and differ.
LEMMA Allocated ==
  ASSUME PagesOK, LinksOK, NEW q \in Pages, Allocates(q, {})
  PROVE  /\ CanAllocate(1) => q \notin InLevels
         /\ \A n \in Pages :
              CanAllocate(2) /\ Allocates(n, {q}) => n \notin InLevels /\ n # q
<1> DEFINE new == {p \in Pages : page[p].kind = "new"}
<1>1. /\ IsFiniteSet(fsm) /\ IsFiniteSet(new) /\ fsm \subseteq Pages
      /\ new \in SUBSET Nat /\ fsm \cap new = {}
  <2>1. fsm \subseteq {p \in Pages : Directory(p) /\ Deleted(p)}  BY DEF LinksOK
  <2>2. fsm \in SUBSET Pages /\ new \in SUBSET Pages  BY <2>1
  <2>3. fsm \cap new = {}  BY <2>1 DEF Directory
  <2> QED  BY <2>2, <2>3, PagesAre, FS_Subset
<1>2. \A p \in Pages : p \in fsm \/ p \in new => p \notin InLevels
  BY InLevelsIs DEF LinksOK, Deleted
<1>3. /\ CanAllocate(1) <=> Cardinality(fsm) + Cardinality(new) >= 1
      /\ CanAllocate(2) <=> Cardinality(fsm) + Cardinality(new) >= 2
  BY DEF CanAllocate
<1>4. q \in fsm \/ (fsm = {} /\ q = Min(new))
  <2>1. q \in fsm \ {} \/ (fsm \subseteq {} /\ q = Min(new \ {}))  BY DEF Allocates
  <2>2. new \ {} = new  OBVIOUS
  <2> HIDE DEF new
  <2> QED  BY <2>1, <2>2
<1> HIDE DEF new
<1>5. /\ Cardinality(fsm) \in Nat /\ Cardinality(new) \in Nat
      /\ Cardinality(fsm) = 0 <=> fsm = {}
      /\ Cardinality(new) = 0 <=> new = {}
  BY <1>1, FS_CardinalityType, FS_EmptySet
<1>6. Cardinality(fsm) + Cardinality(new) >= 1 => q \in fsm \/ q \in new
  <2>1. Cardinality(fsm) + Cardinality(new) >= 1 /\ fsm = {} => new # {}
    BY <1>5
  <2> QED  BY <1>1, <1>4, <2>1, MinIs
<1>7. ASSUME NEW n \in Pages, Cardinality(fsm) + Cardinality(new) >= 2, Allocates(n, {q})
      PROVE  n \notin InLevels /\ n # q
  <2>1. n \in fsm \ {q} \/ (fsm \subseteq {q} /\ n = Min(new \ {q}))
    BY <1>7 DEF Allocates, new
  <2>2. CASE n \in fsm \ {q}  BY <1>2, <2>2
  <2>3. CASE fsm \subseteq {q} /\ n = Min(new \ {q})
    <3>1. IsFiniteSet(new \ {q}) /\ (Cardinality(new \ {q}) =
            IF q \in new THEN Cardinality(new) - 1 ELSE Cardinality(new))
      BY <1>1, FS_RemoveElement
    <3>2. new \ {q} # {}
      <4>1. CASE q \in fsm
        <5>1. fsm = {q} /\ q \notin new  BY <1>1, <2>3, <4>1
        <5>2. Cardinality(fsm) = 1  BY <5>1, FS_Singleton
        <5>3. Cardinality(new) # 0  BY <1>5, <1>7, <5>2
        <5> QED  BY <1>5, <5>1, <5>3
      <4>2. CASE q \notin fsm
        <5>1. fsm = {}  BY <1>4, <4>2
        <5>2. Cardinality(new) >= 2  BY <1>5, <1>7, <5>1
        <5>3. Cardinality(new \ {q}) # 0  BY <1>5, <3>1, <5>2
        <5> QED  BY <5>3, FS_EmptySet
      <4> QED  BY <4>1, <4>2
    <3>3. n \in new \ {q}  BY <1>1, <2>3, <3>2, MinIs
    <3> QED  BY <1>2, <3>3
  <2> QED  BY <2>1, <2>2, <2>3
<1>8. CanAllocate(1) => q \notin InLevels  BY <1>2, <1>3, <1>6
<1> QED  BY <1>3, <1>7, <1>8

\* While there is an unused page there is a number for another level.
LEMMA RoomAbove ==
  ASSUME PagesOK, LinksOK, NEW n \in Pages, n \notin InLevels
  PROVE  LevelAbove(root)
<1>1. Height \in Nat  BY RootIs
<1> DEFINE f == [l \in 0 .. Height + 1 |->
                   IF l = Height + 1 THEN n
                   ELSE CHOOSE p \in InLevels : Level(p) = l]
<1>2. ASSUME NEW l \in 0 .. Height + 1, l # Height + 1
      PROVE  f[l] \in InLevels /\ Level(f[l]) = l
  <2>1. l \in 0 .. Height  BY <1>1, <1>2
  <2>2. \E p \in InLevels : Level(p) = l  BY <2>1 DEF LinksOK, OneEnd, LeftEnd
  <2> QED  BY <1>2, <2>2
<1>3. f[Height + 1] = n /\ Height + 1 \in 0 .. Height + 1  BY <1>1
<1>4. f \in [0 .. Height + 1 -> Pages]
  BY <1>2, InLevelsIs
<1> HIDE DEF f
<1>5. \A l, m \in 0 .. Height + 1 : f[l] = f[m] => l = m
  BY <1>2, <1>3
<1>6. /\ IsFiniteSet(0 .. Height + 1)
      /\ Cardinality(0 .. Height + 1) = Height + 2
  BY <1>1, FS_Interval
<1>7. ~(NPages < Height + 2)
  BY <1>4, <1>5, <1>6, PagesAre, FS_PigeonHole
<1> QED  BY <1>1, <1>7, PagesAre DEF LevelAbove, Height

-----------------------------------------------------------------------------
(* Steps and the pages                                                     *)

\* A step that writes none but p,
LEMMA OnePage ==
  ASSUME PagesOK, NEW p \in Pages, NEW new \in PageType, page' = [page EXCEPT ![p] = new],
         PageOK(p)'
  PROVE  PagesOK'
<1>1. page \in [Pages -> PageType]  BY DEF PagesOK
<1>2. page' \in [Pages -> PageType]  BY <1>1
<1>3. ASSUME NEW x \in Pages  PROVE PageOK(x)'
  <2>1. CASE x = p  BY <2>1
  <2>2. CASE x # p
    <3>1. page'[x] = page[x] /\ PageOK(x)  BY <1>1, <2>2 DEF PagesOK
    <3> QED  BY <3>1 DEF PageOK, Directory, Deleted, Rightmost, Level
  <2> QED  BY <2>1, <2>2
<1> QED  BY <1>2, <1>3 DEF PagesOK

\* and one that does not write p.
LEMMA SamePage ==
  ASSUME NEW p, page'[p] = page[p]
  PROVE  /\ PageOK(p)' <=> PageOK(p)
         /\ p \in InLevels' <=> p \in InLevels
         /\ Directory(p)' <=> Directory(p)
         /\ Deleted(p)' <=> Deleted(p)
         /\ Rightmost(p)' <=> Rightmost(p)
         /\ Level(p)' = Level(p)
         /\ LinkFields(p)' = LinkFields(p)
BY DEF PageOK, Directory, Deleted, Rightmost, Level, InLevels, LinkFields

\* A page whose links alone are written,
LEMMA LinkPage ==
  ASSUME NEW p \in Pages, PageOK(p), page[p] \in PageType, NEW x \in Links,
         \/ page'[p] = [page[p] EXCEPT !.left = x]
         \/ page'[p] = [page[p] EXCEPT !.right = x] /\ x # NoPage /\ Directory(p)
         \/ page'[p] = [page[p] EXCEPT !.owner = x]
  PROVE  page'[p] \in PageType /\ PageOK(p)'
<1>1. /\ page'[p] \in PageType
      /\ page'[p].kind = page[p].kind /\ page'[p].state = page[p].state
      /\ page'[p].level = page[p].level /\ page'[p].keys = page[p].keys
      /\ page'[p].down = page[p].down /\ page'[p].high = page[p].high
      /\ page'[p].flagged = page[p].flagged
      /\ page'[p].right = page[p].right \/ (page'[p].right # NoPage /\ Directory(p))
  BY DEF PageType
<1> QED  BY <1>1 DEF PageOK, Directory, Deleted, Rightmost, Level

\* what a half of p holds
HalfOK(p, X) ==
  /\ X.keys \in SUBSET Keys /\ IsFiniteSet(X.keys) /\ Cardinality(X.keys) <= LeafCap
  /\ X.down \in Seq(DownType) /\ Len(X.down) <= InnerCap
  /\ page[p].kind = "leaf" => X.down = <<>>
  /\ page[p].kind = "inner" => X.down # <<>> /\ X.down[1].sep = MinusInf

\* A split that leaves such halves.
LEMMA SplitPagesOK ==
  ASSUME PagesOK, LinksOK, NEW p \in InLevels, NEW q \in Pages, q \notin InLevels,
         NEW n, p = root => n \in Pages /\ n \notin InLevels /\ n # q,
         p # root => n = NoPage,
         NEW L, NEW R, HalfOK(p, L), HalfOK(p, R),
         NEW sep \in Keys \cup {MinusInf}, SplitRecord(p, L, R, sep, q, n)
  PROVE  PagesOK' /\ (p = root => LevelAbove(p))
<1>1. /\ p \in Pages /\ p # NoPage /\ q # NoPage /\ p # q /\ p # n /\ q # n
      /\ page[p].kind \in {"leaf", "inner"} /\ PageOK(p)
  BY InLevelsIs, PageIs, PagesAre
<1>2. p = root => LevelAbove(p)  BY RoomAbove
<1>3. /\ L.keys \in SUBSET Keys /\ IsFiniteSet(L.keys) /\ Cardinality(L.keys) <= LeafCap
      /\ L.down \in Seq(DownType) /\ Len(L.down) <= InnerCap
      /\ page[p].kind = "leaf" => L.down = <<>>
      /\ page[p].kind = "inner" => L.down # <<>> /\ L.down[1].sep = MinusInf
  BY DEF HalfOK
<1>4. /\ R.keys \in SUBSET Keys /\ IsFiniteSet(R.keys) /\ Cardinality(R.keys) <= LeafCap
      /\ R.down \in Seq(DownType) /\ Len(R.down) <= InnerCap
      /\ page[p].kind = "leaf" => R.down = <<>>
      /\ page[p].kind = "inner" => R.down # <<>> /\ R.down[1].sep = MinusInf
  BY DEF HalfOK
<1>5. page'[p] \in PageType /\ PageOK(p)'
  <2>1. /\ page'[p] \in PageType
        /\ page'[p].kind = page[p].kind /\ page'[p].state = "live"
        /\ page'[p].level = page[p].level /\ page'[p].keys = L.keys
        /\ page'[p].down = L.down /\ page'[p].right = q
    BY <1>1, <1>3, SplitLeft
  <2>2. page[p].kind = "leaf" <=> page[p].level = 0
    BY <1>1 DEF PageOK, Directory, Level
  <2> QED  BY <1>1, <1>3, <2>1, <2>2 DEF PageOK, Directory, Deleted, Rightmost, Level
<1>6. page'[q] \in PageType /\ PageOK(q)'
  <2>1. /\ page'[q] \in PageType
        /\ page'[q].kind = page[p].kind /\ page'[q].state = "live"
        /\ page'[q].level = page[p].level /\ page'[q].keys = R.keys
        /\ page'[q].down = R.down /\ ~page'[q].flagged
    BY <1>1, <1>4, SplitRight
  <2>2. page[p].kind = "leaf" <=> page[p].level = 0
    BY <1>1 DEF PageOK, Directory, Level
  <2> QED  BY <1>1, <1>4, <2>1, <2>2 DEF PageOK, Directory, Deleted, Rightmost, Level
<1>7. p = root => page'[n] \in PageType /\ PageOK(n)'
  <2> SUFFICES ASSUME p = root  PROVE page'[n] \in PageType /\ PageOK(n)'
    OBVIOUS
  <2>1. n \in Pages /\ n # p /\ n # q /\ LevelAbove(p)  BY <1>1, <1>2
  <2>2. /\ page'[n] \in PageType
        /\ page'[n].kind = "inner" /\ page'[n].state = "live"
        /\ page'[n].level = page[p].level + 1 /\ page'[n].keys = {}
        /\ page'[n].down = BothHalves(p, sep, q) /\ ~page'[n].flagged
    BY <1>1, <2>1, SplitRoot
  <2>3. Len(BothHalves(p, sep, q)) = 2 /\ BothHalves(p, sep, q) # <<>>
        /\ BothHalves(p, sep, q)[1].sep = MinusInf
    BY DEF BothHalves
  <2>4. 2 <= InnerCap
    <3>1. /\ MinDownlinks \in Nat /\ MinDownlinks >= 2
          /\ InnerCap + 1 >= 2 * MinDownlinks /\ InnerCap \in Nat
      BY CapsAssumption
    <3> QED  BY <3>1
  <2>5. Cardinality({}) <= LeafCap /\ IsFiniteSet({})
    BY CapsAssumption, FS_EmptySet
  <2>6. page[p].level + 1 # 0  BY <1>1, Fields
  <2> QED  BY <2>2, <2>3, <2>4, <2>5, <2>6
           DEF PageOK, Directory, Deleted, Rightmost, Level
<1>8. ASSUME NEW x \in Pages, x # p, x # q, ~(p = root /\ x = n)
      PROVE  page'[x] \in PageType /\ PageOK(x)'
  <2>1. x # n  BY <1>8, PagesAre
  <2>2. PageOK(x) /\ page[x] \in PageType  BY PageIs DEF PagesOK
  <2>3. CASE x = page[p].right
    <3>1. page'[x] = [page[x] EXCEPT !.left = q]  BY <1>8, <2>1, <2>3 DEF SplitRecord
    <3>2. q \in Links  BY PagesAre
    <3> QED  BY <2>2, <3>1, <3>2, LinkPage
  <2>4. CASE x # page[p].right
    <3>1. page'[x] = page[x]  BY <1>8, <2>1, <2>4 DEF SplitRecord
    <3> QED  BY <2>2, <3>1, SamePage
  <2> QED  BY <2>3, <2>4
<1>9. \A x \in Pages : page'[x] \in PageType /\ PageOK(x)'
  BY <1>5, <1>6, <1>7, <1>8
<1>10. page' = [x \in Pages |-> page'[x]]  BY DEF SplitRecord
<1>11. page' \in [Pages -> PageType]  BY <1>9, <1>10
<1> QED  BY <1>2, <1>9, <1>11 DEF PagesOK

-----------------------------------------------------------------------------
(* Steps, the sessions and VACUUM                                          *)

\* What no step does to a page of the levels, but for the one that takes it out.
Stays(p) ==
  /\ p \in InLevels' /\ Level(p)' = Level(p)
  /\ ~Rightmost(p) => ~Rightmost(p)'
  /\ page[p].state = "half" => page'[p].state = "half"

\* A step that writes no page.
LEMMA Quiet ==
  ASSUME PagesOK, LinksOK, page' = page, root' = root, fsm' = fsm
  PROVE  PagesOK' /\ LinksOK' /\ InLevels' = InLevels /\ \A p \in InLevels : Stays(p)
<1>1. \A p \in Pages : PageOK(p)' <=> PageOK(p)  BY SamePage
<1>2. PagesOK'  BY <1>1 DEF PagesOK
<1>3. InLevels' = InLevels  BY DEF InLevels, Directory, Deleted
<1>4. \A p \in fsm' : p \in Pages /\ Directory(p)' /\ Deleted(p)'
  BY DEF LinksOK, Directory, Deleted
<1>5. LinksOK'  BY <1>3, <1>4, KeepsLinks DEF LinkFields
<1> QED  BY <1>2, <1>3, <1>5 DEF Stays, Level, Rightmost

\* the pages a session holds after a step are in the levels then
Holds(stack) ==
  \A i \in DOMAIN stack : stack[i].page \in InLevels' /\ ~Rightmost(stack[i].page)'

\* A step of session c, which is at w after it;
LEMMA CallStep ==
  ASSUME CallsOK, NEW c \in Sessions, NEW w \in CallType, client' = [client EXCEPT ![c] = w],
         w.phase # "rest" => w.key \in Keys,
         w.phase \in {"scan", "clear"} => w.stack # <<>>,
         Holds(w.stack), \A d \in Sessions : Holds(client[d].stack),
         cached' \in [Sessions -> Links], waits' \in [Pages -> SUBSET Sessions]
  PROVE  CallsOK'
<1>1. client \in [Sessions -> CallType]  BY DEF CallsOK
<1>2. client' \in [Sessions -> CallType]  BY <1>1
<1>3. ASSUME NEW d \in Sessions  PROVE CallOK(d)'
  <2>1. CASE d = c
    <3>1. client'[d] = w  BY <1>1, <2>1
    <3> QED  BY <3>1 DEF CallOK, Climbing, Holds
  <2>2. CASE d # c
    <3>1. client'[d] = client[d] /\ CallOK(d)  BY <1>1, <2>2 DEF CallsOK
    <3>2. Holds(client[d].stack)  OBVIOUS
    <3> QED  BY <3>1, <3>2 DEF CallOK, Climbing, Holds
  <2> QED  BY <2>1, <2>2
<1> QED  BY <1>2, <1>3 DEF CallsOK

\* and a step of none.
LEMMA NoCallStep ==
  ASSUME CallsOK, client' = client, \A d \in Sessions : Holds(client[d].stack),
         cached' = cached, waits' \in [Pages -> SUBSET Sessions]
  PROVE  CallsOK'
<1>1. ASSUME NEW d \in Sessions  PROVE CallOK(d)'
  <2>1. CallOK(d) /\ Holds(client[d].stack)  BY DEF CallsOK
  <2> QED  BY <2>1 DEF CallOK, Climbing, Holds
<1> QED  BY <1>1 DEF CallsOK

\* What a session holds it goes on holding.
LEMMA StaysHeld ==
  ASSUME CallsOK, \A p \in InLevels : Stays(p)
  PROVE  \A d \in Sessions : Holds(client[d].stack)
<1> SUFFICES ASSUME NEW d \in Sessions, NEW i \in DOMAIN client[d].stack
             PROVE  client[d].stack[i].page \in InLevels' /\ ~Rightmost(client[d].stack[i].page)'
  BY DEF Holds
<1>1. client[d].stack[i].page \in InLevels /\ ~Rightmost(client[d].stack[i].page)
  BY DEF CallsOK, CallOK
<1>2. Stays(client[d].stack[i].page)  BY <1>1
<1> QED  BY <1>1, <1>2 DEF Stays

LEMMA HalfInLevels ==
  ASSUME PagesOK
  PROVE  HalfDead \subseteq InLevels
BY OutOfLevels DEF HalfDead

\* A leaf that is in the levels, at the bottom of them, and not the last one there.
HeldLeaf(p) == p \in InLevels /\ Level(p) = 0 /\ ~Rightmost(p)

\* VACUUM is where it was, and may have seen less.
LEMMA VacStays ==
  ASSUME PagesOK, VacOK, \A p \in InLevels : Stays(p), NEW S \in SUBSET Keys,
         vac' = vac \/ vac' = [vac EXCEPT !.seen = S]
  PROVE  VacOK'
<1>1. vac \in VacType  BY DEF VacOK
<1>2. /\ vac' \in VacType /\ vac'.phase = vac.phase /\ vac'.leaf = vac.leaf
      /\ vac'.child = vac.child
  BY <1>1 DEF VacType
<1>3. vac.phase \notin {"asleep", "sweep"} => vac.leaf \in Pages  BY DEF VacOK
<1>4. ASSUME vac.phase \in {"root", "walk", "scan"}  PROVE HeldLeaf(vac.leaf)'
  <2>1. HeldLeaf(vac.leaf)  BY <1>4 DEF VacOK, HeldLeaf
  <2>2. Stays(vac.leaf)  BY <2>1 DEF HeldLeaf
  <2> QED  BY <1>2, <2>1, <2>2 DEF HeldLeaf, Stays
<1>5. ASSUME vac.phase \in {"unlink", "left"}  PROVE vac.leaf \in HalfDead'
  <2>1. vac.leaf \in HalfDead  BY <1>5 DEF VacOK
  <2>2. vac.leaf \in InLevels  BY <2>1, HalfInLevels
  <2> QED  BY <2>1, <2>2 DEF Stays, HalfDead
<1>6. vac.phase = "left" => vac.child \in Pages  BY DEF VacOK
<1> QED  BY <1>2, <1>3, <1>4, <1>5, <1>6 DEF VacOK, HeldLeaf

\* What a step may set the fields of a call to,
Sets(g) ==
  /\ DOMAIN g \subseteq {"op", "key", "phase", "at", "level", "fresh", "stack",
                        "placed", "found"}
  /\ "op" \in DOMAIN g => g.op \in {"find", "insert"}
  /\ "key" \in DOMAIN g => g.key \in Keys
  /\ "phase" \in DOMAIN g => g.phase \in {"root", "walk", "scan", "clear"}
  /\ "at" \in DOMAIN g => g.at \in Links
  /\ "level" \in DOMAIN g => g.level \in Nat
  /\ "fresh" \in DOMAIN g => g.fresh \in Nat
  /\ "stack" \in DOMAIN g => g.stack \in Seq([page : Pages, linked : BOOLEAN])
  /\ "placed" \in DOMAIN g => g.placed \in BOOLEAN
  /\ "found" \in DOMAIN g => g.found \in {"none", "there", "absent"}

\* and the call with them set.
LEMMA WithCall ==
  ASSUME NEW w \in CallType, NEW g, Sets(g)
  PROVE  /\ With(w, g) \in CallType
         /\ With(w, g).key = IF "key" \in DOMAIN g THEN g.key ELSE w.key
         /\ With(w, g).phase = IF "phase" \in DOMAIN g THEN g.phase ELSE w.phase
         /\ With(w, g).stack = IF "stack" \in DOMAIN g THEN g.stack ELSE w.stack
BY DEF With, CallType, Sets

\* A place in a call that a session may be at.
Fits(w) ==
  /\ w \in CallType
  /\ w.phase # "rest" => w.key \in Keys
  /\ w.phase \in {"scan", "clear"} => w.stack # <<>>
  /\ \A i \in DOMAIN w.stack :
       w.stack[i].page \in InLevels /\ ~Rightmost(w.stack[i].page)

LEMMA FitsNow ==
  ASSUME CallsOK, NEW c \in Sessions
  PROVE  Fits(client[c])
BY DEF CallsOK, CallOK, Climbing, Fits

\* A step that takes no page out of the levels, with the session at w after it;
LEMMA CallOn ==
  ASSUME CallsOK, \A p \in InLevels : Stays(p), NEW c \in Sessions, NEW w, Fits(w),
         client' = [client EXCEPT ![c] = w],
         cached' \in [Sessions -> Links], waits' \in [Pages -> SUBSET Sessions]
  PROVE  CallsOK'
<1>1. \A d \in Sessions : Holds(client[d].stack)  BY StaysHeld
<1>2. Holds(w.stack)
  <2> SUFFICES ASSUME NEW i \in DOMAIN w.stack
               PROVE  w.stack[i].page \in InLevels' /\ ~Rightmost(w.stack[i].page)'
    BY DEF Holds
  <2>1. w.stack[i].page \in InLevels /\ ~Rightmost(w.stack[i].page)  BY DEF Fits
  <2>2. Stays(w.stack[i].page)  BY <2>1
  <2> QED  BY <2>1, <2>2 DEF Stays
<1> QED  BY <1>1, <1>2, CallStep DEF Fits

\* one that writes no page either.
LEMMA QuietCall ==
  ASSUME Inv, NEW c \in Sessions, NEW w, Fits(w), client' = [client EXCEPT ![c] = w],
         page' = page, root' = root, fsm' = fsm,
         cached' \in [Sessions -> Links], waits' \in [Pages -> SUBSET Sessions],
         NEW S \in SUBSET Keys, vac' = vac \/ vac' = [vac EXCEPT !.seen = S]
  PROVE  Inv'
<1>1. PagesOK /\ LinksOK /\ CallsOK /\ VacOK  BY DEF Inv
<1>2. PagesOK' /\ LinksOK' /\ \A p \in InLevels : Stays(p)  BY <1>1, Quiet
<1>3. CallsOK'  BY <1>1, <1>2, CallOn
<1>4. VacOK'  BY <1>1, <1>2, VacStays
<1> QED  BY <1>2, <1>3, <1>4 DEF Inv

LEMMA CallFields ==
  ASSUME CallsOK, NEW c \in Sessions
  PROVE  /\ client[c] \in CallType /\ client[c].at \in Links
         /\ client[c].level \in Nat /\ client[c].fresh \in Nat
         /\ client[c].stack \in Seq([page : Pages, linked : BOOLEAN])
         /\ client[c].placed \in BOOLEAN
         /\ cached[c] \in Links /\ cached \in [Sessions -> Links]
         /\ waits \in [Pages -> SUBSET Sessions]
<1>1. client[c] \in CallType  BY DEF CallsOK
<1> QED  BY <1>1 DEF CallsOK, CallType

\* A session ends its call,
LEMMA EndStep ==
  ASSUME CallsOK, NEW c \in Sessions, NEW found \in {"none", "there", "absent"},
         Ends(c, found)
  PROVE  /\ waits' \in [Pages -> SUBSET Sessions]
         /\ \E w : /\ client' = [client EXCEPT ![c] = w] /\ Fits(w)
                   /\ w.phase = "rest" /\ w.stack = <<>>
<1> DEFINE w == [Resting EXCEPT !.found = found]
<1>1. w \in CallType /\ w.phase = "rest" /\ w.stack = <<>>
  <2>1. <<>> \in Seq([page : Pages, linked : BOOLEAN])  OBVIOUS
  <2>2. 0 \in Nat /\ 0 \in Keys \cup {MinusInf} /\ NoPage \in Links
    BY PagesAre DEF MinusInf
  <2>3. Resting \in CallType /\ Resting.phase = "rest" /\ Resting.stack = <<>>
    BY <2>1, <2>2 DEF CallType, Resting
  <2> QED  BY <2>3 DEF CallType
<1>2. client' = [client EXCEPT ![c] = w]  BY DEF Ends
<1> HIDE DEF w
<1>3. Fits(w)  BY <1>1 DEF Fits
<1>4. waits' = [p \in Pages |-> waits[p] \ {c}]  BY DEF Ends
<1>5. waits \in [Pages -> SUBSET Sessions]  BY CallFields
<1>6. waits' \in [Pages -> SUBSET Sessions]
  <2>1. \A p \in Pages : waits[p] \ {c} \in SUBSET Sessions  BY <1>5
  <2> QED  BY <1>4, <2>1
<1> QED  BY <1>1, <1>2, <1>3, <1>6

\* goes on with some fields set,
LEMMA GotoStep ==
  ASSUME CallsOK, NEW c \in Sessions, NEW g, Sets(g), Goto(c, g)
  PROVE  \E w \in CallType :
           /\ client' = [client EXCEPT ![c] = w]
           /\ w.key = IF "key" \in DOMAIN g THEN g.key ELSE client[c].key
           /\ w.phase = IF "phase" \in DOMAIN g THEN g.phase ELSE client[c].phase
           /\ w.stack = IF "stack" \in DOMAIN g THEN g.stack ELSE client[c].stack
<1>1. client[c] \in CallType  BY CallFields
<1>2. client' = [client EXCEPT ![c] = With(client[c], g)]  BY <1>1 DEF Goto, CallsOK
<1>3. PICK w : w = With(client[c], g)  OBVIOUS
<1>4. /\ w \in CallType
      /\ w.key = IF "key" \in DOMAIN g THEN g.key ELSE client[c].key
      /\ w.phase = IF "phase" \in DOMAIN g THEN g.phase ELSE client[c].phase
      /\ w.stack = IF "stack" \in DOMAIN g THEN g.stack ELSE client[c].stack
  BY <1>1, <1>3, WithCall
<1> QED  BY <1>2, <1>3, <1>4

\* and starts from the root.
LEMMA RootStep ==
  ASSUME CallsOK, root \in Pages, Height \in Nat, NEW c \in Sessions, NEW g, Sets(g),
         ToRoot(c, g)
  PROVE  /\ cached' \in [Sessions -> Links]
         /\ \E w \in CallType :
              /\ client' = [client EXCEPT ![c] = w] /\ w.phase = "root"
              /\ w.key = IF "key" \in DOMAIN g THEN g.key ELSE client[c].key
              /\ w.stack = IF "stack" \in DOMAIN g THEN g.stack ELSE client[c].stack
<1>1. client[c] \in CallType /\ cached[c] \in Links /\ cached \in [Sessions -> Links]
  BY CallFields
<1>2. cached' = [cached EXCEPT ![c] = IF cached[c] # NoPage THEN cached[c] ELSE root]
  BY <1>1 DEF ToRoot
<1>3. cached' \in [Sessions -> Links]  BY <1>1, <1>2, PagesAre
<1>4. PICK u : u = With(client[c], g)  OBVIOUS
<1>5. /\ u \in CallType
      /\ u.key = IF "key" \in DOMAIN g THEN g.key ELSE client[c].key
      /\ u.stack = IF "stack" \in DOMAIN g THEN g.stack ELSE client[c].stack
  BY <1>1, <1>4, WithCall
<1>6. PICK a, f, h : /\ a = IF cached[c] # NoPage THEN cached[c] ELSE root
                     /\ f = (IF cached[c] # NoPage THEN 0 ELSE Height + 1)
                     /\ h = [phase |-> "root", at |-> a, level |-> 0, fresh |-> f]
  OBVIOUS
<1>7. a \in Links /\ f \in Nat  BY <1>1, <1>6, PagesAre
<1>8. /\ DOMAIN h = {"phase", "at", "level", "fresh"} /\ h.phase = "root" /\ h.at = a
      /\ h.level = 0 /\ h.fresh = f
  BY <1>6
<1>9. PICK w : w = With(u, h)  OBVIOUS
<1>10. Sets(h)  BY <1>7, <1>8 DEF Sets
<1>11. w \in CallType /\ w.phase = "root" /\ w.key = u.key /\ w.stack = u.stack
  <2>1. "key" \notin DOMAIN h /\ "stack" \notin DOMAIN h /\ "phase" \in DOMAIN h
    BY <1>8
  <2> QED  BY <1>5, <1>8, <1>9, <1>10, <2>1, WithCall
<1>12. client' = [client EXCEPT ![c] = w]
  <2>1. client' = [client EXCEPT ![c] = With(With(client[c], g),
            [phase |-> "root", at |-> IF cached[c] # NoPage THEN cached[c] ELSE root,
             level |-> 0, fresh |-> IF cached[c] # NoPage THEN 0 ELSE Height + 1])]
    BY <1>1 DEF ToRoot, CallsOK
  <2> QED  BY <1>4, <1>6, <1>9, <2>1
<1> QED  BY <1>3, <1>5, <1>11, <1>12

-----------------------------------------------------------------------------
(* The steps of a session that write no page                               *)

Stack == Seq([page : Pages, linked : BOOLEAN])

\* pages that a session may hold
Holdable(stack) ==
  \A i \in DOMAIN stack : stack[i].page \in InLevels /\ ~Rightmost(stack[i].page)

LEMMA ReadsIs ==
  ASSUME Inv, NEW c \in Sessions, Reads(c)
  PROVE  /\ Here(c) \in Pages /\ Directory(Here(c))
         /\ client[c].phase # "rest" /\ client[c].key \in Keys
         /\ client[c].phase = "scan" => Climbing(c)
         /\ Holdable(client[c].stack) /\ client[c].stack \in Stack
<1>1. CallsOK /\ RootOK  BY DEF Inv, LinksOK
<1>2. Fits(client[c]) /\ client[c].stack \in Stack
  BY <1>1, FitsNow, CallFields DEF Stack
<1>3. Here(c) = root \/ Directory(Here(c))  BY DEF Reads, IsAtLevel
<1>4. Here(c) \in Pages /\ Directory(Here(c))
  BY <1>1, <1>3, InLevelsIs DEF Directory, RootOK
<1> QED  BY <1>2, <1>4 DEF Reads, Fits, Climbing, Holdable

\* The downlinks a session follows.
LEMMA DownTo ==
  ASSUME PagesOK, NEW p \in Pages, page[p].kind = "inner", ~Deleted(p)
  PROVE  /\ page[p].down # <<>> /\ page[p].level > 0
         /\ page[p].down[1].child \in Pages
         /\ \A k \in Nat : page[p].down[DownlinkFor(p, k)].child \in Pages
<1>1. Directory(p)  BY DEF Directory
<1>2. page[p].down # <<>> /\ page[p].down[1].sep = 0 /\ page[p].level > 0
  BY <1>1, PageIs, Fields DEF PageOK, Level, MinusInf
<1>3. /\ DOMAIN page[p].down = 1 .. Len(page[p].down) /\ Len(page[p].down) \in Nat
      /\ \A i \in DOMAIN page[p].down :
           page[p].down[i].child \in Pages /\ page[p].down[i].sep \in Nat
  BY DownItems
<1>4. 1 \in DOMAIN page[p].down
  <2>1. page[p].down \in Seq(DownType)  BY Fields
  <2> QED  BY <1>2, <1>3, <2>1
<1>5. ASSUME NEW k \in Nat  PROVE DownlinkFor(p, k) \in DOMAIN page[p].down
  <2> DEFINE T == {i \in DOMAIN page[p].down : page[p].down[i].sep <= k}
  <2>1. 1 \in T  BY <1>2, <1>4
  <2>2. T \in SUBSET (0 .. Len(page[p].down))  BY <1>3
  <2>3. Max(T) \in T  BY <1>3, <2>1, <2>2, MaxIs
  <2> QED  BY <2>3 DEF DownlinkFor
<1> QED  BY <1>2, <1>3, <1>4, <1>5

LEMMA WalkStep ==
  ASSUME Inv, NEW c \in Sessions, client[c].phase # "rest", NEW a \in Links,
         NEW l \in Nat, WalksTo(c, a, l)
  PROVE  Inv'
<1>1. CallsOK /\ Fits(client[c])  BY FitsNow DEF Inv
<1>2. PICK g : g = [phase |-> "walk", at |-> a, level |-> l, fresh |-> 0]  OBVIOUS
<1>3. /\ DOMAIN g = {"phase", "at", "level", "fresh"} /\ g.phase = "walk" /\ g.at = a
      /\ g.level = l /\ g.fresh = 0
  BY <1>2
<1>4. Sets(g)  BY <1>3 DEF Sets
<1>5. Goto(c, g) /\ page' = page /\ root' = root /\ fsm' = fsm /\ cached' = cached
      /\ waits' = waits /\ vac' = vac
  BY <1>2 DEF WalksTo
<1>6. PICK w \in CallType :
        /\ client' = [client EXCEPT ![c] = w] /\ w.phase = "walk"
        /\ w.key = client[c].key /\ w.stack = client[c].stack
  <2>1. "key" \notin DOMAIN g /\ "stack" \notin DOMAIN g /\ "phase" \in DOMAIN g
    BY <1>3
  <2> QED  BY <1>1, <1>3, <1>4, <1>5, <2>1, GotoStep
<1>7. Fits(w)  BY <1>1, <1>6 DEF Fits
<1>8. cached' \in [Sessions -> Links] /\ waits' \in [Pages -> SUBSET Sessions]
  BY <1>1, <1>5, CallFields
<1> QED  BY <1>5, <1>6, <1>7, <1>8, QuietCall

LEMMA BeginQuiet ==
  ASSUME Inv, NEW c \in Sessions, Begin(c)
  PROVE  Inv'
<1>1. CallsOK /\ Fits(client[c]) /\ PagesOK /\ LinksOK  BY FitsNow DEF Inv
<1>2. root \in Pages /\ Height \in Nat  BY <1>1, RootIs
<1>3. PICK op \in {"find", "insert"}, k \in Keys :
        ToRoot(c, [op |-> op, key |-> k, found |-> "none"])
  BY DEF Begin
<1>4. PICK g : g = [op |-> op, key |-> k, found |-> "none"]  OBVIOUS
<1>5. /\ DOMAIN g = {"op", "key", "found"} /\ g.op = op /\ g.key = k
      /\ g.found = "none"
  BY <1>4
<1>6. Sets(g)  BY <1>5 DEF Sets
<1>7. cached' \in [Sessions -> Links]  BY <1>1, <1>2, <1>3, <1>4, <1>6, RootStep
<1>8. PICK w \in CallType :
        /\ client' = [client EXCEPT ![c] = w] /\ w.phase = "root"
        /\ w.key = k /\ w.stack = client[c].stack
  <2>1. "key" \in DOMAIN g /\ "stack" \notin DOMAIN g  BY <1>5
  <2> QED  BY <1>1, <1>2, <1>3, <1>4, <1>5, <1>6, <2>1, RootStep
<1>9. Fits(w)  BY <1>1, <1>8 DEF Fits
<1>10. /\ page' = page /\ root' = root /\ fsm' = fsm /\ vac' = vac
       /\ waits' \in [Pages -> SUBSET Sessions]
  BY <1>1, CallFields DEF Begin
<1> QED  BY <1>7, <1>8, <1>9, <1>10, QuietCall

\* A call that ends, with nothing written.
LEMMA EndQuiet ==
  ASSUME Inv, NEW c \in Sessions, NEW found \in {"none", "there", "absent"},
         Ends(c, found), page' = page, root' = root, fsm' = fsm, cached' = cached,
         NEW S \in SUBSET Keys, vac' = vac \/ vac' = [vac EXCEPT !.seen = S]
  PROVE  Inv'
<1>1. CallsOK  BY DEF Inv
<1>2. waits' \in [Pages -> SUBSET Sessions]  BY <1>1, EndStep
<1>3. PICK w : client' = [client EXCEPT ![c] = w] /\ Fits(w)  BY <1>1, EndStep
<1>4. cached' \in [Sessions -> Links]  BY <1>1, CallFields
<1> QED  BY <1>2, <1>3, <1>4, QuietCall

LEMMA SeenIs ==
  ASSUME Inv
  PROVE  vac.seen \in SUBSET Keys
BY DEF Inv, VacOK, VacType

LEMMA FailQuiet ==
  ASSUME Inv, NEW c \in Sessions, Fail(c)
  PROVE  Inv'
BY EndQuiet, SeenIs DEF Fail

LEMMA AnswerQuiet ==
  ASSUME Inv, NEW c \in Sessions, Answer(c)
  PROVE  Inv'
<1>1. PICK found \in {"none", "there", "absent"} : Ends(c, found)  BY DEF Answer
<1> QED  BY <1>1, EndQuiet, SeenIs DEF Answer

LEMMA FindEntryQuiet ==
  ASSUME Inv, NEW c \in Sessions, FindEntry(c)
  PROVE  Inv'
<1>1. vac' = [vac EXCEPT !.seen = vac.seen \ {client[c].key}]
  BY DEF FindEntry, Inv, VacOK, VacType
<1>2. vac.seen \ {client[c].key} \in SUBSET Keys  BY SeenIs
<1> QED  BY <1>1, <1>2, EndQuiet DEF FindEntry

LEMMA RootMovedQuiet ==
  ASSUME Inv, NEW c \in Sessions, RootMoved(c)
  PROVE  Inv'
<1>1. CallsOK /\ Fits(client[c]) /\ PagesOK /\ LinksOK  BY FitsNow DEF Inv
<1>2. root \in Pages /\ Height \in Nat /\ root \in Links  BY <1>1, RootIs, PagesAre
<1>3. PICK g : g = [at |-> root, fresh |-> Height + 1]  OBVIOUS
<1>4. DOMAIN g = {"at", "fresh"} /\ g.at = root /\ g.fresh = Height + 1  BY <1>3
<1>5. Sets(g)  BY <1>2, <1>4 DEF Sets
<1>6. PICK w \in CallType :
        /\ client' = [client EXCEPT ![c] = w] /\ w.phase = client[c].phase
        /\ w.key = client[c].key /\ w.stack = client[c].stack
  <2>1. "key" \notin DOMAIN g /\ "stack" \notin DOMAIN g /\ "phase" \notin DOMAIN g
    BY <1>4
  <2>2. Goto(c, g)  BY <1>3 DEF RootMoved
  <2> QED  BY <1>1, <1>4, <1>5, <2>1, <2>2, GotoStep
<1>7. Fits(w)  BY <1>1, <1>6 DEF Fits
<1>8. /\ page' = page /\ root' = root /\ fsm' = fsm /\ vac' = vac
      /\ waits' \in [Pages -> SUBSET Sessions] /\ cached' \in [Sessions -> Links]
  BY <1>1, <1>2, CallFields DEF RootMoved
<1> QED  BY <1>6, <1>7, <1>8, SeenIs, QuietCall

LEMMA MoveRightQuiet ==
  ASSUME Inv, NEW c \in Sessions, MoveRight(c)
  PROVE  Inv'
<1>1. Reads(c) /\ WalksTo(c, page[Here(c)].right, page[Here(c)].level)
  BY DEF MoveRight, Descending
<1>2. Here(c) \in Pages /\ client[c].phase # "rest"  BY <1>1, ReadsIs
<1>3. page[Here(c)].right \in Links /\ page[Here(c)].level \in Nat
  BY <1>2, Fields DEF Inv
<1> QED  BY <1>1, <1>2, <1>3, WalkStep

LEMMA DescendQuiet ==
  ASSUME Inv, NEW c \in Sessions, Descend(c)
  PROVE  Inv'
<1>1. PICK p, k : p = Here(c) /\ k = client[c].key  OBVIOUS
<1>2. Reads(c) /\ page[p].kind = "inner" /\ ~PastHigh(p, k)
      /\ WalksTo(c, page[p].down[DownlinkFor(p, k)].child, page[p].level - 1)
  BY <1>1 DEF Descend, Descending
<1>3. p \in Pages /\ client[c].phase # "rest" /\ k \in Nat /\ Directory(p) /\ PagesOK
  BY <1>1, <1>2, ReadsIs, KeysAre DEF Inv
<1>4. ~Deleted(p)
  BY <1>2, <1>3, PageIs DEF PageOK, PastHigh, Deleted, MinusInf
<1>5. page[p].level > 0 /\ page[p].down[DownlinkFor(p, k)].child \in Pages
  BY <1>2, <1>3, <1>4, DownTo
<1>6. page[p].level - 1 \in Nat /\ page[p].down[DownlinkFor(p, k)].child \in Links
  BY <1>3, <1>5, Fields, PagesAre
<1> QED  BY <1>2, <1>3, <1>6, WalkStep

\* The page whose split a session is finishing.
LEMMA TopIs ==
  ASSUME PagesOK, NEW c \in Sessions, Climbing(c), client[c].stack \in Stack,
         Holdable(client[c].stack)
  PROVE  /\ Top(c).page \in InLevels /\ ~Rightmost(Top(c).page)
         /\ Top(c).page \in Pages /\ page[Top(c).page].right \in Pages
         /\ ParentLevel(c) \in Nat /\ ParentLevel(c) > 0
<1> DEFINE s == client[c].stack
<1>1. s # <<>> /\ s \in Stack  BY DEF Climbing
<1>2. Len(s) \in DOMAIN s  BY <1>1 DEF Stack
<1>3. Top(c) = s[Len(s)]  BY DEF Top, Last
<1> HIDE DEF s
<1>4. Top(c).page \in InLevels /\ ~Rightmost(Top(c).page)
  BY <1>2, <1>3 DEF Holdable, s
<1>5. Top(c).page \in Pages  BY <1>4, InLevelsIs
<1>6. page[Top(c).page].right \in Links /\ page[Top(c).page].level \in Nat
  BY <1>5, Fields
<1> QED  BY <1>4, <1>5, <1>6, PagesAre DEF Rightmost, ParentLevel

LEMMA RouteIs ==
  ASSUME PagesOK, NEW p \in Pages
  PROVE  RouteKey(p) \in Nat
<1>1. page[p].keys \in SUBSET Nat  BY Fields, KeysAre
<1>2. page[p].keys # {} => Min(page[p].keys) \in Nat  BY <1>1, MinIs
<1>3. Len(page[p].down) >= 2 => page[p].down[2].sep \in Nat
  BY DownItems
<1>4. Len(page[p].down) \in Nat  BY DownItems
<1> QED  BY <1>2, <1>3, <1>4 DEF RouteKey, MinusInf

LEMMA ClimbQuiet ==
  ASSUME Inv, NEW c \in Sessions, Climb(c)
  PROVE  Inv'
<1>1. PICK p, k : p = Here(c) /\ k = Route(c)  OBVIOUS
<1>2. Reads(c) /\ Climbing(c) /\ page[p].level > ParentLevel(c)
  BY <1>1 DEF Climb, Climbs
<1>3. /\ p \in Pages /\ client[c].phase # "rest" /\ Directory(p) /\ PagesOK
      /\ Holdable(client[c].stack) /\ client[c].stack \in Stack
  BY <1>1, <1>2, ReadsIs DEF Inv
<1>4. Top(c).page \in Pages /\ ParentLevel(c) \in Nat  BY <1>2, <1>3, TopIs
<1>5. k \in Nat  BY <1>1, <1>3, <1>4, RouteIs DEF Route
<1>6. page[p].level \in Nat /\ page[p].level > 0 /\ page[p].right \in Links
  BY <1>2, <1>3, <1>4, Fields
<1>7. CASE (k = MinusInf /\ Deleted(p)) \/ (k # MinusInf /\ PastHigh(p, k))
  <2>1. WalksTo(c, page[p].right, page[p].level)  BY <1>1, <1>7 DEF Climb
  <2> QED  BY <1>3, <1>6, <2>1, WalkStep
<1>8. CASE ~((k = MinusInf /\ Deleted(p)) \/ (k # MinusInf /\ PastHigh(p, k)))
  <2>1. WalksTo(c, page[p].down[IF k = MinusInf THEN 1 ELSE DownlinkFor(p, k)].child,
                page[p].level - 1)
    BY <1>1, <1>8 DEF Climb
  <2>2. ~Deleted(p)
    BY <1>3, <1>5, <1>8, PageIs DEF PageOK, PastHigh, Deleted, MinusInf
  <2>3. page[p].kind = "inner"
    BY <1>3, <1>6, PageIs DEF PageOK, Level, Directory
  <2>4. page[p].down[IF k = MinusInf THEN 1 ELSE DownlinkFor(p, k)].child \in Links
    BY <1>3, <1>5, <2>2, <2>3, DownTo, PagesAre
  <2>5. page[p].level - 1 \in Nat  BY <1>6
  <2> QED  BY <1>3, <2>1, <2>4, <2>5, WalkStep
<1> QED  BY <1>7, <1>8

LEMMA ReachParentsQuiet ==
  ASSUME Inv, NEW c \in Sessions, ReachParents(c)
  PROVE  Inv'
<1>1. CallsOK /\ Fits(client[c]) /\ PagesOK  BY FitsNow DEF Inv
<1>2. PICK p, l : p = Here(c) /\ l = page[p].level  OBVIOUS
<1>3. Reads(c) /\ Climbing(c)  BY DEF ReachParents, Climbs
<1>4. p \in Links /\ l \in Nat /\ client[c].phase # "rest"
  BY <1>1, <1>2, <1>3, ReadsIs, Fields, PagesAre
<1>5. PICK g : g = [phase |-> "scan", at |-> p, level |-> l, fresh |-> 0]  OBVIOUS
<1>6. /\ DOMAIN g = {"phase", "at", "level", "fresh"} /\ g.phase = "scan" /\ g.at = p
      /\ g.level = l /\ g.fresh = 0
  BY <1>5
<1>7. Sets(g)  BY <1>4, <1>6 DEF Sets
<1>8. PICK w \in CallType :
        /\ client' = [client EXCEPT ![c] = w] /\ w.phase = "scan"
        /\ w.key = client[c].key /\ w.stack = client[c].stack
  <2>1. "key" \notin DOMAIN g /\ "stack" \notin DOMAIN g /\ "phase" \in DOMAIN g
    BY <1>6
  <2>2. Goto(c, g)  BY <1>2, <1>5 DEF ReachParents
  <2> QED  BY <1>1, <1>6, <1>7, <2>1, <2>2, GotoStep
<1>9. Fits(w)  BY <1>1, <1>3, <1>4, <1>8 DEF Fits, Climbing
<1>10. /\ page' = page /\ root' = root /\ fsm' = fsm /\ vac' = vac
       /\ waits' \in [Pages -> SUBSET Sessions] /\ cached' \in [Sessions -> Links]
  BY <1>1, CallFields DEF ReachParents
<1> QED  BY <1>8, <1>9, <1>10, SeenIs, QuietCall

LEMMA ScanRightQuiet ==
  ASSUME Inv, NEW c \in Sessions, ScanRight(c)
  PROVE  Inv'
<1>1. CallsOK /\ Fits(client[c]) /\ PagesOK  BY FitsNow DEF Inv
<1>2. Reads(c)  BY DEF ScanRight, Scans
<1>3. PICK a : a = page[Here(c)].right  OBVIOUS
<1>4. a \in Links /\ client[c].phase # "rest"  BY <1>1, <1>2, <1>3, ReadsIs, Fields
<1>5. PICK g : g = [at |-> a]  OBVIOUS
<1>6. DOMAIN g = {"at"} /\ g.at = a  BY <1>5
<1>7. Sets(g)  BY <1>4, <1>6 DEF Sets
<1>8. PICK w \in CallType :
        /\ client' = [client EXCEPT ![c] = w] /\ w.phase = client[c].phase
        /\ w.key = client[c].key /\ w.stack = client[c].stack
  <2>1. "key" \notin DOMAIN g /\ "stack" \notin DOMAIN g /\ "phase" \notin DOMAIN g
    BY <1>6
  <2>2. Goto(c, g)  BY <1>3, <1>5 DEF ScanRight
  <2> QED  BY <1>1, <1>6, <1>7, <2>1, <2>2, GotoStep
<1>9. Fits(w)  BY <1>1, <1>8 DEF Fits
<1>10. /\ page' = page /\ root' = root /\ fsm' = fsm /\ vac' = vac
       /\ waits' \in [Pages -> SUBSET Sessions] /\ cached' \in [Sessions -> Links]
  BY <1>1, CallFields DEF ScanRight
<1> QED  BY <1>8, <1>9, <1>10, SeenIs, QuietCall

\* The stack of pages held, once the downlink of the top one is there.
LEMMA LinkedIs ==
  ASSUME NEW c \in Sessions, client[c].stack \in Stack, Climbing(c)
  PROVE  /\ Linked(c) \in Stack /\ Linked(c) # <<>>
         /\ \A i \in DOMAIN Linked(c) :
              i \in DOMAIN client[c].stack
                /\ Linked(c)[i].page = client[c].stack[i].page
<1> DEFINE s == client[c].stack
           n == Len(s)
<1>1. s \in Stack /\ s # <<>>  BY DEF Climbing
<1> HIDE DEF s
<1>2. n \in DOMAIN s /\ s[n] \in [page : Pages, linked : BOOLEAN]
  <2>1. \A R : \A u \in Seq(R) : u # <<>> => Len(u) \in DOMAIN u /\ u[Len(u)] \in R
    OBVIOUS
  <2> QED  BY <1>1, <2>1 DEF Stack
<1>3. PICK e : e = [s[n] EXCEPT !.linked = TRUE]  OBVIOUS
<1>4. e \in [page : Pages, linked : BOOLEAN] /\ e.page = s[n].page  BY <1>2, <1>3
<1>5. PICK t : t = [s EXCEPT ![n] = e]  OBVIOUS
<1>6. /\ t \in Stack /\ t # <<>> /\ DOMAIN t = DOMAIN s
      /\ \A i \in DOMAIN t : t[i] = IF i = n THEN e ELSE s[i]
  BY <1>1, <1>2, <1>4, <1>5 DEF Stack
<1>7. Linked(c) = t  BY <1>3, <1>5 DEF Linked, s
<1> QED  BY <1>4, <1>6, <1>7 DEF s

\* A session goes on with the flag's record.
LEMMA ToClear ==
  ASSUME CallsOK, NEW c \in Sessions, client[c].phase # "rest", Climbing(c),
         Goto(c, [phase |-> "clear", stack |-> Linked(c)])
  PROVE  \E w : client' = [client EXCEPT ![c] = w] /\ Fits(w)
<1>1. Fits(client[c]) /\ client[c].stack \in Stack  BY FitsNow, CallFields DEF Stack
<1>2. PICK t : t = Linked(c)  OBVIOUS
<1>3. /\ t \in Stack /\ t # <<>>
      /\ \A i \in DOMAIN t :
           i \in DOMAIN client[c].stack /\ t[i].page = client[c].stack[i].page
  BY <1>1, <1>2, LinkedIs
<1>4. PICK g : g = [phase |-> "clear", stack |-> t]  OBVIOUS
<1>5. DOMAIN g = {"phase", "stack"} /\ g.phase = "clear" /\ g.stack = t  BY <1>4
<1>6. Sets(g)  BY <1>3, <1>5 DEF Sets, Stack
<1>7. PICK w \in CallType :
        /\ client' = [client EXCEPT ![c] = w] /\ w.phase = "clear"
        /\ w.key = client[c].key /\ w.stack = t
  <2>1. "key" \notin DOMAIN g /\ "stack" \in DOMAIN g /\ "phase" \in DOMAIN g
    BY <1>5
  <2>2. Goto(c, g)  BY <1>2, <1>4
  <2> QED  BY <1>5, <1>6, <2>1, <2>2, GotoStep
<1>8. Fits(w)
  <2>1. \A i \in DOMAIN t : t[i].page \in InLevels /\ ~Rightmost(t[i].page)
    BY <1>1, <1>3 DEF Fits
  <2> QED  BY <1>1, <1>3, <1>7, <2>1 DEF Fits
<1> QED  BY <1>7, <1>8

LEMMA AlreadyLinkedQuiet ==
  ASSUME Inv, NEW c \in Sessions, AlreadyLinked(c)
  PROVE  Inv'
<1>1. CallsOK  BY DEF Inv
<1>2. Reads(c) /\ client[c].phase = "scan"  BY DEF AlreadyLinked, AtDownlink, Scans
<1>3. Climbing(c)  BY <1>2, ReadsIs
<1>4. PICK w : client' = [client EXCEPT ![c] = w] /\ Fits(w)
  BY <1>1, <1>2, <1>3, ToClear DEF AlreadyLinked
<1>5. /\ page' = page /\ root' = root /\ fsm' = fsm /\ vac' = vac
      /\ waits' \in [Pages -> SUBSET Sessions] /\ cached' \in [Sessions -> Links]
  BY <1>1, CallFields DEF AlreadyLinked
<1> QED  BY <1>4, <1>5, SeenIs, QuietCall

\* The stack with one page more.
LEMMA PushIs ==
  ASSUME NEW s \in Stack, NEW p \in Pages, NEW t,
         t = Append(s, [page |-> p, linked |-> FALSE])
  PROVE  /\ t \in Stack
         /\ \A i \in DOMAIN t : t[i].page = p \/ (i \in DOMAIN s /\ t[i] = s[i])
<1>1. PICK e : e = [page |-> p, linked |-> FALSE]  OBVIOUS
<1>2. e \in [page : Pages, linked : BOOLEAN] /\ e.page = p  BY <1>1
<1>3. t = Append(s, e)  BY <1>1
<1> QED  BY <1>2, <1>3 DEF Stack

LEMMA FinishStep ==
  ASSUME Inv, NEW c \in Sessions, client[c].phase # "rest", NEW s \in Stack, Holdable(s),
         NEW p \in InLevels, ~Rightmost(p), Finishes(c, p, s)
  PROVE  Inv'
<1>1. CallsOK /\ Fits(client[c]) /\ PagesOK /\ LinksOK  BY FitsNow DEF Inv
<1>2. root \in Pages /\ Height \in Nat /\ p \in Pages  BY <1>1, RootIs, InLevelsIs
<1>3. PICK t : t = Append(s, [page |-> p, linked |-> FALSE])  OBVIOUS
<1>4. t \in Stack /\ Holdable(t)
  <2>1. t \in Stack  BY <1>2, <1>3, PushIs
  <2>2. \A i \in DOMAIN t : t[i].page = p \/ (i \in DOMAIN s /\ t[i] = s[i])
    BY <1>2, <1>3, PushIs
  <2> QED  BY <2>1, <2>2 DEF Holdable
<1>5. PICK g : g = [stack |-> t]  OBVIOUS
<1>6. DOMAIN g = {"stack"} /\ g.stack = t  BY <1>5
<1>7. Sets(g)  BY <1>4, <1>6 DEF Sets, Stack
<1>8. ToRoot(c, g)  BY <1>3, <1>5 DEF Finishes
<1>9. cached' \in [Sessions -> Links]  BY <1>1, <1>2, <1>7, <1>8, RootStep
<1>10. PICK w \in CallType :
        /\ client' = [client EXCEPT ![c] = w] /\ w.phase = "root"
        /\ w.key = client[c].key /\ w.stack = t
  <2>1. "key" \notin DOMAIN g /\ "stack" \in DOMAIN g  BY <1>6
  <2> QED  BY <1>1, <1>2, <1>6, <1>7, <1>8, <2>1, RootStep
<1>11. Fits(w)  BY <1>1, <1>4, <1>10 DEF Fits, Holdable
<1>12. /\ page' = page /\ root' = root /\ fsm' = fsm /\ vac' = vac
       /\ waits' \in [Pages -> SUBSET Sessions]
  BY <1>1, CallFields DEF Finishes
<1> QED  BY <1>9, <1>10, <1>11, <1>12, SeenIs, QuietCall

LEMMA FlaggedIs ==
  ASSUME PagesOK, NEW p \in Pages, page[p].flagged
  PROVE  p \in InLevels /\ ~Rightmost(p) /\ page[p].state # "deleted"
<1>1. p \in InLevels  BY OutOfLevels
<1> QED  BY <1>1, PageIs, InLevelsIs DEF PageOK, Directory

LEMMA RepairQuiet ==
  ASSUME Inv, NEW c \in Sessions, Repair(c)
  PROVE  Inv'
<1>1. PICK p : p = Here(c)  OBVIOUS
<1>2. Reads(c) /\ page[p].flagged /\ Finishes(c, p, <<>>)  BY <1>1 DEF Repair
<1>3. p \in Pages /\ client[c].phase # "rest"  BY <1>1, <1>2, ReadsIs
<1>4. p \in InLevels /\ ~Rightmost(p)  BY <1>2, <1>3, FlaggedIs DEF Inv
<1>5. PICK s : s = <<>>  OBVIOUS
<1>6. s \in Stack /\ Holdable(s)  BY <1>5 DEF Stack, Holdable
<1>7. Finishes(c, p, s)  BY <1>2, <1>5
<1> QED  BY <1>3, <1>4, <1>6, <1>7, FinishStep

LEMMA RepairParentQuiet ==
  ASSUME Inv, NEW c \in Sessions, RepairParent(c)
  PROVE  Inv'
<1>1. PICK p : p = Here(c)  OBVIOUS
<1>2. Reads(c) /\ page[p].flagged /\ Finishes(c, p, client[c].stack)
  BY <1>1 DEF RepairParent, Scans
<1>3. /\ p \in Pages /\ client[c].phase # "rest"
      /\ Holdable(client[c].stack) /\ client[c].stack \in Stack
  BY <1>1, <1>2, ReadsIs
<1>4. p \in InLevels /\ ~Rightmost(p)  BY <1>2, <1>3, FlaggedIs DEF Inv
<1> QED  BY <1>2, <1>3, <1>4, FinishStep

-----------------------------------------------------------------------------
(* The steps of a session that write pages                                 *)

\* A page whose fields but for its items and its flag stay, and no other is written.
LEMMA ItemsOnly ==
  ASSUME Inv, NEW p \in Pages, NEW new \in PageType, page' = [page EXCEPT ![p] = new],
         new.kind = page[p].kind, new.state = page[p].state, new.level = page[p].level,
         new.left = page[p].left, new.right = page[p].right,
         root' = root, fsm' = fsm, PageOK(p)'
  PROVE  PagesOK' /\ LinksOK' /\ \A x \in InLevels : Stays(x)
<1>1. PagesOK /\ LinksOK /\ page \in [Pages -> PageType]  BY DEF Inv, PagesOK
<1>2. PagesOK'  BY <1>1, OnePage
<1>3. page'[p] = new /\ \A x \in Pages : x # p => page'[x] = page[x]  BY <1>1
<1>4. \A x \in Pages : /\ page'[x].kind = page[x].kind
                       /\ page'[x].state = page[x].state
                       /\ page'[x].level = page[x].level
                       /\ page'[x].left = page[x].left
                       /\ page'[x].right = page[x].right
  BY <1>3
<1>5. InLevels' = InLevels  BY <1>4 DEF InLevels, Directory, Deleted
<1>6. \A x \in InLevels : x \in Pages  BY InLevelsIs
<1>7. \A x \in InLevels : LinkFields(x)' = LinkFields(x)  BY <1>4, <1>6 DEF LinkFields
<1>8. \A x \in fsm' : x \in Pages /\ Directory(x)' /\ Deleted(x)'
  <2>1. \A x \in fsm : x \in Pages /\ Directory(x) /\ Deleted(x)  BY <1>1 DEF LinksOK
  <2> QED  BY <1>4, <2>1 DEF Directory, Deleted
<1>9. LinksOK'  BY <1>1, <1>5, <1>7, <1>8, KeepsLinks
<1>10. \A x \in InLevels : Stays(x)
  BY <1>4, <1>5, <1>6 DEF Stays, Level, Rightmost
<1> QED  BY <1>2, <1>9, <1>10

\* The leaf a key belongs to.
LEMMA AtLeafIs ==
  ASSUME Inv, NEW c \in Sessions, AtLeaf(c)
  PROVE  /\ Here(c) \in InLevels /\ page[Here(c)].kind = "leaf"
         /\ page[Here(c)].state = "live"
         /\ client[c].phase # "rest" /\ client[c].key \in Keys /\ ~Climbing(c)
<1>1. PICK p, k : p = Here(c) /\ k = client[c].key  OBVIOUS
<1>2. Reads(c) /\ page[p].kind = "leaf" /\ ~PastHigh(p, k) /\ ~Climbing(c)
  BY <1>1 DEF AtLeaf, Descending
<1>3. /\ p \in Pages /\ client[c].phase # "rest" /\ k \in Keys /\ k \in Nat
      /\ Directory(p) /\ PagesOK
  BY <1>1, <1>2, ReadsIs, KeysAre DEF Inv
<1>4. page[p].state = "live"
  BY <1>2, <1>3, PageIs DEF PageOK, PastHigh, MinusInf
<1>5. p \in InLevels  BY <1>2, <1>3, <1>4, InLevelsIs
<1> QED  BY <1>1, <1>2, <1>3, <1>4, <1>5

LEMMA SeenLess ==
  ASSUME Inv, NEW c \in Sessions, vac' = [vac EXCEPT !.seen = @ \ {client[c].key}]
  PROVE  vac.seen \ {client[c].key} \in SUBSET Keys
         /\ vac' = [vac EXCEPT !.seen = vac.seen \ {client[c].key}]
BY DEF Inv, VacOK, VacType

LEMMA AddEntryOK ==
  ASSUME Inv, NEW c \in Sessions, AddEntry(c)
  PROVE  Inv'
<1>1. PICK p, k : p = Here(c) /\ k = client[c].key  OBVIOUS
<1>2. AtLeaf(c) /\ k \notin page[p].keys /\ Cardinality(page[p].keys) < LeafCap
      /\ Ends(c, "none") /\ root' = root /\ fsm' = fsm /\ cached' = cached
      /\ page' = [page EXCEPT ![p].keys = @ \cup {k}]
  BY <1>1 DEF AddEntry
<1>3. p \in InLevels /\ p \in Pages /\ page[p].kind = "leaf" /\ k \in Keys
  BY <1>1, <1>2, AtLeafIs, InLevelsIs
<1>4. PagesOK /\ page \in [Pages -> PageType] /\ CallsOK /\ VacOK
  BY DEF Inv, PagesOK
<1>5. PICK K : K = page[p].keys \cup {k}  OBVIOUS
<1>6. K \in SUBSET Keys /\ IsFiniteSet(K) /\ Cardinality(K) <= LeafCap
  <2>1. page[p].keys \in SUBSET Keys  BY <1>3, <1>4, Fields
  <2>2. IsFiniteSet(page[p].keys)  BY <1>3, <1>4, PageIs DEF PageOK
  <2>3. IsFiniteSet(K) /\ Cardinality(K) = Cardinality(page[p].keys) + 1
    BY <1>2, <1>5, <2>2, FS_AddElement
  <2>4. Cardinality(page[p].keys) \in Nat  BY <2>2, FS_CardinalityType
  <2> QED  BY <1>2, <1>3, <1>5, <2>1, <2>3, <2>4, CapsAssumption
<1>7. PICK new : new = [page[p] EXCEPT !.keys = K]  OBVIOUS
<1>8. /\ new \in PageType /\ new.kind = page[p].kind /\ new.state = page[p].state
      /\ new.level = page[p].level /\ new.left = page[p].left
      /\ new.right = page[p].right /\ new.keys = K /\ new.down = page[p].down
      /\ new.high = page[p].high /\ new.flagged = page[p].flagged
  <2>1. page[p] \in PageType  BY <1>3, <1>4
  <2> QED  BY <1>6, <1>7, <2>1 DEF PageType
<1>9. page' = [page EXCEPT ![p] = new]  BY <1>2, <1>3, <1>4, <1>5, <1>7
<1>10. PageOK(p)'
  <2>1. page'[p] = new  BY <1>3, <1>4, <1>9
  <2>2. PageOK(p)  BY <1>3, <1>4, PageIs
  <2> QED  BY <1>6, <1>8, <2>1, <2>2 DEF PageOK, Directory, Deleted, Rightmost, Level
<1>11. PagesOK' /\ LinksOK' /\ \A x \in InLevels : Stays(x)
  BY <1>2, <1>3, <1>8, <1>9, <1>10, ItemsOnly
<1>12. CallsOK'
  <2>1. waits' \in [Pages -> SUBSET Sessions]  BY <1>2, <1>4, EndStep
  <2>2. PICK w : client' = [client EXCEPT ![c] = w] /\ Fits(w)
    BY <1>2, <1>4, EndStep
  <2>3. cached' \in [Sessions -> Links]  BY <1>2, <1>4, CallFields
  <2> QED  BY <1>4, <1>11, <2>1, <2>2, <2>3, CallOn
<1>13. VacOK'
  <2>1. vac' = [vac EXCEPT !.seen = @ \ {client[c].key}]  BY DEF AddEntry
  <2> QED  BY <1>4, <1>11, <2>1, SeenLess, VacStays
<1> QED  BY <1>11, <1>12, <1>13 DEF Inv

LEMMA PlaceDownlinkOK ==
  ASSUME Inv, NEW c \in Sessions, PlaceDownlink(c)
  PROVE  Inv'
<1>1. PICK p, i, e : p = Here(c) /\ i = DownlinkOf(c) /\ e = NewDownlink(c)  OBVIOUS
<1>2. /\ Places(c) /\ Len(page[p].down) < InnerCap
      /\ page' = [page EXCEPT ![p].down = InsertAt(@, i + 1, e)]
      /\ Goto(c, [phase |-> "clear", stack |-> Linked(c)])
      /\ root' = root /\ waits' = waits /\ fsm' = fsm /\ cached' = cached /\ vac' = vac
  BY <1>1 DEF PlaceDownlink
<1>3. PagesOK /\ page \in [Pages -> PageType] /\ CallsOK /\ VacOK
  BY DEF Inv, PagesOK
<1>4. Reads(c) /\ DownlinksTo(p, Top(c).page) # {}
  BY <1>1, <1>2 DEF Places, AtDownlink, Scans
<1>5. /\ p \in Pages /\ client[c].phase # "rest" /\ client[c].stack \in Stack
      /\ Holdable(client[c].stack) /\ Climbing(c)
  BY <1>1, <1>2, <1>4, ReadsIs DEF Places, AtDownlink, Scans
<1>6. i \in 1 .. Len(page[p].down)
  <2>1. DownlinksTo(p, Top(c).page) \subseteq 1 .. Len(page[p].down)
        /\ Len(page[p].down) \in Nat
    BY <1>3, <1>5, DownItems DEF DownlinksTo
  <2>2. DownlinksTo(p, Top(c).page) \in SUBSET Nat  BY <2>1
  <2>3. i = Min(DownlinksTo(p, Top(c).page))  BY <1>1 DEF DownlinkOf
  <2>4. i \in DownlinksTo(p, Top(c).page)  BY <1>4, <2>2, <2>3, MinIs
  <2> QED  BY <2>1, <2>4
<1>7. p \in InLevels /\ page[p].down # <<>>
  BY <1>3, <1>5, <1>6, OutOfLevels
<1>8. e \in DownType
  <2>1. Top(c).page \in Pages /\ page[Top(c).page].right \in Pages
    BY <1>3, <1>5, TopIs
  <2>2. page[Top(c).page].high \in Keys \cup {MinusInf}  BY <1>3, <2>1, Fields
  <2> QED  BY <1>1, <2>1, <2>2 DEF NewDownlink, DownType
<1>9. PICK s, t : s = page[p].down /\ t = InsertAt(s, i + 1, e)  OBVIOUS
<1>10. s \in Seq(DownType) /\ i \in 1 .. Len(s)  BY <1>3, <1>5, <1>6, <1>9, Fields
<1>11. t \in Seq(DownType) /\ Len(t) = Len(s) + 1 /\ (\A j \in 1 .. i : t[j] = s[j])
  <2>1. /\ InsertAt(s, i + 1, e) \in Seq(DownType)
        /\ Len(InsertAt(s, i + 1, e)) = Len(s) + 1
        /\ \A j \in 1 .. i : InsertAt(s, i + 1, e)[j] = s[j]
    BY <1>8, <1>10, InsertAtIs
  <2> QED  BY <1>9, <2>1
<1>12. t # <<>> /\ t[1] = s[1] /\ Len(t) <= InnerCap
  <2>1. Len(s) \in Nat /\ i \in Nat /\ 1 <= i  BY <1>10
  <2>2. 1 \in 1 .. i  BY <2>1
  <2>3. Len(t) <= InnerCap  BY <1>2, <1>9, <1>11, <2>1, CapsAssumption
  <2>4. t # <<>>  BY <1>11, <2>1
  <2> QED  BY <1>11, <2>2, <2>3, <2>4
<1>13. PICK new : new = [page[p] EXCEPT !.down = t]  OBVIOUS
<1>14. /\ new \in PageType /\ new.kind = page[p].kind /\ new.state = page[p].state
      /\ new.level = page[p].level /\ new.left = page[p].left
      /\ new.right = page[p].right /\ new.keys = page[p].keys /\ new.down = t
      /\ new.high = page[p].high /\ new.flagged = page[p].flagged
  <2>1. page[p] \in PageType  BY <1>3, <1>5
  <2> QED  BY <1>11, <1>13, <2>1 DEF PageType, DownType
<1>15. page' = [page EXCEPT ![p] = new]  BY <1>2, <1>3, <1>5, <1>9, <1>13
<1>16. PageOK(p)'
  <2>1. page'[p] = new  BY <1>3, <1>5, <1>15
  <2>2. PageOK(p)  BY <1>3, <1>5, PageIs
  <2>3. Directory(p) /\ ~Deleted(p)  BY <1>7 DEF InLevels
  <2>4. page[p].kind # "leaf"  BY <1>7, <2>2, <2>3 DEF PageOK
  <2> QED
    BY <1>9, <1>12, <1>14, <2>1, <2>2, <2>3, <2>4
    DEF PageOK, Directory, Deleted, Rightmost, Level
<1>17. PagesOK' /\ LinksOK' /\ \A x \in InLevels : Stays(x)
  BY <1>2, <1>5, <1>14, <1>15, <1>16, ItemsOnly
<1>18. CallsOK'
  <2>1. PICK w : client' = [client EXCEPT ![c] = w] /\ Fits(w)
    BY <1>2, <1>3, <1>5, ToClear
  <2>2. cached' \in [Sessions -> Links] /\ waits' \in [Pages -> SUBSET Sessions]
    BY <1>2, <1>3, CallFields
  <2> QED  BY <1>3, <1>17, <2>1, <2>2, CallOn
<1>19. VacOK'  BY <1>2, <1>3, <1>17, SeenIs, VacStays
<1> QED  BY <1>17, <1>18, <1>19 DEF Inv

\* The part of a sequence from one place to another.
IsPart(R, s, i, n, t) ==
  /\ t \in Seq(R) /\ Len(t) = (n - i) + 1
  /\ \A j \in DOMAIN t : j \in Nat /\ 1 <= j /\ t[j] \in R
                         /\ t[j] = s[(i + j) - 1] /\ (i + j) - 1 \in DOMAIN s

LEMMA PartIs ==
  ASSUME NEW R, NEW s \in Seq(R), NEW i \in Nat, NEW n \in Nat, 1 <= i, i <= n + 1,
         n <= Len(s), NEW t, t = SubSeq(s, i, n)
  PROVE  IsPart(R, s, i, n, t)
BY DEF IsPart

\* The flag's own record.
LEMMA FrontIs ==
  ASSUME NEW s \in Stack, s # <<>>, Holdable(s)
  PROVE  Front(s) \in Stack /\ Holdable(Front(s))
<1>1. PICK t : t = SubSeq(s, 1, Len(s) - 1)  OBVIOUS
<1>2. PICK R : R = [page : Pages, linked : BOOLEAN]  OBVIOUS
<1>3. s \in Seq(R) /\ Len(s) \in Nat /\ Len(s) > 0  BY <1>2 DEF Stack
<1>4. PICK n \in Nat : n = Len(s) - 1 /\ n <= Len(s) /\ 1 <= n + 1
  <2>1. Len(s) - 1 \in Nat /\ Len(s) - 1 <= Len(s) /\ 1 <= (Len(s) - 1) + 1  BY <1>3
  <2> QED  BY <2>1
<1>5. t = SubSeq(s, 1, n)  BY <1>1, <1>4
<1>6. IsPart(R, s, 1, n, t)
  <2>1. s \in Seq(R) /\ 1 \in Nat /\ 1 <= 1 /\ 1 <= n + 1 /\ n <= Len(s)
    BY <1>3, <1>4
  <2> QED  BY <1>5, <2>1, PartIs
<1>7. \A j \in DOMAIN t : j \in Nat /\ t[j] = s[(1 + j) - 1] /\ (1 + j) - 1 \in DOMAIN s
  BY <1>6 DEF IsPart
<1>8. \A j \in DOMAIN t : t[j] = s[j] /\ j \in DOMAIN s
  <2>1. \A j \in Nat : (1 + j) - 1 = j  OBVIOUS
  <2> QED  BY <1>7, <2>1
<1>9. Front(s) = t  BY <1>1 DEF Front
<1>10. t \in Seq(R)  BY <1>6 DEF IsPart
<1> QED  BY <1>2, <1>8, <1>9, <1>10 DEF Stack, Holdable

LEMMA ClearFlagOK ==
  ASSUME Inv, NEW c \in Sessions, ClearFlag(c)
  PROVE  Inv'
<1>1. PICK p, s : p = Top(c).page /\ s = Front(client[c].stack)  OBVIOUS
<1>2. /\ client[c].phase = "clear" /\ page' = [page EXCEPT ![p].flagged = FALSE]
      /\ root' = root /\ fsm' = fsm /\ cached' = cached /\ vac' = vac
  BY <1>1 DEF ClearFlag
<1>3. PagesOK /\ page \in [Pages -> PageType] /\ CallsOK /\ VacOK
  BY DEF Inv, PagesOK
<1>4. Fits(client[c]) /\ client[c].stack \in Stack  BY <1>3, FitsNow, CallFields DEF Stack
<1>5. client[c].stack # <<>> /\ Holdable(client[c].stack) /\ client[c].key \in Keys
  BY <1>2, <1>4 DEF Fits, Holdable
<1>6. s \in Stack /\ Holdable(s)  BY <1>1, <1>4, <1>5, FrontIs
<1>7. p \in Pages /\ p \in InLevels  BY <1>1, <1>3, <1>4, <1>5, TopIs DEF Climbing
<1>8. PICK new : new = [page[p] EXCEPT !.flagged = FALSE]  OBVIOUS
<1>9. /\ new \in PageType /\ new.kind = page[p].kind /\ new.state = page[p].state
      /\ new.level = page[p].level /\ new.left = page[p].left
      /\ new.right = page[p].right /\ new.keys = page[p].keys
      /\ new.down = page[p].down /\ new.high = page[p].high /\ ~new.flagged
  <2>1. page[p] \in PageType  BY <1>3, <1>7
  <2> QED  BY <1>8, <2>1 DEF PageType
<1>10. page' = [page EXCEPT ![p] = new]  BY <1>2, <1>3, <1>7, <1>8
<1>11. PageOK(p)'
  <2>1. page'[p] = new  BY <1>3, <1>7, <1>10
  <2>2. PageOK(p)  BY <1>3, <1>7, PageIs
  <2> QED  BY <1>9, <2>1, <2>2 DEF PageOK, Directory, Deleted, Rightmost, Level
<1>12. PagesOK' /\ LinksOK' /\ \A x \in InLevels : Stays(x)
  BY <1>2, <1>7, <1>9, <1>10, <1>11, ItemsOnly
<1>13. cached' \in [Sessions -> Links] /\ waits \in [Pages -> SUBSET Sessions]
  BY <1>2, <1>3, CallFields
<1>14. \E w : client' = [client EXCEPT ![c] = w] /\ Fits(w)
             /\ waits' \in [Pages -> SUBSET Sessions]
  <2>1. CASE s = <<>> /\ client[c].placed
    <3>1. Ends(c, "none")  BY <1>1, <2>1 DEF ClearFlag
    <3>2. waits' \in [Pages -> SUBSET Sessions]  BY <1>3, <3>1, EndStep
    <3>3. PICK w : client' = [client EXCEPT ![c] = w] /\ Fits(w)
      BY <1>3, <3>1, EndStep
    <3> QED  BY <3>2, <3>3
  <2>2. CASE ~(s = <<>> /\ client[c].placed) /\ s # <<>> /\ Last(s).linked
    <3>1. PICK g : g = [stack |-> s]  OBVIOUS
    <3>2. DOMAIN g = {"stack"} /\ g.stack = s  BY <3>1
    <3>3. Sets(g)  BY <1>6, <3>2 DEF Sets, Stack
    <3>4. Goto(c, g) /\ waits' = waits  BY <1>1, <2>2, <3>1 DEF ClearFlag
    <3>5. PICK w \in CallType :
            /\ client' = [client EXCEPT ![c] = w] /\ w.phase = client[c].phase
            /\ w.key = client[c].key /\ w.stack = s
      <4>1. "key" \notin DOMAIN g /\ "stack" \in DOMAIN g /\ "phase" \notin DOMAIN g
        BY <3>2
      <4> QED  BY <1>3, <3>2, <3>3, <3>4, <4>1, GotoStep
    <3>6. Fits(w)  BY <1>5, <1>6, <2>2, <3>5 DEF Fits, Holdable
    <3> QED  BY <1>13, <3>4, <3>5, <3>6
  <2>3. CASE ~(s = <<>> /\ client[c].placed) /\ ~(s # <<>> /\ Last(s).linked)
    <3>1. PICK ph, l : ph = (IF s = <<>> THEN "walk" ELSE "scan") /\ l = page[p].level
      OBVIOUS
    <3>2. PICK g : g = [phase |-> ph, at |-> p, level |-> l, stack |-> s]  OBVIOUS
    <3>3. /\ DOMAIN g = {"phase", "at", "level", "stack"} /\ g.phase = ph /\ g.at = p
          /\ g.level = l /\ g.stack = s
      BY <3>2
    <3>4. ph \in {"walk", "scan"} /\ p \in Links /\ l \in Nat
      BY <1>3, <1>7, <3>1, Fields, PagesAre
    <3>5. Sets(g)  BY <1>6, <3>3, <3>4 DEF Sets, Stack
    <3>6. Goto(c, g) /\ waits' = waits  BY <1>1, <2>3, <3>1, <3>2 DEF ClearFlag
    <3>7. PICK w \in CallType :
            /\ client' = [client EXCEPT ![c] = w] /\ w.phase = ph
            /\ w.key = client[c].key /\ w.stack = s
      <4>1. "key" \notin DOMAIN g /\ "stack" \in DOMAIN g /\ "phase" \in DOMAIN g
        BY <3>3
      <4> QED  BY <1>3, <3>3, <3>5, <3>6, <4>1, GotoStep
    <3>8. Fits(w)  BY <1>5, <1>6, <3>1, <3>7 DEF Fits, Holdable
    <3> QED  BY <1>13, <3>6, <3>7, <3>8
  <2> QED  BY <2>1, <2>2, <2>3
<1>15. CallsOK'  BY <1>3, <1>12, <1>13, <1>14, CallOn
<1>16. VacOK'  BY <1>2, <1>3, <1>12, SeenIs, VacStays
<1> QED  BY <1>12, <1>15, <1>16 DEF Inv

\* What a split leaves of the pages that were in the levels before it.
LEMMA SplitStays ==
  ASSUME PagesOK, LinksOK, NEW p \in InLevels, page[p].state = "live",
         NEW q \in Pages, q \notin InLevels, NEW n, n \notin InLevels, n # q, NEW L, NEW R,
         L.keys \in SUBSET Keys, L.down \in Seq(DownType),
         NEW sep \in Keys \cup {MinusInf}, SplitRecord(p, L, R, sep, q, n),
         InLevels \subseteq InLevels'
  PROVE  /\ \A x \in InLevels : Stays(x)
         /\ p \in InLevels' /\ ~Rightmost(p)'
<1>1. p \in Pages /\ p # q /\ q # NoPage  BY InLevelsIs, PagesAre
<1>2. page'[p].level = page[p].level /\ page'[p].right = q
  BY <1>1, SplitLeft
<1>3. ASSUME NEW x \in InLevels, x # p
      PROVE  /\ page'[x].level = page[x].level /\ page'[x].right = page[x].right
             /\ page'[x].state = page[x].state
  <2>1. x \in Pages /\ x # q /\ x # n  BY InLevelsIs
  <2>2. page'[x] = IF x = page[p].right THEN [page[x] EXCEPT !.left = q] ELSE page[x]
    BY <1>3, <2>1 DEF SplitRecord
  <2>3. page[x] \in PageType  BY <2>1 DEF PagesOK
  <2> QED  BY <2>2, <2>3 DEF PageType
<1>4. \A x \in InLevels : Stays(x)
  <2>1. Stays(p)  BY <1>1, <1>2 DEF Stays, Level, Rightmost
  <2>2. \A x \in InLevels : x # p => Stays(x)  BY <1>3 DEF Stays, Level, Rightmost
  <2> QED  BY <2>1, <2>2
<1> QED  BY <1>1, <1>2, <1>4 DEF Rightmost

\* What the pages are after a split of p, whose new pages are allocated.
LEMMA SplitOK ==
  ASSUME Inv, NEW p \in InLevels, page[p].state = "live",
         CanAllocate(IF p = root THEN 2 ELSE 1), NEW q \in Pages, NEW n \in Links,
         Allocates(q, {}),
         IF p = root THEN n \in Pages /\ Allocates(n, {q}) ELSE n = NoPage,
         NEW L, NEW R, HalfOK(p, L), HalfOK(p, R),
         NEW sep \in Keys \cup {MinusInf}, SplitRecord(p, L, R, sep, q, n),
         root' = IF p = root THEN n ELSE root, fsm' = fsm \ {q, n}
  PROVE  /\ PagesOK' /\ LinksOK' /\ \A x \in InLevels : Stays(x)
         /\ p \in InLevels' /\ ~Rightmost(p)'
<1>1. PagesOK /\ LinksOK  BY DEF Inv
<1>2. /\ q \notin InLevels /\ n \notin InLevels /\ n # q
      /\ p = root => n \in Pages
      /\ p # root => n = NoPage
  <2>1. CASE p = root
    <3>1. CanAllocate(2) /\ n \in Pages /\ Allocates(n, {q})  BY <2>1
    <3>2. CanAllocate(1)
      <4>1. IsFiniteSet(fsm) /\ IsFiniteSet({x \in Pages : page[x].kind = "new"})
        <5>1. fsm \in SUBSET Pages  BY <1>1 DEF LinksOK
        <5>2. {x \in Pages : page[x].kind = "new"} \in SUBSET Pages  OBVIOUS
        <5> QED  BY <5>1, <5>2, PagesAre, FS_Subset
      <4>2. Cardinality(fsm) \in Nat
            /\ Cardinality({x \in Pages : page[x].kind = "new"}) \in Nat
        BY <4>1, FS_CardinalityType
      <4> QED  BY <3>1, <4>2 DEF CanAllocate
    <3> QED  BY <1>1, <2>1, <3>1, <3>2, Allocated
  <2>2. CASE p # root
    <3>1. CanAllocate(1) /\ n = NoPage  BY <2>2
    <3>2. q \notin InLevels  BY <1>1, <3>1, Allocated
    <3> QED  BY <2>2, <3>1, <3>2, PagesAre, InLevelsIs
  <2> QED  BY <2>1, <2>2
<1>3. PagesOK' /\ (p = root => LevelAbove(p))  BY <1>1, <1>2, SplitPagesOK
<1>4. /\ L.keys \in SUBSET Keys /\ L.down \in Seq(DownType)
      /\ R.keys \in SUBSET Keys /\ R.down \in Seq(DownType)
  BY DEF HalfOK
<1>5. LinksOK' /\ InLevels' = InLevels \cup {q} \cup (IF p = root THEN {n} ELSE {})
  BY <1>1, <1>2, <1>3, <1>4, SplitLinks
<1>6. InLevels \subseteq InLevels'  BY <1>5
<1>7. (\A x \in InLevels : Stays(x)) /\ p \in InLevels' /\ ~Rightmost(p)'
  BY <1>1, <1>2, <1>4, <1>6, SplitStays
<1> QED  BY <1>3, <1>5, <1>7

\* A part of some entries is over no page's capacity when it lacks one of them.
LEMMA PartOf ==
  ASSUME NEW K, IsFiniteSet(K), NEW k, k \notin K, Cardinality(K) = LeafCap,
         NEW P \in SUBSET (K \cup {k}), NEW m \in K \cup {k}, m \notin P
  PROVE  IsFiniteSet(P) /\ Cardinality(P) <= LeafCap
<1>1. /\ IsFiniteSet(K \cup {k}) /\ Cardinality(K \cup {k}) = LeafCap + 1
  BY FS_AddElement
<1>2. /\ IsFiniteSet(P) /\ Cardinality(P) <= Cardinality(K \cup {k})
      /\ Cardinality(K \cup {k}) = Cardinality(P) => K \cup {k} = P
  BY <1>1, FS_Subset
<1>3. Cardinality(P) \in Nat  BY <1>2, FS_CardinalityType
<1> QED  BY <1>1, <1>2, <1>3, CapsAssumption

LEMMA SplitLeafOK ==
  ASSUME Inv, NEW c \in Sessions, SplitLeaf(c)
  PROVE  Inv'
<1>1. PICK p, all : p = Here(c) /\ all = page[p].keys \cup {client[c].key}  OBVIOUS
<1>2. PICK sep \in all \ {Min(all)}, q \in Pages, n \in Links :
         /\ Allocates(q, {})
         /\ IF p = root THEN n \in Pages /\ Allocates(n, {q}) ELSE n = NoPage
         /\ SplitRecord(p, [keys |-> {k \in all : k < sep}, down |-> <<>>],
                        [keys |-> {k \in all : k >= sep}, down |-> <<>>], sep, q, n)
         /\ fsm' = fsm \ {q, n}
         /\ IF p = root
            THEN /\ root' = n
                 /\ cached' = [cached EXCEPT ![c] = n]
                 /\ Ends(c, "none")
            ELSE /\ ToRoot(c, [stack |-> <<[page |-> p, linked |-> FALSE]>>,
                               placed |-> TRUE])
                 /\ UNCHANGED <<root, waits>>
  BY <1>1 DEF SplitLeaf
<1>3. /\ AtLeaf(c) /\ client[c].key \notin page[p].keys
      /\ Cardinality(page[p].keys) = LeafCap
      /\ CanAllocate(IF p = root THEN 2 ELSE 1)
      /\ vac' = [vac EXCEPT !.seen = @ \ {client[c].key}]
  BY <1>1 DEF SplitLeaf
<1>4. PagesOK /\ LinksOK /\ CallsOK /\ VacOK  BY DEF Inv
<1>5. /\ p \in InLevels /\ p \in Pages /\ page[p].kind = "leaf"
      /\ page[p].state = "live" /\ client[c].key \in Keys /\ client[c].phase # "rest"
  BY <1>1, <1>3, AtLeafIs, InLevelsIs
<1>6. all \in SUBSET Keys /\ all \in SUBSET Nat /\ IsFiniteSet(page[p].keys)
  BY <1>1, <1>4, <1>5, Fields, PageIs, KeysAre DEF PageOK
<1>7. Min(all) \in all /\ \A m \in all : Min(all) <= m  BY <1>1, <1>6, MinIs
<1>8. sep \in Nat /\ sep \in Keys /\ Min(all) \in Nat /\ Min(all) < sep
  <2>1. sep \in all /\ sep # Min(all)  BY <1>2
  <2>2. PICK m : m = Min(all)  OBVIOUS
  <2>3. m \in Nat /\ sep \in Nat /\ sep \in Keys /\ m <= sep /\ m # sep
    BY <1>6, <1>7, <2>1, <2>2
  <2> QED  BY <2>2, <2>3
<1>9. PICK A, B : A = {k \in all : k < sep} /\ B = {k \in all : k >= sep}  OBVIOUS
<1>10. A \in SUBSET all /\ B \in SUBSET all /\ sep \notin A /\ Min(all) \notin B
  BY <1>6, <1>7, <1>8, <1>9
<1>11. /\ IsFiniteSet(A) /\ Cardinality(A) <= LeafCap
       /\ IsFiniteSet(B) /\ Cardinality(B) <= LeafCap
  <2>1. PICK K, k, m : K = page[p].keys /\ k = client[c].key /\ m = Min(all)  OBVIOUS
  <2>2. /\ IsFiniteSet(K) /\ k \notin K /\ Cardinality(K) = LeafCap /\ all = K \cup {k}
        /\ sep \in all /\ m \in all /\ m \notin B
    BY <1>1, <1>2, <1>3, <1>6, <1>7, <1>10, <2>1
  <2>3. IsFiniteSet(A) /\ Cardinality(A) <= LeafCap  BY <1>10, <2>2, PartOf
  <2>4. IsFiniteSet(B) /\ Cardinality(B) <= LeafCap  BY <1>10, <2>2, PartOf
  <2> QED  BY <2>3, <2>4
<1>12. PICK L, R : L = [keys |-> A, down |-> <<>>] /\ R = [keys |-> B, down |-> <<>>]
  OBVIOUS
<1>13. L.keys = A /\ L.down = <<>> /\ R.keys = B /\ R.down = <<>>  BY <1>12
<1>14. HalfOK(p, L) /\ HalfOK(p, R)
  <2>1. <<>> \in Seq(DownType) /\ Len(<<>>) <= InnerCap  BY CapsAssumption
  <2>2. A \in SUBSET Keys /\ B \in SUBSET Keys  BY <1>6, <1>10
  <2> QED  BY <1>5, <1>11, <1>13, <2>1, <2>2 DEF HalfOK
<1>15. SplitRecord(p, L, R, sep, q, n)  BY <1>2, <1>9, <1>12
<1>16. root' = IF p = root THEN n ELSE root  BY <1>2
<1>17. /\ PagesOK' /\ LinksOK' /\ \A x \in InLevels : Stays(x)
       /\ p \in InLevels' /\ ~Rightmost(p)'
  BY <1>2, <1>3, <1>5, <1>8, <1>14, <1>15, <1>16, SplitOK
<1>18. CallsOK'
  <2>1. CASE p = root
    <3>1. Ends(c, "none") /\ cached' = [cached EXCEPT ![c] = n]  BY <1>2, <2>1
    <3>2. waits' \in [Pages -> SUBSET Sessions]  BY <1>4, <3>1, EndStep
    <3>3. PICK w : client' = [client EXCEPT ![c] = w] /\ Fits(w)  BY <1>4, <3>1, EndStep
    <3>4. cached' \in [Sessions -> Links]  BY <1>4, <3>1, CallFields
    <3> QED  BY <1>4, <1>17, <3>2, <3>3, <3>4, CallOn
  <2>2. CASE p # root
    <3>1. PICK e : e = [page |-> p, linked |-> FALSE]  OBVIOUS
    <3>2. e \in [page : Pages, linked : BOOLEAN] /\ e.page = p  BY <1>5, <3>1
    <3>3. PICK s : s = <<e>>  OBVIOUS
    <3>4. s \in Stack /\ \A i \in DOMAIN s : s[i].page = p
      BY <3>2, <3>3 DEF Stack
    <3>5. PICK g : g = [stack |-> s, placed |-> TRUE]  OBVIOUS
    <3>6. DOMAIN g = {"stack", "placed"} /\ g.stack = s /\ g.placed = TRUE  BY <3>5
    <3>7. Sets(g)  BY <3>4, <3>6 DEF Sets, Stack
    <3>8. ToRoot(c, g) /\ waits' = waits  BY <1>2, <2>2, <3>1, <3>3, <3>5
    <3>9. root \in Pages /\ Height \in Nat  BY <1>4, RootIs
    <3>10. cached' \in [Sessions -> Links]  BY <1>4, <3>7, <3>8, <3>9, RootStep
    <3>11. PICK w \in CallType :
             /\ client' = [client EXCEPT ![c] = w] /\ w.phase = "root"
             /\ w.key = client[c].key /\ w.stack = s
      <4>1. "key" \notin DOMAIN g /\ "stack" \in DOMAIN g  BY <3>6
      <4> QED  BY <1>4, <3>6, <3>7, <3>8, <3>9, <4>1, RootStep
    <3>12. Holds(s) /\ \A d \in Sessions : Holds(client[d].stack)
      <4>1. \A d \in Sessions : Holds(client[d].stack)  BY <1>4, <1>17, StaysHeld
      <4>2. Holds(s)  BY <1>17, <3>4 DEF Holds
      <4> QED  BY <4>1, <4>2
    <3>13. waits' \in [Pages -> SUBSET Sessions]  BY <1>4, <3>8, CallFields
    <3> QED  BY <1>4, <1>5, <3>10, <3>11, <3>12, <3>13, CallStep
  <2> QED  BY <2>1, <2>2
<1>19. VacOK'  BY <1>3, <1>4, <1>17, SeenLess, VacStays
<1> QED  BY <1>17, <1>18, <1>19 DEF Inv

\* Where a page may be cut.
LEMMA CutIs ==
  ASSUME NEW I \in Nat, NEW m \in Nat, m >= 2, NEW cut \in m .. ((I + 1) - m)
  PROVE  /\ cut \in Nat /\ cut >= 2 /\ cut <= I /\ cut + 1 \in Nat /\ I + 1 \in Nat
         /\ cut + 1 <= I + 1 /\ cut + 1 >= 1 /\ cut + 1 <= (I + 1) + 1
         /\ ((I + 1) - (cut + 1)) + 1 >= 2 /\ ((I + 1) - (cut + 1)) + 1 <= I
OBVIOUS

\* A sequence with another first item.
LEMMA HeadSet ==
  ASSUME NEW R, NEW s \in Seq(R), s # <<>>, NEW e \in R, NEW t, t = [s EXCEPT ![1] = e]
  PROVE  t \in Seq(R) /\ t # <<>> /\ Len(t) = Len(s) /\ t[1] = e
OBVIOUS

LEMMA TwoOrMore ==
  ASSUME NEW m \in Nat \ {0, 1}
  PROVE  m \in Nat /\ m >= 2
OBVIOUS

\* The halves of an internal page's items.
PartsOf(s, cut, a, kept, b, sep) ==
  /\ a = SubSeq(s, 1, cut) /\ kept = SubSeq(s, cut + 1, InnerCap + 1)
  /\ b = [kept EXCEPT ![1].sep = MinusInf] /\ sep = s[cut + 1].sep

LEMMA PartsOK ==
  ASSUME NEW p \in Pages, NEW s \in Seq(DownType), Len(s) = InnerCap + 1,
         s[1].sep = MinusInf, page[p].kind = "inner",
         NEW cut \in MinDownlinks .. ((InnerCap + 1) - MinDownlinks),
         NEW a, NEW kept, NEW b, NEW sep, PartsOf(s, cut, a, kept, b, sep), NEW L, NEW R,
         L.keys = {}, L.down = a, R.keys = {}, R.down = b
  PROVE  HalfOK(p, L) /\ HalfOK(p, R) /\ sep \in Keys \cup {MinusInf}
<1> DEFINE I == InnerCap
<1>0. I \in Nat /\ MinDownlinks \in Nat /\ MinDownlinks >= 2 /\ LeafCap \in Nat
  BY TwoOrMore, CapsAssumption
<1>1. /\ cut \in Nat /\ cut >= 2 /\ cut <= I /\ cut + 1 \in Nat /\ I + 1 \in Nat
      /\ cut + 1 <= I + 1 /\ cut + 1 >= 1 /\ cut + 1 <= (I + 1) + 1
      /\ ((I + 1) - (cut + 1)) + 1 >= 2 /\ ((I + 1) - (cut + 1)) + 1 <= I
  BY <1>0, CutIs
<1> HIDE DEF I
<1>2. IsFiniteSet({}) /\ Cardinality({}) <= LeafCap /\ {} \in SUBSET Keys
  BY <1>0, FS_EmptySet
<1>3. /\ a \in Seq(DownType) /\ Len(a) = cut /\ a[1] = s[1]
  <2>1. 1 \in Nat /\ 1 <= 1 /\ 1 <= cut + 1 /\ cut <= Len(s)
    BY <1>0, <1>1 DEF I
  <2>0. IsPart(DownType, s, 1, cut, a)  BY <1>1, <2>1, PartIs DEF PartsOf
  <2>2. a \in Seq(DownType) /\ Len(a) = (cut - 1) + 1  BY <2>0 DEF IsPart
  <2>3. \A j \in DOMAIN a : a[j] = s[(1 + j) - 1]  BY <2>0 DEF IsPart
  <2>4. Len(a) = cut  BY <1>1, <2>2
  <2>5. 1 \in DOMAIN a  BY <1>1, <2>2, <2>4
  <2>6. \A j \in Nat : (1 + j) - 1 = j  OBVIOUS
  <2>7. PICK j \in Nat : j = 1  OBVIOUS
  <2>8. a[j] = s[(1 + j) - 1] /\ (1 + j) - 1 = j  BY <2>3, <2>5, <2>6, <2>7
  <2> QED  BY <2>2, <2>4, <2>7, <2>8
<1>4. a # <<>> /\ Len(a) <= InnerCap  BY <1>1, <1>3 DEF I
<1>5. HalfOK(p, L)  BY <1>2, <1>3, <1>4 DEF HalfOK
<1>6. kept \in Seq(DownType) /\ Len(kept) = ((I + 1) - (cut + 1)) + 1
  <2>1. PICK i \in Nat, n \in Nat : i = cut + 1 /\ n = I + 1  BY <1>1
  <2>2. 1 <= i /\ i <= n + 1 /\ n <= Len(s)  BY <1>0, <1>1, <2>1 DEF I
  <2>3. kept = SubSeq(s, i, n)  BY <2>1 DEF I, PartsOf
  <2>4. kept \in Seq(DownType) /\ Len(kept) = (n - i) + 1
    <3>1. IsPart(DownType, s, i, n, kept)  BY <2>1, <2>2, <2>3, PartIs
    <3> QED  BY <3>1 DEF IsPart
  <2> QED  BY <2>1, <2>4
<1>7. kept # <<>> /\ Len(kept) <= I
  <2>1. \A Q : \A u \in Seq(Q) : Len(u) # 0 => u # <<>>  OBVIOUS
  <2>2. Len(kept) >= 2 /\ Len(kept) <= I /\ Len(kept) \in Nat  BY <1>1, <1>6
  <2>3. Len(kept) # 0 /\ kept \in Seq(DownType)  BY <1>6, <2>2
  <2>4. kept # <<>>  BY <2>1, <2>3
  <2> QED  BY <2>2, <2>4
<1>8. kept[1] \in DownType
  <2>1. \A Q : \A u \in Seq(Q) : u # <<>> => u[1] \in Q  OBVIOUS
  <2> QED  BY <1>6, <1>7, <2>1
<1>9. PICK e : e = [kept[1] EXCEPT !.sep = MinusInf]  OBVIOUS
<1>10. e \in DownType /\ e.sep = MinusInf  BY <1>8, <1>9 DEF DownType
<1>11. b = [kept EXCEPT ![1] = e]  BY <1>9 DEF PartsOf
<1>12. b \in Seq(DownType) /\ b # <<>> /\ Len(b) = Len(kept) /\ b[1] = e
  <2>1. kept \in Seq(DownType)  BY <1>6
  <2>2. \A d \in DownType : \A t : t = [kept EXCEPT ![1] = d] =>
          (t \in Seq(DownType) /\ t # <<>> /\ Len(t) = Len(kept) /\ t[1] = d)
    BY <1>7, <2>1, HeadSet
  <2> HIDE DEF I
  <2> QED  BY <1>10, <1>11, <2>2
<1>13. HalfOK(p, R)  BY <1>2, <1>7, <1>10, <1>12 DEF HalfOK, I
<1>14. sep \in Keys \cup {MinusInf}
  <2>1. cut + 1 \in 1 .. Len(s)  BY <1>0, <1>1 DEF I
  <2>2. s[cut + 1] \in DownType  BY <2>1
  <2> QED  BY <2>2 DEF DownType, PartsOf
<1> QED  BY <1>5, <1>13, <1>14

LEMMA SplitParentOK ==
  ASSUME Inv, NEW c \in Sessions, SplitParent(c)
  PROVE  Inv'
<1>1. PICK p, i, e, items :
        /\ p = Here(c) /\ i = DownlinkOf(c) /\ e = NewDownlink(c)
        /\ items = InsertAt(page[p].down, i + 1, e)
  OBVIOUS
<1>2. PICK cut \in MinDownlinks .. ((InnerCap + 1) - MinDownlinks), q \in Pages, n \in Links :
         /\ Allocates(q, {})
         /\ IF p = root THEN n \in Pages /\ Allocates(n, {q}) ELSE n = NoPage
         /\ SplitRecord(p, [keys |-> {}, down |-> SubSeq(items, 1, cut)],
              [keys |-> {},
               down |-> [SubSeq(items, cut + 1, InnerCap + 1) EXCEPT ![1].sep = MinusInf]],
              items[cut + 1].sep, q, n)
         /\ fsm' = fsm \ {q, n}
         /\ IF p = root
            THEN /\ root' = n
                 /\ cached' = [cached EXCEPT ![c] = n]
                 /\ Goto(c, [phase |-> "clear", stack |-> Linked(c)])
            ELSE /\ ToRoot(c, [stack |-> Append(Linked(c),
                                           [page |-> p, linked |-> FALSE])])
                 /\ UNCHANGED root
  BY <1>1 DEF SplitParent
<1>3. /\ Places(c) /\ Len(page[p].down) = InnerCap
      /\ CanAllocate(IF p = root THEN 2 ELSE 1) /\ waits' = waits /\ vac' = vac
  BY <1>1 DEF SplitParent
<1>4. PagesOK /\ LinksOK /\ CallsOK /\ VacOK  BY DEF Inv
<1>5. Reads(c) /\ DownlinksTo(p, Top(c).page) # {}
  BY <1>1, <1>3 DEF Places, AtDownlink, Scans
<1>6. /\ p \in Pages /\ client[c].phase # "rest" /\ client[c].stack \in Stack
      /\ Holdable(client[c].stack) /\ Climbing(c) /\ client[c].key \in Keys
  BY <1>1, <1>3, <1>5, ReadsIs DEF Places, AtDownlink, Scans
<1>7. i \in 1 .. Len(page[p].down)
  <2>1. DownlinksTo(p, Top(c).page) \subseteq 1 .. Len(page[p].down)
        /\ Len(page[p].down) \in Nat
    BY <1>4, <1>6, DownItems DEF DownlinksTo
  <2>2. DownlinksTo(p, Top(c).page) \in SUBSET Nat  BY <2>1
  <2>3. i = Min(DownlinksTo(p, Top(c).page))  BY <1>1 DEF DownlinkOf
  <2>4. i \in DownlinksTo(p, Top(c).page)  BY <1>5, <2>2, <2>3, MinIs
  <2> QED  BY <2>1, <2>4
<1>8. p \in InLevels /\ page[p].down # <<>>
  BY <1>4, <1>6, <1>7, OutOfLevels
<1>9. /\ page[p].kind = "inner" /\ page[p].state = "live"
      /\ page[p].down[1].sep = MinusInf
  <2>1. PageOK(p) /\ Directory(p) /\ ~Deleted(p)  BY <1>4, <1>6, <1>8, PageIs DEF InLevels
  <2>2. page[p].kind = "inner"  BY <1>8, <2>1 DEF PageOK, Directory
  <2>3. page[p].state \in {"live", "half", "deleted"}  BY <1>4, <1>6, Fields
  <2> QED  BY <2>1, <2>2, <2>3 DEF PageOK, Deleted
<1>10. e \in DownType
  <2>1. Top(c).page \in Pages /\ page[Top(c).page].right \in Pages
    BY <1>4, <1>6, TopIs
  <2>2. page[Top(c).page].high \in Keys \cup {MinusInf}  BY <1>4, <2>1, Fields
  <2> QED  BY <1>1, <2>1, <2>2 DEF NewDownlink, DownType
<1>11. items \in Seq(DownType) /\ Len(items) = InnerCap + 1 /\ items[1].sep = MinusInf
  <2>1. PICK s : s = page[p].down  OBVIOUS
  <2>2. s \in Seq(DownType) /\ i \in 1 .. Len(s)  BY <1>4, <1>6, <1>7, <2>1, Fields
  <2>3. /\ InsertAt(s, i + 1, e) \in Seq(DownType)
        /\ Len(InsertAt(s, i + 1, e)) = Len(s) + 1
        /\ \A j \in 1 .. i : InsertAt(s, i + 1, e)[j] = s[j]
    BY <1>10, <2>2, InsertAtIs
  <2>4. 1 \in 1 .. i  BY <2>2
  <2>5. items = InsertAt(s, i + 1, e)  BY <1>1, <2>1
  <2> QED  BY <1>3, <1>9, <2>1, <2>3, <2>4, <2>5
<1>12. PICK a, kept, b, sep : PartsOf(items, cut, a, kept, b, sep)  BY DEF PartsOf
<1>13. PICK L, R : L = [keys |-> {}, down |-> a] /\ R = [keys |-> {}, down |-> b]
  OBVIOUS
<1>14. L.keys = {} /\ L.down = a /\ R.keys = {} /\ R.down = b  BY <1>13
<1>15. HalfOK(p, L) /\ HalfOK(p, R) /\ sep \in Keys \cup {MinusInf}
  <2>1. items[1].sep = MinusInf  BY <1>11
  <2> QED  BY <1>6, <1>9, <1>11, <1>12, <1>14, <2>1, PartsOK
<1>16. SplitRecord(p, L, R, sep, q, n)  BY <1>2, <1>12, <1>13 DEF PartsOf
<1>17. root' = IF p = root THEN n ELSE root  BY <1>2
<1>18. /\ PagesOK' /\ LinksOK' /\ \A x \in InLevels : Stays(x)
       /\ p \in InLevels' /\ ~Rightmost(p)'
  BY <1>2, <1>3, <1>8, <1>9, <1>15, <1>16, <1>17, SplitOK
<1>19. waits' \in [Pages -> SUBSET Sessions]  BY <1>3, <1>4, CallFields
<1>20. CallsOK'
  <2>1. CASE p = root
    <3>1. /\ Goto(c, [phase |-> "clear", stack |-> Linked(c)])
          /\ cached' = [cached EXCEPT ![c] = n]
      BY <1>2, <2>1
    <3>2. PICK w : client' = [client EXCEPT ![c] = w] /\ Fits(w)
      BY <1>4, <1>6, <3>1, ToClear
    <3>3. cached' \in [Sessions -> Links]  BY <1>4, <3>1, CallFields
    <3> QED  BY <1>4, <1>18, <1>19, <3>2, <3>3, CallOn
  <2>2. CASE p # root
    <3>1. PICK l : l = Linked(c)  OBVIOUS
    <3>2. l \in Stack /\ Holdable(l)
      <4>1. l \in Stack /\ \A j \in DOMAIN l :
              j \in DOMAIN client[c].stack /\ l[j].page = client[c].stack[j].page
        BY <1>6, <3>1, LinkedIs
      <4> QED  BY <1>6, <4>1 DEF Holdable
    <3>3. PICK s : s = Append(l, [page |-> p, linked |-> FALSE])  OBVIOUS
    <3>4. s \in Stack /\ \A j \in DOMAIN s :
            s[j].page = p \/ (j \in DOMAIN l /\ s[j] = l[j])
      <4>1. s \in Stack  BY <1>6, <3>2, <3>3, PushIs
      <4>2. \A j \in DOMAIN s : s[j].page = p \/ (j \in DOMAIN l /\ s[j] = l[j])
        BY <1>6, <3>2, <3>3, PushIs
      <4> QED  BY <4>1, <4>2
    <3>5. PICK g : g = [stack |-> s]  OBVIOUS
    <3>6. DOMAIN g = {"stack"} /\ g.stack = s  BY <3>5
    <3>7. Sets(g)  BY <3>4, <3>6 DEF Sets, Stack
    <3>8. ToRoot(c, g)  BY <1>2, <2>2, <3>1, <3>3, <3>5
    <3>9. root \in Pages /\ Height \in Nat  BY <1>4, RootIs
    <3>10. cached' \in [Sessions -> Links]  BY <1>4, <3>7, <3>8, <3>9, RootStep
    <3>11. PICK w \in CallType :
             /\ client' = [client EXCEPT ![c] = w] /\ w.phase = "root"
             /\ w.key = client[c].key /\ w.stack = s
      <4>1. "key" \notin DOMAIN g /\ "stack" \in DOMAIN g  BY <3>6
      <4> QED  BY <1>4, <3>6, <3>7, <3>8, <3>9, <4>1, RootStep
    <3>12. Holds(s) /\ \A d \in Sessions : Holds(client[d].stack)
      <4>1. \A d \in Sessions : Holds(client[d].stack)  BY <1>4, <1>18, StaysHeld
      <4>2. ASSUME NEW j \in DOMAIN s
            PROVE  s[j].page \in InLevels' /\ ~Rightmost(s[j].page)'
        <5>1. CASE s[j].page = p  BY <1>18, <5>1
        <5>2. CASE j \in DOMAIN l /\ s[j] = l[j]
          <6>1. s[j].page \in InLevels /\ ~Rightmost(s[j].page)
            BY <3>2, <5>2 DEF Holdable
          <6>2. Stays(s[j].page)  BY <1>18, <6>1
          <6> QED  BY <6>1, <6>2 DEF Stays
        <5> QED  BY <3>4, <5>1, <5>2
      <4>3. Holds(s)  BY <4>2 DEF Holds
      <4> QED  BY <4>1, <4>3
    <3> QED  BY <1>4, <1>6, <1>19, <3>10, <3>11, <3>12, CallStep
  <2> QED  BY <2>1, <2>2
<1>21. VacOK'  BY <1>3, <1>4, <1>18, SeenIs, VacStays
<1> QED  BY <1>18, <1>20, <1>21 DEF Inv

\* Every step of a session keeps the invariant.
LEMMA CallKeepsInv ==
  ASSUME Inv, NEW c \in Sessions, Call(c)
  PROVE  Inv'
<1>1. CASE Begin(c)          BY <1>1, BeginQuiet
<1>2. CASE Fail(c)           BY <1>2, FailQuiet
<1>3. CASE RootMoved(c)      BY <1>3, RootMovedQuiet
<1>4. CASE Repair(c)         BY <1>4, RepairQuiet
<1>5. CASE MoveRight(c)      BY <1>5, MoveRightQuiet
<1>6. CASE Descend(c)        BY <1>6, DescendQuiet
<1>7. CASE Answer(c)         BY <1>7, AnswerQuiet
<1>8. CASE FindEntry(c)      BY <1>8, FindEntryQuiet
<1>9. CASE AddEntry(c)       BY <1>9, AddEntryOK
<1>10. CASE SplitLeaf(c)     BY <1>10, SplitLeafOK
<1>11. CASE ReachParents(c)  BY <1>11, ReachParentsQuiet
<1>12. CASE Climb(c)         BY <1>12, ClimbQuiet
<1>13. CASE RepairParent(c)  BY <1>13, RepairParentQuiet
<1>14. CASE ScanRight(c)     BY <1>14, ScanRightQuiet
<1>15. CASE AlreadyLinked(c) BY <1>15, AlreadyLinkedQuiet
<1>16. CASE PlaceDownlink(c) BY <1>16, PlaceDownlinkOK
<1>17. CASE SplitParent(c)   BY <1>17, SplitParentOK
<1>18. CASE ClearFlag(c)     BY <1>18, ClearFlagOK
<1> QED
  BY <1>1, <1>2, <1>3, <1>4, <1>5, <1>6, <1>7, <1>8, <1>9, <1>10, <1>11, <1>12, <1>13,
     <1>14, <1>15, <1>16, <1>17, <1>18 DEF Call

-----------------------------------------------------------------------------
(* The steps of VACUUM that write no page                                  *)

\* Where VACUUM may be.
VacFits(v) ==
  /\ v \in VacType
  /\ v.phase \notin {"asleep", "sweep"} => v.leaf \in Pages
  /\ v.phase \in {"root", "walk", "scan"} => HeldLeaf(v.leaf)
  /\ v.phase \in {"unlink", "left"} => v.leaf \in HalfDead
  /\ v.phase = "left" => v.child \in Pages

LEMMA QuietVac ==
  ASSUME Inv, NEW v, VacFits(v), vac' = v, UNCHANGED pageVars
  PROVE  Inv'
<1>1. PagesOK /\ LinksOK /\ CallsOK  BY DEF Inv
<1>2. /\ page' = page /\ root' = root /\ fsm' = fsm /\ waits' = waits
      /\ cached' = cached /\ client' = client
  BY DEF pageVars
<1>3. PagesOK' /\ LinksOK' /\ \A p \in InLevels : Stays(p)  BY <1>1, <1>2, Quiet
<1>4. CallsOK'
  <2>1. waits' \in [Pages -> SUBSET Sessions]  BY <1>1, <1>2 DEF CallsOK
  <2>2. \A d \in Sessions : Holds(client[d].stack)  BY <1>1, <1>3, StaysHeld
  <2> QED  BY <1>1, <1>2, <2>1, <2>2, NoCallStep
<1>5. VacOK'
  <2>1. v.phase \in {"root", "walk", "scan"} => HeldLeaf(v.leaf)'
    BY <1>3 DEF VacFits, HeldLeaf, Stays
  <2>2. v.phase \in {"unlink", "left"} => v.leaf \in HalfDead'
    BY <1>2 DEF VacFits, HalfDead
  <2> QED  BY <2>1, <2>2 DEF VacFits, VacOK, HeldLeaf
<1> QED  BY <1>3, <1>4, <1>5 DEF Inv

LEMMA VacFitsNow ==
  ASSUME Inv
  PROVE  VacFits(vac) /\ vac.next \in Links /\ vac.at \in Links /\ vac.child \in Links
BY DEF Inv, VacOK, VacFits, HeldLeaf, VacType

\* what a step of VACUUM may set,
SetsVac(g) ==
  /\ DOMAIN g \subseteq {"phase", "leaf", "next", "seen", "child", "key", "heir", "at",
                        "level"}
  /\ "phase" \in DOMAIN g => g.phase \in {"see", "delete", "look", "root", "walk",
                                         "scan", "unlink", "left"}
  /\ "leaf" \in DOMAIN g => g.leaf \in Links
  /\ "next" \in DOMAIN g => g.next \in Links
  /\ "seen" \in DOMAIN g => g.seen \in SUBSET Keys
  /\ "child" \in DOMAIN g => g.child \in Links
  /\ "key" \in DOMAIN g => g.key \in Keys \cup {MinusInf}
  /\ "heir" \in DOMAIN g => g.heir \in Links
  /\ "at" \in DOMAIN g => g.at \in Links
  /\ "level" \in DOMAIN g => g.level \in Nat

\* and VACUUM with it set.
LEMMA VacWith ==
  ASSUME Inv, NEW g, SetsVac(g), NEW v, v = With(vac, g)
  PROVE  /\ v \in VacType
         /\ v.phase = IF "phase" \in DOMAIN g THEN g.phase ELSE vac.phase
         /\ v.leaf = IF "leaf" \in DOMAIN g THEN g.leaf ELSE vac.leaf
         /\ v.child = IF "child" \in DOMAIN g THEN g.child ELSE vac.child
<1>1. vac \in VacType  BY DEF Inv, VacOK
<1> QED  BY <1>1 DEF With, VacType, SetsVac

LEMMA AsleepIs ==
  Asleep \in VacType /\ Asleep.phase = "asleep"
<1>1. NoPage \in Links /\ 0 \in Nat /\ 0 \in Keys \cup {MinusInf} /\ {} \in SUBSET Keys
  BY PagesAre DEF MinusInf
<1> QED  BY <1>1 DEF Asleep, VacType

\* VACUUM goes on to the next leaf, or is through with them.
LEMMA NextLeafIs ==
  ASSUME Inv, NextLeaf
  PROVE  /\ vac' \in VacType
         /\ \/ vac'.phase = "sweep"
            \/ vac'.phase = "see" /\ vac'.leaf \in Pages
<1>1. PICK f, l : f = (IF vac.next = NoPage THEN "sweep" ELSE "see") /\ l = vac.next
  OBVIOUS
<1>2. f \in {"sweep", "see"} /\ l \in Links /\ (f = "see" => l \in Pages)
  BY <1>1, VacFitsNow, PagesAre
<1>3. vac' = [Asleep EXCEPT !.phase = f, !.leaf = l]  BY <1>1 DEF NextLeaf
<1> QED  BY <1>2, <1>3, AsleepIs DEF VacType

LEMMA NextLeafOK ==
  ASSUME Inv, NextLeaf, UNCHANGED pageVars
  PROVE  Inv'
<1>1. PICK v : v = vac'
  OBVIOUS
<1>2. VacFits(v)  BY <1>1, NextLeafIs DEF VacFits
<1> QED  BY <1>1, <1>2, QuietVac

LEMMA StartVacuumOK ==
  ASSUME Inv, StartVacuum
  PROVE  Inv'
<1>1. PICK l : l = LeftmostLeaf  OBVIOUS
<1>2. l \in Pages /\ l \in Links
  BY <1>1, PagesAre DEF StartVacuum, IsAtLevel, Directory
<1>3. PICK g : g = [phase |-> "see", leaf |-> l]  OBVIOUS
<1>4. DOMAIN g = {"phase", "leaf"} /\ g.phase = "see" /\ g.leaf = l  BY <1>3
<1>5. SetsVac(g)  BY <1>2, <1>4 DEF SetsVac
<1>6. PICK v : v = With(vac, g)  OBVIOUS
<1>7. v \in VacType /\ v.phase = "see" /\ v.leaf = l
  <2>1. "phase" \in DOMAIN g /\ "leaf" \in DOMAIN g  BY <1>4
  <2> QED  BY <1>4, <1>5, <1>6, <2>1, VacWith
<1>8. VacFits(v)  BY <1>2, <1>7 DEF VacFits
<1>9. vac' = v /\ UNCHANGED pageVars  BY <1>1, <1>3, <1>6 DEF StartVacuum, VacGoto
<1> QED  BY <1>8, <1>9, QuietVac

LEMMA VacFailOK ==
  ASSUME Inv, VacFail
  PROVE  Inv'
<1>1. VacFits(Asleep)  BY AsleepIs DEF VacFits
<1>2. PICK v : v = Asleep  OBVIOUS
<1>3. VacFits(v) /\ vac' = v /\ UNCHANGED pageVars  BY <1>1, <1>2 DEF VacFail
<1> QED  BY <1>3, QuietVac

LEMMA SeeLeafOK ==
  ASSUME Inv, SeeLeaf
  PROVE  Inv'
<1>1. PICK D \in SUBSET (page[vac.leaf].keys \cap EmptyKeys) :
        VacGoto([phase |-> IF D = {} THEN "look" ELSE "delete",
                 next |-> page[vac.leaf].right, seen |-> D])
  BY DEF SeeLeaf
<1>2. vac.leaf \in Pages  BY VacFitsNow DEF SeeLeaf, VacFits
<1>3. PICK f, n : f = (IF D = {} THEN "look" ELSE "delete") /\ n = page[vac.leaf].right
  OBVIOUS
<1>4. f \in {"look", "delete"} /\ n \in Links /\ D \in SUBSET Keys
  BY <1>2, <1>3, Fields, KeysAre DEF Inv
<1>5. PICK g : g = [phase |-> f, next |-> n, seen |-> D]  OBVIOUS
<1>6. DOMAIN g = {"phase", "next", "seen"} /\ g.phase = f /\ g.next = n /\ g.seen = D
  BY <1>5
<1>7. SetsVac(g)  BY <1>4, <1>6 DEF SetsVac
<1>8. PICK v : v = With(vac, g)  OBVIOUS
<1>9. v \in VacType /\ v.phase = f /\ v.leaf = vac.leaf
  <2>1. "phase" \in DOMAIN g /\ "leaf" \notin DOMAIN g  BY <1>6
  <2> QED  BY <1>6, <1>7, <1>8, <2>1, VacWith
<1>10. VacFits(v)  BY <1>2, <1>4, <1>9 DEF VacFits
<1>11. vac' = v /\ UNCHANGED pageVars  BY <1>1, <1>3, <1>5, <1>8 DEF SeeLeaf, VacGoto
<1> QED  BY <1>10, <1>11, QuietVac

LEMMA LookAtLeafOK ==
  ASSUME Inv, LookAtLeaf
  PROVE  Inv'
<1>1. PICK p : p = vac.leaf  OBVIOUS
<1>2. p \in Pages /\ PagesOK /\ PageOK(p) /\ p \in Links
  BY <1>1, VacFitsNow, PageIs, PagesAre DEF LookAtLeaf, VacFits, Inv
<1>3. CASE page[p].state = "half"
  <2>1. PICK g : g = [phase |-> "unlink"]  OBVIOUS
  <2>2. DOMAIN g = {"phase"} /\ g.phase = "unlink"  BY <2>1
  <2>3. SetsVac(g)  BY <2>2 DEF SetsVac
  <2>4. PICK v : v = With(vac, g)  OBVIOUS
  <2>5. v \in VacType /\ v.phase = "unlink" /\ v.leaf = p
    <3>1. "phase" \in DOMAIN g /\ "leaf" \notin DOMAIN g  BY <2>2
    <3> QED  BY <1>1, <2>2, <2>3, <2>4, <3>1, VacWith
  <2>6. VacFits(v)  BY <1>2, <1>3, <2>5 DEF VacFits, HalfDead
  <2>7. vac' = v /\ UNCHANGED pageVars
    BY <1>1, <1>3, <2>1, <2>4 DEF LookAtLeaf, VacGoto
  <2> QED  BY <2>6, <2>7, QuietVac
<1>4. CASE page[p].state # "half" /\ Candidate(p)
  <2>1. HeldLeaf(p)
    <3>1. page[p].kind = "leaf" /\ page[p].state = "live" /\ ~Rightmost(p)
      BY <1>4 DEF Candidate
    <3>2. Directory(p)  BY <1>2, <3>1 DEF Directory
    <3> QED  BY <1>2, <3>1, <3>2, InLevelsIs DEF HeldLeaf, PageOK
  <2>2. PICK h, k : h = page[p].right /\ k = page[p].high  OBVIOUS
  <2>3. h \in Links /\ k \in Keys \cup {MinusInf}  BY <1>2, <2>2, Fields
  <2>4. PICK g : g = [phase |-> "root", child |-> p, heir |-> h, key |-> k]  OBVIOUS
  <2>5. /\ DOMAIN g = {"phase", "child", "heir", "key"} /\ g.phase = "root"
        /\ g.child = p /\ g.heir = h /\ g.key = k
    BY <2>4
  <2>6. SetsVac(g)  BY <1>2, <2>3, <2>5 DEF SetsVac
  <2>7. PICK v : v = With(vac, g)  OBVIOUS
  <2>8. v \in VacType /\ v.phase = "root" /\ v.leaf = p
    <3>1. "phase" \in DOMAIN g /\ "leaf" \notin DOMAIN g  BY <2>5
    <3> QED  BY <1>1, <2>5, <2>6, <2>7, <3>1, VacWith
  <2>9. VacFits(v)  BY <1>2, <2>1, <2>8 DEF VacFits
  <2>10. vac' = v /\ UNCHANGED pageVars
    BY <1>1, <1>4, <2>2, <2>4, <2>7 DEF LookAtLeaf, VacGoto
  <2> QED  BY <2>9, <2>10, QuietVac
<1>5. CASE page[p].state # "half" /\ ~Candidate(p)
  <2>1. NextLeaf /\ UNCHANGED pageVars  BY <1>1, <1>5 DEF LookAtLeaf
  <2> QED  BY <2>1, NextLeafOK
<1> QED  BY <1>3, <1>4, <1>5

\* Stage 1 goes on.
LEMMA StageOne ==
  ASSUME Inv, vac.phase \in {"root", "walk", "scan"}, NEW g, SetsVac(g),
         "leaf" \notin DOMAIN g,
         "phase" \in DOMAIN g => g.phase \in {"root", "walk", "scan"},
         VacGoto(g), UNCHANGED pageVars
  PROVE  Inv'
<1>1. PICK v : v = With(vac, g)  OBVIOUS
<1>2. v \in VacType /\ v.phase \in {"root", "walk", "scan"} /\ v.leaf = vac.leaf
  BY <1>1, VacWith
<1>3. vac.leaf \in Pages /\ HeldLeaf(vac.leaf)  BY VacFitsNow DEF VacFits
<1>4. VacFits(v)  BY <1>2, <1>3 DEF VacFits
<1>5. vac' = v  BY <1>1 DEF VacGoto
<1> QED  BY <1>4, <1>5, QuietVac

\* The page VACUUM reads.
LEMMA VacReadsIs ==
  ASSUME Inv, VacReads
  PROVE  /\ VacHere \in Pages /\ Directory(VacHere) /\ PageOK(VacHere)
         /\ vac.phase \in {"root", "walk", "scan"} /\ PagesOK
         /\ vac.phase # "root" => VacHere = vac.at
<1>1. PagesOK /\ LinksOK  BY DEF Inv
<1>2. VacHere \in Pages /\ Directory(VacHere)
  BY <1>1, RootIs DEF VacReads, VacHere, IsAtLevel, Directory
<1> QED  BY <1>1, <1>2, PageIs DEF VacReads, VacHere

LEMMA BelowIs ==
  ASSUME PagesOK, NEW p \in Pages, page[p].down # <<>>, NEW k
  PROVE  page[p].down[DownlinkBelow(p, k)].child \in Pages
<1>1. /\ DOMAIN page[p].down = 1 .. Len(page[p].down) /\ Len(page[p].down) \in Nat
      /\ \A i \in DOMAIN page[p].down : page[p].down[i].child \in Pages
  BY DownItems
<1>2. 1 \in DOMAIN page[p].down
  <2>1. page[p].down \in Seq(DownType)  BY Fields
  <2> QED  BY <1>1, <2>1
<1> DEFINE T == {1} \cup {i \in DOMAIN page[p].down : page[p].down[i].sep < k}
<1>3. T \in SUBSET (0 .. Len(page[p].down)) /\ T # {} /\ T \subseteq DOMAIN page[p].down
  BY <1>1, <1>2
<1>4. Max(T) \in T  BY <1>1, <1>3, MaxIs
<1> QED  BY <1>1, <1>3, <1>4 DEF DownlinkBelow

LEMMA VacDescendOK ==
  ASSUME Inv, VacDescend
  PROVE  Inv'
<1>1. PICK p, l : p = VacHere /\ l = page[p].level  OBVIOUS
<1>2. VacReads /\ UNCHANGED pageVars  BY DEF VacDescend
<1>3. /\ p \in Pages /\ PagesOK /\ PageOK(p) /\ Directory(p)
      /\ vac.phase \in {"root", "walk", "scan"} /\ p \in Links
  BY <1>1, <1>2, VacReadsIs, PagesAre
<1>4. l \in Nat /\ page[p].right \in Links  BY <1>1, <1>3, Fields
<1>5. \/ VacGoto([phase |-> "walk", at |-> page[p].right, level |-> l])
      \/ VacGoto([phase |-> "scan", at |-> p, level |-> l])
      \/ NextLeaf
      \/ /\ page[p].down # <<>>
         /\ VacGoto([phase |-> "walk", level |-> l - 1,
                     at |-> page[p].down[DownlinkBelow(p, vac.key)].child])
  BY <1>1 DEF VacDescend
<1>6. ASSUME NEW f \in {"walk", "scan"}, NEW a \in Links, NEW m \in Nat,
             VacGoto([phase |-> f, at |-> a, level |-> m])
      PROVE  Inv'
  <2>1. PICK g : g = [phase |-> f, at |-> a, level |-> m]  OBVIOUS
  <2>2. DOMAIN g = {"phase", "at", "level"} /\ g.phase = f /\ g.at = a /\ g.level = m
    BY <2>1
  <2>3. SetsVac(g) /\ "leaf" \notin DOMAIN g  BY <2>2 DEF SetsVac
  <2>4. VacGoto(g)  BY <1>6, <2>1
  <2> QED  BY <1>2, <1>3, <2>2, <2>3, <2>4, StageOne
<1>7. CASE VacGoto([phase |-> "walk", at |-> page[p].right, level |-> l])
  <2>1. PICK a : a = page[p].right  OBVIOUS
  <2>2. VacGoto([phase |-> "walk", at |-> a, level |-> l]) /\ a \in Links
    BY <1>4, <1>7, <2>1
  <2> QED  BY <1>4, <1>6, <2>2
<1>8. CASE VacGoto([phase |-> "scan", at |-> p, level |-> l])
  BY <1>3, <1>4, <1>6, <1>8
<1>9. CASE NextLeaf  BY <1>2, <1>9, NextLeafOK
<1>10. CASE /\ page[p].down # <<>>
            /\ VacGoto([phase |-> "walk", level |-> l - 1,
                     at |-> page[p].down[DownlinkBelow(p, vac.key)].child])
  <2>1. page[p].kind # "leaf" /\ l # 0
    BY <1>1, <1>3, <1>10 DEF PageOK, Level, Directory
  <2>2. l - 1 \in Nat  BY <1>4, <2>1
  <2>3. PICK a, m : a = page[p].down[DownlinkBelow(p, vac.key)].child /\ m = l - 1
    OBVIOUS
  <2>4. a \in Links /\ m \in Nat  BY <1>3, <1>10, <2>2, <2>3, BelowIs, PagesAre
  <2>5. VacGoto([phase |-> "walk", at |-> a, level |-> m])
    <3>1. [phase |-> "walk", at |-> a, level |-> m]
             = [phase |-> "walk", level |-> m, at |-> a]
      OBVIOUS
    <3> QED  BY <1>10, <2>3, <3>1
  <2> QED  BY <1>6, <2>4, <2>5
<1> QED  BY <1>5, <1>7, <1>8, <1>9, <1>10

LEMMA VacScanRightOK ==
  ASSUME Inv, VacScanRight
  PROVE  Inv'
<1>1. VacReads /\ vac.phase = "scan" /\ UNCHANGED pageVars
  BY DEF VacScanRight, VacScans
<1>2. PICK a : a = page[vac.at].right  OBVIOUS
<1>3. a \in Links /\ vac.phase \in {"root", "walk", "scan"}
  BY <1>1, <1>2, VacReadsIs, Fields
<1>4. NextLeaf \/ VacGoto([at |-> a])  BY <1>2 DEF VacScanRight
<1>5. CASE VacGoto([at |-> a])
  <2>1. PICK g : g = [at |-> a]  OBVIOUS
  <2>2. DOMAIN g = {"at"} /\ g.at = a  BY <2>1
  <2>3. SetsVac(g) /\ "leaf" \notin DOMAIN g /\ "phase" \notin DOMAIN g
    BY <1>3, <2>2 DEF SetsVac
  <2>4. VacGoto(g)  BY <1>5, <2>1
  <2> QED  BY <1>1, <1>3, <2>3, <2>4, StageOne
<1> QED  BY <1>1, <1>4, <1>5, NextLeafOK

LEMMA ClimbSubtreeOK ==
  ASSUME Inv, ClimbSubtree
  PROVE  Inv'
<1>1. PICK p, h, k : p = vac.at /\ h = page[p].right /\ k = page[p].high  OBVIOUS
<1>2. VacReads /\ vac.phase = "scan" /\ UNCHANGED pageVars
  BY DEF ClimbSubtree, VacAtDownlink, VacScans
<1>3. /\ p \in Links /\ h \in Links /\ k \in Keys \cup {MinusInf} /\ NoPage \in Links
      /\ vac.phase \in {"root", "walk", "scan"}
  BY <1>1, <1>2, VacReadsIs, Fields, PagesAre
<1>4. PICK g : g = [phase |-> "root", child |-> p, heir |-> h, key |-> k, at |-> NoPage,
                    level |-> 0]
  OBVIOUS
<1>5. /\ DOMAIN g = {"phase", "child", "heir", "key", "at", "level"}
      /\ g.phase = "root" /\ g.child = p /\ g.heir = h /\ g.key = k /\ g.at = NoPage
      /\ g.level = 0
  BY <1>4
<1>6. SetsVac(g) /\ "leaf" \notin DOMAIN g  BY <1>3, <1>5 DEF SetsVac
<1>7. VacGoto(g)  BY <1>1, <1>4 DEF ClimbSubtree
<1> QED  BY <1>2, <1>3, <1>5, <1>6, <1>7, StageOne

LEMMA LeaveLeafOK ==
  ASSUME Inv, LeaveLeaf
  PROVE  Inv'
BY NextLeafOK DEF LeaveLeaf

\* Stage 2 goes on.
LEMMA StageTwo ==
  ASSUME Inv, vac.phase \in {"unlink", "left"}, NEW g, SetsVac(g),
         "leaf" \notin DOMAIN g, NEW f,
         f = IF "phase" \in DOMAIN g THEN g.phase ELSE vac.phase,
         f \in {"unlink", "left"},
         f = "left" => IF "child" \in DOMAIN g THEN g.child \in Pages
                       ELSE vac.phase = "left",
         VacGoto(g), UNCHANGED pageVars
  PROVE  Inv'
<1>1. PICK v : v = With(vac, g)  OBVIOUS
<1>2. /\ v \in VacType /\ v.phase = f /\ v.leaf = vac.leaf
      /\ v.child = IF "child" \in DOMAIN g THEN g.child ELSE vac.child
  BY <1>1, VacWith
<1>3. vac.leaf \in Pages /\ vac.leaf \in HalfDead
      /\ (vac.phase = "left" => vac.child \in Pages)
  BY VacFitsNow DEF VacFits
<1>4. VacFits(v)  BY <1>2, <1>3 DEF VacFits
<1>5. vac' = v  BY <1>1 DEF VacGoto
<1> QED  BY <1>4, <1>5, QuietVac

LEMMA PickTargetOK ==
  ASSUME Inv, PickTarget
  PROVE  Inv'
<1>1. PICK t, a, l :
        /\ t = (IF page[vac.leaf].owner = NoPage THEN vac.leaf ELSE page[vac.leaf].owner)
        /\ a = page[t].left /\ l = page[t].level
  OBVIOUS
<1>2. vac.phase = "unlink" /\ UNCHANGED pageVars  BY DEF PickTarget
<1>3. vac.leaf \in Pages  BY <1>2, VacFitsNow DEF VacFits
<1>4. t \in Pages /\ t \in Links
  BY <1>1, <1>3, Fields, PagesAre DEF Inv
<1>5. a \in Links /\ l \in Nat  BY <1>1, <1>4, Fields DEF Inv
<1>6. PICK g : g = [phase |-> "left", child |-> t, at |-> a, level |-> l]  OBVIOUS
<1>7. /\ DOMAIN g = {"phase", "child", "at", "level"} /\ g.phase = "left" /\ g.child = t
      /\ g.at = a /\ g.level = l
  BY <1>6
<1>8. /\ SetsVac(g) /\ "leaf" \notin DOMAIN g /\ "phase" \in DOMAIN g
      /\ "child" \in DOMAIN g
  BY <1>4, <1>5, <1>7 DEF SetsVac
<1>9. VacGoto(g)  BY <1>1, <1>6 DEF PickTarget
<1>10. PICK f : f = "left"  OBVIOUS
<1> QED  BY <1>2, <1>4, <1>7, <1>8, <1>9, <1>10, StageTwo

LEMMA FindLeftSiblingOK ==
  ASSUME Inv, FindLeftSibling
  PROVE  Inv'
<1>1. PICK a : a = page[vac.at].right  OBVIOUS
<1>2. vac.phase = "left" /\ vac.at \in Pages /\ UNCHANGED pageVars
  BY DEF FindLeftSibling, IsAtLevel, Directory
<1>3. a \in Links  BY <1>1, <1>2, Fields DEF Inv
<1>4. PICK g : g = [at |-> a]  OBVIOUS
<1>5. DOMAIN g = {"at"} /\ g.at = a  BY <1>4
<1>6. /\ SetsVac(g) /\ "leaf" \notin DOMAIN g /\ "phase" \notin DOMAIN g
      /\ "child" \notin DOMAIN g
  BY <1>3, <1>5 DEF SetsVac
<1>7. VacGoto(g)  BY <1>1, <1>4 DEF FindLeftSibling
<1>8. PICK f : f = "left"  OBVIOUS
<1> QED  BY <1>2, <1>6, <1>7, <1>8, StageTwo

-----------------------------------------------------------------------------
(* The steps of VACUUM that write pages, and the blocks handed out         *)

\* The sessions stay where they are.
LEMMA SessionsStay ==
  ASSUME CallsOK, \A p \in InLevels : Stays(p), client' = client, cached' = cached,
         waits' \in [Pages -> SUBSET Sessions]
  PROVE  CallsOK'
<1>1. \A d \in Sessions : Holds(client[d].stack)  BY StaysHeld
<1> QED  BY <1>1, NoCallStep

LEMMA DeleteEntriesOK ==
  ASSUME Inv, DeleteEntries
  PROVE  Inv'
<1>1. PICK p, S : p = vac.leaf /\ S = page[p].keys \ vac.seen  OBVIOUS
<1>2. /\ vac.phase = "delete" /\ page' = [page EXCEPT ![p].keys = @ \ vac.seen]
      /\ VacGoto([phase |-> "look", seen |-> {}]) /\ root' = root /\ waits' = waits
      /\ fsm' = fsm /\ cached' = cached /\ client' = client
  BY <1>1 DEF DeleteEntries
<1>3. PagesOK /\ page \in [Pages -> PageType] /\ CallsOK  BY DEF Inv, PagesOK
<1>4. p \in Pages /\ p \in Links  BY <1>1, <1>2, VacFitsNow, PagesAre DEF VacFits
<1>5. PageOK(p) /\ page[p] \in PageType /\ page[p].keys \in SUBSET Keys
  BY <1>3, <1>4, PageIs, Fields
<1>6. S \in SUBSET Keys /\ IsFiniteSet(S) /\ Cardinality(S) <= LeafCap
  <2>1. IsFiniteSet(page[p].keys) /\ Cardinality(page[p].keys) <= LeafCap
    BY <1>5 DEF PageOK
  <2>2. S \in SUBSET page[p].keys  BY <1>1
  <2>3. IsFiniteSet(S) /\ Cardinality(S) <= Cardinality(page[p].keys)
    BY <2>1, <2>2, FS_Subset
  <2>4. Cardinality(S) \in Nat /\ Cardinality(page[p].keys) \in Nat
    BY <2>1, <2>3, FS_CardinalityType
  <2> QED  BY <1>5, <2>1, <2>2, <2>3, <2>4, CapsAssumption
<1>7. PICK new : new = [page[p] EXCEPT !.keys = S]  OBVIOUS
<1>8. /\ new \in PageType /\ new.kind = page[p].kind /\ new.state = page[p].state
      /\ new.level = page[p].level /\ new.left = page[p].left
      /\ new.right = page[p].right /\ new.keys = S /\ new.down = page[p].down
      /\ new.high = page[p].high /\ new.flagged = page[p].flagged
  BY <1>5, <1>6, <1>7 DEF PageType
<1>9. page' = [page EXCEPT ![p] = new]  BY <1>1, <1>2, <1>3, <1>4, <1>7
<1>10. PageOK(p)'
  <2>1. page'[p] = new  BY <1>3, <1>4, <1>9
  <2> QED  BY <1>5, <1>6, <1>8, <2>1 DEF PageOK, Directory, Deleted, Rightmost, Level
<1>11. PagesOK' /\ LinksOK' /\ \A x \in InLevels : Stays(x)
  BY <1>2, <1>4, <1>8, <1>9, <1>10, ItemsOnly
<1>12. CallsOK'
  <2>1. waits' \in [Pages -> SUBSET Sessions]  BY <1>2, <1>3 DEF CallsOK
  <2> QED  BY <1>2, <1>3, <1>11, <2>1, SessionsStay
<1>13. VacOK'
  <2>1. PICK g : g = [phase |-> "look", seen |-> {}]  OBVIOUS
  <2>2. DOMAIN g = {"phase", "seen"} /\ g.phase = "look" /\ g.seen = {}  BY <2>1
  <2>3. SetsVac(g) /\ "phase" \in DOMAIN g /\ "leaf" \notin DOMAIN g
    BY <2>2 DEF SetsVac
  <2>4. PICK v : v = With(vac, g)  OBVIOUS
  <2>5. v \in VacType /\ v.phase = "look" /\ v.leaf = p
    BY <1>1, <2>2, <2>3, <2>4, VacWith
  <2>6. vac' = v  BY <1>2, <2>1, <2>4 DEF VacGoto
  <2> QED  BY <1>4, <2>5, <2>6 DEF VacOK
<1> QED  BY <1>11, <1>12, <1>13 DEF Inv

\* The downlinks of the parent, when the right sibling has taken the range over.
LEMMA TakenOver ==
  ASSUME NEW s \in Seq(DownType), NEW i \in Nat, 1 <= i, i < Len(s), s[1].sep = MinusInf,
         NEW h \in Pages, NEW t, t = RemoveAt([s EXCEPT ![i].child = h], i + 1)
  PROVE  /\ t \in Seq(DownType) /\ t # <<>> /\ t[1].sep = MinusInf
         /\ Len(t) <= Len(s)
<1>1. i \in DOMAIN s /\ s[i] \in DownType /\ Len(s) \in Nat  OBVIOUS
<1>2. PICK e : e = [s[i] EXCEPT !.child = h]  OBVIOUS
<1>3. e \in DownType /\ e.sep = s[i].sep  BY <1>1, <1>2 DEF DownType
<1>4. PICK u : u = [s EXCEPT ![i] = e]  OBVIOUS
<1>5. /\ u \in Seq(DownType) /\ Len(u) = Len(s)
      /\ \A j \in DOMAIN s : u[j] = IF j = i THEN e ELSE s[j]
  BY <1>1, <1>3, <1>4
<1>6. u[1].sep = MinusInf
  <2>1. 1 \in DOMAIN s  BY <1>1
  <2> QED  BY <1>3, <1>5, <2>1
<1>7. PICK k \in 1 .. Len(u) : k = i + 1  BY <1>1, <1>5
<1>8. t = RemoveAt(u, k)  BY <1>2, <1>4, <1>7
<1>9. /\ t \in Seq(DownType) /\ Len(t) = Len(u) - 1
      /\ \A j \in 1 .. Len(u) - 1 : t[j] = IF j < k THEN u[j] ELSE u[j + 1]
  <2>1. /\ RemoveAt(u, k) \in Seq(DownType) /\ Len(RemoveAt(u, k)) = Len(u) - 1
        /\ \A j \in 1 .. Len(u) - 1 : RemoveAt(u, k)[j] = IF j < k THEN u[j] ELSE u[j + 1]
    <3>1. u \in Seq(DownType) /\ k \in 1 .. Len(u)  BY <1>5, <1>7
    <3> QED  BY <3>1, RemoveAtIs
  <2> QED  BY <1>8, <2>1
<1>10. 1 \in 1 .. Len(u) - 1 /\ 1 < k  BY <1>1, <1>5, <1>7
<1>11. t[1] = u[1]  BY <1>9, <1>10
<1>12. Len(t) # 0 /\ Len(t) <= Len(s)  BY <1>1, <1>5, <1>9
<1>13. t # <<>>  BY <1>9, <1>12
<1> QED  BY <1>6, <1>9, <1>11, <1>12, <1>13

LEMMA MarkHalfDeadOK ==
  ASSUME Inv, MarkHalfDead
  PROVE  Inv'
<1>1. PICK leaf, p, i, h, o :
        /\ leaf = vac.leaf /\ p = vac.at /\ i = VacDownlink /\ h = vac.heir
        /\ o = IF vac.child = leaf THEN NoPage ELSE vac.child
  OBVIOUS
<1>2. /\ VacReads /\ vac.phase = "scan" /\ DownlinksTo(p, vac.child) # {}
      /\ i < Len(page[p].down) /\ page[p].down[i + 1].child = h
      /\ root' = root /\ waits' = waits /\ fsm' = fsm /\ cached' = cached
      /\ client' = client /\ VacGoto([phase |-> "unlink", at |-> NoPage, level |-> 0])
  BY <1>1 DEF MarkHalfDead, VacAtDownlink, VacScans
<1>3. page' = [page EXCEPT ![p].down = RemoveAt([@ EXCEPT ![i].child = h], i + 1),
                           ![leaf].state = "half", ![leaf].high = MinusInf,
                           ![leaf].owner = o]
  BY <1>1 DEF MarkHalfDead
<1>4. PagesOK /\ LinksOK /\ page \in [Pages -> PageType] /\ CallsOK
  BY DEF Inv, PagesOK
<1>5. /\ p \in Pages /\ Directory(p) /\ PageOK(p)
      /\ leaf \in Pages /\ leaf \in InLevels /\ HeldLeaf(leaf) /\ PageOK(leaf)
      /\ o \in Links /\ vac.child \in Links
  BY <1>1, <1>2, <1>4, VacReadsIs, VacFitsNow, PageIs, PagesAre DEF VacFits, HeldLeaf
<1>6. /\ page[leaf].kind = "leaf" /\ page[leaf].down = <<>> /\ ~Rightmost(leaf)
      /\ Directory(leaf) /\ ~Deleted(leaf) /\ Level(leaf) = 0
  BY <1>5 DEF HeldLeaf, PageOK, InLevels
<1>7. PICK s : s = page[p].down  OBVIOUS
<1>8. s \in Seq(DownType) /\ Len(s) \in Nat /\ Len(s) <= InnerCap
  BY <1>4, <1>5, <1>7, Fields, DownItems DEF PageOK
<1>9. i \in Nat /\ 1 <= i /\ i < Len(s) /\ h \in Pages
  <2>1. DownlinksTo(p, vac.child) \subseteq 1 .. Len(s)
    BY <1>4, <1>5, <1>7, DownItems DEF DownlinksTo
  <2>2. DownlinksTo(p, vac.child) \in SUBSET Nat  BY <1>8, <2>1
  <2>3. i = Min(DownlinksTo(p, vac.child))  BY <1>1 DEF VacDownlink
  <2>4. i \in 1 .. Len(s)  BY <1>2, <2>1, <2>2, <2>3, MinIs
  <2>5. i \in Nat /\ 1 <= i /\ i < Len(s) /\ i + 1 \in 1 .. Len(s)
    BY <1>2, <1>7, <1>8, <2>4
  <2>6. s[i + 1] \in DownType  BY <1>8, <2>5
  <2>7. h = s[i + 1].child  BY <1>2, <1>7
  <2> QED  BY <2>5, <2>6, <2>7 DEF DownType
<1>10. s # <<>> /\ p # leaf
  <2>1. Len(s) # 0  BY <1>8, <1>9
  <2>2. s # <<>>  BY <1>8, <2>1
  <2> QED  BY <1>6, <1>7, <2>2
<1>11. /\ page[p].kind = "inner" /\ ~Deleted(p) /\ p \in InLevels
       /\ s[1].sep = MinusInf
  BY <1>4, <1>5, <1>7, <1>10, OutOfLevels DEF PageOK, Directory
<1>12. PICK t : t = RemoveAt([s EXCEPT ![i].child = h], i + 1)  OBVIOUS
<1>13. t \in Seq(DownType) /\ t # <<>> /\ t[1].sep = MinusInf /\ Len(t) <= InnerCap
  <2>1. t \in Seq(DownType) /\ t # <<>> /\ t[1].sep = MinusInf /\ Len(t) <= Len(s)
    BY <1>8, <1>9, <1>11, <1>12, TakenOver
  <2>2. Len(t) \in Nat /\ InnerCap \in Nat  BY <2>1, CapsAssumption
  <2> QED  BY <1>8, <2>1, <2>2
<1>14. /\ page[p] \in PageType /\ page[leaf] \in PageType
       /\ page'[p] = [page[p] EXCEPT !.down = t]
       /\ page'[leaf] = [page[leaf] EXCEPT !.state = "half", !.high = MinusInf,
                                           !.owner = o]
       /\ \A x \in Pages : (x # p /\ x # leaf) => page'[x] = page[x]
       /\ DOMAIN page' = Pages
  BY <1>3, <1>4, <1>5, <1>7, <1>10, <1>12
<1>15. /\ page'[p] \in PageType /\ page'[p].kind = page[p].kind
       /\ page'[p].state = page[p].state /\ page'[p].level = page[p].level
       /\ page'[p].keys = page[p].keys /\ page'[p].down = t
       /\ page'[p].high = page[p].high /\ page'[p].left = page[p].left
       /\ page'[p].right = page[p].right /\ page'[p].flagged = page[p].flagged
  BY <1>13, <1>14 DEF PageType, DownType
<1>16. /\ page'[leaf] \in PageType /\ page'[leaf].kind = page[leaf].kind
       /\ page'[leaf].state = "half" /\ page'[leaf].level = page[leaf].level
       /\ page'[leaf].keys = page[leaf].keys /\ page'[leaf].down = page[leaf].down
       /\ page'[leaf].high = MinusInf /\ page'[leaf].left = page[leaf].left
       /\ page'[leaf].right = page[leaf].right
       /\ page'[leaf].flagged = page[leaf].flagged
  BY <1>5, <1>14 DEF PageType
<1>17. \A x \in Pages : /\ page'[x].kind = page[x].kind
                        /\ page'[x].level = page[x].level
                        /\ page'[x].left = page[x].left
                        /\ page'[x].right = page[x].right
                        /\ page'[x].state = IF x = leaf THEN "half" ELSE page[x].state
  BY <1>10, <1>14, <1>15, <1>16
<1>18. \A x \in Pages : PageOK(x)'
  <2>1. PageOK(p)'
    BY <1>5, <1>11, <1>13, <1>15 DEF PageOK, Directory, Deleted, Rightmost, Level
  <2>2. PageOK(leaf)'
    BY <1>5, <1>6, <1>16 DEF PageOK, Directory, Deleted, Rightmost, Level
  <2>3. \A x \in Pages : (x # p /\ x # leaf) => PageOK(x)'
    BY <1>4, <1>14, PageIs, SamePage
  <2> QED  BY <2>1, <2>2, <2>3
<1>19. PagesOK'
  <2>1. \A x \in Pages : page'[x] \in PageType
    BY <1>4, <1>14, <1>15, <1>16
  <2>2. page' = [x \in Pages |-> page'[x]]  BY <1>3, <1>4
  <2>3. page' \in [Pages -> PageType]  BY <2>1, <2>2
  <2> QED  BY <1>18, <2>3 DEF PagesOK
<1>20. InLevels' = InLevels
  BY <1>6, <1>17 DEF InLevels, Directory, Deleted
<1>21. \A x \in InLevels : Stays(x) /\ LinkFields(x)' = LinkFields(x)
  <2>1. \A x \in InLevels : x \in Pages  BY InLevelsIs
  <2> QED  BY <1>17, <1>20, <2>1 DEF Stays, Level, Rightmost, LinkFields
<1>22. LinksOK'
  <2>1. \A x \in fsm : x \in Pages /\ Directory(x) /\ Deleted(x)  BY <1>4 DEF LinksOK
  <2>2. \A x \in fsm' : x \in Pages /\ Directory(x)' /\ Deleted(x)'
    BY <1>2, <1>6, <1>17, <2>1 DEF Directory, Deleted
  <2> QED  BY <1>2, <1>4, <1>20, <1>21, <2>2, KeepsLinks
<1>23. CallsOK'
  <2>1. waits' \in [Pages -> SUBSET Sessions]  BY <1>2, <1>4 DEF CallsOK
  <2> QED  BY <1>2, <1>4, <1>21, <2>1, SessionsStay
<1>24. VacOK'
  <2>1. PICK g : g = [phase |-> "unlink", at |-> NoPage, level |-> 0]  OBVIOUS
  <2>2. /\ DOMAIN g = {"phase", "at", "level"} /\ g.phase = "unlink" /\ g.at = NoPage
        /\ g.level = 0
    BY <2>1
  <2>3. SetsVac(g) /\ "phase" \in DOMAIN g /\ "leaf" \notin DOMAIN g
    BY <2>2, PagesAre DEF SetsVac
  <2>4. PICK v : v = With(vac, g)  OBVIOUS
  <2>5. v \in VacType /\ v.phase = "unlink" /\ v.leaf = leaf
    BY <1>1, <2>2, <2>3, <2>4, VacWith
  <2>6. vac' = v  BY <1>2, <2>1, <2>4 DEF VacGoto
  <2>7. leaf \in HalfDead'  BY <1>5, <1>16 DEF HalfDead
  <2> QED  BY <1>5, <2>5, <2>6, <2>7 DEF VacOK
<1> QED  BY <1>19, <1>22, <1>23, <1>24 DEF Inv

\* What unlinking the page t writes.
UnlinkRecord(t, a, h, leaf, o) ==
  page' = [x \in Pages |->
    IF x = t THEN [page[t] EXCEPT !.state = "deleted", !.keys = {}, !.down = <<>>,
                                  !.high = MinusInf, !.flagged = FALSE,
                                  !.owner = NoPage]
    ELSE IF x = a THEN [page[x] EXCEPT !.right = h]
    ELSE IF x = h THEN [page[x] EXCEPT !.left = a]
    ELSE IF x = leaf THEN [page[x] EXCEPT !.owner = o]
    ELSE page[x]]

LEMMA UnlinkPages ==
  ASSUME PagesOK, LinksOK, NEW t \in InLevels, page[t].right # NoPage,
         NEW a, a = page[t].left, NEW h, h = page[t].right, NEW leaf, NEW o \in Links,
         UnlinkRecord(t, a, h, leaf, o)
  PROVE  PagesOK' /\ Unlinks(t, a, h)
<1>1. /\ t \in Pages /\ page \in [Pages -> PageType] /\ h \in Pages /\ h \in InLevels
      /\ h # NoPage /\ h # t
      /\ a # NoPage => a \in InLevels /\ a \in Pages /\ Directory(a) /\ page[a].right = t
      /\ a \in Links /\ h \in Links /\ a # h
      /\ Directory(t) /\ PageOK(t) /\ page[t] \in PageType
  <2>1. t \in Pages /\ page \in [Pages -> PageType] /\ PageOK(t) /\ Directory(t)
    BY InLevelsIs, PageIs DEF PagesOK, InLevels
  <2>2. h \in InLevels /\ h # t /\ h \in Pages /\ h # NoPage
    BY LinksOf, NoneTwice, InLevelsIs
  <2>3. a # NoPage => a \in InLevels /\ a \in Pages /\ Directory(a) /\ page[a].right = t
    BY LinksOf, InLevelsIs DEF InLevels
  <2>4. a # h
    <3>1. CASE a = NoPage  BY <2>2, <3>1
    <3>2. CASE a # NoPage
      <4>1. page[a].right = t  BY <2>3, <3>2
      <4>2. page[h].right # t  BY NoneTwice
      <4> QED  BY <4>1, <4>2
    <3> QED  BY <3>1, <3>2
  <2> QED  BY <2>1, <2>2, <2>3, <2>4, PagesAre DEF PagesOK
<1>2. /\ page'[t] = [page[t] EXCEPT !.state = "deleted", !.keys = {},
                                    !.down = <<>>, !.high = MinusInf,
                                    !.flagged = FALSE, !.owner = NoPage]
      /\ \A x \in Pages : (x # t /\ x = a) => page'[x] = [page[x] EXCEPT !.right = h]
      /\ \A x \in Pages : (x # t /\ x # a /\ x = h) =>
           page'[x] = [page[x] EXCEPT !.left = a]
      /\ \A x \in Pages : (x # t /\ x # a /\ x # h /\ x = leaf) =>
           page'[x] = [page[x] EXCEPT !.owner = o]
      /\ \A x \in Pages : (x # t /\ x # a /\ x # h /\ x # leaf) => page'[x] = page[x]
      /\ page' = [x \in Pages |-> page'[x]]
  BY <1>1 DEF UnlinkRecord
<1>3. /\ page'[t] \in PageType /\ page'[t].kind = page[t].kind
      /\ page'[t].state = "deleted" /\ page'[t].level = page[t].level
      /\ page'[t].keys = {} /\ page'[t].down = <<>> /\ page'[t].high = MinusInf
      /\ page'[t].right = page[t].right /\ ~page'[t].flagged
  <2>1. PICK s, K, d, m, f, o1 :
          /\ s = "deleted" /\ K = {} /\ d = <<>> /\ m = MinusInf /\ f = FALSE
          /\ o1 = NoPage
    OBVIOUS
  <2>2. /\ s \in {"live", "half", "deleted"} /\ K \in SUBSET Keys
        /\ d \in Seq(DownType) /\ m \in Keys \cup {MinusInf} /\ f \in BOOLEAN /\ ~f
        /\ o1 \in Links
    <3>1. s \in {"live", "half", "deleted"} /\ K \in SUBSET Keys /\ o1 \in Links
      BY <2>1, PagesAre
    <3>2. d \in Seq(DownType)  BY <2>1
    <3>3. m \in Keys \cup {MinusInf}  BY <2>1
    <3>4. f \in BOOLEAN /\ ~f  BY <2>1
    <3> QED  BY <3>1, <3>2, <3>3, <3>4
  <2>3. page'[t] = [page[t] EXCEPT !.state = s, !.keys = K, !.down = d, !.high = m,
                                   !.flagged = f, !.owner = o1]
    BY <1>2, <2>1
  <2>4. /\ page'[t] \in PageType /\ page'[t].kind = page[t].kind
        /\ page'[t].state = s /\ page'[t].level = page[t].level
        /\ page'[t].keys = K /\ page'[t].down = d /\ page'[t].high = m
        /\ page'[t].right = page[t].right /\ page'[t].flagged = f
    BY <1>1, <2>2, <2>3 DEF PageType, DownType
  <2> QED  BY <2>1, <2>2, <2>4
<1>4. PageOK(t)'
  <2>1. /\ IsFiniteSet({}) /\ Cardinality({}) <= LeafCap /\ Len(<<>>) <= InnerCap
    BY FS_EmptySet, CapsAssumption
  <2>2. page[t].kind = "leaf" <=> page[t].level = 0  BY <1>1 DEF PageOK, Level
  <2> QED  BY <1>1, <1>3, <2>1, <2>2 DEF PageOK, Directory, Deleted, Rightmost, Level
<1>5. ASSUME NEW x \in Pages, x # t
      PROVE  page'[x] \in PageType /\ PageOK(x)'
  <2>1. PageOK(x) /\ page[x] \in PageType  BY <1>1, <1>5, PageIs
  <2>2. CASE x = a
    <3>1. x # NoPage /\ Directory(x)  BY <1>1, <2>2, PagesAre
    <3>2. page'[x] = [page[x] EXCEPT !.right = h]  BY <1>2, <1>5, <2>2
    <3> QED  BY <1>1, <2>1, <3>1, <3>2, LinkPage
  <2>3. CASE x # a /\ x = h
    <3>1. page'[x] = [page[x] EXCEPT !.left = a]  BY <1>2, <1>5, <2>3
    <3> QED  BY <1>1, <2>1, <3>1, LinkPage
  <2>4. CASE x # a /\ x # h /\ x = leaf
    <3>1. page'[x] = [page[x] EXCEPT !.owner = o]  BY <1>2, <1>5, <2>4
    <3> QED  BY <2>1, <3>1, LinkPage
  <2>5. CASE x # a /\ x # h /\ x # leaf
    <3>1. page'[x] = page[x]  BY <1>2, <1>5, <2>5
    <3> QED  BY <2>1, <3>1, SamePage
  <2> QED  BY <2>2, <2>3, <2>4, <2>5
<1>6. PagesOK'
  <2>1. \A x \in Pages : page'[x] \in PageType  BY <1>3, <1>5
  <2>2. page' \in [Pages -> PageType]  BY <1>2, <2>1
  <2> QED  BY <1>4, <1>5, <2>2 DEF PagesOK
<1>7. ASSUME NEW x \in Pages, x # t
      PROVE  /\ page'[x].kind = page[x].kind /\ page'[x].state = page[x].state
             /\ page'[x].level = page[x].level
             /\ page'[x].right = IF x = a THEN h ELSE page[x].right
             /\ page'[x].left = IF x = h THEN a ELSE page[x].left
  <2>1. page[x] \in PageType  BY <1>1
  <2>2. CASE x = a
    <3>1. page'[x] = [page[x] EXCEPT !.right = h] /\ x # h  BY <1>1, <1>2, <1>7, <2>2
    <3> QED  BY <2>1, <2>2, <3>1 DEF PageType
  <2>3. CASE x # a /\ x = h
    <3>1. page'[x] = [page[x] EXCEPT !.left = a]  BY <1>2, <1>7, <2>3
    <3> QED  BY <2>1, <2>3, <3>1 DEF PageType
  <2>4. CASE x # a /\ x # h
    <3>1. page'[x] = page[x] \/ page'[x] = [page[x] EXCEPT !.owner = o]
      BY <1>2, <1>7, <2>4
    <3> QED  BY <2>1, <2>4, <3>1 DEF PageType
  <2> QED  BY <2>2, <2>3, <2>4
<1> QED  BY <1>3, <1>6, <1>7 DEF Unlinks

LEMMA UnlinkOK ==
  ASSUME Inv, Unlink
  PROVE  Inv'
<1>1. PICK t, leaf, a, h, o :
        /\ t = vac.child /\ leaf = vac.leaf /\ a = page[t].left /\ h = page[t].right
        /\ o = IF (IF t = leaf THEN NoPage ELSE page[t].down[1].child) = leaf
               THEN NoPage
               ELSE (IF t = leaf THEN NoPage ELSE page[t].down[1].child)
  OBVIOUS
<1>2. /\ vac.phase = "left" /\ UnlinkReady /\ MayUnlink(t) /\ root' = root /\ fsm' = fsm
      /\ cached' = cached /\ client' = client
      /\ waits' = [waits EXCEPT ![t] = {c \in Sessions : client[c].phase # "rest"}]
  BY <1>1 DEF Unlink, UnlinkReady
<1>3. PagesOK /\ LinksOK /\ CallsOK /\ vac.child \in Pages /\ vac.leaf \in HalfDead
  BY <1>2, VacFitsNow DEF Inv, VacFits
<1>4. /\ t \in Pages /\ leaf \in HalfDead /\ leaf \in Pages /\ leaf \in InLevels
      /\ t # root /\ a = vac.at /\ page[t].right # NoPage
      /\ IF t = leaf THEN page[t].state = "half" ELSE Len(page[t].down) = 1
  BY <1>1, <1>2, <1>3, HalfInLevels DEF MayUnlink, HalfDead, Rightmost
<1>5. t \in InLevels
  <2>1. Len(<<>>) # 1  OBVIOUS
  <2> QED  BY <1>3, <1>4, <2>1, OutOfLevels
<1>6. o \in Links
  <2>1. ASSUME t # leaf  PROVE page[t].down[1].child \in Links
    <3>1. Len(page[t].down) = 1 /\ 1 \in DOMAIN page[t].down
      BY <1>3, <1>4, <2>1, DownItems
    <3> QED  BY <1>3, <1>4, <3>1, DownItems, PagesAre
  <2> QED  BY <1>1, <2>1, PagesAre
<1>7. UnlinkRecord(t, a, h, leaf, o)  BY <1>1, <1>4 DEF Unlink, UnlinkRecord
<1>8. PagesOK' /\ Unlinks(t, a, h)
  BY <1>1, <1>3, <1>4, <1>5, <1>6, <1>7, UnlinkPages
<1>9. LinksOK' /\ InLevels' = InLevels \ {t}
  BY <1>1, <1>2, <1>3, <1>4, <1>5, <1>8, UnlinkLinks
<1>10. \A x \in InLevels : x # t => Stays(x)
  <2>1. \A x \in InLevels : x \in Pages  BY InLevelsIs
  <2>2. h # NoPage  BY <1>1, <1>4
  <2> QED  BY <1>8, <1>9, <2>1, <2>2 DEF Unlinks, Stays, Level, Rightmost
<1>11. \A d \in Sessions : t \notin Held(d)
  <2>1. Unlocked(t)  BY <1>1, <1>2 DEF UnlinkReady
  <2> QED  BY <2>1 DEF Unlocked
<1>12. \A d \in Sessions : Holds(client[d].stack)
  <2> SUFFICES ASSUME NEW d \in Sessions, NEW i \in DOMAIN client[d].stack
               PROVE  client[d].stack[i].page \in InLevels' /\ ~Rightmost(client[d].stack[i].page)'
    BY DEF Holds
  <2>1. client[d].stack[i].page \in InLevels /\ ~Rightmost(client[d].stack[i].page)
    BY <1>3 DEF CallsOK, CallOK
  <2>2. client[d].stack[i].page # t  BY <1>11 DEF Held
  <2>3. Stays(client[d].stack[i].page)  BY <1>10, <2>1, <2>2
  <2> QED  BY <2>1, <2>3 DEF Stays
<1>13. CallsOK'
  <2>1. waits \in [Pages -> SUBSET Sessions]  BY <1>3 DEF CallsOK
  <2>2. {c \in Sessions : client[c].phase # "rest"} \in SUBSET Sessions  OBVIOUS
  <2>3. waits' \in [Pages -> SUBSET Sessions]  BY <1>2, <2>1, <2>2
  <2> QED  BY <1>2, <1>3, <1>12, <2>3, NoCallStep
<1>14. VacOK'
  <2>1. CASE t = leaf
    <3>1. NextLeaf  BY <1>1, <2>1 DEF Unlink
    <3> QED  BY <3>1, NextLeafIs DEF VacOK
  <2>2. CASE t # leaf
    <3>1. VacGoto([phase |-> "unlink", at |-> NoPage, level |-> 0])
      BY <1>1, <2>2 DEF Unlink
    <3>2. PICK g : g = [phase |-> "unlink", at |-> NoPage, level |-> 0]  OBVIOUS
    <3>3. /\ DOMAIN g = {"phase", "at", "level"} /\ g.phase = "unlink"
          /\ g.at = NoPage /\ g.level = 0
      BY <3>2
    <3>4. SetsVac(g) /\ "phase" \in DOMAIN g /\ "leaf" \notin DOMAIN g
      BY <3>3, PagesAre DEF SetsVac
    <3>5. PICK v : v = With(vac, g)  OBVIOUS
    <3>6. v \in VacType /\ v.phase = "unlink" /\ v.leaf = leaf
      BY <1>1, <3>3, <3>4, <3>5, VacWith
    <3>7. vac' = v  BY <3>1, <3>2, <3>5 DEF VacGoto
    <3>8. leaf \in HalfDead'  BY <1>4, <1>8, <2>2 DEF Unlinks, HalfDead
    <3> QED  BY <1>4, <3>6, <3>7, <3>8 DEF VacOK
  <2> QED  BY <2>1, <2>2
<1> QED  BY <1>8, <1>9, <1>13, <1>14 DEF Inv

LEMMA EndVacuumOK ==
  ASSUME Inv, EndVacuum
  PROVE  Inv'
<1>1. /\ page' = page /\ root' = root /\ waits' = waits /\ cached' = cached
      /\ client' = client /\ vac' = Asleep
      /\ fsm' = fsm \cup {p \in Pages : Directory(p) /\ Deleted(p) /\ waits[p] = {}}
  BY DEF EndVacuum
<1>2. PagesOK /\ LinksOK /\ CallsOK  BY DEF Inv
<1>3. PagesOK'
  <2>1. \A p \in Pages : PageOK(p)'  BY <1>1, <1>2, PageIs, SamePage
  <2> QED  BY <1>1, <1>2, <2>1 DEF PagesOK
<1>4. InLevels' = InLevels  BY <1>1 DEF InLevels, Directory, Deleted
<1>5. \A p \in InLevels : LinkFields(p)' = LinkFields(p) /\ Stays(p)
  BY <1>1, <1>4 DEF LinkFields, Stays, Level, Rightmost
<1>6. LinksOK'
  <2>1. \A p \in fsm' : p \in Pages /\ Directory(p) /\ Deleted(p)
    BY <1>1, <1>2 DEF LinksOK
  <2>2. \A p \in fsm' : p \in Pages /\ Directory(p)' /\ Deleted(p)'
    BY <1>1, <2>1 DEF Directory, Deleted
  <2> QED  BY <1>1, <1>2, <1>4, <1>5, <2>2, KeepsLinks
<1>7. CallsOK'
  <2>1. waits' \in [Pages -> SUBSET Sessions]  BY <1>1, <1>2 DEF CallsOK
  <2> QED  BY <1>1, <1>2, <1>5, <2>1, SessionsStay
<1>8. VacOK'  BY <1>1, AsleepIs DEF VacOK
<1> QED  BY <1>3, <1>6, <1>7, <1>8 DEF Inv

LEMMA TakeForPostingsOK ==
  ASSUME Inv, TakeForPostings
  PROVE  Inv'
<1>1. PICK p \in fsm : /\ page' = [page EXCEPT ![p] = [New EXCEPT !.kind = "posting"]]
                       /\ fsm' = fsm \ {p}
  BY DEF TakeForPostings
<1>2. /\ root' = root /\ waits' = waits /\ cached' = cached /\ client' = client
      /\ vac' = vac
  BY DEF TakeForPostings
<1>3. PagesOK /\ LinksOK /\ CallsOK /\ VacOK /\ page \in [Pages -> PageType]
  BY DEF Inv, PagesOK
<1>4. p \in Pages /\ Directory(p) /\ Deleted(p) /\ p \notin InLevels
  BY <1>3 DEF LinksOK, InLevels
<1>5. PICK kind : kind = "posting"  OBVIOUS
<1>6. PICK new : new = [New EXCEPT !.kind = kind]  OBVIOUS
<1>7. /\ new \in PageType /\ new.kind = "posting" /\ new.state = "live"
      /\ new.keys = {} /\ new.down = <<>> /\ new.right = NoPage /\ ~new.flagged
  <2>1. /\ New \in PageType /\ New.state = "live" /\ New.keys = {} /\ New.down = <<>>
        /\ New.right = NoPage /\ ~New.flagged
    BY NewIs
  <2>2. kind \in {"new", "leaf", "inner", "posting"}  BY <1>5
  <2>3. /\ new \in PageType /\ new.kind = kind /\ new.state = New.state
        /\ new.keys = New.keys /\ new.down = New.down /\ new.right = New.right
        /\ new.flagged = New.flagged
    BY <1>6, <2>1, <2>2 DEF PageType
  <2> QED  BY <1>5, <2>1, <2>3
<1>8. page' = [page EXCEPT ![p] = new]  BY <1>1, <1>5, <1>6
<1>9. page'[p] = new /\ \A x \in Pages : x # p => page'[x] = page[x]
  BY <1>3, <1>4, <1>8
<1>10. PageOK(p)'
  <2>1. /\ IsFiniteSet({}) /\ Cardinality({}) <= LeafCap /\ Len(<<>>) <= InnerCap
    BY FS_EmptySet, CapsAssumption
  <2>2. ~Directory(p)'  BY <1>7, <1>9 DEF Directory
  <2> QED  BY <1>7, <1>9, <2>1, <2>2 DEF PageOK, Rightmost
<1>11. PagesOK'  BY <1>3, <1>4, <1>7, <1>8, <1>10, OnePage
<1>12. p \notin InLevels'  BY <1>7, <1>9 DEF InLevels, Directory
<1>13. \A x \in Pages : x # p => (x \in InLevels' <=> x \in InLevels)
  BY <1>9, SamePage
<1>14. InLevels' = InLevels
  <2>1. InLevels' \subseteq Pages /\ InLevels \subseteq Pages  BY DEF InLevels
  <2> QED  BY <1>4, <1>12, <1>13, <2>1
<1>15. \A x \in InLevels : x \in Pages /\ x # p /\ page'[x] = page[x]
  BY <1>4, <1>9, InLevelsIs
<1>16. \A x \in InLevels : LinkFields(x)' = LinkFields(x) /\ Stays(x)
  BY <1>14, <1>15 DEF LinkFields, Stays, Level, Rightmost
<1>17. LinksOK'
  <2>1. \A x \in fsm' : x \in Pages /\ x # p /\ Directory(x) /\ Deleted(x)
    BY <1>1, <1>3 DEF LinksOK
  <2>2. \A x \in fsm' : x \in Pages /\ Directory(x)' /\ Deleted(x)'
    BY <1>9, <2>1 DEF Directory, Deleted
  <2> QED  BY <1>2, <1>3, <1>14, <1>16, <2>2, KeepsLinks
<1>18. CallsOK'
  <2>1. waits' \in [Pages -> SUBSET Sessions]  BY <1>2, <1>3 DEF CallsOK
  <2> QED  BY <1>2, <1>3, <1>16, <2>1, SessionsStay
<1>19. VacOK'  BY <1>2, <1>3, <1>16, SeenIs, VacStays
<1> QED  BY <1>11, <1>17, <1>18, <1>19 DEF Inv

\* Every step of VACUUM keeps the invariant,
LEMMA VacuumKeepsInv ==
  ASSUME Inv, Vacuum
  PROVE  Inv'
<1>1. CASE StartVacuum      BY <1>1, StartVacuumOK
<1>2. CASE VacFail          BY <1>2, VacFailOK
<1>3. CASE SeeLeaf          BY <1>3, SeeLeafOK
<1>4. CASE DeleteEntries    BY <1>4, DeleteEntriesOK
<1>5. CASE LookAtLeaf       BY <1>5, LookAtLeafOK
<1>6. CASE VacDescend       BY <1>6, VacDescendOK
<1>7. CASE VacScanRight     BY <1>7, VacScanRightOK
<1>8. CASE ClimbSubtree     BY <1>8, ClimbSubtreeOK
<1>9. CASE MarkHalfDead     BY <1>9, MarkHalfDeadOK
<1>10. CASE LeaveLeaf       BY <1>10, LeaveLeafOK
<1>11. CASE PickTarget      BY <1>11, PickTargetOK
<1>12. CASE FindLeftSibling BY <1>12, FindLeftSiblingOK
<1>13. CASE Unlink          BY <1>13, UnlinkOK
<1>14. CASE EndVacuum       BY <1>14, EndVacuumOK
<1> QED
  BY <1>1, <1>2, <1>3, <1>4, <1>5, <1>6, <1>7, <1>8, <1>9, <1>10, <1>11, <1>12, <1>13,
     <1>14 DEF Vacuum

\* and one that changes nothing.
LEMMA StutterKeepsInv ==
  ASSUME Inv, UNCHANGED vars
  PROVE  Inv'
<1>1. PICK v : v = vac  OBVIOUS
<1>2. VacFits(v) /\ vac' = v /\ UNCHANGED pageVars
  BY <1>1, VacFitsNow DEF vars, pageVars
<1> QED  BY <1>2, QuietVac

-----------------------------------------------------------------------------
(* The directories to start from                                           *)

\* where a page's range begins
LowOf(p) == IF page[p].left = NoPage THEN MinusInf ELSE page[page[p].left].high

\* What every directory to start from has, level by level.
PagesBegin ==
  /\ page \in [Pages -> PageType]
  /\ \A p \in Pages :
       /\ page[p].state = "live" /\ ~page[p].flagged
       /\ IsFiniteSet(page[p].keys) /\ Cardinality(page[p].keys) <= LeafCap
       /\ Len(page[p].down) <= InnerCap
       /\ p \notin InLevels => page[p].right = NoPage /\ page[p].down = <<>>
  /\ root \in InLevels
LevelsBegin ==
  \A p \in InLevels :
    /\ page[p].kind = "leaf" => page[p].level = 0 /\ page[p].down = <<>>
    /\ page[p].kind # "leaf" =>
         page[p].level > 0 /\ page[p].down # <<>> /\ page[p].down[1].sep = MinusInf
    /\ \A i \in DOMAIN page[p].down :
         /\ page[p].down[i].child \in InLevels
         /\ page[page[p].down[i].child].level + 1 = page[p].level
    /\ p # root => page[p].level < page[root].level
SidesBegin ==
  \A p \in InLevels :
    /\ page[p].right # NoPage =>
         /\ page[p].right \in InLevels /\ page[page[p].right].left = p
         /\ page[page[p].right].level = page[p].level /\ LowOf(p) < page[p].high
    /\ page[p].left # NoPage => page[p].left \in InLevels /\ page[page[p].left].right = p
RangesBegin ==
  \A p, q \in InLevels :
    page[p].level = page[q].level /\ p # q =>
      /\ LowOf(q) # LowOf(p)
      /\ LowOf(q) < LowOf(p) => page[q].right # NoPage

LEMMA StartIs ==
  ASSUME Init
  PROVE  PagesBegin /\ LevelsBegin /\ SidesBegin /\ RangesBegin
<1>1. PICK s \in Starts : page = s.page /\ root = s.root  BY DEF Init
<1>2. StartPages(s) /\ StartLevels(s) /\ StartSides(s) /\ StartRanges(s)
  BY StartsAssumption
<1>3. InLevels = StartIn(s)
  <2>1. \A p \in Pages : page[p].state = "live"  BY <1>1, <1>2 DEF StartPages
  <2> QED  BY <1>1, <2>1 DEF InLevels, Directory, Deleted, StartIn
<1>4. PagesBegin  BY <1>1, <1>2, <1>3 DEF PagesBegin, StartPages
<1>5. \A p \in InLevels : page[p].kind = "leaf" \/ page[p].kind = "inner"
  BY <1>1, <1>3 DEF StartIn
<1>6. LevelsBegin  BY <1>1, <1>2, <1>3, <1>5 DEF LevelsBegin, StartLevels
<1>7. \A p : LowOf(p) = StartLow(s, p)  BY <1>1 DEF LowOf, StartLow
<1>8. SidesBegin  BY <1>1, <1>2, <1>3, <1>7 DEF SidesBegin, StartSides
<1>9. RangesBegin
  <2>1. \A p \in InLevels : page[p].level \in Nat
    <3>1. \A p \in Pages : page[p].level \in 0 .. NPages
      BY <1>4 DEF PagesBegin, PageType
    <3> QED  BY <3>1, PagesAre DEF InLevels
  <2> SUFFICES ASSUME NEW p \in InLevels, NEW q \in InLevels,
                      page[p].level = page[q].level, p # q
               PROVE  /\ LowOf(q) # LowOf(p)
                      /\ LowOf(q) < LowOf(p) => page[q].right # NoPage
    BY DEF RangesBegin
  <2>2. page[p].level >= page[q].level /\ ~(page[p].level > page[q].level)
    BY <2>1
  <2>3. /\ StartLow(s, q) # StartLow(s, p)
        /\ StartLow(s, q) < StartLow(s, p) => page[q].right # NoPage
    BY <1>1, <1>2, <1>3, <2>2 DEF StartRanges
  <2> QED  BY <1>7, <2>3
<1> QED  BY <1>4, <1>6, <1>8, <1>9

Begun == PagesBegin /\ LevelsBegin /\ SidesBegin /\ RangesBegin

LEMMA BeginPages ==
  ASSUME Begun
  PROVE  PagesOK
<1>1. \A p \in Pages : page[p] \in PageType  BY DEF Begun, PagesBegin
<1>2. \A p \in Pages : page[p].level \in Nat
  <2>1. \A p \in Pages : page[p].level \in 0 .. NPages  BY <1>1 DEF PageType
  <2> QED  BY <2>1, PagesAre
<1> SUFFICES ASSUME NEW p \in Pages  PROVE PageOK(p)
  BY DEF PagesOK, Begun, PagesBegin
<1>3. /\ IsFiniteSet(page[p].keys) /\ Cardinality(page[p].keys) <= LeafCap
      /\ Len(page[p].down) <= InnerCap
      /\ page[p].state = "live" /\ ~page[p].flagged
      /\ p \notin InLevels => page[p].right = NoPage /\ page[p].down = <<>>
  BY DEF Begun, PagesBegin
<1>4. Directory(p) <=> p \in InLevels  BY <1>3, InLevelsIs DEF Directory
<1>5. ~Deleted(p)  BY <1>3 DEF Deleted
<1>6. ASSUME Directory(p)
      PROVE  /\ page[p].kind = "leaf" <=> Level(p) = 0
             /\ page[p].kind = "leaf" => page[p].down = <<>>
             /\ page[p].kind = "inner" =>
                  page[p].down # <<>> /\ page[p].down[1].sep = MinusInf
  <2>1. p \in InLevels /\ (page[p].kind = "leaf" \/ page[p].kind = "inner")
    BY <1>4, <1>6 DEF Directory
  <2>2. /\ page[p].kind = "leaf" => page[p].level = 0 /\ page[p].down = <<>>
        /\ page[p].kind # "leaf" =>
             page[p].level > 0 /\ page[p].down # <<>> /\ page[p].down[1].sep = MinusInf
    BY <2>1 DEF Begun, LevelsBegin
  <2>3. page[p].level \in Nat  BY <1>2
  <2> QED  BY <2>1, <2>2, <2>3 DEF Level
<1> QED  BY <1>3, <1>4, <1>5, <1>6 DEF PageOK, Rightmost

\* Ranges begin further right at each page of a level.
LEMMA LowIs ==
  ASSUME Begun, NEW p \in InLevels
  PROVE  /\ LowOf(p) \in Nat /\ page[p].level \in Nat
         /\ page[p].right # NoPage =>
              /\ page[p].right \in InLevels /\ page[page[p].right].left = p
              /\ page[page[p].right].level = page[p].level
              /\ LowOf(p) < LowOf(page[p].right)
         /\ page[p].left # NoPage =>
              /\ page[p].left \in InLevels /\ page[page[p].left].right = p
              /\ page[page[p].left].level = page[p].level
              /\ LowOf(page[p].left) < LowOf(p)
<1>1. PagesOK  BY BeginPages
<1>2. p \in Pages /\ p # NoPage  BY InLevelsIs
<1>3. /\ page[p].right # NoPage =>
           /\ page[p].right \in InLevels /\ page[page[p].right].left = p
           /\ page[page[p].right].level = page[p].level /\ LowOf(p) < page[p].high
      /\ page[p].left # NoPage => page[p].left \in InLevels /\ page[page[p].left].right = p
  BY DEF Begun, SidesBegin
<1>4. LowOf(p) \in Nat
  <2>1. page[p].left # NoPage => page[p].left \in Pages  BY <1>3, InLevelsIs
  <2>2. page[p].left # NoPage => page[page[p].left].high \in Nat  BY <1>1, <2>1, Fields
  <2>3. MinusInf \in Nat  BY KeysAre
  <2> QED  BY <2>2, <2>3 DEF LowOf
<1>5. page[p].right # NoPage => LowOf(page[p].right) = page[p].high
  BY <1>2, <1>3 DEF LowOf
<1>6. ASSUME page[p].left # NoPage
      PROVE  page[page[p].left].level = page[p].level /\ LowOf(page[p].left) < LowOf(p)
  <2> PICK q \in InLevels : q = page[p].left  BY <1>3, <1>6
  <2>1. page[q].right = p  BY <1>3, <1>6
  <2>2. /\ page[page[q].right].level = page[q].level /\ LowOf(q) < page[q].high
    BY <1>2, <2>1 DEF Begun, SidesBegin
  <2>3. LowOf(p) = page[q].high  BY <1>6 DEF LowOf
  <2> QED  BY <2>1, <2>2, <2>3
<1>7. page[p].level \in Nat  BY <1>1, <1>2, Fields
<1> QED  BY <1>3, <1>4, <1>5, <1>6, <1>7

\* Of some pages, the one whose range begins first.
LEMMA FirstLow ==
  ASSUME Begun, NEW S \in SUBSET InLevels, S # {}
  PROVE  \E p \in S : \A q \in S : LowOf(p) <= LowOf(q)
<1> DEFINE T == {LowOf(p) : p \in S}
<1>1. T \in SUBSET Nat /\ T # {}  BY LowIs
<1>2. PICK k \in T : \A m \in T : k <= m  BY <1>1, LeastOf
<1>3. PICK p \in S : LowOf(p) = k  OBVIOUS
<1>4. \A q \in S : LowOf(q) \in T  OBVIOUS
<1> QED  BY <1>2, <1>3, <1>4

LEMMA BeginNoCircle ==
  ASSUME Begun
  PROVE  NoCircle
<1> SUFFICES ASSUME NEW S \in SUBSET InLevels, Circle(S), S # {}  PROVE FALSE
  BY DEF NoCircle
<1>1. IsFiniteSet(S)
  <2>1. S \in SUBSET Pages  BY InLevelsIs
  <2> QED  BY <2>1, PagesAre, FS_Subset
<1> DEFINE f == [p \in S |-> page[p].right]
<1>2. \A p \in S : page[p].right # NoPage /\ page[p].right \in S  BY DEF Circle
<1>3. f \in [S -> S]  BY <1>2
<1>4. \A p, q \in S : f[p] = f[q] => p = q
  <2>1. \A p \in S : page[page[p].right].left = p  BY <1>2, LowIs
  <2> QED  BY <2>1
<1> HIDE DEF f
<1>5. f \in Injection(S, S)
  <2>1. IsInjective(f)  BY <1>3, <1>4 DEF IsInjective
  <2> QED  BY <1>3, <2>1 DEF Injection
<1>6. f \in Surjection(S, S)  BY <1>1, <1>5, FS_Injection
<1>7. PICK p \in S : \A q \in S : LowOf(p) <= LowOf(q)  BY FirstLow
<1>8. PICK q \in S : f[q] = p  BY <1>6 DEF Surjection
<1>9. page[q].right = p /\ page[q].right # NoPage  BY <1>2, <1>8 DEF f
<1>10. LowOf(q) < LowOf(p)  BY <1>9, LowIs
<1>11. LowOf(p) <= LowOf(q) /\ LowOf(p) \in Nat /\ LowOf(q) \in Nat  BY <1>7, LowIs
<1> QED  BY <1>10, <1>11

\* A page of the directory at each level.
LEMMA BeginLevels ==
  ASSUME Begun, NEW l \in 0 .. Height
  PROVE  \E p \in InLevels : page[p].level = l
<1>1. PagesOK /\ root \in InLevels /\ Height = page[root].level /\ Height \in Nat
  <2>1. root \in InLevels  BY DEF Begun, PagesBegin
  <2> QED  BY <2>1, BeginPages, LowIs DEF Height
<1> DEFINE T == {k \in 0 .. Height : \A p \in InLevels : page[p].level # k}
<1>2. T = {}
  <2> SUFFICES ASSUME T # {}  PROVE FALSE
    OBVIOUS
  <2>1. PICK n \in Nat : n = Height  BY <1>1
  <2>2. T \in SUBSET (0 .. n)  BY <2>1
  <2>3. Max(T) \in T /\ \A m \in T : m <= Max(T)  BY <2>1, <2>2, MaxIs
  <2>4. PICK k \in T : \A m \in T : m <= k  BY <2>3
  <2> HIDE DEF T
  <2>5. k \in Nat /\ k <= n /\ \A p \in InLevels : page[p].level # k
    BY <2>1 DEF T
  <2>6. k # n  BY <1>1, <2>1, <2>5
  <2>7. k + 1 \in 0 .. n /\ ~(k + 1 <= k)  BY <2>1, <2>5, <2>6
  <2>8. k + 1 \notin T  BY <2>4, <2>7
  <2>9. PICK p \in InLevels : page[p].level = k + 1  BY <2>1, <2>7, <2>8 DEF T
  <2>10. p \in Pages  BY InLevelsIs
  <2>11. page[p].kind # "leaf" /\ page[p].down # <<>>
    <3>1. /\ page[p].kind = "leaf" => page[p].level = 0
          /\ page[p].kind # "leaf" => page[p].down # <<>>
      BY DEF Begun, LevelsBegin
    <3> QED  BY <2>5, <2>9, <3>1
  <2>12. 1 \in DOMAIN page[p].down
    <3>1. page[p].down \in Seq(DownType)  BY <1>1, <2>10, Fields
    <3>2. DOMAIN page[p].down = 1 .. Len(page[p].down) /\ Len(page[p].down) \in Nat
      BY <1>1, <2>10, DownItems
    <3>3. Len(page[p].down) # 0  BY <2>11, <3>1, EmptySeq
    <3> QED  BY <3>2, <3>3
  <2>13. PICK q \in InLevels : page[q].level + 1 = page[p].level
    BY <2>12 DEF Begun, LevelsBegin
  <2>14. page[q].level \in Nat  BY LowIs
  <2>15. page[q].level = k  BY <2>5, <2>9, <2>13, <2>14
  <2> QED  BY <2>5, <2>15
<1> QED  BY <1>2

LEMMA BeginEnds ==
  ASSUME Begun, NEW l \in 0 .. Height
  PROVE  OneEnd(l)
<1> DEFINE S == {p \in InLevels : page[p].level = l}
<1>1. S # {} /\ S \in SUBSET InLevels  BY BeginLevels
<1>2. \E p \in Pages : LeftEnd(p, l)
  <2>1. PICK p \in S : \A q \in S : LowOf(p) <= LowOf(q)  BY <1>1, FirstLow
  <2>2. page[p].left = NoPage
    <3> SUFFICES ASSUME page[p].left # NoPage  PROVE FALSE
      OBVIOUS
    <3> PICK q : q = page[p].left  OBVIOUS
    <3>1. q \in InLevels /\ page[q].level = page[p].level /\ LowOf(q) < LowOf(p)
      BY LowIs
    <3>2. q \in S  BY <3>1
    <3>3. LowOf(p) <= LowOf(q) /\ LowOf(p) \in Nat /\ LowOf(q) \in Nat
      BY <2>1, <3>1, <3>2, LowIs
    <3> QED  BY <3>1, <3>3
  <2> QED  BY <2>2, InLevelsIs DEF LeftEnd, Level
<1>3. \A p, q \in Pages : LeftEnd(p, l) /\ LeftEnd(q, l) => p = q
  <2> SUFFICES ASSUME NEW p \in Pages, NEW q \in Pages, LeftEnd(p, l), LeftEnd(q, l),
                      p # q
               PROVE  FALSE
    OBVIOUS
  <2>1. /\ p \in InLevels /\ q \in InLevels /\ page[p].level = page[q].level
        /\ LowOf(p) = MinusInf /\ LowOf(q) = MinusInf
    BY DEF LeftEnd, Level, LowOf
  <2> QED  BY <2>1 DEF Begun, RangesBegin
<1>4. \E p \in Pages : RightEnd(p, l)
  <2>1. \E p \in S : page[p].right = NoPage
    <3> SUFFICES ASSUME \A p \in S : page[p].right # NoPage  PROVE FALSE
      OBVIOUS
    <3>1. Circle(S)
      <4>1. \A p \in S : page[p].right \in S  BY LowIs
      <4> QED  BY <4>1 DEF Circle
    <3> QED  BY <1>1, <3>1, BeginNoCircle DEF NoCircle
  <2> QED  BY <2>1, InLevelsIs DEF RightEnd, Level
<1>5. \A p, q \in Pages : RightEnd(p, l) /\ RightEnd(q, l) => p = q
  <2> SUFFICES ASSUME NEW p \in Pages, NEW q \in Pages, RightEnd(p, l), RightEnd(q, l),
                      p # q
               PROVE  FALSE
    OBVIOUS
  <2>1. /\ p \in InLevels /\ q \in InLevels /\ page[p].level = page[q].level
        /\ page[p].right = NoPage /\ page[q].right = NoPage
    BY DEF RightEnd, Level
  <2>2. LowOf(q) # LowOf(p) /\ ~(LowOf(q) < LowOf(p)) /\ ~(LowOf(p) < LowOf(q))
    BY <2>1 DEF Begun, RangesBegin
  <2>3. LowOf(p) \in Nat /\ LowOf(q) \in Nat  BY <2>1, LowIs
  <2> QED  BY <2>2, <2>3
<1> QED  BY <1>2, <1>3, <1>4, <1>5 DEF OneEnd

LEMMA BeginRoot ==
  ASSUME Begun
  PROVE  RootOK
<1>1. root \in InLevels /\ page[root].level \in Nat /\ LowOf(root) \in Nat
  <2>1. root \in InLevels  BY DEF Begun, PagesBegin
  <2> QED  BY <2>1, LowIs
<1>2. \A p \in InLevels : p # root => page[p].level < page[root].level
  BY DEF Begun, LevelsBegin
<1>3. \A p \in InLevels : page[p].level \in Nat  BY LowIs
<1>4. page[root].right = NoPage
  <2> SUFFICES ASSUME page[root].right # NoPage  PROVE FALSE
    OBVIOUS
  <2> PICK r : r = page[root].right  OBVIOUS
  <2>1. r \in InLevels /\ page[r].level = page[root].level /\ LowOf(root) < LowOf(r)
    BY <1>1, LowIs
  <2>2. r = root  BY <1>1, <1>2, <1>3, <2>1
  <2> QED  BY <1>1, <2>1, <2>2
<1>5. page[root].left = NoPage
  <2> SUFFICES ASSUME page[root].left # NoPage  PROVE FALSE
    OBVIOUS
  <2> PICK r : r = page[root].left  OBVIOUS
  <2>1. r \in InLevels /\ page[r].level = page[root].level /\ LowOf(r) < LowOf(root)
    BY <1>1, LowIs
  <2>2. r = root  BY <1>1, <1>2, <1>3, <2>1
  <2> QED  BY <1>1, <2>1, <2>2
<1>6. \A p \in InLevels : Level(p) <= Height /\ (Level(p) = Height => p = root)
  BY <1>1, <1>2, <1>3 DEF Level, Height
<1> QED  BY <1>1, <1>4, <1>5, <1>6 DEF RootOK

LEMMA BeginLinks ==
  ASSUME Begun, fsm = {}
  PROVE  LinksOK
<1>1. \A p \in InLevels : LinkedRight(p) /\ LinkedLeft(p)
  BY LowIs DEF LinkedRight, LinkedLeft, Level
<1> QED  BY <1>1, BeginEnds, BeginNoCircle, BeginRoot DEF LinksOK

LEMMA RestingFits ==
  Resting \in CallType /\ Resting.phase = "rest" /\ Resting.stack = <<>>
<1>1. <<>> \in Seq([page : Pages, linked : BOOLEAN])  OBVIOUS
<1>2. 0 \in Nat /\ 0 \in Keys \cup {MinusInf} /\ NoPage \in Links
  BY PagesAre DEF MinusInf
<1> QED  BY <1>1, <1>2 DEF CallType, Resting

LEMMA BeginInv ==
  ASSUME Init
  PROVE  Inv
<1>1. Begun  BY StartIs DEF Begun
<1>2. PagesOK  BY <1>1, BeginPages
<1>3. LinksOK
  <2>1. fsm = {}  BY DEF Init
  <2> QED  BY <1>1, <2>1, BeginLinks
<1>4. CallsOK
  <2>1. /\ waits = [p \in Pages |-> {}] /\ cached = [c \in Sessions |-> NoPage]
        /\ client = [c \in Sessions |-> Resting]
    BY DEF Init
  <2>2. waits \in [Pages -> SUBSET Sessions]  BY <2>1
  <2>3. cached \in [Sessions -> Links]  BY <2>1, PagesAre
  <2>4. \A c \in Sessions : client[c] = Resting  BY <2>1
  <2>5. client \in [Sessions -> CallType]  BY <2>1, RestingFits
  <2>6. ASSUME NEW c \in Sessions  PROVE CallOK(c)
    <3>1. client[c].phase = "rest" /\ client[c].stack = <<>>  BY <2>4, RestingFits
    <3> QED  BY <3>1 DEF CallOK
  <2> QED  BY <2>2, <2>3, <2>5, <2>6 DEF CallsOK
<1>5. VacOK
  <2>1. vac = Asleep  BY DEF Init
  <2> QED  BY <2>1, AsleepIs DEF VacOK
<1> QED  BY <1>2, <1>3, <1>4, <1>5 DEF Inv

-----------------------------------------------------------------------------
(* What the invariant says                                                 *)

LEMMA InvTypes ==
  ASSUME Inv
  PROVE  TypeOK
<1>1. PagesOK /\ LinksOK /\ CallsOK /\ VacOK  BY DEF Inv
<1>2. page \in [Pages -> PageType]  BY <1>1 DEF PagesOK
<1>3. root \in Pages /\ fsm \subseteq Pages
  <2>1. root \in InLevels /\ fsm \subseteq {p \in Pages : Directory(p) /\ Deleted(p)}
    BY <1>1 DEF LinksOK, RootOK
  <2> QED  BY <2>1, InLevelsIs
<1>4. waits \in [Pages -> SUBSET Sessions] /\ cached \in [Sessions -> Links]
  BY <1>1 DEF CallsOK
<1>5. ASSUME NEW c \in Sessions
      PROVE  /\ client[c].op \in {"rest", "find", "insert"}
             /\ client[c].phase \in {"rest", "root", "walk", "scan", "clear", "left"}
             /\ client[c].found \in {"none", "there", "absent"}
             /\ client[c].at \in Links /\ Held(c) \subseteq Pages
  <2>1. client[c] \in CallType /\ CallOK(c)  BY <1>1 DEF CallsOK
  <2>2. Held(c) \subseteq Pages
    <3>1. \A i \in DOMAIN client[c].stack : client[c].stack[i].page \in InLevels
      BY <2>1 DEF CallOK
    <3> QED  BY <3>1, InLevelsIs DEF Held
  <2> QED  BY <2>1, <2>2 DEF CallType
<1>6. /\ vac.phase \in {"asleep", "see", "delete", "look", "root", "walk", "scan",
                        "unlink", "left", "sweep"}
      /\ {vac.leaf, vac.next, vac.child, vac.heir, vac.at} \subseteq Links
      /\ vac.seen \subseteq Keys
  BY <1>1 DEF VacOK, VacType
<1>7. \A p \in Pages : /\ Cardinality(page[p].keys) <= LeafCap
                       /\ Len(page[p].down) <= InnerCap
  BY <1>1 DEF PagesOK, PageOK
<1> QED  BY <1>2, <1>3, <1>4, <1>5, <1>6, <1>7 DEF TypeOK

LEMMA InvLinks ==
  ASSUME Inv
  PROVE  LevelsLinked
<1>1. LinksOK  BY DEF Inv
<1>2. ASSUME NEW p \in InLevels
      PROVE  /\ page[p].right # NoPage =>
                  /\ page[p].right \in InLevels /\ page[page[p].right].left = p
                  /\ IsAtLevel(page[p].right, page[p].level)
             /\ page[p].left # NoPage =>
                  page[p].left \in InLevels /\ page[page[p].left].right = p
  <2>1. /\ page[p].right # NoPage =>
             /\ page[p].right \in InLevels /\ page[page[p].right].left = p
             /\ Level(page[p].right) = Level(p)
        /\ page[p].left # NoPage =>
             page[p].left \in InLevels /\ page[page[p].left].right = p
    BY <1>1, LinksOf
  <2>2. \A q \in InLevels : Directory(q)  BY DEF InLevels
  <2> QED  BY <2>1, <2>2 DEF IsAtLevel, Level
<1>3. ASSUME NEW l \in 0 .. Height
      PROVE  /\ Cardinality({p \in InLevels : IsAtLevel(p, l) /\ page[p].left = NoPage}) = 1
             /\ Cardinality({p \in InLevels : IsAtLevel(p, l) /\ Rightmost(p)}) = 1
  <2> DEFINE L == {p \in InLevels : IsAtLevel(p, l) /\ page[p].left = NoPage}
             R == {p \in InLevels : IsAtLevel(p, l) /\ Rightmost(p)}
  <2>1. OneEnd(l)  BY <1>1, <1>3 DEF LinksOK
  <2>2. \A p : (p \in L <=> p \in Pages /\ LeftEnd(p, l))
               /\ (p \in R <=> p \in Pages /\ RightEnd(p, l))
    <3>1. \A p \in InLevels : Directory(p) /\ p \in Pages  BY DEF InLevels
    <3> QED  BY <3>1 DEF IsAtLevel, LeftEnd, RightEnd, Rightmost, Level
  <2> HIDE DEF L, R
  <2>3. PICK x \in L : \A y \in L : y = x  BY <2>1, <2>2 DEF OneEnd
  <2>4. PICK z \in R : \A y \in R : y = z  BY <2>1, <2>2 DEF OneEnd
  <2>5. Cardinality(L) = 1  BY <2>3, OneMember
  <2>6. Cardinality(R) = 1  BY <2>4, OneMember
  <2> QED  BY <2>5, <2>6 DEF L, R
<1> QED  BY <1>2, <1>3, InvTypes DEF LevelsLinked

LEMMA NextKeepsInv ==
  ASSUME Inv, [Next]_vars
  PROVE  Inv'
<1>1. CASE \E c \in Sessions : Call(c)  BY <1>1, CallKeepsInv
<1>2. CASE Vacuum  BY <1>2, VacuumKeepsInv
<1>3. CASE TakeForPostings  BY <1>3, TakeForPostingsOK
<1>4. CASE UNCHANGED vars  BY <1>4, StutterKeepsInv
<1> QED  BY <1>1, <1>2, <1>3, <1>4 DEF Next

\* Whatever sessions split, repair and give up, whatever VACUUM deletes,
\* abandons and recycles, and whichever blocks are used again, on any number of
\* blocks: the pages of a level of the directory are linked both ways, from its
\* one page without a left sibling to its one page without a right sibling.
THEOREM DirLinked == Spec => []LevelsLinked
<1>1. Init => Inv  BY BeginInv
<1>2. Inv /\ [Next]_vars => Inv'  BY NextKeepsInv
<1>3. Inv => LevelsLinked  BY InvLinks
<1> QED  BY <1>1, <1>2, <1>3, PTL DEF Spec
=============================================================================
