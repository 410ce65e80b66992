------------------------------ MODULE LionDir ------------------------------
(***************************************************************************)
(* The entry directory of a lion index: a B-link tree whose leaves hold    *)
(* one entry per key.  Sessions look keys up and find or create them       *)
(* (lion_dir.c); VACUUM deletes empty entries, takes emptied leaves out of *)
(* the tree and hands their blocks out again (lion_vacuum.c,               *)
(* lion_dir_delete.c, lion_pages.c).                                       *)
(*                                                                         *)
(* A key is a number; 0 is the MINUS INFINITY pivot.  Pages hold counted   *)
(* items, LeafCap entries or InnerCap downlinks, and the byte a split cuts *)
(* at is left open.  Keys that compare equal are one key: runs of keys     *)
(* that tie without being equal, and the guard they need, are not here.    *)
(*                                                                         *)
(* A step is what happens under one page lock: a page is read and left, or *)
(* one WAL record is written.  Locks kept from one step to the next are    *)
(* held: a writer's stack of pages whose splits it is finishing, and       *)
(* VACUUM's leaf.  An ERROR or a crash ends a session or VACUUM between    *)
(* any two steps (Fail, VacFail), which drops its locks and keeps what its *)
(* records wrote.                                                          *)
(***************************************************************************)
EXTENDS Naturals, FiniteSets, Sequences, SequencesExt

CONSTANTS NPages,       \* blocks the index may grow to, the meta page apart
          Keys,         \* the keys entries may have
          FindKeys,     \* those sessions look up
          InsertKeys,   \* those sessions find or create
          EmptyKeys,    \* those whose rows may all be gone when VACUUM comes
          Sessions,
          NoCall,       \* a session that is not using the directory
          LeafCap,      \* entries a leaf holds
          InnerCap,     \* downlinks an internal page holds
          MinDownlinks, \* LION_ABS_MIN_DOWNLINKS
          Starts,       \* the directories to start from: [page, root]
          LinksDying,   \* FALSE: no downlink is posted for a dying page
          TakesCached   \* FALSE: no block a session caches goes to postings

ASSUME NPagesAssumption == NPages \in Nat
ASSUME KeysAssumption == /\ Keys \subseteq Nat \ {0}
                         /\ FindKeys \cup InsertKeys \cup EmptyKeys \subseteq Keys
ASSUME CapsAssumption == /\ LeafCap \in Nat \ {0}
                         /\ MinDownlinks \in Nat \ {0, 1}
                         /\ InnerCap \in Nat /\ InnerCap + 1 >= 2 * MinDownlinks
ASSUME FlagsAssumption == LinksDying \in BOOLEAN /\ TakesCached \in BOOLEAN

VARIABLES page,    \* block -> what it holds
          root,    \* the page with LION_PAGE_ROOT, which the meta page names
          waits,   \* block -> sessions whose snapshots its safexid awaits
          fsm,     \* blocks the free space map offers
          cached,  \* session -> ix->meta.root
          client,  \* session -> where it is in its call
          vac      \* where VACUUM is

vars == <<page, root, waits, fsm, cached, client, vac>>

NoPage == 0
Pages == 1..NPages
Links == Pages \cup {NoPage}
MinusInf == 0

New == [kind |-> "new", state |-> "live", level |-> 0, keys |-> {},
        down |-> <<>>, high |-> MinusInf, left |-> NoPage, right |-> NoPage,
        flagged |-> FALSE, owner |-> NoPage]

Resting == [op |-> "rest", key |-> 0, phase |-> "rest", at |-> NoPage,
            level |-> 0, fresh |-> 0, stack |-> <<>>, placed |-> FALSE,
            found |-> "none"]

Asleep == [phase |-> "asleep", leaf |-> NoPage, next |-> NoPage, seen |-> {},
           child |-> NoPage, key |-> 0, heir |-> NoPage, at |-> NoPage,
           level |-> 0]

\* r with some of its fields set
With(r, fields) ==
  [f \in DOMAIN r |-> IF f \in DOMAIN fields THEN fields[f] ELSE r[f]]
-----------------------------------------------------------------------------
(* Pages *)

Directory(p) == p \in Pages /\ page[p].kind \in {"leaf", "inner"}

\* lion_dir_check_page() and lion_dir_check_level()
IsAtLevel(p, l) == Directory(p) /\ page[p].level = l

Deleted(p) == page[p].state = "deleted"
Rightmost(p) == page[p].right = NoPage
Height == page[root].level

\* Not the code: a key equal to the high key still belongs to the page
PastHighStrictly(p, k) == ~Rightmost(p) /\ page[p].high < k

\* the key is past the page's high key: it moved right
PastHigh(p, k) == ~Rightmost(p) /\ page[p].high <= k

\* lion_page_downlink(): the last downlink whose separator is at or below k
DownlinkFor(p, k) == Max({i \in DOMAIN page[p].down : page[p].down[i].sep <= k})

\* lion_dirdel_descend(): the last one strictly below k, or else the first
DownlinkBelow(p, k) ==
  Max({1} \cup {i \in DOMAIN page[p].down : page[p].down[i].sep < k})

\* where p's items name child
DownlinksTo(p, child) ==
  {i \in DOMAIN page[p].down : page[p].down[i].child = child}

\* lion_dir_first_keyed(): a key that routes to p, MinusInf when it has none
RouteKey(p) ==
  IF page[p].kind = "leaf"
  THEN IF page[p].keys = {} THEN MinusInf ELSE Min(page[p].keys)
  ELSE IF Len(page[p].down) < 2 THEN MinusInf ELSE page[p].down[2].sep

(* Pages on their way out: the HALF_DEAD leaves, and the internal pages     *)
(* above them that have no other child                                      *)

HalfDead == {p \in Pages : page[p].state = "half"}

Dying ==
  LET up[n \in 0..Height] ==
        IF n = 0 THEN HalfDead
        ELSE LET below == up[n - 1] IN
             below \cup {p \in Pages : \E q \in below : DownlinksTo(p, q) # {}}
  IN IF HalfDead = {} THEN {} ELSE up[Height]

(* Locks kept between steps *)

Held(c) == {client[c].stack[i].page : i \in DOMAIN client[c].stack}
VacHeld == IF \/ vac.phase \in {"root", "walk", "scan"}
              \/ vac.phase = "left" /\ vac.child # vac.leaf
           THEN {vac.leaf} ELSE {}
Unlocked(p) == p \notin VacHeld \cup UNION {Held(c) : c \in Sessions}

(* Blocks for new pages: lion_alloc_page() takes what the free space map   *)
(* offers, and extends the relation when it offers nothing                 *)

Allocates(q, taken) ==
  \/ q \in fsm \ taken
  \/ /\ fsm \subseteq taken
     /\ q = Min({p \in Pages : page[p].kind = "new"} \ taken)

CanAllocate(n) ==
  Cardinality(fsm) + Cardinality({p \in Pages : page[p].kind = "new"}) >= n

Half(p, items) == [New EXCEPT !.kind = page[p].kind, !.level = page[p].level,
                              !.keys = items.keys, !.down = items.down]

(* The record of a split: p keeps L and q gets R, which is linked between  *)
(* p and p's right sibling.  Only a page with a right sibling is flagged:  *)
(* for the root, n becomes the new root in the same record.                *)

LeftHalf(p, L, sep, q) ==
  [Half(p, L) EXCEPT !.high = sep, !.left = page[p].left, !.right = q,
                     !.flagged = (p # root)]
RightHalf(p, R) ==
  [Half(p, R) EXCEPT !.high = page[p].high, !.left = p, !.right = page[p].right]
RootOver(p, sep, q) ==
  [New EXCEPT !.kind = "inner", !.level = page[p].level + 1,
              !.down = <<[sep |-> MinusInf, child |-> p], [sep |-> sep, child |-> q]>>]

\* Not the code: the old right sibling keeps its left link
SplitRecordOneWay(p, L, R, sep, q, n) ==
  page' = [x \in Pages |-> IF x = p THEN LeftHalf(p, L, sep, q)
                           ELSE IF x = q THEN RightHalf(p, R)
                           ELSE IF x = n THEN RootOver(p, sep, q)
                           ELSE page[x]]

SplitRecord(p, L, R, sep, q, n) ==
  page' = [x \in Pages |-> IF x = p THEN LeftHalf(p, L, sep, q)
                           ELSE IF x = q THEN RightHalf(p, R)
                           ELSE IF x = n THEN RootOver(p, sep, q)
                           ELSE IF x = page[p].right THEN [page[x] EXCEPT !.left = q]
                           ELSE page[x]]

-----------------------------------------------------------------------------
(* A session's call *)

Top(c) == Last(client[c].stack)
Climbing(c) == client[c].stack # <<>>
ParentLevel(c) == page[Top(c).page].level + 1

Goto(c, fields) == client' = [client EXCEPT ![c] = With(@, fields)]

\* lion_dir_get_root() starts from the cached block, or from the meta page;
\* fresh is one more than the height it has read there, 0 when it has not
ToRoot(c, fields) ==
  LET known == cached[c] # NoPage IN
  /\ cached' = [cached EXCEPT ![c] = IF known THEN @ ELSE root]
  /\ client' = [client EXCEPT ![c] =
       With(With(@, fields),
            [phase |-> "root", at |-> IF known THEN cached[c] ELSE root,
             level |-> 0, fresh |-> IF known THEN 0 ELSE Height + 1])]

Ends(c, found) ==
  /\ client' = [client EXCEPT ![c] = [Resting EXCEPT !.found = found]]
  /\ waits' = [p \in Pages |-> waits[p] \ {c}]

Begin(c) ==
  /\ client[c].phase = "rest"
  /\ \E op \in {"find", "insert"}, k \in Keys :
       /\ k \in (IF op = "find" THEN FindKeys ELSE InsertKeys)
       /\ ToRoot(c, [op |-> op, key |-> k, found |-> "none"])
  /\ UNCHANGED <<page, root, waits, fsm, vac>>

\* an ERROR, a cancelled query or a crash
Fail(c) ==
  /\ client[c].phase # "rest"
  /\ Ends(c, "none")
  /\ UNCHANGED <<page, root, fsm, cached, vac>>

\* the cached block is no longer the root: the meta page is read again, and
\* has to name a taller directory each time it is
RootMoved(c) ==
  LET p == client[c].at
      f == client[c].fresh IN
  /\ client[c].phase = "root" /\ Unlocked(p) /\ Directory(p) /\ p # root
  /\ Height + 1 > f
  /\ cached' = [cached EXCEPT ![c] = root]
  /\ Goto(c, [at |-> root, fresh |-> Height + 1])
  /\ UNCHANGED <<page, root, waits, fsm, vac>>

\* the session reads the page it is to read next, and it is what it should be
Here(c) == client[c].at

Reads(c) ==
  /\ Unlocked(Here(c))
  /\ \/ client[c].phase = "root" /\ Here(c) = root
     \/ client[c].phase \in {"walk", "scan"} /\ IsAtLevel(Here(c), client[c].level)

\* a link led to a page that is not what it says: an INDEX_CORRUPTED ERROR
Misled(c) ==
  LET p == Here(c) IN
  /\ Unlocked(p)
  /\ \/ /\ client[c].phase = "root"
        /\ \/ ~Directory(p)
           \/ p # root /\ Height + 1 <= client[c].fresh
           \/ p = root /\ Climbing(c) /\ Height < ParentLevel(c)
     \/ client[c].phase \in {"walk", "scan"} /\ ~IsAtLevel(p, client[c].level)
     \/ /\ client[c].phase = "scan" /\ IsAtLevel(p, client[c].level)
        /\ ~page[p].flagged /\ DownlinksTo(p, Top(c).page) = {} /\ Rightmost(p)

WalksTo(c, p, l) ==
  /\ Goto(c, [phase |-> "walk", at |-> p, level |-> l, fresh |-> 0])
  /\ UNCHANGED <<page, root, waits, fsm, cached, vac>>

\* lion_dir_finish_split() of p, which the session locks and keeps locked
Finishes(c, p, stack) ==
  /\ ToRoot(c, [stack |-> Append(stack, [page |-> p, linked |-> FALSE])])
  /\ UNCHANGED <<page, root, waits, fsm, vac>>

(* Down to the leaf: lion_dir_descend() *)

\* a writer finishes every unfinished split it meets
Repair(c) ==
  LET p == Here(c) IN
    /\ Reads(c) /\ ~Climbing(c) /\ client[c].op = "insert"
    /\ ~Rightmost(p) /\ page[p].flagged
    /\ Finishes(c, p, <<>>)

Descending(c) ==
  LET p == Here(c) IN
  /\ Reads(c) /\ ~Climbing(c)
  /\ ~(client[c].op = "insert" /\ ~Rightmost(p) /\ page[p].flagged)

MoveRight(c) ==
  LET p == Here(c) IN
    /\ Descending(c) /\ PastHigh(p, client[c].key)
    /\ WalksTo(c, page[p].right, page[p].level)

Descend(c) ==
  LET p == Here(c) IN
    /\ Descending(c) /\ page[p].kind = "inner" /\ ~PastHigh(p, client[c].key)
    /\ WalksTo(c, page[p].down[DownlinkFor(p, client[c].key)].child,
               page[p].level - 1)

AtLeaf(c) ==
  /\ Descending(c) /\ page[Here(c)].kind = "leaf"
  /\ ~PastHigh(Here(c), client[c].key)

Answer(c) ==
  LET p == Here(c) IN
    /\ AtLeaf(c) /\ client[c].op = "find"
    /\ Ends(c, IF client[c].key \in page[p].keys THEN "there" ELSE "absent")
    /\ UNCHANGED <<page, root, fsm, cached, vac>>

\* the entry is there: the row goes into it, and VACUUM finds it not empty
FindEntry(c) ==
  LET p == Here(c) IN
    /\ AtLeaf(c) /\ client[c].op = "insert"
    /\ client[c].key \in page[p].keys
    /\ Ends(c, "none")
    /\ vac' = [vac EXCEPT !.seen = @ \ {client[c].key}]
    /\ UNCHANGED <<page, root, fsm, cached>>

\* lion_dir_add_entry() where there is room
AddEntry(c) ==
  LET p == Here(c) IN
    /\ AtLeaf(c) /\ client[c].op = "insert"
    /\ client[c].key \notin page[p].keys
    /\ Cardinality(page[p].keys) < LeafCap
    /\ page' = [page EXCEPT ![p].keys = @ \cup {client[c].key}]
    /\ Ends(c, "none")
    /\ vac' = [vac EXCEPT !.seen = @ \ {client[c].key}]
    /\ UNCHANGED <<root, fsm, cached>>

\* lion_dir_split() of a leaf, with the new entry on the half it belongs to
SplitLeaf(c) ==
  LET p == Here(c)
      all == page[p].keys \cup {client[c].key} IN
    /\ AtLeaf(c) /\ client[c].op = "insert"
    /\ client[c].key \notin page[p].keys
    /\ Cardinality(page[p].keys) = LeafCap
    /\ Rightmost(p) \/ Unlocked(page[p].right)
    /\ CanAllocate(IF p = root THEN 2 ELSE 1)
    /\ \E sep \in all \ {Min(all)}, q \in Pages, n \in Links :
         /\ Allocates(q, {})
         /\ IF p = root THEN n \in Pages /\ Allocates(n, {q}) ELSE n = NoPage
         /\ SplitRecord(p, [keys |-> {k \in all : k < sep}, down |-> <<>>],
                        [keys |-> {k \in all : k >= sep}, down |-> <<>>], sep, q, n)
         /\ fsm' = fsm \ {q, n}
         /\ IF p = root
            THEN /\ root' = n
                 /\ cached' = [cached EXCEPT ![c] = n]
                 /\ Ends(c, "none")
            ELSE /\ ToRoot(c, [stack |-> <<[page |-> p, linked |-> FALSE]>>,
                               placed |-> TRUE])
                 /\ UNCHANGED <<root, waits>>
    /\ vac' = [vac EXCEPT !.seen = @ \ {client[c].key}]

(* Up to the parent of a page whose split is being finished:               *)
(* lion_dir_find_parent()                                                  *)

Climbs(c) ==
  Reads(c) /\ Climbing(c) /\ client[c].phase # "scan"

Route(c) == RouteKey(Top(c).page)

\* at the level above the child: let go, to be locked again EXCLUSIVE
ReachParents(c) ==
  LET p == Here(c) IN
    /\ Climbs(c) /\ page[p].level = ParentLevel(c)
    /\ Goto(c, [phase |-> "scan", at |-> p, level |-> page[p].level, fresh |-> 0])
    /\ UNCHANGED <<page, root, waits, fsm, cached, vac>>

\* still above it.  A walk without a key goes down the first downlinks, and
\* passes DELETED pages by hand: lion_dir_past_deleted()
Climb(c) ==
  LET p == Here(c)
      k == Route(c) IN
    /\ Climbs(c) /\ page[p].level > ParentLevel(c)
    /\ IF (k = MinusInf /\ Deleted(p)) \/ (k # MinusInf /\ PastHigh(p, k))
       THEN WalksTo(c, page[p].right, page[p].level)
       ELSE WalksTo(c, page[p].down[IF k = MinusInf THEN 1
                                    ELSE DownlinkFor(p, k)].child,
                    page[p].level - 1)

Scans(c) == Reads(c) /\ client[c].phase = "scan"

\* a parent whose own split never finished is finished first
RepairParent(c) ==
  LET p == Here(c) IN
    /\ Scans(c) /\ page[p].flagged
    /\ Finishes(c, p, client[c].stack)

ScanRight(c) ==
  LET p == Here(c) IN
    /\ Scans(c) /\ ~page[p].flagged
    /\ DownlinksTo(p, Top(c).page) = {} /\ ~Rightmost(p)
    /\ Goto(c, [at |-> page[p].right])
    /\ UNCHANGED <<page, root, waits, fsm, cached, vac>>

\* Not the code: the next downlink is looked for on the parent only
NextDownlinkHere(p, i) ==
  IF i < Len(page[p].down) THEN page[p].down[i + 1].child ELSE NoPage

\* lion_dir_downlink_present(): the item after i, on p or on the next page
NextDownlink(p, i) ==
  IF i < Len(page[p].down) THEN page[p].down[i + 1].child
  ELSE IF Rightmost(p) \/ page[page[p].right].down = <<>> THEN NoPage
  ELSE page[page[p].right].down[1].child

Linked(c) == [client[c].stack EXCEPT ![Len(client[c].stack)].linked = TRUE]

\* the parent is held, and names the child
AtDownlink(c) ==
  LET p == Here(c) IN
  /\ Scans(c) /\ ~page[p].flagged /\ DownlinksTo(p, Top(c).page) # {}
  /\ Last(page[p].down).child = Top(c).page =>
       Rightmost(p) \/ Unlocked(page[p].right)

DownlinkOf(c) == Min(DownlinksTo(Here(c), Top(c).page))

\* a crash or an ERROR came between the downlink's record and the flag's
AlreadyLinked(c) ==
  /\ AtDownlink(c)
  /\ NextDownlink(Here(c), DownlinkOf(c)) = page[Top(c).page].right
  /\ Goto(c, [phase |-> "clear", stack |-> Linked(c)])
  /\ UNCHANGED <<page, root, waits, fsm, cached, vac>>

\* the downlink of the right half, with the child's high key for a separator
NewDownlink(c) == [sep |-> page[Top(c).page].high,
                   child |-> page[Top(c).page].right]

Places(c) ==
  /\ AtDownlink(c)
  /\ NextDownlink(Here(c), DownlinkOf(c)) # page[Top(c).page].right
  /\ LinksDying \/ page[Top(c).page].right \notin Dying

PlaceDownlink(c) ==
  LET p == Here(c) IN
    /\ Places(c) /\ Len(page[p].down) < InnerCap
    /\ page' = [page EXCEPT ![p].down = InsertAt(@, DownlinkOf(c) + 1, NewDownlink(c))]
    /\ Goto(c, [phase |-> "clear", stack |-> Linked(c)])
    /\ UNCHANGED <<root, waits, fsm, cached, vac>>

\* lion_dir_split() of an internal page: the item at the cut goes up as the
\* separator, and the right half's first downlink loses its key
SplitParent(c) ==
  LET p == Here(c)
      items == InsertAt(page[p].down, DownlinkOf(c) + 1, NewDownlink(c))
      len == InnerCap + 1 IN
    /\ Places(c) /\ Len(page[p].down) = InnerCap
    /\ Rightmost(p) \/ Unlocked(page[p].right)
    /\ CanAllocate(IF p = root THEN 2 ELSE 1)
    /\ \E cut \in MinDownlinks..(len - MinDownlinks), q \in Pages, n \in Links :
         LET sep == items[cut + 1].sep
             kept == SubSeq(items, cut + 1, len) IN
         /\ Allocates(q, {})
         /\ IF p = root THEN n \in Pages /\ Allocates(n, {q}) ELSE n = NoPage
         /\ SplitRecord(p, [keys |-> {}, down |-> SubSeq(items, 1, cut)],
                        [keys |-> {},
                         down |-> [kept EXCEPT ![1].sep = MinusInf]], sep, q, n)
         /\ fsm' = fsm \ {q, n}
         /\ IF p = root
            THEN /\ root' = n
                 /\ cached' = [cached EXCEPT ![c] = n]
                 /\ Goto(c, [phase |-> "clear", stack |-> Linked(c)])
            ELSE /\ ToRoot(c, [stack |-> Append(Linked(c),
                                           [page |-> p, linked |-> FALSE])])
                 /\ UNCHANGED root
    /\ UNCHANGED <<waits, vac>>

\* the flag's own record, and then on with what the split was met by
ClearFlag(c) ==
  LET p == Top(c).page
      rest == Front(client[c].stack) IN
  /\ client[c].phase = "clear"
  /\ page' = [page EXCEPT ![p].flagged = FALSE]
  /\ IF rest = <<>> /\ client[c].placed
     THEN Ends(c, "none")
     ELSE /\ Goto(c, IF rest # <<>> /\ Last(rest).linked
                     THEN [stack |-> rest]
                     ELSE [phase |-> IF rest = <<>> THEN "walk" ELSE "scan",
                           at |-> p, level |-> page[p].level, stack |-> rest])
          /\ UNCHANGED waits
  /\ UNCHANGED <<root, fsm, cached, vac>>

Call(c) == \/ Begin(c) \/ Fail(c) \/ RootMoved(c) \/ Repair(c)
           \/ MoveRight(c) \/ Descend(c) \/ Answer(c) \/ FindEntry(c)
           \/ AddEntry(c) \/ SplitLeaf(c) \/ ReachParents(c) \/ Climb(c)
           \/ RepairParent(c) \/ ScanRight(c)
           \/ AlreadyLinked(c) \/ PlaceDownlink(c) \/ SplitParent(c)
           \/ ClearFlag(c)
-----------------------------------------------------------------------------
(* VACUUM *)

VacGoto(fields) == vac' = With(vac, fields)
pageVars == <<page, root, waits, fsm, cached, client>>

\* lion_dir_leftmost_leaf_ext(): down the first downlinks
LeftmostLeaf ==
  LET at[n \in 0..Height] == IF n = 0 THEN root ELSE page[at[n - 1]].down[1].child
  IN at[Height]

\* VACUUM comes to the index when there are rows to take out of it
StartVacuum ==
  /\ vac.phase = "asleep" /\ EmptyKeys # {} /\ IsAtLevel(LeftmostLeaf, 0)
  /\ VacGoto([phase |-> "see", leaf |-> LeftmostLeaf])
  /\ UNCHANGED pageVars

NextLeaf ==
  vac' = [Asleep EXCEPT !.phase = IF vac.next = NoPage THEN "sweep" ELSE "see",
                        !.leaf = vac.next]

VacFail ==
  /\ vac.phase # "asleep"
  /\ vac' = Asleep
  /\ UNCHANGED pageVars

\* lion_vacuum_leaf_page(): the right link it goes on at, and the entries
\* whose posting sets VACUUM empties
SeeLeaf ==
  /\ vac.phase = "see" /\ Unlocked(vac.leaf) /\ IsAtLevel(vac.leaf, 0)
  /\ \E D \in SUBSET (page[vac.leaf].keys \cap EmptyKeys) :
       VacGoto([phase |-> IF D = {} THEN "look" ELSE "delete",
                next |-> page[vac.leaf].right, seen |-> D])
  /\ UNCHANGED pageVars

\* lion_vacuum_delete_entries(): those still on the leaf and still empty
DeleteEntries ==
  /\ vac.phase = "delete" /\ Unlocked(vac.leaf)
  /\ page' = [page EXCEPT ![vac.leaf].keys = @ \ vac.seen]
  /\ VacGoto([phase |-> "look", seen |-> {}])
  /\ UNCHANGED <<root, waits, fsm, cached, client>>

\* Not the code: any leaf VACUUM has taken entries from
CandidateFull(p) ==
  /\ page[p].kind = "leaf" /\ page[p].state = "live"
  /\ p # root /\ ~page[p].flagged /\ ~Rightmost(p)

\* lion_dirdel_leaf_candidate()
Candidate(p) ==
  /\ page[p].kind = "leaf" /\ page[p].state = "live" /\ page[p].keys = {}
  /\ p # root /\ ~page[p].flagged /\ ~Rightmost(p)

\* Not the code: a leaf that is half gone is passed by
LookAtLeafOnce ==
  LET p == vac.leaf IN
  /\ vac.phase = "look" /\ Unlocked(p)
  /\ IF Candidate(p)
     THEN VacGoto([phase |-> "root", child |-> p, heir |-> page[p].right,
                   key |-> page[p].high])
     ELSE NextLeaf
  /\ UNCHANGED pageVars

\* lion_dir_delete_page(): the leaf stays, goes, or is half gone already
LookAtLeaf ==
  LET p == vac.leaf IN
  /\ vac.phase = "look" /\ Unlocked(p)
  /\ IF page[p].state = "half" THEN VacGoto([phase |-> "unlink"])
     ELSE IF Candidate(p)
     THEN VacGoto([phase |-> "root", child |-> p, heir |-> page[p].right,
                   key |-> page[p].high])
     ELSE NextLeaf
  /\ UNCHANGED pageVars

(* Stage 1, lion_dirdel_mark_halfdead(): the leaf is held *)

VacHere == IF vac.phase = "root" THEN root ELSE vac.at

VacReads ==
  /\ vac.phase \in {"root", "walk", "scan"} /\ Unlocked(VacHere)
  /\ vac.phase = "root" \/ IsAtLevel(VacHere, vac.level)

\* lion_dirdel_descend(), to the page with the keys just below the child's
\* high key at the level above it
VacDescend ==
  LET p == VacHere
      l == page[p].level
      target == page[vac.child].level + 1 IN
  /\ VacReads /\ vac.phase # "scan"
  /\ IF ~Rightmost(p) /\ page[p].high < vac.key
     THEN VacGoto([phase |-> "walk", at |-> page[p].right, level |-> l])
     ELSE IF l = target THEN VacGoto([phase |-> "scan", at |-> p, level |-> l])
     ELSE IF l < target \/ page[p].down = <<>> THEN NextLeaf
     ELSE VacGoto([phase |-> "walk", level |-> l - 1,
                   at |-> page[p].down[DownlinkBelow(p, vac.key)].child])
  /\ UNCHANGED pageVars

VacScans == VacReads /\ vac.phase = "scan"

\* lion_dirdel_find_parent(): the downlink may be further right
VacScanRight ==
  LET p == vac.at IN
  /\ VacScans /\ DownlinksTo(p, vac.child) = {}
  /\ IF Rightmost(p) \/ (~Deleted(p) /\ page[p].high >= vac.key)
     THEN NextLeaf
     ELSE VacGoto([at |-> page[p].right])
  /\ UNCHANGED pageVars

\* the parent names the child, and its own split has finished
VacAtDownlink ==
  VacScans /\ ~page[vac.at].flagged /\ DownlinksTo(vac.at, vac.child) # {}

VacDownlink == Min(DownlinksTo(vac.at, vac.child))

\* the child is p's only one: p goes with it, if p may go
ClimbSubtree ==
  LET p == vac.at IN
  /\ VacAtDownlink /\ Len(page[p].down) = 1 /\ ~Rightmost(p) /\ p # root
  /\ VacGoto([phase |-> "root", child |-> p, heir |-> page[p].right,
              key |-> page[p].high, at |-> NoPage, level |-> 0])
  /\ UNCHANGED pageVars

\* the right sibling takes the range over, and the leaf is HALF_DEAD
MarkHalfDead ==
  LET leaf == vac.leaf
      p == vac.at
      i == VacDownlink IN
  /\ VacAtDownlink /\ i < Len(page[p].down)
  /\ page[p].down[i + 1].child = vac.heir
  /\ page' = [page EXCEPT
       ![p].down = RemoveAt([@ EXCEPT ![i].child = vac.heir], i + 1),
       ![leaf].state = "half", ![leaf].high = MinusInf,
       ![leaf].owner = IF vac.child = leaf THEN NoPage ELSE vac.child]
  /\ VacGoto([phase |-> "unlink", at |-> NoPage, level |-> 0])
  /\ UNCHANGED <<root, waits, fsm, cached, client>>

\* the leaf may not go now, and stays as it is
LeaveLeaf ==
  LET p == vac.at
      i == VacDownlink IN
  /\ VacScans /\ DownlinksTo(p, vac.child) # {}
  /\ \/ page[p].flagged
     \/ i < Len(page[p].down) /\ page[p].down[i + 1].child # vac.heir
     \/ i = Len(page[p].down) /\ (i # 1 \/ Rightmost(p) \/ p = root)
  /\ NextLeaf
  /\ UNCHANGED pageVars

(* Stage 2, lion_dirdel_unlink(): the subtree's pages, top parent first *)

\* which page goes next, and its left sibling as it says
PickTarget ==
  LET leaf == vac.leaf
      target == IF page[leaf].owner = NoPage THEN leaf ELSE page[leaf].owner IN
  /\ vac.phase = "unlink" /\ Unlocked(leaf) /\ Unlocked(target)
  /\ VacGoto([phase |-> "left", child |-> target, at |-> page[target].left,
              level |-> page[target].level])
  /\ UNCHANGED pageVars

IsLeftSibling(p) ==
  p = NoPage \/ (p \in Pages /\ ~Deleted(p) /\ page[p].right = vac.child)

\* it has split since: the last page of that split, further right
FindLeftSibling ==
  LET p == vac.at IN
  /\ vac.phase = "left" /\ p # NoPage /\ Unlocked(p) /\ IsAtLevel(p, vac.level)
  /\ ~IsLeftSibling(p) /\ ~Rightmost(p) /\ ~Deleted(p) /\ page[p].right # vac.leaf
  /\ VacGoto([at |-> page[p].right])
  /\ UNCHANGED pageVars

\* what stage 2 asks of the target t and its right sibling
MayUnlink(t) ==
  LET heir == page[t].right IN
  /\ ~Rightmost(t) /\ t # root /\ ~Deleted(t) /\ page[t].left = vac.at
  /\ IF t = vac.leaf THEN page[t].state = "half" /\ page[t].keys = {}
     ELSE Len(page[t].down) = 1
  /\ page[heir].left = t /\ ~Deleted(heir)

UnlinkReady ==
  /\ vac.phase = "left" /\ IsLeftSibling(vac.at)
  /\ Unlocked(vac.at)
  /\ vac.child # vac.leaf \/ Unlocked(vac.leaf)
  /\ vac.child = vac.leaf \/ Unlocked(vac.child)
  /\ Rightmost(vac.child) \/ Unlocked(page[vac.child].right)

Unlink ==
  LET t == vac.child
      leaf == vac.leaf
      below == IF t = leaf THEN NoPage ELSE page[t].down[1].child IN
  /\ UnlinkReady /\ MayUnlink(t)
  /\ page' = [x \in Pages |->
       IF x = t THEN [page[t] EXCEPT !.state = "deleted", !.keys = {},
                                     !.down = <<>>, !.high = MinusInf,
                                     !.flagged = FALSE, !.owner = NoPage]
       ELSE IF x = vac.at THEN [page[x] EXCEPT !.right = page[t].right]
       ELSE IF x = page[t].right THEN [page[x] EXCEPT !.left = vac.at]
       ELSE IF x = leaf THEN [page[x] EXCEPT !.owner = IF below = leaf THEN NoPage
                                                       ELSE below]
       ELSE page[x]]
  /\ waits' = [waits EXCEPT ![t] = {c \in Sessions : client[c].phase # "rest"}]
  /\ IF t = leaf THEN NextLeaf
     ELSE VacGoto([phase |-> "unlink", at |-> NoPage, level |-> 0])
  /\ UNCHANGED <<root, fsm, cached, client>>

\* damage, which VACUUM logs or raises an ERROR for
VacMisled ==
  \/ vac.phase = "asleep" /\ ~IsAtLevel(LeftmostLeaf, 0)
  \/ vac.phase = "see" /\ Unlocked(vac.leaf) /\ ~IsAtLevel(vac.leaf, 0)
  \/ /\ vac.phase \in {"walk", "scan", "left"} /\ vac.at # NoPage
     /\ Unlocked(vac.at) /\ ~IsAtLevel(vac.at, vac.level)
  \/ /\ vac.phase = "left" /\ vac.at # NoPage /\ IsAtLevel(vac.at, vac.level)
     /\ ~IsLeftSibling(vac.at)
     /\ Rightmost(vac.at) \/ Deleted(vac.at) \/ page[vac.at].right = vac.leaf
  \/ UnlinkReady /\ ~MayUnlink(vac.child)

\* Not the code: a DELETED page is handed out at once
EndVacuumAtOnce ==
  /\ vac.phase = "sweep"
  /\ fsm' = fsm \cup {p \in Pages : Directory(p) /\ Deleted(p)}
  /\ vac' = Asleep
  /\ UNCHANGED <<page, root, waits, cached, client>>

\* lion_vacuum_sweep() and lion_vac_pending_record(): the DELETED pages no
\* snapshot can still reach go to the free space map
EndVacuum ==
  /\ vac.phase = "sweep"
  /\ fsm' = fsm \cup {p \in Pages : Directory(p) /\ Deleted(p) /\ waits[p] = {}}
  /\ vac' = Asleep
  /\ UNCHANGED <<page, root, waits, cached, client>>

Vacuum == \/ StartVacuum \/ VacFail \/ SeeLeaf \/ DeleteEntries \/ LookAtLeaf
          \/ VacDescend \/ VacScanRight \/ ClimbSubtree
          \/ MarkHalfDead \/ LeaveLeaf \/ PickTarget \/ FindLeftSibling
          \/ Unlink \/ EndVacuum

\* a posting set takes a free block: it is no directory page any more
TakeForPostings ==
  /\ \E p \in fsm :
       /\ TakesCached \/ \A c \in Sessions : cached[c] # p
       /\ page' = [page EXCEPT ![p] = [New EXCEPT !.kind = "posting"]]
       /\ fsm' = fsm \ {p}
  /\ UNCHANGED <<root, waits, cached, client, vac>>
-----------------------------------------------------------------------------
PageType ==
  [kind : {"new", "leaf", "inner", "posting"}, state : {"live", "half", "deleted"},
   level : 0..NPages, keys : SUBSET Keys,
   down : Seq([sep : Keys \cup {MinusInf}, child : Pages]),
   high : Keys \cup {MinusInf}, left : Links, right : Links,
   flagged : BOOLEAN, owner : Links]

(* A directory to start from: no page is on its way out and no split is     *)
(* unfinished.  The pages of a level are linked both ways between its ends, *)
(* a page's items are in its range, the pages a level's downlinks name are  *)
(* those of the next one, and no range is cut by where one of its level or  *)
(* above begins.                                                            *)

StartIn(s) == {p \in Pages : s.page[p].kind \in {"leaf", "inner"}}
StartLow(s, p) == IF s.page[p].left = NoPage THEN MinusInf
                  ELSE s.page[s.page[p].left].high
StartSep(s, p, i) == IF i = 1 THEN StartLow(s, p) ELSE s.page[p].down[i].sep
StartHolds(s, p, k) ==
  StartLow(s, p) <= k /\ (s.page[p].right = NoPage \/ k < s.page[p].high)

StartPages(s) ==
  /\ s.page \in [Pages -> PageType]
  /\ s.root \in StartIn(s)
  /\ \A p \in Pages :
       /\ s.page[p].state = "live"
       /\ ~s.page[p].flagged
       /\ IsFiniteSet(s.page[p].keys) /\ Cardinality(s.page[p].keys) <= LeafCap
       /\ Len(s.page[p].down) <= InnerCap
       /\ p \notin StartIn(s) => /\ s.page[p].right = NoPage /\ s.page[p].down = <<>>
                                 /\ s.page[p].keys = {}

StartLevels(s) ==
  \A p \in StartIn(s) :
    /\ s.page[p].kind = "leaf" => s.page[p].level = 0 /\ s.page[p].down = <<>>
    /\ s.page[p].kind = "inner" =>
         /\ s.page[p].level > 0 /\ s.page[p].keys = {}
         /\ s.page[p].down # <<>> /\ s.page[p].down[1].sep = MinusInf
    /\ \A i \in DOMAIN s.page[p].down :
         /\ s.page[p].down[i].child \in StartIn(s)
         /\ s.page[s.page[p].down[i].child].level + 1 = s.page[p].level
    /\ p # s.root => s.page[p].level < s.page[s.root].level

StartSides(s) ==
  \A p \in StartIn(s) :
    /\ s.page[p].right # NoPage =>
         /\ s.page[p].right \in StartIn(s) /\ s.page[s.page[p].right].left = p
         /\ s.page[s.page[p].right].level = s.page[p].level
         /\ StartLow(s, p) < s.page[p].high
    /\ s.page[p].left # NoPage =>
         s.page[p].left \in StartIn(s) /\ s.page[s.page[p].left].right = p

StartItems(s) ==
  \A p \in StartIn(s) :
    /\ \A k \in s.page[p].keys : StartHolds(s, p, k)
    /\ \A i \in DOMAIN s.page[p].down :
         /\ StartHolds(s, p, StartSep(s, p, i))
         /\ \A j \in DOMAIN s.page[p].down :
              i < j => StartSep(s, p, i) < StartSep(s, p, j)
         /\ StartLow(s, s.page[p].down[i].child) = StartSep(s, p, i)
    /\ p # s.root => \E q \in StartIn(s) : \E i \in DOMAIN s.page[q].down :
                       s.page[q].down[i].child = p

StartRanges(s) ==
  \A p, q \in StartIn(s) :
    s.page[p].level >= s.page[q].level /\ p # q =>
      IF StartLow(s, q) = StartLow(s, p) THEN s.page[p].level > s.page[q].level
      ELSE StartLow(s, q) < StartLow(s, p) =>
             s.page[q].right # NoPage /\ s.page[q].high <= StartLow(s, p)

ASSUME StartsAssumption ==
  \A s \in Starts : /\ StartPages(s) /\ StartLevels(s) /\ StartSides(s)
                    /\ StartItems(s) /\ StartRanges(s)

Init ==
  /\ \E s \in Starts : page = s.page /\ root = s.root
  /\ waits = [p \in Pages |-> {}]
  /\ fsm = {}
  /\ cached = [c \in Sessions |-> NoPage]
  /\ client = [c \in Sessions |-> Resting]
  /\ vac = Asleep

Next == (\E c \in Sessions : Call(c)) \/ Vacuum \/ TakeForPostings

Spec == Init /\ [][Next]_vars
-----------------------------------------------------------------------------
(* What must hold *)

\* Every field keeps its type, and no page is over its capacity.
TypeOK ==
  /\ page \in [Pages -> PageType]
  /\ root \in Pages /\ fsm \subseteq Pages
  /\ waits \in [Pages -> SUBSET Sessions]
  /\ cached \in [Sessions -> Links]
  /\ \A c \in Sessions :
       /\ client[c].op \in {"rest", "find", "insert"}
       \* "left": in a walk of LionDirWalk
       /\ client[c].phase \in {"rest", "root", "walk", "scan", "clear", "left"}
       /\ client[c].found \in {"none", "there", "absent"}
       /\ client[c].at \in Links /\ Held(c) \subseteq Pages
  /\ vac.phase \in {"asleep", "see", "delete", "look", "root", "walk", "scan",
                    "unlink", "left", "sweep"}
  /\ {vac.leaf, vac.next, vac.child, vac.heir, vac.at} \subseteq Links
  /\ vac.seen \subseteq Keys
  /\ \A p \in Pages : /\ Cardinality(page[p].keys) <= LeafCap
                      /\ Len(page[p].down) <= InnerCap

\* the pages a level is made of
InLevels == {p \in Pages : Directory(p) /\ ~Deleted(p)}

\* Every variable keeps its type, and the pages of a level are linked both ways,
\* from its one page without a left sibling to its one page without a right sibling:
\* no split, deletion or reused block loses a page or enters one twice.
LevelsLinked ==
  /\ TypeOK
  /\ \A p \in InLevels :
       /\ page[p].right # NoPage =>
            /\ page[p].right \in InLevels /\ page[page[p].right].left = p
            /\ IsAtLevel(page[p].right, page[p].level)
       /\ page[p].left # NoPage =>
            page[p].left \in InLevels /\ page[page[p].left].right = p
  /\ \A l \in 0..Height :
       /\ Cardinality({p \in InLevels : IsAtLevel(p, l) /\ page[p].left = NoPage}) = 1
       /\ Cardinality({p \in InLevels : IsAtLevel(p, l) /\ Rightmost(p)}) = 1

\* where a page's range begins: at the high key of the nearest page to its left
\* that is not on its way out
Lows(live) ==
  LET low[p \in InLevels] ==
        IF page[p].left = NoPage THEN MinusInf
        ELSE IF page[p].left \in live THEN page[page[p].left].high
        ELSE low[page[p].left]
  IN low

\* a page's downlinks, the first with the key the page's range begins at
Downlinks(p, low) ==
  [i \in DOMAIN page[p].down |->
     IF i = 1 THEN [page[p].down[1] EXCEPT !.sep = low] ELSE page[p].down[i]]

\* Each live page's items lie in its own range, in order, and the ranges of a
\* level meet: a page on its way out has left its range to its right sibling
\* and has no entries, so no key can be put where nobody would look for it.
ItemsInRange ==
  LET live == InLevels \ Dying
      low == Lows(live) IN
  \A p \in InLevels :
    /\ p \notin live => ~Rightmost(p) /\ page[p].keys = {}
    /\ p \in live =>
         LET down == Downlinks(p, low[p]) IN
         /\ ~Rightmost(p) => low[p] < page[p].high
         /\ \A k \in page[p].keys \cup {d.sep : d \in ToSet(down)} :
              low[p] <= k /\ ~PastHigh(p, k)
         /\ \A i \in 1..(Len(down) - 1) : down[i].sep < down[i + 1].sep
         /\ \A d \in ToSet(down) : page[d.child].level + 1 = page[p].level

\* The downlinks of a level name the live pages below it, each with the key
\* its range begins at; a page on its way out is named by no live one.  A page
\* may be missing only while its left sibling carries the flag by which a
\* writer will find it, and the flag is on pages only whose split can be
\* finished: live ones, with a parent level above and a right sibling.
DownlinksExact ==
  LET live == InLevels \ Dying
      low == Lows(live)
      named == UNION {ToSet(Downlinks(p, low[p])) : p \in live}
      due == {p \in live : page[p].level < Height} IN
  /\ named \subseteq {[sep |-> low[p], child |-> p] : p \in due}
  /\ \A p \in due :
       [sep |-> low[p], child |-> p] \in named
         \/ (page[p].left # NoPage /\ page[page[p].left].flagged)
  /\ \A p \in Pages : page[p].flagged =>
       p \in due /\ page[p].state = "live" /\ ~Rightmost(p)

\* No session and no VACUUM ever follows a link to a page that is not what the
\* link says, to a block that has been handed out again for one, or past the
\* end of a level, and no page changes while VACUUM is unlinking it: no
\* INDEX_CORRUPTED error is ever raised or logged.
NeverMisled == ~VacMisled /\ \A c \in Sessions : ~Misled(c)

\* A VACUUM that reaches its end leaves no leaf half out of the tree, whoever
\* interrupted it or an earlier one - but those at the very left of the leaves,
\* which no downlink and no right link leads it to.
VacuumFinishes ==
  [][EndVacuum =>
       \A p \in HalfDead : page[p].left \in {NoPage} \cup HalfDead]_vars

\* To its sessions the directory is the set of its entries.
Promise == INSTANCE AtomicDir WITH
  dir <- UNION {page[p].keys : p \in Pages},
  empty <- vac.seen,
  call <- [c \in Sessions |->
            IF client[c].op = "rest" \/ client[c].placed THEN NoCall
            ELSE [op |-> client[c].op, key |-> client[c].key]],
  found <- [c \in Sessions |-> client[c].found]

\* Every lookup and insert takes effect at one moment, whatever is split,
\* repaired, deleted or abandoned around it, and VACUUM deletes only entries
\* it found empty and nobody has put a row into since.
ActsAtomically == Promise!ASpec

\* No session waits for the lock of a page it holds itself (the comment at
\* lion_dir.c:2752-2759 and DESIGN.md section 21 say an ascent waits only for
\* pages above those it holds).
NeverWaitsForItself ==
  \A c \in Sessions :
    client[c].phase \in {"root", "walk", "scan"} => client[c].at \notin Held(c)
=============================================================================
