---------------------------- MODULE LionDirWalk ----------------------------
(***************************************************************************)
(* A walk down the keys of the directory (lion_order_next_value() of       *)
(* lion_scan.c, backward; lion_dir_step_left() of lion_dir.c) beside       *)
(* sessions that split its leaves and VACUUM that deletes them.            *)
(*                                                                         *)
(* The walk begins on the leaf its upper bound lands on, copies it, and    *)
(* goes on to the leaf whose right link is the one copied, which it looks  *)
(* for from the left link on.  It holds nothing between two pages.         *)
(* The descent to the landing is LionDir's subject and one step here; the  *)
(* walk has no lower bound.                                                *)
(***************************************************************************)
EXTENDS LionDir

CONSTANTS Walker,        \* the session that walks, and does nothing else
          Beside,        \* bound: calls under way beside a walk
          WalkStarts,    \* the directories there is one in
          Uppers,        \* the upper bounds
          Rechecks,      \* what LION_STEP_LEFT_RECHECK may be
          StaysLanded    \* TRUE: no split takes keys from the leaf the walk
                         \* begins on before it is copied

ASSUME WalkAssumption == /\ Walker \in Sessions
                         /\ Beside \in Nat /\ Rechecks \subseteq Nat
                         /\ StaysLanded \in BOOLEAN

VARIABLE walk     \* the walk: where it is, and what it has handed out

NoWalk == [phase |-> "off", upper |-> 0, cur |-> NoPage, left |-> NoPage,
           at |-> NoPage, tries |-> 0, recheck |-> 0, bounded |-> TRUE, linked |-> FALSE,
           got |-> <<>>, due |-> {}]

Walks(fields) == walk' = fields @@ walk
Looks(phase) == walk.phase = phase /\ Unlocked(walk.at)

\* the leaf a descent for k ends on: HALF_DEAD leaves have no keys below their high key
Lands(k, p) ==
  LET owners == {q \in Pages : /\ IsAtLevel(q, 0) /\ page[q].state = "live"
                               /\ ~PastHigh(q, k)}
  IN /\ p \in owners /\ Unlocked(p)
     /\ \A q \in owners : Rightmost(q) \/ (~Rightmost(p) /\ page[p].high <= page[q].high)

\* every entry there is now, up to the bound, is of a row the walk's snapshot sees,
\* until VACUUM deletes it
Present == UNION {page[p].keys : p \in Pages}

BeginWalk ==
  /\ walk.phase = "ready"
  /\ \E u \in Uppers, n \in Rechecks, p \in Pages :
       /\ Lands(u, p)
       /\ Walks([phase |-> "landing", upper |-> u, at |-> p, recheck |-> n,
                 due |-> {k \in Present : k <= u}])
  /\ client' = [client EXCEPT ![Walker].phase = "left"]
  /\ UNCHANGED <<page, root, waits, fsm, cached, vac>>

\* lion_range_landing(): on to the first leaf with an entry at or above the bound,
\* which is let go
Land ==
  LET p == walk.at IN
  /\ Looks("landing")
  /\ IF Rightmost(p) \/ \E k \in page[p].keys : k >= walk.upper
     THEN Walks([phase |-> "landed"])
     ELSE Walks([at |-> page[p].right])
  /\ UNCHANGED vars

Downward(S) == Reverse(SetToSortSeq(S, <))

\* lion_order_read_leaf(), whose entries are handed out from the last to the first
Copies(p) ==
  Walks([phase |-> IF page[p].left = NoPage THEN "done" ELSE "own", at |-> p,
         bounded |-> TRUE,
         got |-> walk.got \o Downward({k \in page[p].keys : k <= walk.upper})])

CopyLanding ==
  LET p == walk.at IN
  /\ Looks("landed")
  /\ Copies(p)
  /\ UNCHANGED vars

\* lion_dir_past_deleted(), and the left link of the page that comes to
FromHere(p, bounded) ==
  IF Deleted(p) THEN Walks([phase |-> "own", at |-> page[p].right, bounded |-> bounded])
  ELSE IF page[p].left = NoPage THEN Walks([phase |-> "done"])
  ELSE Walks([phase |-> "left", cur |-> p, left |-> page[p].left, at |-> page[p].left,
              tries |-> 0, linked |-> FALSE, bounded |-> bounded])

OwnLink ==
  LET p == walk.at IN
  /\ Looks("own")
  /\ FromHere(p, walk.bounded)
  /\ UNCHANGED vars

\* Not the code: the page the left link names, unless it has been deleted
IsLeftOfUnsearched(p) == ~Deleted(p)

\* the page whose right link is the one copied
IsLeftOf(p) == page[p].right = walk.cur /\ ~Deleted(p)

CopyLeft ==
  LET p == walk.at IN
  /\ Looks("left") /\ IsLeftOf(p)
  /\ Copies(p)
  /\ UNCHANGED vars

\* the page copied is read again
RereadsFrom(p) == Walks([phase |-> "again", at |-> walk.cur,
                         linked |-> page[p].right = walk.cur])

SearchRight ==
  LET p == walk.at IN
  /\ Looks("left") /\ ~IsLeftOf(p)
  /\ IF Rightmost(p) /\ ~walk.bounded THEN Walks([phase |-> "failed"])
     ELSE IF \/ page[p].right = walk.cur \/ Rightmost(p)
             \/ walk.bounded /\ walk.tries >= walk.recheck
     THEN RereadsFrom(p)
     ELSE Walks([at |-> page[p].right, tries |-> walk.tries + 1])
  /\ UNCHANGED vars

\* its left link has changed, or it has been deleted; or the search was too short
Unchanged(p) == ~Deleted(p) /\ page[p].left = walk.left

Reread ==
  LET p == walk.at IN
  /\ Looks("again")
  /\ IF Unchanged(p) /\ (walk.linked \/ ~walk.bounded)
     THEN Walks([phase |-> "failed"])
     ELSE FromHere(p, walk.bounded /\ ~Unchanged(p))
  /\ UNCHANGED vars

EndWalk ==
  /\ walk.phase = "done" /\ client[Walker].phase # "rest"
  /\ Ends(Walker, "none")
  /\ UNCHANGED <<page, root, fsm, cached, vac, walk>>

WalkStep == \/ BeginWalk \/ Land \/ CopyLanding \/ OwnLink \/ CopyLeft
            \/ SearchRight \/ Reread \/ EndWalk

\* whether a walk that has let the leaf it begins on go still finds its keys there
KeepsLanding ==
  walk.phase = "landed" => page[walk.at].keys \subseteq page'[walk.at].keys

Others == Sessions \ {Walker}
OthersStep == (\E c \in Others : Call(c)) \/ Vacuum \/ TakeForPostings

\* inserts and VACUUM go on; an entry VACUUM deletes is not due any more
NextBeside ==
  /\ OthersStep
  /\ LET calls == {c \in Others : client'[c].phase # "rest"} IN
     /\ Cardinality(calls) <= Beside
     /\ \A c \in calls : client'[c].op = "insert"
  /\ StaysLanded => KeepsLanding
  /\ Walks([due |-> walk.due \cap Present'])

\* the directory goes on where there is no walk, and beside one
DirStep ==
  \/ walk.phase = "off" /\ OthersStep /\ UNCHANGED walk
  \/ walk.phase # "off" /\ NextBeside

WalkInit ==
  /\ Init
  /\ \/ walk = NoWalk
     \/ /\ walk = [NoWalk EXCEPT !.phase = "ready"]
        /\ \E s \in WalkStarts : page = s.page /\ root = s.root

WalkNext == DirStep \/ WalkStep

WalkSpec == WalkInit /\ [][WalkNext]_<<vars, walk>>
-----------------------------------------------------------------------------
\* A walk that ends has handed out every entry up to its bound that was there when
\* it began and still is, and none out of order or twice, whatever split or was
\* deleted under it.
WalkMissesNone ==
  /\ walk.phase = "done" => walk.due \subseteq ToSet(walk.got)
  /\ \A i \in 1 .. Len(walk.got) - 1 : walk.got[i] > walk.got[i + 1]

\* The left sibling of a page that has one is found.
SiblingFound == walk.phase # "failed"
=============================================================================
