---------------------------- MODULE LionStandby ----------------------------
(***************************************************************************)
(* Counts on a hot standby while replay applies what the primary's inserts *)
(* and VACUUMs logged (lion_wal.c): the same posting set, heap and counts  *)
(* as LionCount, but the counts and the writers no longer wait for each    *)
(* other's locks, and VACUUM, on the primary, does not see their pins.     *)
(*                                                                         *)
(* What stands in for the pins is in the WAL.  A record that removes TIDs  *)
(* is replayed under a CLEANUP lock, and carries the list of the pages     *)
(* VACUUM has cleanup-locked and left alone since the last such record:    *)
(* replay cleanup-locks those first, one at a time.  A record that takes a *)
(* free page again cancels the queries whose snapshots are too old for it. *)
(*                                                                         *)
(* The standby never influences the primary, so a step of the primary may  *)
(* be put at the moment its record is replayed, and what the primary does  *)
(* between two records at any moment in between: the variables of          *)
(* LionCount hold what the standby has replayed, VACUUM's own hold the     *)
(* primary's.  A step that waits for replay has a record under way (redo), *)
(* and no other record is replayed meanwhile.                              *)
(***************************************************************************)
EXTENDS LionCount

CONSTANTS WalModes,   \* wal_mode the index may have: "rmgr" or "generic"
          VisitCap    \* pg_lion.vacuum_barrier_ranges; no two ranges merge

ASSUME WalModesAssumption == WalModes \subseteq {"rmgr", "generic"}
ASSUME VisitCapAssumption == VisitCap \in Nat \ {0}

VARIABLES walmode,   \* of the index
          visits,    \* lion_wal_visits on the primary; with a record under
                     \* way, what is left of the list it carries
          redo       \* what replay is at: "removal", a VACUUM_VISIT record's
                     \* "visits", or "none"

walVars == <<walmode, visits, redo>>
standbyVars == <<vars, walVars>>

Rmgr == walmode = "rmgr"
-----------------------------------------------------------------------------
(* Replay *)

\* Not the code: a page taken again is not announced
NoConflict == {}

\* lion_wal_log_reuse(): the snapshots that must be gone before a free page is
\* taken again, those its safexid is not behind among the queries that run
ReuseConflicts == Running

\* lion_wal_visit(): a page VACUUM cleanup-locked and wrote nothing to joins
\* the list, once; without the resource manager there is none
Visit(p) ==
  /\ redo = "none"
  /\ IF ~Rmgr \/ (visits # <<>> /\ visits[Len(visits)] = p)
     THEN UNCHANGED visits
     ELSE Len(visits) < VisitCap /\ visits' = Append(visits, p)
  /\ UNCHANGED <<walmode, redo>>

\* lion_redo() of a record whose cleanupmask names p, its barrier behind it;
\* generic_redo() waits for no pin
Removal(p) ==
  /\ visits = <<>>
  /\ Rmgr => p \notin Pinned
  /\ redo' = "none"
  /\ UNCHANGED <<walmode, visits>>

\* every other record, and what the primary does without one
Apart == redo = "none" /\ UNCHANGED walVars
-----------------------------------------------------------------------------
(* VACUUM on the primary: its own locks, and no count's pin *)

EntryLoses == form = "inline" /\ inl \cap vdead # {}
PageLoses == kind[vpage] = "leaf" /\ items[vpage] \cap vdead # {}
EntryGoes == form # "absent" /\ Indexed = {}

\* Not the code: pass 1 lists no leaf it wrote nothing to
VacuumEntryUnlisted ==
  PassEntry /\ IF EntryLoses THEN Removal(DirLeaf) ELSE Apart

StandbyEntry ==
  /\ PassEntry
  /\ IF EntryLoses THEN Removal(DirLeaf) ELSE Visit(DirLeaf)

StandbyRoot == vroot # held /\ PassRoot /\ Visit(vroot)

StandbyRestart == vpage # held /\ PassRestart /\ Visit(vpage)

\* Not the code: only what changed is in the log
StandbyPageUnlisted ==
  /\ vpage # held
  /\ PassPage
  /\ IF PageLoses THEN Removal(vpage) ELSE Apart

StandbyPage ==
  /\ vpage # held
  /\ PassPage
  /\ IF PageLoses THEN Removal(vpage) ELSE Visit(vpage)

StandbyDelete ==
  /\ PassDelete
  /\ IF EntryGoes THEN Removal(DirLeaf) ELSE Apart

StandbyFree(p) ==
  /\ vpc = "free"
  /\ p # held
  /\ FreePage(p, Running)
  /\ Removal(p)
  /\ UNCHANGED <<heapVars, readerVars, vacuumVars>>

\* the next step of VACUUM writes a record that removes something
RemovalNext ==
  /\ ins = NoTid
  /\ \/ vpc = "entry" /\ EntryLoses
     \/ vpc = "page" /\ PageLoses
     \/ vpc = "delete" /\ EntryGoes
     \/ vpc = "free" /\ \E p \in Pages : Orphan(p) /\ items[p] = {}

\* lion_wal_finish(): that record takes the list along
CarryVisits ==
  /\ redo = "none"
  /\ visits # <<>>
  /\ RemovalNext
  /\ redo' = "removal"
  /\ UNCHANGED <<vars, walmode, visits>>

\* the page VACUUM's next step would list, having written nothing to it
NextVisit ==
  IF vpc = "entry" /\ ins = NoTid /\ ~EntryLoses THEN DirLeaf
  ELSE IF vpc = "root" /\ vroot # held THEN vroot
  ELSE IF vpc = "page" /\ vpage # held /\ ~PageLoses THEN vpage
  ELSE NoPage

\* lion_wal_visit_flush(): a list that is full is written on its own
FlushVisits ==
  /\ redo = "none"
  /\ Len(visits) = VisitCap
  /\ NextVisit \notin {NoPage, visits[VisitCap]}
  /\ redo' = "visits"
  /\ UNCHANGED <<vars, walmode, visits>>

\* lion_redo_barrier(): the next page of the list under a cleanup lock, with
\* nothing else held
Barrier ==
  /\ redo # "none"
  /\ visits # <<>>
  /\ Head(visits) \notin Pinned
  /\ visits' = Tail(visits)
  /\ redo' = IF redo = "visits" /\ Len(visits) = 1 THEN "none" ELSE redo
  /\ UNCHANGED <<vars, walmode>>

\* lionbulkdelete() drops what is left when it returns, and
\* lion_wal_xact_callback() when it fails
DropVisits == redo = "none" /\ visits' = <<>> /\ UNCHANGED <<walmode, redo>>
-----------------------------------------------------------------------------
(* A query of the standby.  Nobody holds a page for longer than it reads or  *)
(* replays it, and a record lies between a writer's locks and its next step. *)

\* Not the code: a standby trusts the map in either mode
ModeAlways == "map"

\* in recovery only an rmgr-mode index has the interlock
\* (LionCountContext's in_recovery)
ModeInRecovery == IF Rmgr THEN "map" ELSE "recheck"

StandbyBegin(r) == Begin(r) /\ mode'[r] = ModeInRecovery

\* a recovery conflict, or max_standby_streaming_delay, ends the query
Cancel(r) == pc[r] # "idle" /\ Leave(r)

QueryStep(r) ==
  /\ \/ StandbyBegin(r) \/ LocateEntry(r) \/ VisitRoot(r) \/ VisitLeaf(r)
     \/ CountContainer(r) \/ Unpin(r) \/ VisitNext(r) \/ Return(r) \/ Cancel(r)
  /\ UNCHANGED walVars
-----------------------------------------------------------------------------
StandbyInit ==
  /\ Init
  /\ walmode \in WalModes
  /\ visits = <<>>
  /\ redo = "none"

\* the records of the heap and of insertions
StandbyInsert ==
  /\ InsertStep(ReuseConflicts)
  /\ UNCHANGED <<heapVars, readerVars, vacuumVars>>

WriterStep ==
  /\ \/ \E t \in Tids : HeapStep(t)
     \/ \E b \in Blocks : SetAllVisible(b)
     \/ StandbyInsert
     \/ IndexInsertFails
     \/ VacuumBegin
     \/ VacuumUnlink
  /\ Apart

StandbyVacuum ==
  \/ StandbyEntry \/ StandbyRoot \/ StandbyRestart \/ StandbyPage
  \/ StandbyDelete
  \/ \E p \in Pages : StandbyFree(p)
  \/ (VacuumReap \/ VacuumFails) /\ DropVisits

ReplayStep == CarryVisits \/ FlushVisits \/ Barrier

StandbyNext ==
  \/ WriterStep
  \/ StandbyVacuum
  \/ ReplayStep
  \/ \E r \in Readers : QueryStep(r)

StandbySpec == StandbyInit /\ [][StandbyNext]_standbyVars
=============================================================================
