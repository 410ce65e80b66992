---------------------------- MODULE LionReadList ----------------------------
(***************************************************************************)
(* A plain read stream over a list its reader knows whole, which rests     *)
(* where its reads find every block in shared buffers                      *)
(* (lion_readahead_begin_list(), lion_readahead.c): a rest ends the stream *)
(* under it, which still hands out what it was named before, and the next  *)
(* blocks of the list are the reader's own.  The list is 1..ListLen.  The  *)
(* stream is external, as in LionRing.                                     *)
(***************************************************************************)
EXTENDS Integers, Sequences

CONSTANTS ListLen,
          Warm,      \* LION_ASK_WARM
          Dormant,   \* LION_ASK_DORMANT
          LookAhead, \* bound: blocks the stream looks ahead
          NoBlock    \* InvalidBlockNumber

ASSUME ListAssumption == /\ ListLen \in Nat /\ Warm \in Nat \ {0}
                         /\ Dormant \in Nat \ {0} /\ LookAhead \in Nat \ {0}
                         /\ NoBlock \notin Nat

VARIABLES next,      \* the list's next block
          queue,     \* blocks named to the stream, in order
          over,      \* the stream is over until it is reset
          warm,      \* blocks in a row the stream read nothing in for
          dormant,   \* blocks to rest for
          paused,    \* the callback named none for a rest
          drained,   \* ... and the stream has handed out all it was named
          doing,     \* what lion_readahead_next() does next
          handed,    \* the block it returned last, NoBlock past the end
          due        \* not in the code: the block the reader is to have next

streamVars == <<next, queue, over>>
listVars == <<streamVars, warm, dormant, paused, drained, doing, handed, due>>

ListInit ==
  /\ next = 1
  /\ queue = <<>>
  /\ over = FALSE
  /\ warm = 0 /\ dormant = 0
  /\ paused = FALSE /\ drained = FALSE
  /\ doing = "idle"
  /\ handed = 0
  /\ due = 1

\* lion_readahead_next() begins
Call ==
  /\ doing = "idle"
  /\ IF dormant > 0
     THEN /\ dormant' = dormant - 1
          /\ doing' = IF drained THEN "rest" ELSE "drain"
     ELSE doing' = "pull" /\ UNCHANGED dormant
  /\ UNCHANGED <<streamVars, warm, paused, drained, handed, due>>

\* Not the code: a block is taken before the rest is looked at, and lost
ListCbTakesFirst ==
  /\ doing \in {"drain", "pull", "again"}
  /\ ~over /\ Len(queue) <= LookAhead
  /\ next' = IF next > ListLen THEN next ELSE next + 1
  /\ IF dormant > 0 \/ next > ListLen
     THEN /\ over' = TRUE
          /\ paused' = (paused \/ dormant > 0)
          /\ UNCHANGED queue
     ELSE /\ queue' = Append(queue, next)
          /\ UNCHANGED <<over, paused>>
  /\ UNCHANGED <<warm, dormant, drained, doing, handed, due>>

\* lion_readahead_list_cb(), called while the stream is pulled
ListCb ==
  /\ doing \in {"drain", "pull", "again"}
  /\ ~over /\ Len(queue) <= LookAhead
  /\ IF dormant > 0 \/ next > ListLen
     THEN /\ over' = TRUE
          /\ paused' = (paused \/ dormant > 0)
          /\ UNCHANGED <<next, queue>>
     ELSE /\ queue' = Append(queue, next)
          /\ next' = next + 1
          /\ UNCHANGED <<over, paused>>
  /\ UNCHANGED <<warm, dormant, drained, doing, handed, due>>

Hand(blk) ==
  /\ handed' = blk
  /\ due' = IF blk = NoBlock THEN due ELSE due + 1
  /\ doing' = "idle"

\* a block in a row that was warm, or was read in
Warmed(cold) ==
  IF cold THEN warm' = 0 /\ UNCHANGED dormant
  ELSE IF warm + 1 >= Warm THEN warm' = 0 /\ dormant' = Dormant
  ELSE warm' = warm + 1 /\ UNCHANGED dormant

\* the stream's next buffer; in a rest it changes nothing about the warmth
TakeBuffer ==
  /\ doing \in {"drain", "pull", "again"}
  /\ queue # <<>>
  /\ queue' = Tail(queue)
  /\ Hand(Head(queue))
  /\ IF doing = "drain"
     THEN UNCHANGED <<warm, dormant>>
     ELSE \E cold \in BOOLEAN : Warmed(cold)
  /\ UNCHANGED <<next, over, paused, drained>>

\* in a rest the stream is done, and the block is the reader's to read
Drained ==
  /\ doing = "drain"
  /\ queue = <<>> /\ over
  /\ drained' = TRUE
  /\ doing' = "rest"
  /\ UNCHANGED <<streamVars, warm, dormant, paused, handed, due>>

Rest ==
  /\ doing = "rest"
  /\ IF next > ListLen
     THEN Hand(NoBlock) /\ UNCHANGED next
     ELSE Hand(next) /\ next' = next + 1
  /\ UNCHANGED <<queue, over, warm, dormant, paused, drained>>

\* Not the code: awake, the stream is done however it ended
RestartOrEndUnpaused ==
  /\ doing \in {"pull", "again"}
  /\ queue = <<>> /\ over
  /\ Hand(NoBlock)
  /\ UNCHANGED <<streamVars, warm, dormant, paused, drained>>

\* awake, the stream is done: started again after a rest, else the list's end
RestartOrEnd ==
  /\ doing \in {"pull", "again"}
  /\ queue = <<>> /\ over
  /\ IF paused /\ doing = "pull"
     THEN /\ over' = FALSE
          /\ paused' = FALSE
          /\ drained' = FALSE
          /\ doing' = "again"
          /\ UNCHANGED <<handed, due>>
     ELSE Hand(NoBlock) /\ UNCHANGED <<over, paused, drained>>
  /\ UNCHANGED <<next, queue, warm, dormant>>

\* lion_readahead_reset(): what the stream read ahead is dropped
Reset ==
  /\ doing = "idle"
  /\ queue' = <<>>
  /\ over' = FALSE
  /\ warm' = 0 /\ dormant' = 0
  /\ paused' = FALSE /\ drained' = FALSE
  /\ due' = next
  /\ UNCHANGED <<next, doing, handed>>

ListNext == \/ Call \/ ListCb \/ TakeBuffer \/ Drained \/ Rest \/ RestartOrEnd
            \/ Reset
ListSpec == ListInit /\ [][ListNext]_listVars

-----------------------------------------------------------------------------
(* Properties.                                                             *)

\* The reader has every block of the list once and in the list's order, and is
\* told that the list has ended only when it has had all of it, through however
\* many rests, restarts and look-aheads the stream goes (lion_readahead_next():
\* a stream that ended for a rest is not the list's end).
InOrder == handed' \notin {handed, NoBlock} => handed' = due
AtEnd == doing # "idle" /\ doing' = "idle" /\ handed' = NoBlock => due = ListLen + 1
EachInOrder == [][InOrder /\ AtEnd]_listVars
=============================================================================
