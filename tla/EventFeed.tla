-------------------------------- MODULE EventFeed --------------------------------
(***************************************************************************)
(* The control-plane events of a workspace and a reader of them, who lists *)
(* pages or follows the stream and goes on after the last event it has. A  *)
(* cursor is a rowid; the events of every workspace share the rowids, and  *)
(* the sweep of old events may free the greatest of them.                  *)
(***************************************************************************)
EXTENDS Naturals, FiniteSets

CONSTANTS
  MaxEvents,   \* bound: events that are appended
  StreamBatch, \* streamBatchLimit
  MaxCuts      \* bound: connections that break

ASSUME FeedAssumption == {MaxEvents, StreamBatch} \subseteq Nat

VARIABLES
  rows,     \* control_plane_events
  mine,     \* history: the ids of this workspace's events
  newest,   \* the id of the newest event
  feed,     \* the stream of the reader: its state, its cursor and what it has sent
  heard,    \* the id of the last event the reader has, 0 for none
  received, \* history: the events the reader has received
  since,    \* history: the reader follows the events after this one
  cuts

feedVars == <<rows, mine, newest, feed, heard, received, since, cuts>>

FeedInit ==
  /\ rows = {} /\ mine = {} /\ newest = 0
  /\ feed = [open |-> FALSE, row |-> 0, wire |-> {}]
  /\ heard = 0 /\ received = {} /\ since = 0 /\ cuts = 0

(* ORDER BY rowid DESC LIMIT 1 and MAX(rowid): the last event, as the set  *)
(* of at most one, and its row. *)
Last(events) == {e \in events : \A f \in events : f.row <= e.row}
TopRow(events) == IF events = {} THEN {0} ELSE {e.row : e \in Last(events)}

Own == {e \in rows : e.id \in mine}
Held(id) == \E e \in Own : e.id = id
RowOf(id) == (CHOOSE e \in Own : e.id = id).row
Ids(events) == {e.id : e \in events}

(* The first events after a row. *)
After(row, limit) ==
  LET Between(e) == {f \in Own : row < f.row /\ f.row < e.row}
  IN {e \in Own : row < e.row /\ Cardinality(Between(e)) < limit}

(* appendControlPlaneEvent, in this workspace or in another. *)
AppendEvent(own) ==
  /\ newest < MaxEvents
  /\ newest' = newest + 1
  /\ \E top \in TopRow(rows) : rows' = rows \cup {[id |-> newest + 1, row |-> top + 1]}
  /\ mine' = IF own THEN mine \cup {newest + 1} ELSE mine
  /\ UNCHANGED <<feed, heard, received, since, cuts>>

(* sweepExpiredOperationalData. A workspace loses its oldest events first. *)
(* Rowids that are free again are given again: a stream whose cursor is    *)
(* above all of them waits for events that never come.                     *)
SweepEvent ==
  /\ \E e \in rows :
       /\ \A f \in rows : (f.id \in mine) = (e.id \in mine) => e.id <= f.id
       /\ rows' = rows \ {e}
  /\ since' = IF feed.open /\ 0 < feed.row /\ \A e \in rows' : e.row < feed.row THEN MaxEvents ELSE since
  /\ UNCHANGED <<mine, newest, feed, heard, received, cuts>>

-----------------------------------------------------------------------------
(* A page of events.                                                       *)

(* The latest events. *)
ListLatest ==
  /\ ~feed.open /\ feed.wire = {} /\ heard = 0 /\ Own # {}
  /\ \E latest \in Last(Own) :
       heard' = latest.id /\ received' = received \cup {latest.id} /\ since' = latest.id
  /\ UNCHANGED <<rows, mine, newest, feed, cuts>>

(* Those after an event; none if the event is not there any more. *)
ListAfter ==
  /\ ~feed.open /\ feed.wire = {} /\ heard > 0 /\ Held(heard)
  /\ LET page == After(RowOf(heard), StreamBatch)
     IN /\ \E last \in Last(page) : heard' = last.id
        /\ received' = received \cup Ids(page)
  /\ UNCHANGED <<rows, mine, newest, feed, since, cuts>>

-----------------------------------------------------------------------------
(* The stream.                                                             *)

(* It begins after the reader's last event, or with the next one to come   *)
(* if the reader has none or the event is not there any more. *)
OpenStream ==
  /\ ~feed.open /\ feed.wire = {}
  /\ \E row \in IF Held(heard) THEN {RowOf(heard)} ELSE TopRow(Own) :
       feed' = [open |-> TRUE, wire |-> {}, row |-> row]
  /\ since' = IF Held(heard) THEN since ELSE newest
  /\ UNCHANGED <<rows, mine, newest, heard, received, cuts>>

\* Mutant: the cursor goes to the end of the table.
CursorAfterMutant(batch) == TopRow(rows)
CursorAfter(batch) == TopRow(batch)

(* handleControlPlaneEventStream, one turn of its loop. *)
PollEvents ==
  /\ feed.open
  /\ LET batch == After(feed.row, StreamBatch)
     IN /\ batch # {}
        /\ \E row \in CursorAfter(batch) : feed' = [feed EXCEPT !.row = row, !.wire = @ \cup batch]
  /\ UNCHANGED <<rows, mine, newest, heard, received, since, cuts>>

(* The window is over: what was sent still arrives. *)
WindowEnds ==
  /\ feed.open /\ feed' = [feed EXCEPT !.open = FALSE]
  /\ UNCHANGED <<rows, mine, newest, heard, received, since, cuts>>

(* The events arrive in the order they were sent in, which is that of      *)
(* their rows. *)
ReceiveFeed ==
  /\ \E e \in feed.wire :
       /\ \A f \in feed.wire : e.row <= f.row
       /\ heard' = e.id
       /\ received' = received \cup {e.id}
       /\ feed' = [feed EXCEPT !.wire = @ \ {e}]
  /\ UNCHANGED <<rows, mine, newest, since, cuts>>

(* The connection breaks: what was sent may be lost. *)
FeedCut ==
  /\ cuts < MaxCuts /\ cuts' = cuts + 1
  /\ feed.open
  /\ feed' = [feed EXCEPT !.open = FALSE, !.wire = {}]
  /\ UNCHANGED <<rows, mine, newest, heard, received, since>>

FeedNext ==
  \/ \E own \in BOOLEAN : AppendEvent(own)
  \/ SweepEvent \/ ListLatest \/ ListAfter \/ OpenStream \/ PollEvents \/ WindowEnds \/ ReceiveFeed \/ FeedCut

-----------------------------------------------------------------------------
(* A reader that goes on after its last event, through pages, streams that *)
(* end and connections that break, has every event of its workspace up to  *)
(* the last one it has. Exempt (since) are the events before it began to   *)
(* follow; the ones written before it came back with a Last-Event-ID that  *)
(* was swept, since the server then starts at the newest; and all that     *)
(* follow once the row a stream stands at was swept together with every    *)
(* later one, since new rows get the same row ids again and it passes over *)
(* them.                                                                   *)
FeedSkipsNothing ==
  \A e \in Own : since < e.id /\ e.id <= heard => e.id \in received
================================================================================
