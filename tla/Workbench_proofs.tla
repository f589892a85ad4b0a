---------------------------- MODULE Workbench_proofs ----------------------------
(***************************************************************************)
(* Proofs about what the workbench shows: that the event feed skips        *)
(* nothing and that the administration summary never goes back, for every  *)
(* number of events and of requests.                                       *)
(***************************************************************************)
EXTENDS AdminSummary, EventFeed, FiniteSetTheorems, TLAPS

FeedSpec == FeedInit /\ [][FeedNext]_feedVars
SummarySpec == SummaryInit /\ [][SummaryNext]_summaryVars

-----------------------------------------------------------------------------
(* The event feed.                                                         *)

Events == [id : Nat, row : Nat]

\* The rows have the order of the ids, and both are keys.
Sorted(events) ==
  \A e, f \in events : /\ e.row < f.row => e.id < f.id
                       /\ (e.id = f.id \/ e.row = f.row) => e = f

FeedTypeOK ==
  /\ rows \subseteq Events /\ IsFiniteSet(rows) /\ Sorted(rows)
  /\ feed \in [open : BOOLEAN, row : Nat, wire : SUBSET Events] /\ Sorted(feed.wire)
  /\ {newest, heard, since} \subseteq Nat /\ newest <= MaxEvents /\ heard <= newest
  /\ \A e \in rows \cup feed.wire : e.id <= newest

Kept == received \cup Ids(feed.wire)

\* What was sent leaves nothing out before it.
WireSkipsNothing ==
  \A w \in feed.wire, e \in Own : since < e.id /\ e.id <= w.id => e.id \in Kept

\* An open stream has sent everything up to its cursor; the cursor is at most at the
\* last row, or else the reader has been given up on.
CursorIsTrue ==
  feed.open =>
    /\ \A e \in Own : since < e.id /\ e.row <= feed.row => e.id \in Kept
    /\ \A w \in feed.wire : w.row <= feed.row /\ \A e \in Own : feed.row < e.row => w.id < e.id
    /\ since = MaxEvents \/ feed.row = 0 \/ \E e \in rows : feed.row <= e.row

FeedInv == FeedTypeOK /\ FeedSkipsNothing /\ WireSkipsNothing /\ CursorIsTrue

\* A page of events leaves none of its workspace's out before its last one.
LEMMA PageHasNoGap ==
  ASSUME FeedTypeOK, NEW row \in Nat, NEW limit \in Nat, NEW e \in After(row, limit),
         NEW f \in Own, row < f.row, f.row <= e.row
  PROVE  f \in After(row, limit)
<1> DEFINE Between(g) == {h \in Own : row < h.row /\ h.row < g.row}
<1>1. Own \subseteq rows /\ e \in Own /\ e.row \in Nat /\ f.row \in Nat
  BY DEF After, Own, FeedTypeOK, Events
<1>2. Between(f) \subseteq Between(e)
  BY <1>1 DEF Own, FeedTypeOK, Events
<1>3. IsFiniteSet(Between(e))
  <2>1. Between(e) \subseteq rows
    BY DEF Own
  <2>2. QED
    BY <2>1, FS_Subset DEF FeedTypeOK
<1>4. Cardinality(Between(f)) <= Cardinality(Between(e)) /\ IsFiniteSet(Between(f))
  BY <1>2, <1>3, FS_Subset
<1>5. Cardinality(Between(f)) \in Nat /\ Cardinality(Between(e)) \in Nat
  BY <1>3, <1>4, FS_CardinalityType
<1>6. Cardinality(Between(e)) < limit
  BY DEF After
<1>7. QED
  BY <1>4, <1>5, <1>6 DEF After

LEMMA FeedStarts == FeedInit => FeedInv
  BY FeedAssumption, FS_EmptySet
  DEF FeedInit, FeedInv, FeedTypeOK, Sorted, FeedSkipsNothing, WireSkipsNothing, CursorIsTrue, Own, Ids, Events

\* A new event has the greatest id and comes after every row.
LEMMA AppendKeeps == ASSUME FeedInv, NEW own \in BOOLEAN, AppendEvent(own) PROVE FeedInv'
<1>1. PICK top \in TopRow(rows) : rows' = rows \cup {[id |-> newest + 1, row |-> top + 1]}
  BY DEF AppendEvent
<1> DEFINE new == [id |-> newest + 1, row |-> top + 1]
<1>2. top \in Nat /\ \A e \in rows : e.row <= top
  BY DEF TopRow, Last, FeedInv, FeedTypeOK, Events
<1>3. rows' = rows \cup {new} /\ newest' = newest + 1 /\ newest < MaxEvents
      /\ UNCHANGED <<feed, heard, received, since>>
  BY <1>1 DEF AppendEvent
<1>4. new \in Events /\ new.id = newest + 1 /\ new.row = top + 1
  BY <1>2 DEF Events, FeedInv, FeedTypeOK
<1>5. \A e \in Own' : e \in Own \/ (e.id = newest + 1 /\ \A f \in rows : f.row < e.row)
  <2> SUFFICES ASSUME NEW e \in Own', e \notin Own
               PROVE  e.id = newest + 1 /\ \A f \in rows : f.row < e.row
    OBVIOUS
  <2>1. CASE e = new
    BY <2>1, <1>2, <1>4 DEF FeedInv, FeedTypeOK, Events
  <2>2. CASE e \in rows
    <3>1. e.id <= newest /\ e.id \in Nat /\ newest \in Nat
      BY <2>2 DEF FeedInv, FeedTypeOK, Events
    <3>2. e.id \in mine' /\ e.id # newest + 1
      BY <3>1 DEF Own
    <3>3. e.id \in mine
      BY <3>2 DEF AppendEvent
    <3>4. QED
      BY <2>2, <3>3 DEF Own
  <2>3. QED
    BY <2>1, <2>2, <1>3 DEF Own
<1>6. FeedTypeOK'
  <2>1. rows' \subseteq Events /\ IsFiniteSet(rows')
    BY <1>3, <1>4, FS_AddElement DEF FeedInv, FeedTypeOK
  <2>2. Sorted(rows')
    BY <1>2, <1>3, <1>4 DEF FeedInv, FeedTypeOK, Sorted, Events
  <2>3. QED
    BY <2>1, <2>2, <1>3, <1>4, FeedAssumption DEF FeedInv, FeedTypeOK, Events
<1>7. FeedSkipsNothing' /\ WireSkipsNothing'
  BY <1>3, <1>5 DEF FeedInv, FeedTypeOK, FeedSkipsNothing, WireSkipsNothing, Kept, Ids, Events
<1>8. CursorIsTrue'
  <2> SUFFICES ASSUME feed.open PROVE CursorIsTrue'
    BY <1>3 DEF CursorIsTrue
  <2>1. since = MaxEvents \/ feed.row = 0 \/ \E e \in rows : feed.row <= e.row
    BY DEF FeedInv, CursorIsTrue
  <2>2. \A e \in Own' : since' < e.id /\ e.row <= feed'.row => e.id \in Kept'
    <3> SUFFICES ASSUME NEW e \in Own', since < e.id, e.row <= feed.row PROVE e.id \in Kept
      BY <1>3 DEF Kept, Ids
    <3>1. CASE e \in Own
      BY <3>1 DEF FeedInv, CursorIsTrue
    <3>2. CASE e \notin Own
      <4>1. e.id = newest + 1 /\ e = new
        BY <3>2, <1>3, <1>4, <1>5 DEF Own, FeedInv, FeedTypeOK, Events
      <4>2. ~(since = MaxEvents)
        BY <4>1, <1>3, FeedAssumption DEF FeedInv, FeedTypeOK
      <4>3. feed.row <= top
        BY <2>1, <4>2, <1>2 DEF FeedInv, FeedTypeOK, Events
      <4>4. QED
        BY <4>1, <4>3, <1>2, <1>4 DEF FeedInv, FeedTypeOK
    <3>3. QED
      BY <3>1, <3>2
  <2>3. \A w \in feed'.wire : w.row <= feed'.row /\ \A e \in Own' : feed'.row < e.row => w.id < e.id
    BY <1>3, <1>5 DEF FeedInv, FeedTypeOK, CursorIsTrue, Events
  <2>4. QED
    BY <2>1, <2>2, <2>3, <1>3 DEF CursorIsTrue
<1>9. QED
  BY <1>6, <1>7, <1>8 DEF FeedInv

\* An event that is swept owes nothing any more; a cursor above every row is given up.
LEMMA SweepKeeps == ASSUME FeedInv, SweepEvent PROVE FeedInv'
<1>1. rows' \subseteq rows /\ IsFiniteSet(rows') /\ Own' \subseteq Own
  BY FS_Subset DEF SweepEvent, Own, FeedInv, FeedTypeOK
<1>2. UNCHANGED <<mine, newest, feed, heard, received>> /\ Kept' = Kept
  BY DEF SweepEvent, Kept, Ids
<1>3. since' = since \/ since' = MaxEvents
  BY DEF SweepEvent
<1>4. FeedTypeOK'
  BY <1>1, <1>2, <1>3, FeedAssumption DEF FeedInv, FeedTypeOK, Sorted
<1>5. \A e \in Own' : since' < e.id => since < e.id
  BY <1>1, <1>3, FeedAssumption DEF FeedInv, FeedTypeOK, Own, Events
<1>6. FeedSkipsNothing' /\ WireSkipsNothing'
  BY <1>1, <1>2, <1>5 DEF FeedInv, FeedSkipsNothing, WireSkipsNothing
<1>7. ASSUME feed.open
      PROVE  since' = MaxEvents \/ feed.row = 0 \/ \E e \in rows' : feed.row <= e.row
  BY <1>1, <1>7 DEF SweepEvent, FeedInv, FeedTypeOK, Events
<1>8. CursorIsTrue'
  BY <1>1, <1>2, <1>5, <1>7 DEF FeedInv, CursorIsTrue
<1>9. QED
  BY <1>4, <1>6, <1>8 DEF FeedInv

\* Rows and ids of the events in the table have the same order.
LEMMA TableIsSorted ==
  ASSUME FeedInv, NEW e \in Own, NEW f \in Own
  PROVE  /\ e.id <= f.id <=> e.row <= f.row
         /\ {e.id, f.id, e.row, f.row} \subseteq Nat
  BY DEF FeedInv, FeedTypeOK, Sorted, Own, Events

LEMMA RowIsKept == ASSUME FeedInv, Held(heard)
  PROVE  \E e \in Own : e.id = heard /\ e.row = RowOf(heard) /\ e.row \in Nat
  BY DEF Held, RowOf, Own, FeedInv, FeedTypeOK, Events

LEMMA LatestKeeps == ASSUME FeedInv, ListLatest PROVE FeedInv'
<1>1. PICK latest \in Last(Own) : heard' = latest.id /\ received' = received \cup {latest.id} /\ since' = latest.id
  BY DEF ListLatest
<1>2. latest \in Own /\ latest.id \in Nat /\ latest.id <= newest
  BY DEF Last, Own, FeedInv, FeedTypeOK, Events
<1>3. UNCHANGED <<rows, mine, newest, feed>> /\ feed.wire = {} /\ ~feed.open
  BY DEF ListLatest
<1>4. QED
  BY <1>1, <1>2, <1>3
  DEF FeedInv, FeedTypeOK, FeedSkipsNothing, WireSkipsNothing, CursorIsTrue, Own, Events

\* A page goes on where the reader's last event was.
LEMMA PageKeeps == ASSUME FeedInv, ListAfter PROVE FeedInv'
<1> DEFINE page == After(RowOf(heard), StreamBatch)
<1>1. UNCHANGED <<rows, mine, newest, feed, since>> /\ feed.wire = {} /\ ~feed.open
      /\ received' = received \cup Ids(page) /\ Held(heard)
  BY DEF ListAfter
<1>2. PICK last \in Last(page) : heard' = last.id
  BY DEF ListAfter
<1>3. last \in page /\ last \in Own
  BY DEF Last, After
<1>4. PICK at \in Own : at.id = heard /\ at.row = RowOf(heard) /\ at.row \in Nat
  BY <1>1, RowIsKept
<1>5. FeedSkipsNothing'
  <2> SUFFICES ASSUME NEW e \in Own, since < e.id, e.id <= last.id PROVE e.id \in received'
    BY <1>1, <1>2 DEF FeedSkipsNothing, Own
  <2>1. CASE e.id <= heard
    BY <2>1, <1>1 DEF FeedInv, FeedSkipsNothing
  <2>2. CASE ~(e.id <= heard)
    <3>1. at.row < e.row /\ e.row <= last.row
      BY <2>2, <1>3, <1>4, TableIsSorted
    <3>2. e \in page
      BY <3>1, <1>3, <1>4, PageHasNoGap, FeedAssumption DEF FeedInv
    <3>3. QED
      BY <3>2, <1>1 DEF Ids
  <2>3. QED
    BY <2>1, <2>2
<1>6. last.id \in Nat /\ last.id <= newest
  BY <1>3 DEF Own, FeedInv, FeedTypeOK, Events
<1>7. QED
  BY <1>1, <1>2, <1>5, <1>6 DEF FeedInv, FeedTypeOK, WireSkipsNothing, CursorIsTrue

\* A stream begins where the reader's last event is, or the reader begins anew.
LEMMA OpenKeeps == ASSUME FeedInv, OpenStream PROVE FeedInv'
<1>1. UNCHANGED <<rows, mine, newest, heard, received>> /\ feed.wire = {}
      /\ since' = IF Held(heard) THEN since ELSE newest
  BY DEF OpenStream
<1>2. PICK row \in IF Held(heard) THEN {RowOf(heard)} ELSE TopRow(Own) :
        feed' = [open |-> TRUE, wire |-> {}, row |-> row]
  BY DEF OpenStream
<1>3. row \in Nat /\ (row = 0 \/ \E e \in rows : row <= e.row)
  <2>1. CASE Held(heard)
    BY <2>1, <1>2, RowIsKept DEF Own
  <2>2. CASE ~Held(heard)
    BY <2>2, <1>2 DEF TopRow, Last, Own, FeedInv, FeedTypeOK, Events
  <2>3. QED
    BY <2>1, <2>2
<1>4. ASSUME NEW e \in Own, since' < e.id
      PROVE  Held(heard) /\ since < e.id
  BY <1>1, <1>4 DEF FeedInv, FeedTypeOK, Own, Events
<1>5. FeedTypeOK'
  BY <1>1, <1>2, <1>3 DEF FeedInv, FeedTypeOK, Sorted
<1>6. FeedSkipsNothing' /\ WireSkipsNothing'
  BY <1>1, <1>2, <1>4 DEF FeedInv, FeedSkipsNothing, WireSkipsNothing, Own
<1>7. \A e \in Own : since' < e.id /\ e.row <= row => e.id \in received
  <2> SUFFICES ASSUME NEW e \in Own, since' < e.id, e.row <= row PROVE e.id \in received
    OBVIOUS
  <2>1. Held(heard) /\ since < e.id
    BY <1>4
  <2>2. PICK at \in Own : at.id = heard /\ at.row = RowOf(heard)
    BY <2>1, RowIsKept
  <2>3. e.id <= heard
    BY <2>1, <2>2, <1>2, TableIsSorted
  <2>4. QED
    BY <2>1, <2>3 DEF FeedInv, FeedSkipsNothing
<1>8. CursorIsTrue'
  BY <1>1, <1>2, <1>3, <1>7 DEF CursorIsTrue, Kept, Own
<1>9. QED
  BY <1>5, <1>6, <1>8 DEF FeedInv

\* What the stream sends follows what it sent, and nothing lies between.
LEMMA PollKeeps == ASSUME FeedInv, PollEvents PROVE FeedInv'
<1> DEFINE batch == After(feed.row, StreamBatch)
<1>1. PICK row \in CursorAfter(batch) : feed' = [feed EXCEPT !.row = row, !.wire = @ \cup batch]
  BY DEF PollEvents
<1>2. UNCHANGED <<rows, mine, newest, heard, received, since>> /\ feed.open /\ batch # {}
  BY DEF PollEvents
<1>3. PICK last \in batch : last.row = row /\ \A e \in batch : e.row <= row
  BY <1>1, <1>2 DEF CursorAfter, TopRow, Last
<1>4. batch \subseteq Own /\ \A e \in batch : feed.row < e.row
  BY DEF After
<1>5. Own \subseteq rows /\ Own' = Own /\ batch \subseteq Events /\ row \in Nat
  BY <1>2, <1>3, <1>4 DEF Own, FeedInv, FeedTypeOK, Events
<1>6. feed'.open /\ feed'.row = row /\ feed'.wire = feed.wire \cup batch
      /\ feed' \in [open : BOOLEAN, row : Nat, wire : SUBSET Events]
  BY <1>1, <1>2, <1>5 DEF FeedInv, FeedTypeOK
<1>7. ASSUME NEW w \in feed.wire
      PROVE  /\ w.row <= feed.row
             /\ \A e \in Own : feed.row < e.row => w.id < e.id
             /\ w.id \in Nat /\ w.row \in Nat
  BY <1>2 DEF FeedInv, FeedTypeOK, CursorIsTrue, Events
<1>8. Sorted(feed'.wire)
  <2> SUFFICES ASSUME NEW e \in feed.wire \cup batch, NEW f \in feed.wire \cup batch
               PROVE  /\ e.row < f.row => e.id < f.id
                      /\ (e.id = f.id \/ e.row = f.row) => e = f
    BY <1>6 DEF Sorted
  <2>1. CASE e \in feed.wire /\ f \in feed.wire
    BY <2>1 DEF FeedInv, FeedTypeOK, Sorted
  <2>2. CASE e \in batch /\ f \in batch
    BY <2>2, <1>4, <1>5 DEF FeedInv, FeedTypeOK, Sorted
  <2>3. CASE e \in feed.wire /\ f \in batch
    BY <2>3, <1>4, <1>5, <1>7 DEF FeedInv, FeedTypeOK, Events
  <2>4. CASE f \in feed.wire /\ e \in batch
    BY <2>4, <1>4, <1>5, <1>7 DEF FeedInv, FeedTypeOK, Events
  <2>5. QED
    BY <2>1, <2>2, <2>3, <2>4
<1>9. FeedTypeOK'
  <2>1. feed'.wire \subseteq rows \cup feed.wire
    BY <1>4, <1>5, <1>6
  <2>2. QED
    BY <2>1, <1>2, <1>6, <1>8 DEF FeedInv, FeedTypeOK
<1>10. Kept' = Kept \cup Ids(batch)
  BY <1>2, <1>6 DEF Kept, Ids
<1>11. ASSUME NEW e \in Own, since < e.id, e.row <= row
       PROVE  e.id \in Kept'
  <2>1. CASE e.row <= feed.row
    BY <2>1, <1>11, <1>2, <1>10 DEF FeedInv, CursorIsTrue
  <2>2. CASE ~(e.row <= feed.row)
    <3>1. feed.row < e.row /\ feed.row \in Nat
      BY <2>2, <1>5 DEF FeedInv, FeedTypeOK, Events
    <3>2. e \in batch
      BY <3>1, <1>11, <1>3, PageHasNoGap, FeedAssumption DEF FeedInv
    <3>3. QED
      BY <3>2, <1>10 DEF Ids
  <2>3. QED
    BY <2>1, <2>2
<1>12. WireSkipsNothing'
  <2> SUFFICES ASSUME NEW w \in feed.wire \cup batch, NEW e \in Own, since < e.id, e.id <= w.id
               PROVE  e.id \in Kept'
    BY <1>2, <1>5, <1>6 DEF WireSkipsNothing
  <2>1. CASE w \in feed.wire
    BY <2>1, <1>10 DEF FeedInv, WireSkipsNothing
  <2>2. CASE w \in batch
    <3>1. e.row <= w.row /\ w.row <= row /\ {e.row, w.row} \subseteq Nat
      BY <2>2, <1>3, <1>4, TableIsSorted
    <3>2. QED
      BY <3>1, <1>5, <1>11
  <2>3. QED
    BY <2>1, <2>2
<1>13. CursorIsTrue'
  <2>1. ASSUME NEW w \in feed.wire \cup batch
        PROVE  w.row <= row /\ \A e \in Own : row < e.row => w.id < e.id
    <3>0. feed.row < row /\ feed.row \in Nat
      BY <1>3, <1>4 DEF FeedInv, FeedTypeOK
    <3>1. CASE w \in feed.wire
      BY <3>0, <3>1, <1>5, <1>7 DEF FeedInv, FeedTypeOK, Events
    <3>2. CASE w \in batch
      <4>1. w.row <= row /\ w \in rows /\ w.row \in Nat
        BY <3>2, <1>3, <1>4, <1>5 DEF Events
      <4>2. ASSUME NEW e \in Own, row < e.row PROVE w.id < e.id
        <5>1. w.row < e.row
          BY <4>1, <4>2, <1>5 DEF FeedInv, FeedTypeOK, Events
        <5>2. QED
          BY <5>1, <4>1, <1>5 DEF FeedInv, FeedTypeOK, Sorted
      <4>3. QED
        BY <4>1, <4>2
    <3>3. QED
      BY <3>1, <3>2
  <2>2. \E e \in rows : row <= e.row
    BY <1>3, <1>4, <1>5
  <2>3. QED
    BY <2>1, <2>2, <1>2, <1>5, <1>6, <1>11 DEF CursorIsTrue
<1>14. QED
  BY <1>2, <1>9, <1>12, <1>13 DEF FeedInv, FeedSkipsNothing, Own

\* The first event on the wire is received: everything before it has been.
LEMMA ReceiveKeeps == ASSUME FeedInv, ReceiveFeed PROVE FeedInv'
<1>1. PICK e \in feed.wire : /\ \A f \in feed.wire : e.row <= f.row
                             /\ heard' = e.id /\ received' = received \cup {e.id}
                             /\ feed' = [feed EXCEPT !.wire = @ \ {e}]
  BY DEF ReceiveFeed
<1>2. UNCHANGED <<rows, mine, newest, since>> /\ Own' = Own
  BY DEF ReceiveFeed, Own
<1>3. feed'.open = feed.open /\ feed'.row = feed.row /\ feed'.wire = feed.wire \ {e}
      /\ feed' \in [open : BOOLEAN, row : Nat, wire : SUBSET Events]
  BY <1>1 DEF FeedInv, FeedTypeOK
<1>4. Kept' = Kept
  BY <1>1, <1>3 DEF Kept, Ids
<1>5. FeedTypeOK'
  BY <1>1, <1>2, <1>3 DEF FeedInv, FeedTypeOK, Sorted, Events
<1>6. FeedSkipsNothing'
  <2> SUFFICES ASSUME NEW g \in Own, since < g.id, g.id <= e.id PROVE g.id \in received'
    BY <1>1, <1>2 DEF FeedSkipsNothing
  <2>1. CASE g.id \in received
    BY <2>1, <1>1
  <2>2. CASE g.id \notin received
    <3>1. PICK f \in feed.wire : f.id = g.id
      BY <2>2 DEF FeedInv, WireSkipsNothing, Kept, Ids
    <3>2. ~(e.row < f.row)
      BY <3>1, <1>1 DEF FeedInv, FeedTypeOK, Sorted, Events
    <3>3. e.row = f.row
      BY <3>1, <3>2, <1>1 DEF FeedInv, FeedTypeOK, Events
    <3>4. QED
      BY <3>1, <3>3, <1>1 DEF FeedInv, FeedTypeOK, Sorted
  <2>3. QED
    BY <2>1, <2>2
<1>7. WireSkipsNothing' /\ CursorIsTrue'
  BY <1>2, <1>3, <1>4 DEF FeedInv, WireSkipsNothing, CursorIsTrue
<1>8. QED
  BY <1>5, <1>6, <1>7 DEF FeedInv

LEMMA CloseKeeps == ASSUME FeedInv, WindowEnds \/ FeedCut PROVE FeedInv'
<1>1. UNCHANGED <<rows, mine, newest, heard, received, since>> /\ Own' = Own
  BY DEF WindowEnds, FeedCut, Own
<1>2. feed'.open = FALSE /\ (feed'.wire = feed.wire \/ feed'.wire = {})
      /\ feed' \in [open : BOOLEAN, row : Nat, wire : SUBSET Events]
  BY DEF WindowEnds, FeedCut, FeedInv, FeedTypeOK
<1>3. QED
  BY <1>1, <1>2
  DEF FeedInv, FeedTypeOK, Sorted, FeedSkipsNothing, WireSkipsNothing, CursorIsTrue, Kept, Ids

\* A reader that goes on after its last event has every event of its workspace up to
\* the last one it has, except those swept before they could be sent and those before
\* it began to follow.
THEOREM FeedIsComplete == FeedSpec => []FeedSkipsNothing
<1>1. FeedInv /\ [FeedNext]_feedVars => FeedInv'
  <2> SUFFICES ASSUME FeedInv, [FeedNext]_feedVars PROVE FeedInv'
    OBVIOUS
  <2>1. CASE UNCHANGED feedVars
    BY <2>1
    DEF feedVars, FeedInv, FeedTypeOK, Sorted, FeedSkipsNothing, WireSkipsNothing, CursorIsTrue, Own, Kept, Ids
  <2>2. QED
    BY <2>1, AppendKeeps, SweepKeeps, LatestKeeps, PageKeeps, OpenKeeps, PollKeeps, ReceiveKeeps, CloseKeeps
    DEF FeedNext
<1>2. FeedInv => FeedSkipsNothing
  BY DEF FeedInv
<1>3. QED
  BY <1>1, <1>2, FeedStarts, PTL DEF FeedSpec

-----------------------------------------------------------------------------
(* The administration summary.                                             *)

Inputs == [min : Nat, attempt : Nat, drawer : BOOLEAN, force : BOOLEAN, kept : BOOLEAN]
Traced == {"none", "running", "finished"}
Built == {"errors", "drawer", "stamp", "answered"}
Requests == [pc : {"none", "sent", "failed"} \cup Built, no : Nat, of : Inputs, left : SUBSET Parts,
             sees : [Parts -> Nat], traced : Traced, at : Nat]
Shows == [at : Nat, sees : [Parts -> Nat], traced : Traced, loading : BOOLEAN,
          sync : {"idle", "catching_up", "exhausted"}]
Traces == [status : Traced, spans : SUBSET Spans, read : SUBSET Spans, finishing : BOOLEAN,
           bottleneck : {"none"} \cup Spans]

SummaryTypeOK ==
  /\ {facts, serverClock, number} \subseteq Nat /\ trace \in Traces
  /\ request \in [Refreshes -> Requests] /\ shown \in Shows
  /\ {pending, detail} \subseteq Inputs

\* What a summary says has happened.
Happened(summary) ==
  /\ \A p \in Parts : summary.sees[p] <= facts
  /\ summary.at <= serverClock
  /\ summary.traced = "finished" => trace.status = "finished"

\* The requests are told apart by their numbers.
Numbered ==
  /\ \A r \in Refreshes : request[r].pc # "none" => request[r].no <= number
  /\ \A r, s \in Refreshes :
       request[r].pc # "none" /\ request[s].pc # "none" /\ request[r].no = request[s].no => r = s

\* What the request has read is not older than the summary that is shown.
Newer(q) ==
  /\ \A p \in Parts \ q.left : shown.sees[p] <= q.sees[p]
  /\ q.pc \in Built => q.left = {}
  /\ q.pc = "answered" => shown.at <= q.at
  /\ shown.traced = "finished" => q.traced # "running"

SummaryInv ==
  /\ SummaryTypeOK /\ Numbered
  /\ Happened(shown) /\ \A r \in Refreshes : Happened(request[r])
  /\ \A r \in Refreshes : request[r].pc # "none" /\ Latest(r) => Newer(request[r])

\* The summary that is shown is kept, or replaced by one that is not older.
NotOlder ==
  (shown.at > 0 /\ shown'.at > 0) =>
    /\ shown'.at >= shown.at
    /\ \A p \in Parts : shown'.sees[p] >= shown.sees[p]
    /\ shown.traced = "finished" => shown'.traced # "running"

\* The same summary is shown, loading or not.
SameShown == shown'.at = shown.at /\ shown'.sees = shown.sees /\ shown'.traced = shown.traced

LEMMA SameIsNotOlder == ASSUME SummaryTypeOK, SameShown PROVE NotOlder
  BY DEF SummaryTypeOK, Shows, SameShown, NotOlder

LEMMA EmptyTyped == NoInput \in Inputs /\ NoRequest \in Requests /\ NotShown \in Shows /\ Nothing \in [Parts -> Nat]
  BY DEF NoInput, Inputs, NoRequest, Requests, NotShown, Shows, Nothing, Parts, Traced, Built

LEMMA SummaryStarts == SummaryInit => SummaryInv
<1> SUFFICES ASSUME SummaryInit PROVE SummaryInv
  OBVIOUS
<1>1. SummaryTypeOK
  BY EmptyTyped DEF SummaryInit, SummaryTypeOK, Traces, Traced
<1>2. Happened(shown) /\ \A r \in Refreshes : Happened(request[r]) /\ request[r].pc = "none"
  BY DEF SummaryInit, Happened, NoRequest, NotShown, Nothing
<1>3. QED
  BY <1>1, <1>2 DEF SummaryInv, Numbered

\* The workspace goes forward, and a finished trace stays finished.
LEMMA ServerKeeps ==
  ASSUME SummaryInv,
         Happens \/ StartTrace \/ ReadSpans \/ FinishTrace \/ \E s \in Spans : RecordSpan(s)
  PROVE  SummaryInv' /\ NotOlder
<1>1. UNCHANGED tabState
  BY DEF Happens, StartTrace, ReadSpans, FinishTrace, RecordSpan
<1>2. {facts', serverClock'} \subseteq Nat /\ facts <= facts' /\ serverClock <= serverClock'
  BY DEF Happens, StartTrace, ReadSpans, FinishTrace, RecordSpan, SummaryInv, SummaryTypeOK
<1>3. trace' \in Traces /\ (trace.status = "finished" => trace'.status = "finished")
  <2>1. trace \in Traces
    BY DEF SummaryInv, SummaryTypeOK
  <2>2. Bottleneck(trace.read) \in {"none"} \cup Spans
    BY DEF Bottleneck, Spans
  <2>3. CASE Happens
    BY <2>1, <2>3 DEF Happens
  <2>4. CASE StartTrace
    BY <2>1, <2>4 DEF StartTrace, Traces, Traced
  <2>5. CASE ReadSpans
    BY <2>1, <2>5 DEF ReadSpans, Traces, Traced
  <2>6. CASE FinishTrace
    BY <2>1, <2>2, <2>6 DEF FinishTrace, Traces, Traced
  <2>7. ASSUME NEW s \in Spans, RecordSpan(s)
        PROVE  trace' \in Traces /\ (trace.status = "finished" => trace'.status = "finished")
    BY <2>1, <2>7 DEF RecordSpan, Traces, Traced
  <2>8. QED
    BY <2>3, <2>4, <2>5, <2>6, <2>7
<1>4. SummaryTypeOK' /\ Numbered'
  BY <1>1, <1>2, <1>3 DEF tabState, SummaryInv, SummaryTypeOK, Numbered
<1>5. Happened(shown)'
  BY <1>1, <1>2, <1>3 DEF tabState, SummaryInv, SummaryTypeOK, Happened, Shows
<1>6. ASSUME NEW r \in Refreshes PROVE Happened(request[r])'
  <2>1. request[r] \in Requests /\ request' = request /\ Happened(request[r])
    BY <1>1 DEF tabState, SummaryInv, SummaryTypeOK
  <2>2. QED
    BY <2>1, <1>2, <1>3 DEF SummaryInv, SummaryTypeOK, Happened, Requests
<1>7. QED
  BY <1>1, <1>4, <1>5, <1>6, SameIsNotOlder
  DEF tabState, SummaryInv, Latest, Newer, SameShown

\* A step that moves one request on, and shows the same summary.
LEMMA OneRequest ==
  ASSUME SummaryInv, NEW r \in Refreshes, NEW q \in Requests,
         request' = [request EXCEPT ![r] = q],
         UNCHANGED <<serverVars, number>>, SameShown, shown' \in Shows, {pending', detail'} \subseteq Inputs,
         q.pc # "none" => request[r].pc # "none" /\ q.no = request[r].no,
         Happened(q), q.pc # "none" /\ q.no = number => Newer(q)
  PROVE  SummaryInv' /\ NotOlder
<1>1. \A s \in Refreshes : request'[s] = IF s = r THEN q ELSE request[s]
  BY DEF SummaryInv, SummaryTypeOK
<1>2. SummaryTypeOK'
  BY DEF SummaryInv, SummaryTypeOK, serverVars
<1>3. Numbered'
  BY <1>1 DEF SummaryInv, Numbered
<1>4. Happened(shown)' /\ \A s \in Refreshes : Happened(request[s])'
  BY <1>1 DEF SummaryInv, Happened, SameShown, serverVars
<1>5. ASSUME NEW s \in Refreshes, request'[s].pc # "none", Latest(s)'
      PROVE  Newer(request[s])'
  BY <1>1, <1>5 DEF SummaryInv, Latest, Newer, SameShown
<1>6. QED
  BY <1>2, <1>3, <1>4, <1>5, SameIsNotOlder DEF SummaryInv

\* Where the tab only notes what to ask for.
LEMMA TabNotes ==
  ASSUME SummaryInv, UNCHANGED <<serverVars, request, number>>, SameShown, shown' \in Shows,
         {pending', detail'} \subseteq Inputs
  PROVE  SummaryInv' /\ NotOlder
<1>1. SummaryTypeOK' /\ Numbered' /\ Happened(shown)' /\ \A r \in Refreshes : Happened(request[r])'
  BY DEF serverVars, SummaryInv, SummaryTypeOK, Numbered, Happened, SameShown
<1>2. \A r \in Refreshes : request[r].pc # "none" /\ Latest(r)' => Newer(request[r])'
  BY DEF serverVars, SummaryInv, Latest, Newer, SameShown
<1>3. QED
  BY <1>1, <1>2, SameIsNotOlder DEF SummaryInv

\* The control plane builds a summary: what it reads now is not older than anything shown.
LEMMA BuildKeeps ==
  ASSUME SummaryInv, NEW r \in Refreshes,
         ReadWorkspace(r) \/ ReadChat(r) \/ ReadErrors(r) \/ ReadDrawer(r) \/ Stamp(r) \/ AnswerLost(r)
  PROVE  SummaryInv' /\ NotOlder
<1> DEFINE q == request[r]
<1>1. q \in Requests /\ Happened(q) /\ (q.pc # "none" /\ q.no = number => Newer(q))
  BY DEF SummaryInv, SummaryTypeOK, Latest
<1>2. /\ UNCHANGED <<serverVars, number>> /\ SameShown /\ shown' \in Shows
      /\ {pending', detail'} \subseteq Inputs /\ q.pc # "none"
  BY DEF ReadWorkspace, ReadChat, ReadPart, ReadErrors, ReadDrawer, Stamp, AnswerLost,
         SummaryInv, SummaryTypeOK, SameShown
<1>3. /\ \A p \in Parts : shown.sees[p] <= facts /\ shown.sees[p] \in Nat /\ q.sees[p] \in Nat
      /\ shown.at <= serverClock /\ {facts, serverClock, shown.at, q.at} \subseteq Nat
      /\ shown.traced = "finished" => trace.status = "finished"
  BY <1>1 DEF SummaryInv, SummaryTypeOK, Happened, Shows, Requests
<1>4. ASSUME NEW part \in Parts, ReadPart(r, part) PROVE SummaryInv' /\ NotOlder
  <2> DEFINE n == [q EXCEPT !.pc = IF q.left = {part} THEN "errors" ELSE "sent",
                            !.left = @ \ {part}, !.sees[part] = facts]
  <2>1. request' = [request EXCEPT ![r] = n]
    BY <1>4, <1>1 DEF ReadPart, SummaryInv, SummaryTypeOK, Requests
  <2>2. n \in Requests /\ n.no = q.no /\ n.at = q.at /\ n.traced = q.traced /\ n.left = q.left \ {part}
        /\ n.pc \in {"sent", "errors"} /\ (n.pc = "errors" => n.left = {})
        /\ \A p \in Parts : n.sees[p] = IF p = part THEN facts ELSE q.sees[p]
    BY <1>1, <1>3 DEF Requests, Built
  <2>3. Happened(n)
    BY <2>2, <1>1, <1>3 DEF Happened
  <2>4. n.no = number => Newer(n)
    BY <2>2, <1>1, <1>2, <1>3 DEF Newer, Built
  <2>5. QED
    BY <2>1, <2>2, <2>3, <2>4, <1>2, OneRequest
<1>5. CASE ReadErrors(r)
  <2> DEFINE n == [q EXCEPT !.pc = IF q.of.drawer THEN "drawer" ELSE "stamp"]
  <2>1. request' = [request EXCEPT ![r] = n] /\ q.pc = "errors"
    BY <1>5 DEF ReadErrors
  <2>2. n \in Requests /\ n.no = q.no /\ n.at = q.at /\ n.traced = q.traced /\ n.left = q.left
        /\ n.pc \in {"drawer", "stamp"} /\ n.sees = q.sees
    BY <1>1 DEF Requests, Built
  <2>3. Happened(n) /\ (n.no = number => Newer(n))
    BY <2>1, <2>2, <1>1, <1>2 DEF Happened, Newer, Built
  <2>4. QED
    BY <2>1, <2>2, <2>3, <1>2, OneRequest
<1>6. CASE ReadDrawer(r)
  <2> DEFINE n == [q EXCEPT !.pc = "stamp", !.traced = trace.status]
  <2>1. request' = [request EXCEPT ![r] = n] /\ q.pc = "drawer"
    BY <1>6 DEF ReadDrawer
  <2>2. n \in Requests /\ n.no = q.no /\ n.at = q.at /\ n.traced = trace.status /\ n.left = q.left
        /\ n.pc = "stamp" /\ n.sees = q.sees
    BY <1>1 DEF Requests, Built, SummaryInv, SummaryTypeOK, Traces
  <2>3. Happened(n) /\ (n.no = number => Newer(n))
    BY <2>1, <2>2, <1>1, <1>2, <1>3 DEF Happened, Newer, Built
  <2>4. QED
    BY <2>1, <2>2, <2>3, <1>2, OneRequest
<1>7. CASE Stamp(r)
  <2> DEFINE n == [q EXCEPT !.pc = "answered", !.at = serverClock]
  <2>1. request' = [request EXCEPT ![r] = n] /\ q.pc = "stamp"
    BY <1>7 DEF Stamp
  <2>2. n \in Requests /\ n.no = q.no /\ n.at = serverClock /\ n.traced = q.traced /\ n.left = q.left
        /\ n.pc = "answered" /\ n.sees = q.sees
    BY <1>1, <1>3 DEF Requests, Built
  <2>3. Happened(n) /\ (n.no = number => Newer(n))
    BY <2>1, <2>2, <1>1, <1>2, <1>3 DEF Happened, Newer, Built
  <2>4. QED
    BY <2>1, <2>2, <2>3, <1>2, OneRequest
<1>8. CASE AnswerLost(r)
  <2> DEFINE n == [q EXCEPT !.pc = "failed"]
  <2>1. request' = [request EXCEPT ![r] = n]
    BY <1>8 DEF AnswerLost
  <2>2. n \in Requests /\ n.no = q.no /\ n.at = q.at /\ n.traced = q.traced /\ n.left = q.left
        /\ n.pc = "failed" /\ n.sees = q.sees
    BY <1>1 DEF Requests, Built
  <2>3. Happened(n) /\ (n.no = number => Newer(n))
    BY <2>2, <1>1, <1>2 DEF Happened, Newer, Built
  <2>4. QED
    BY <2>1, <2>2, <2>3, <1>2, OneRequest
<1>9. QED
  BY <1>4, <1>5, <1>6, <1>7, <1>8 DEF ReadWorkspace, ReadChat, Parts

LEMMA MergeTyped == ASSUME NEW old \in Inputs, NEW new \in Inputs PROVE MergeInput(old, new) \in Inputs
  BY DEF MergeInput, Later, Inputs

LEMMA AgainTyped ==
  ASSUME NEW input \in Inputs
  PROVE  [input EXCEPT !.force = FALSE, !.attempt = @ + 1] \in Inputs
<1>1. input.attempt + 1 \in Nat
  BY DEF Inputs
<1>2. QED
  BY <1>1 DEF Inputs

Sent(q, n, input) == [q EXCEPT !.pc = "sent", !.no = n, !.of = input]

LEMMA SentTyped ==
  ASSUME NEW q \in Requests, NEW n \in Nat, NEW input \in Inputs
  PROVE  /\ Sent(q, n, input) \in Requests
         /\ Sent(q, n, input).pc = "sent" /\ Sent(q, n, input).no = n
         /\ Sent(q, n, input).left = q.left /\ Sent(q, n, input).sees = q.sees
         /\ Sent(q, n, input).at = q.at /\ Sent(q, n, input).traced = q.traced
  BY DEF Requests, Sent

\* A request that is sent is the latest, and has read nothing yet.
LEMMA SendKeeps ==
  ASSUME SummaryInv, NEW input \in Inputs, SendRequest(input), UNCHANGED serverVars,
         {pending', detail'} \subseteq Inputs
  PROVE  SummaryInv' /\ NotOlder
<1> DEFINE new == Sent(NoRequest, number + 1, input)
<1>1. PICK r \in Refreshes : request[r].pc = "none" /\ request' = [request EXCEPT ![r] = new]
  BY DEF SendRequest, Sent
<1>2. number' = number + 1 /\ number \in Nat /\ SameShown /\ shown' \in Shows
  BY DEF SendRequest, SameShown, SummaryInv, SummaryTypeOK, Shows
<1>3. new \in Requests /\ new.pc = "sent" /\ new.no = number + 1 /\ new.left = Parts /\ new.sees = Nothing
      /\ new.at = 0 /\ new.traced = "none"
  <2>1. new \in Requests /\ new.pc = "sent" /\ new.no = number + 1 /\ new.left = NoRequest.left
        /\ new.sees = NoRequest.sees /\ new.at = NoRequest.at /\ new.traced = NoRequest.traced
    <3>1. number + 1 \in Nat
      BY <1>2
    <3>2. NoRequest \in Requests
      BY EmptyTyped
    <3>3. QED
      BY <3>1, <3>2, SentTyped
  <2>2. QED
    BY <2>1 DEF NoRequest
<1> HIDE DEF new
<1>4. \A s \in Refreshes : request'[s] = IF s = r THEN new ELSE request[s]
  BY <1>1 DEF SummaryInv, SummaryTypeOK
<1>5. SummaryTypeOK'
  BY <1>1, <1>2, <1>3 DEF serverVars, SummaryInv, SummaryTypeOK
<1>6. ASSUME NEW s \in Refreshes, request[s].pc # "none"
      PROVE  request[s].no <= number /\ request[s].no \in Nat
  BY <1>6 DEF SummaryInv, SummaryTypeOK, Numbered, Requests
<1>7. Numbered'
  <2>1. \A s \in Refreshes : request'[s].pc # "none" => request'[s].no <= number'
    BY <1>2, <1>3, <1>4, <1>6
  <2>2. ASSUME NEW s \in Refreshes, NEW t \in Refreshes,
               request'[s].pc # "none", request'[t].pc # "none", request'[s].no = request'[t].no
        PROVE  s = t
    <3>1. CASE s # r /\ t # r
      BY <3>1, <2>2, <1>4 DEF SummaryInv, Numbered
    <3>2. CASE s = r \/ t = r
      BY <3>2, <2>2, <1>2, <1>3, <1>4, <1>6
    <3>3. QED
      BY <3>1, <3>2
  <2>3. QED
    BY <2>1, <2>2 DEF Numbered
<1>8. Happened(shown)' /\ \A s \in Refreshes : Happened(request[s])'
  <2>1. Happened(new)
    BY <1>3 DEF SummaryInv, SummaryTypeOK, Happened, Nothing
  <2>2. QED
    BY <2>1, <1>2, <1>4 DEF serverVars, SummaryInv, Happened, SameShown
<1>9. ASSUME NEW s \in Refreshes, request'[s].pc # "none", Latest(s)' PROVE Newer(request[s])'
  <2>1. s = r
    BY <1>2, <1>4, <1>6, <1>9 DEF Latest
  <2>2. QED
    BY <2>1, <1>3, <1>4 DEF Newer, Built
<1>10. QED
  BY <1>2, <1>5, <1>7, <1>8, <1>9, SameIsNotOlder DEF SummaryInv

LEMMA RefreshKeeps ==
  ASSUME SummaryInv, NEW input \in Inputs, Refresh(input), UNCHANGED serverVars,
         {pending', detail'} \subseteq Inputs
  PROVE  SummaryInv' /\ NotOlder
<1>1. CASE UNCHANGED <<request, number, shown, inFlight>>
  BY <1>1, TabNotes DEF SummaryInv, SummaryTypeOK, SameShown
<1>2. CASE SendRequest(input)
  BY <1>2, SendKeeps
<1>3. QED
  BY <1>1, <1>2 DEF Refresh

LEMMA AskKeeps ==
  ASSUME SummaryInv, NEW input \in Inputs, AskSummary(input)
  PROVE  SummaryInv' /\ NotOlder
<1>1. pending \in Inputs /\ detail \in Inputs /\ shown \in Shows /\ MergeInput(pending, input) \in Inputs
  BY MergeTyped DEF SummaryInv, SummaryTypeOK
<1>2. CASE Waits(input)
  BY <1>1, <1>2, TabNotes DEF AskSummary, SameShown
<1>3. CASE ~Waits(input)
  BY <1>1, <1>3, RefreshKeeps DEF AskSummary
<1>4. QED
  BY <1>2, <1>3

\* The tab asks, notes, waits.
LEMMA AskingKeeps ==
  ASSUME SummaryInv,
         \/ Mounted \/ OpenDrawer \/ RefreshNow \/ CloseDrawer \/ Note \/ Dispatch
         \/ TimerFires \/ CoolsDown \/ Unmounted
  PROVE  SummaryInv' /\ NotOlder
<1>1. pending \in Inputs /\ detail \in Inputs /\ shown \in Shows /\ serverClock \in Nat /\ NoInput \in Inputs
  BY EmptyTyped DEF SummaryInv, SummaryTypeOK
<1>2. CASE Mounted
  <2>1. [NoInput EXCEPT !.drawer = prefer = "drawer"] \in Inputs
    BY <1>1 DEF Inputs
  <2>2. QED
    BY <1>2, <2>1, AskKeeps DEF Mounted
<1>3. CASE OpenDrawer
  <2>1. [NoInput EXCEPT !.drawer = TRUE] \in Inputs
    BY <1>1 DEF Inputs
  <2>2. QED
    BY <1>3, <2>1, AskKeeps DEF OpenDrawer
<1>4. CASE RefreshNow
  <2>1. [NoInput EXCEPT !.force = TRUE, !.min = serverClock, !.drawer = prefer = "drawer"] \in Inputs
    BY <1>1 DEF Inputs
  <2>2. QED
    BY <1>1, <1>4, <2>1, SendKeeps DEF RefreshNow
<1>5. CASE Note
  <2>1. [detail EXCEPT !.min = Later(@, serverClock), !.kept = TRUE] \in Inputs
    BY <1>1 DEF Inputs, Later
  <2>2. QED
    BY <1>1, <1>5, <2>1, TabNotes DEF Note, SameShown
<1>6. CASE Dispatch
  <2>1. MergeInput(pending, [detail EXCEPT !.drawer = prefer = "drawer"]) \in Inputs
    <3>1. [detail EXCEPT !.drawer = prefer = "drawer"] \in Inputs
      BY <1>1 DEF Inputs
    <3>2. QED
      BY <1>1, <3>1, MergeTyped
  <2>2. QED
    BY <1>1, <1>6, <2>1, TabNotes DEF Dispatch, SameShown
<1>7. CASE TimerFires
  BY <1>1, <1>7, RefreshKeeps DEF TimerFires
<1>8. CASE CloseDrawer \/ CoolsDown \/ Unmounted
  BY <1>1, <1>8, TabNotes DEF CloseDrawer, CoolsDown, Unmounted, SameShown
<1>9. QED
  BY <1>2, <1>3, <1>4, <1>5, <1>6, <1>7, <1>8

\* An answer replaces what is shown only if its request is the latest; then it is not older.
LEMMA AnswerKeeps ==
  ASSUME SummaryInv, NEW r \in Refreshes, Answers(r) \/ AnswerFailed(r)
  PROVE  SummaryInv' /\ NotOlder
<1> DEFINE q == request[r]
<1>1. q \in Requests /\ shown \in Shows /\ Happened(q)
      /\ UNCHANGED <<serverVars, number>> /\ request' = [request EXCEPT ![r] = NoRequest]
  BY DEF Answers, AnswerFailed, SummaryInv, SummaryTypeOK
<1>2. {pending', detail'} \subseteq Inputs
  <2>1. [q.of EXCEPT !.force = FALSE, !.attempt = @ + 1] \in Inputs
    <3>1. q.of \in Inputs
      BY <1>1 DEF Requests
    <3>2. QED
      BY <3>1, AgainTyped
  <2>2. QED
    BY <2>1, MergeTyped DEF Answers, AnswerFailed, SummaryInv, SummaryTypeOK
<1>3. Happened(NoRequest) /\ NoRequest \in Requests /\ NoRequest.pc = "none"
  BY EmptyTyped DEF Happened, NoRequest, Nothing, SummaryInv, SummaryTypeOK
<1>4. CASE AnswerFailed(r) \/ ~Latest(r)
  <2>1. SameShown /\ shown' \in Shows
    BY <1>1, <1>4 DEF Answers, AnswerFailed, SameShown, Shows
  <2>2. QED
    BY <2>1, <1>1, <1>2, <1>3, OneRequest
<1>5. CASE Answers(r) /\ Latest(r)
  <2>1. /\ shown'.at = q.at /\ shown'.sees = q.sees /\ shown'.traced = q.traced /\ shown' \in Shows
        /\ q.pc = "answered"
    BY <1>1, <1>5 DEF Answers, Shows, Requests
  <2>2. Newer(q)
    BY <2>1, <1>5 DEF SummaryInv
  <2>3. NotOlder
    BY <2>1, <2>2, <1>1 DEF Newer, NotOlder, Built, Requests, Shows
  <2>4. \A s \in Refreshes : request'[s] = IF s = r THEN NoRequest ELSE request[s]
    BY <1>1 DEF SummaryInv, SummaryTypeOK
  <2>5. SummaryTypeOK' /\ Numbered'
    BY <2>1, <2>4, <1>1, <1>2, <1>3 DEF SummaryInv, SummaryTypeOK, Numbered, serverVars
  <2>6. Happened(shown)' /\ \A s \in Refreshes : Happened(request[s])'
    BY <2>1, <2>4, <1>1, <1>3 DEF SummaryInv, Happened, serverVars
  <2>7. \A s \in Refreshes : ~(request'[s].pc # "none" /\ Latest(s)')
    BY <2>1, <2>4, <1>1, <1>3, <1>5 DEF SummaryInv, Numbered, Latest
  <2>8. QED
    BY <2>3, <2>5, <2>6, <2>7 DEF SummaryInv
<1>6. QED
  BY <1>4, <1>5

\* When the summary is cleared, no request that is under way is the latest any more.
LEMMA ClearKeeps == ASSUME SummaryInv, Clear PROVE SummaryInv' /\ NotOlder
<1>1. shown' = NotShown /\ number' = number + 1 /\ pending' = NoInput /\ UNCHANGED <<serverVars, request, detail>>
  BY DEF Clear
<1>2. SummaryTypeOK'
  BY <1>1, EmptyTyped DEF SummaryInv, SummaryTypeOK, serverVars
<1>3. \A r \in Refreshes : request[r].pc # "none" => request[r].no <= number /\ request[r].no \in Nat
  BY DEF SummaryInv, SummaryTypeOK, Numbered, Requests
<1>4. Numbered' /\ \A r \in Refreshes : ~(request'[r].pc # "none" /\ Latest(r)')
  BY <1>1, <1>3 DEF SummaryInv, SummaryTypeOK, Numbered, Latest
<1>5. Happened(shown)' /\ \A s \in Refreshes : Happened(request[s])'
  BY <1>1 DEF SummaryInv, SummaryTypeOK, Happened, serverVars, NotShown, Nothing
<1>6. NotOlder
  BY <1>1 DEF NotOlder, NotShown
<1>7. QED
  BY <1>2, <1>4, <1>5, <1>6 DEF SummaryInv

\* However the answers overtake each other, what the tab shows never gets older, until
\* the summary is cleared.
THEOREM SummaryOnlyAdvances == SummarySpec => SummaryNeverGoesBack
<1>1. SummaryInv /\ [SummaryNext]_summaryVars => SummaryInv' /\ NotOlder
  <2> SUFFICES ASSUME SummaryInv, [SummaryNext]_summaryVars PROVE SummaryInv' /\ NotOlder
    OBVIOUS
  <2>1. CASE UNCHANGED summaryVars
    BY <2>1, TabNotes DEF summaryVars, tabState, SummaryInv, SummaryTypeOK, SameShown
  <2>2. CASE \E r \in Refreshes :
               \/ ReadWorkspace(r) \/ ReadChat(r) \/ ReadErrors(r) \/ ReadDrawer(r) \/ Stamp(r) \/ AnswerLost(r)
               \/ Answers(r) \/ AnswerFailed(r)
    BY <2>2, BuildKeeps, AnswerKeeps
  <2>3. QED
    BY <2>1, <2>2, ServerKeeps, AskingKeeps, ClearKeeps DEF SummaryNext
<1>2. QED
  BY <1>1, SummaryStarts, PTL DEF SummarySpec, SummaryNeverGoesBack, NotOlder
================================================================================
