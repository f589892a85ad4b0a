---------------------------- MODULE Client_proofs ----------------------------
(***************************************************************************)
(* What holds of a client's tab and of the mobile app's stored turn for    *)
(* any number of threads, requests, turns, calls and controllers.          *)
(***************************************************************************)
EXTENDS ClientSession, ClientTurns, SequenceTheorems, TLAPS

-----------------------------------------------------------------------------
(* The stored turn. A call that may clear the row has the server's answer  *)
(* for its own turn, and puts nothing into the row but a turn.             *)

SubmitOK(c) ==
  /\ c = [pc |-> c.pc, turn |-> c.turn, gen |-> c.gen]
  /\ c.pc \notin {"idle", "queued"} => c.turn \in Turns
  /\ c.pc \in {"answered", "clear"} => c.turn \in accepted

StoreInv ==
  /\ stored \in Turns \cup {NoTurn}
  /\ sub = [s \in Submits |-> sub[s]] /\ \A s \in Submits : SubmitOK(sub[s])

(* One call goes on and the server forgets no turn it accepted.            *)
LEMMA CallGoesOn ==
  ASSUME StoreInv, NEW s \in Submits, NEW c, sub' = [sub EXCEPT ![s] = c], SubmitOK(c)',
         accepted \subseteq accepted', stored' \in Turns \cup {NoTurn}
  PROVE  StoreInv'
<1>1. sub' = [r \in Submits |-> sub'[r]]
  BY DEF StoreInv
<1>2. ASSUME NEW r \in Submits PROVE SubmitOK(sub[r])'
  <2>1. sub'[r] = (IF r = s THEN c ELSE sub[r]) /\ SubmitOK(sub[r])
    BY DEF StoreInv
  <2> QED BY <2>1 DEF SubmitOK
<1> QED BY <1>1, <1>2 DEF StoreInv

LEMMA SubmitReturns ==
  ASSUME StoreInv, NEW s \in Submits, Returns(s), accepted \subseteq accepted', stored' \in Turns \cup {NoTurn}
  PROVE  StoreInv'
<1>1. PICK c : c = NoSubmit
  OBVIOUS
<1>2. SubmitOK(c)'
  BY <1>1 DEF SubmitOK, NoSubmit
<1> QED BY <1>1, <1>2, CallGoesOn DEF Returns

LEMMA SubmitGoes ==
  ASSUME StoreInv, NEW s \in Submits, NEW pc, Goes(s, pc), sub[s].turn \in Turns,
         pc \in {"answered", "clear"} => sub[s].turn \in accepted',
         accepted \subseteq accepted', stored' \in Turns \cup {NoTurn}
  PROVE  StoreInv'
<1>1. PICK c : c = [sub[s] EXCEPT !.pc = pc]
  OBVIOUS
<1>2. c = [pc |-> pc, turn |-> sub[s].turn, gen |-> sub[s].gen]
  BY <1>1 DEF StoreInv, SubmitOK
<1>3. c = [pc |-> c.pc, turn |-> c.turn, gen |-> c.gen] /\ c.turn = sub[s].turn /\ c.pc = pc
  BY <1>2
<1>4. SubmitOK(c)'
  BY <1>3 DEF SubmitOK
<1>5. sub' = [sub EXCEPT ![s] = c]
  BY <1>1 DEF Goes
<1> QED BY <1>4, <1>5, CallGoesOn

(* A call begins to submit a turn, or is refused.                          *)
LEMMA SubmitBegins ==
  ASSUME StoreInv, NEW s \in Submits, NEW t \in Turns, NEW g, NEW pc \in {"get", "connect"},
         \/ sub' = [sub EXCEPT ![s] = [pc |-> pc, turn |-> t, gen |-> g]]
         \/ Returns(s),
         UNCHANGED <<accepted, stored>>
  PROVE  StoreInv'
<1>0. stored' \in Turns \cup {NoTurn}
  BY DEF StoreInv
<1>1. CASE Returns(s)
  BY <1>0, <1>1, SubmitReturns
<1>2. CASE sub' = [sub EXCEPT ![s] = [pc |-> pc, turn |-> t, gen |-> g]]
  <2>1. PICK c : c = [pc |-> pc, turn |-> t, gen |-> g]
    OBVIOUS
  <2>2. SubmitOK(c)'
    BY <2>1 DEF SubmitOK
  <2> QED BY <1>0, <1>2, <2>1, <2>2, CallGoesOn
<1> QED BY <1>1, <1>2

LEMMA StoreStep ==
  ASSUME TurnAssumption, StoreInv, TurnNext
  PROVE  StoreInv'
<1>0. stored \in Turns \cup {NoTurn}
  BY DEF StoreInv
<1>1. ASSUME NEW s \in Submits, OpenChat(s) PROVE StoreInv'
  <2>1. PICK g : g = ctl + 1
    OBVIOUS
  <2>2. PICK c : c = [pc |-> "queued", turn |-> NoTurn, gen |-> g]
    OBVIOUS
  <2>3. SubmitOK(c)'
    BY <2>2 DEF SubmitOK
  <2>4. sub' = [sub EXCEPT ![s] = c] /\ UNCHANGED <<stored, accepted>>
    BY <1>1, <2>1, <2>2 DEF OpenChat
  <2> QED BY <1>0, <2>3, <2>4, CallGoesOn
<1>2. ASSUME NEW s \in Submits, ReadQueued(s) \/ TypedConnects(s) PROVE StoreInv'
  <2>1. UNCHANGED <<stored, accepted>> /\ SubmitOK(sub[s])
    BY <1>2 DEF ReadQueued, TypedConnects, StoreInv
  <2>2. \/ Returns(s)
        \/ \E t \in Turns : \E g : Submit(s, t, g)
    BY <1>0, <1>2, <2>1 DEF ReadQueued, TypedConnects, SubmitOK
  <2>3. CASE Returns(s)
    BY <1>0, <2>1, <2>3, SubmitReturns
  <2>4. ASSUME NEW t \in Turns, NEW g, Submit(s, t, g) PROVE StoreInv'
    BY <2>1, <2>4, SubmitBegins DEF Submit, Returns
  <2> QED BY <2>2, <2>3, <2>4
<1>3. ASSUME NEW s \in Submits, NEW t \in Turns, Type(s, t) PROVE StoreInv'
  BY <1>3, SubmitBegins DEF Type
<1>4. ASSUME NEW s \in Submits,
             \/ TypedFails(s) \/ SubmitGet(s) \/ SubmitPut(s) \/ ServerAccepts(s) \/ SendLost(s) \/ SendAnswered(s)
             \/ ClearPending(s) \/ SendFailed(s)
      PROVE  StoreInv'
  <2>0. SubmitOK(sub[s])
    BY DEF StoreInv
  <2>1. sub[s].turn \in Turns
    BY <1>4, <2>0 DEF SubmitOK, TypedFails, SubmitGet, SubmitPut, ServerAccepts, SendLost, SendAnswered,
       ClearPending, SendFailed
  <2>2. accepted \subseteq accepted'
    BY <1>4 DEF TypedFails, SubmitGet, SubmitPut, ServerAccepts, SendLost, SendAnswered, ClearPending, SendFailed
  <2>3. stored' \in Turns \cup {NoTurn}
    BY <1>0, <1>4, <2>1 DEF TypedFails, SubmitGet, SubmitPut, ServerAccepts, SendLost, SendAnswered,
       ClearPending, SendFailed
  <2>4. \/ Returns(s) \/ Goes(s, "sent") \/ Goes(s, "put") \/ Goes(s, "failed")
        \/ Goes(s, "answered") /\ sub[s].turn \in accepted'
        \/ Goes(s, "clear") /\ sub[s].turn \in accepted'
    BY <1>4, <2>0 DEF SubmitOK, TypedFails, SubmitGet, SubmitPut, ServerAccepts, SendLost, SendAnswered,
       ClearPending, SendFailed, Send
  <2> QED BY <2>1, <2>2, <2>3, <2>4, SubmitReturns, SubmitGoes
<1>5. ASSUME NEW t \in Turns, RunEnds(t) PROVE StoreInv'
  BY <1>5 DEF RunEnds, StoreInv, SubmitOK
<1>6. CASE GivesUp
  BY <1>6 DEF GivesUp, StoreInv, SubmitOK
<1>7. CASE Killed
  BY <1>0, <1>7 DEF Killed, StoreInv, SubmitOK, NoSubmit
<1>8. CASE GivesUpAuthority \/ SessionEnds \/ WorkspaceSwitched \/ SignIn
  <2>1. stored' \in Turns \cup {NoTurn} /\ UNCHANGED <<sub, accepted>>
    BY <1>0, <1>8 DEF GivesUpAuthority, SessionEnds, WorkspaceSwitched, SignIn
  <2> QED BY <2>1 DEF StoreInv, SubmitOK
<1> QED BY <1>1, <1>2, <1>3, <1>4, <1>5, <1>6, <1>7, <1>8 DEF TurnNext

(* While the app holds the user's authority, before and after the step, a  *)
(* turn is deleted from its database only after the server has accepted    *)
(* it, whichever calls, controllers, processes and sessions handled it.    *)
(* Giving the authority up deletes the row, and a put may replace it.      *)
THEOREM StoreKeeps == TurnSpec => StoreKeepsTurn
<1>1. TurnInit => StoreInv
  BY DEF TurnInit, StoreInv, SubmitOK, NoSubmit
<1>2. ASSUME StoreInv, [TurnNext]_turnVars PROVE StoreInv'
  <2>1. CASE TurnNext
    BY <1>2, <2>1, StoreStep, TurnAssumption
  <2>2. CASE UNCHANGED turnVars
    BY <1>2, <2>2 DEF StoreInv, SubmitOK, turnVars
  <2> QED BY <1>2, <2>1, <2>2
<1>3. ASSUME StoreInv, [TurnNext]_turnVars
      PROVE  [stored # NoTurn /\ stored' = NoTurn /\ authority = "held" /\ authority' = "held"
                => stored \in accepted]_turnVars
  <2> SUFFICES ASSUME TurnNext, stored # NoTurn, stored' = NoTurn, authority = "held", authority' = "held"
               PROVE  stored \in accepted
    BY <1>3
  <2>1. \E s \in Submits : SubmitPut(s) \/ ClearPending(s)
    BY DEF TurnNext, OpenChat, ReadQueued, TypedConnects, TypedFails, SubmitGet, ServerAccepts, SendLost,
       SendAnswered, SendFailed, Type, RunEnds, GivesUp, Killed,
       GivesUpAuthority, SessionEnds, WorkspaceSwitched, SignIn
  <2>2. PICK s \in Submits : SubmitPut(s) \/ ClearPending(s)
    BY <2>1
  <2>3. SubmitOK(sub[s])
    BY <1>3 DEF StoreInv
  <2> QED BY <2>2, <2>3, TurnAssumption DEF SubmitPut, ClearPending, SubmitOK
<1> QED BY <1>1, <1>2, <1>3, PTL DEF TurnSpec, StoreKeepsTurn

-----------------------------------------------------------------------------
(* Deletions that are shown before they are confirmed. Whatever the tab    *)
(* takes over, an answer or an event, goes without the hidden threads.     *)

HiddenInv ==
  /\ view = [rev |-> view.rev, threads |-> view.threads, active |-> view.active]
  /\ deleting = [t \in Threads |-> deleting[t]]
  /\ view.active \in Threads => view.active \notin Hidden
  /\ view.threads \cap Hidden = {}

\* What of the tab other steps leave alone.
ShownKept == UNCHANGED <<view, deleting>>

LEMMA HiddenKept ==
  ASSUME HiddenInv, ShownKept
  PROVE  HiddenInv'
BY DEF HiddenInv, ShownKept, Hidden

LEMMA WithoutHides ==
  ASSUME EventAssumption, NEW r, NEW T, NEW a, NEW gone, NEW y, y = [rev |-> r, threads |-> T, active |-> a],
         NEW s, s = Without(y, gone)
  PROVE  /\ s = [rev |-> s.rev, threads |-> s.threads, active |-> s.active]
         /\ s.threads \cap gone = {}
         /\ (s.active \in Threads => s.active \notin gone)
<1>1. y.threads = T /\ y.active = a
  OBVIOUS
<1>2. PICK b : b = IF a \in gone THEN None ELSE a
  OBVIOUS
<1>3. s = [y EXCEPT !.threads = T \ gone, !.active = b]
  BY <1>1, <1>2 DEF Without
<1>4. s = [rev |-> r, threads |-> T \ gone, active |-> b]
  BY <1>3
<1>5. b \in Threads => b \notin gone
  BY <1>2 DEF EventAssumption
<1>6. s.threads = T \ gone /\ s.active = b /\ s.rev = r
  BY <1>4
<1> QED BY <1>4, <1>5, <1>6

(* What is shown without the hidden threads, and merged with what was      *)
(* shown, has none of them.                                                *)
LEMMA MergeHides ==
  ASSUME HiddenInv, NEW s, s.threads \cap Hidden = {}, s.active \in Threads => s.active \notin Hidden,
         NEW partial, NEW gone, view' = Merge(s, partial, gone),
         deleting' = [t \in Threads |-> deleting'[t]], Hidden' \subseteq Hidden
  PROVE  HiddenInv'
<1>1. PICK T : T = IF ~partial \/ s.active = None THEN s.threads ELSE s.threads \cup (view.threads \ gone)
  OBVIOUS
<1>2. view' = [rev |-> s.rev, threads |-> T, active |-> s.active]
  BY <1>1 DEF Merge
<1>3. T \cap Hidden = {}
  BY <1>1 DEF HiddenInv
<1>4. view'.rev = s.rev /\ view'.threads = T /\ view'.active = s.active
  BY <1>2
<1> QED BY <1>2, <1>3, <1>4 DEF HiddenInv

(* A blank view has no active thread.                                      *)
LEMMA BlankHides ==
  ASSUME EventAssumption, NEW x, x = [rev |-> x.rev, threads |-> x.threads, active |-> x.active]
  PROVE  /\ Blank(x) = [rev |-> x.rev, threads |-> x.threads, active |-> None]
         /\ Blank(x).threads = x.threads /\ Blank(x).active \notin Threads
<1>1. PICK b : b = [x EXCEPT !.active = None]
  OBVIOUS
<1>2. b = [rev |-> x.rev, threads |-> x.threads, active |-> None]
  BY <1>1
<1> QED BY <1>1, <1>2 DEF Blank, EventAssumption

LEMMA AnswerHides ==
  ASSUME EventAssumption, HiddenInv, NEW c \in Calls, NEW keepConn, NEW keepFresh,
         ApplySession(c, keepConn, keepFresh),
         deleting' = [t \in Threads |-> deleting'[t]], Hidden' \subseteq Hidden
  PROVE  HiddenInv'
<1>1. PICK r, T, a : r = call[c].rev /\ T = call[c].threads /\ a = call[c].active
  OBVIOUS
<1>0. PICK y : y = [rev |-> r, threads |-> T, active |-> a]
  OBVIOUS
<1>h. PICK H : H = Hidden
  OBVIOUS
<1>2. PICK answer : answer = Without(y, H)
  OBVIOUS
<1>3. /\ answer = [rev |-> answer.rev, threads |-> answer.threads, active |-> answer.active]
      /\ answer.threads \cap H = {} /\ (answer.active \in Threads => answer.active \notin H)
  BY <1>0, <1>2, WithoutHides
<1>4. PICK shown : shown = IF keepFresh THEN Blank(answer) ELSE answer
  OBVIOUS
<1>5. shown.threads \cap Hidden = {} /\ (shown.active \in Threads => shown.active \notin Hidden)
  BY <1>3, <1>4, <1>h, BlankHides
<1>6. PICK partial : partial = call[c].partial
  OBVIOUS
<1>7. view' = Merge(shown, partial, {})
  BY <1>0, <1>1, <1>2, <1>4, <1>6, <1>h DEF ApplySession
<1> QED BY <1>5, <1>7, MergeHides

(* A thread whose deletion is over is not hidden any more.                 *)
LEMMA DeletionOver ==
  ASSUME HiddenInv, NEW t, deleting' = [deleting EXCEPT ![t] = NoDelete]
  PROVE  /\ deleting' = [x \in Threads |-> deleting'[x]]
         /\ Hidden' \subseteq Hidden /\ t \notin Hidden'
BY DEF HiddenInv, Hidden, NoDelete

LEMMA HiddenStep ==
  ASSUME EventAssumption, HiddenInv, TabNext
  PROVE  HiddenInv'
<1>0. deleting = [t \in Threads |-> deleting[t]]
  BY DEF HiddenInv
<1>1. CASE SessionSteps /\ UNCHANGED tabVars
  BY <1>1, HiddenKept DEF tabVars, ShownKept
<1>2. CASE Reconnect
  BY <1>2, HiddenKept DEF Reconnect, tabVars, ShownKept
<1>3. CASE ReceiveEvent
  <2> DEFINE e == Head(stream.queue)
             whole == e.type \in {"snapshot", "reset", "refreshed"}
  <2>1. UNCHANGED deleting
    BY <1>3 DEF ReceiveEvent
  <2>2. CASE UNCHANGED view
    BY <2>1, <2>2, HiddenKept DEF ShownKept
  <2>3. PICK r, T, a, gone : r = e.rev /\ T = e.threads /\ a = e.active /\ gone = e.gone
    OBVIOUS
  <2>4. PICK x : x = IF whole /\ fresh THEN Blank([rev |-> r, threads |-> T, active |-> a])
                     ELSE [rev |-> r, threads |-> T, active |-> a]
    OBVIOUS
  <2>5. \E y : x = [rev |-> r, threads |-> T, active |-> y]
    <3>1. CASE whole /\ fresh
      <4>1. PICK n : n = [rev |-> r, threads |-> T, active |-> a]
        OBVIOUS
      <4>2. n = [rev |-> n.rev, threads |-> n.threads, active |-> n.active] /\ n.rev = r /\ n.threads = T
        BY <4>1
      <4>3. Blank(n) = [rev |-> r, threads |-> T, active |-> None]
        BY <4>2, BlankHides
      <4>4. x = Blank(n)
        BY <2>4, <3>1, <4>1
      <4> QED BY <4>3, <4>4
    <3>2. CASE ~(whole /\ fresh)
      BY <2>4, <3>2
    <3> QED BY <3>1, <3>2
  <2>6. PICK y : x = [rev |-> r, threads |-> T, active |-> y]
    BY <2>5
  <2>h. PICK H : H = Hidden
    OBVIOUS
  <2>7. PICK shown : shown = Without(x, H)
    OBVIOUS
  <2>8. shown.threads \cap Hidden = {} /\ (shown.active \in Threads => shown.active \notin Hidden)
    BY <2>h, <2>6, <2>7, WithoutHides
  <2>9. PICK partial : partial = ~whole
    OBVIOUS
  <2>10. UNCHANGED view \/ view' = Merge(shown, partial, gone)
    BY <1>3, <2>3, <2>4, <2>7, <2>9, <2>h DEF ReceiveEvent
  <2>11. CASE view' = Merge(shown, partial, gone)
    BY <1>0, <2>1, <2>8, <2>11, MergeHides DEF Hidden
  <2> QED BY <2>2, <2>10, <2>11
<1>4. ASSUME NEW c \in Calls, TabSteps(c) \/ StartNewSession(c)
      PROVE  HiddenInv'
  <2>1. CASE Read(c) \/ Failed(c) \/ DeleteFailed(c)
    BY <2>1, HiddenKept DEF Read, Failed, DeleteFailed, tabVars, ShownKept
  <2>2. CASE Answered(c)
    <3>1. UNCHANGED deleting /\ \E k, f : ApplySession(c, k, f)
      BY <2>2 DEF Answered
    <3> QED BY <1>0, <3>1, AnswerHides DEF Hidden
  <2>3. CASE Deleted(c) \/ Reconciled(c)
    <3>1. ApplySession(c, FALSE, FALSE) /\ deleting' = [deleting EXCEPT ![call[c].thread] = NoDelete]
      BY <2>3 DEF Deleted, Reconciled
    <3>2. deleting' = [x \in Threads |-> deleting'[x]] /\ Hidden' \subseteq Hidden
      BY <3>1, DeletionOver
    <3> QED BY <3>1, <3>2, AnswerHides
  <2>4. CASE DeleteMissing(c)
    <3>1. UNCHANGED view /\ deleting' = [deleting EXCEPT ![call[c].thread] = NoDelete]
      BY <2>4 DEF DeleteMissing
    <3>2. deleting' = [x \in Threads |-> deleting'[x]] /\ Hidden' \subseteq Hidden
      BY <3>1, DeletionOver
    <3> QED BY <3>1, <3>2 DEF HiddenInv
  <2>5. CASE RollBack(c)
    <3>1. PICK t : t = call[c].thread
      OBVIOUS
    <3>2. deleting' = [deleting EXCEPT ![t] = NoDelete]
      BY <2>5, <3>1 DEF RollBack
    <3>3. deleting' = [x \in Threads |-> deleting'[x]] /\ Hidden' \subseteq Hidden /\ t \notin Hidden'
      BY <3>2, DeletionOver
    <3>4. PICK a : a = IF deleting[t].wasActive THEN t ELSE view.active
      OBVIOUS
    <3>5. PICK T : T = view.threads \cup {t}
      OBVIOUS
    <3>6. PICK v : v = [view EXCEPT !.threads = T, !.active = a]
      OBVIOUS
    <3>7. v = [rev |-> view.rev, threads |-> T, active |-> a]
      BY <3>6 DEF HiddenInv
    <3>8. view' = v
      BY <2>5, <3>1, <3>4, <3>5, <3>6 DEF RollBack
    <3>9. view'.rev = view.rev /\ view'.threads = T /\ view'.active = a
      BY <3>7, <3>8
    <3> QED BY <3>3, <3>4, <3>5, <3>7, <3>8, <3>9 DEF HiddenInv
  <2>6. CASE StartNewSession(c)
    <3>1. view' = Blank(view) /\ UNCHANGED deleting
      BY <2>6 DEF StartNewSession
    <3>2. view'.threads = view.threads /\ view'.active \notin Threads
          /\ view' = [rev |-> view.rev, threads |-> view.threads, active |-> None]
      BY <3>1, BlankHides DEF HiddenInv
    <3>3. view' = [rev |-> view'.rev, threads |-> view'.threads, active |-> view'.active]
      BY <3>2
    <3> QED BY <3>1, <3>2, <3>3 DEF HiddenInv, Hidden
  <2> QED BY <1>4, <2>1, <2>2, <2>3, <2>4, <2>5, <2>6 DEF TabSteps
<1>5. ASSUME NEW c \in Calls, NEW t \in Threads, ActivateThread(c, t) \/ ArchiveThread(c, t) \/ DeleteThread(c, t)
      PROVE  HiddenInv'
  <2>1. CASE ArchiveThread(c, t)
    BY <2>1, HiddenKept DEF ArchiveThread, tabVars, ShownKept
  <2>2. CASE ActivateThread(c, t)
    <3>1. PICK v : v = [view EXCEPT !.active = t]
      OBVIOUS
    <3>2. v = [rev |-> view.rev, threads |-> view.threads, active |-> t]
      BY <3>1 DEF HiddenInv
    <3>3. view' = v /\ UNCHANGED deleting /\ t \in view.threads
      BY <2>2, <3>1 DEF ActivateThread
    <3>4. view'.rev = view.rev /\ view'.threads = view.threads /\ view'.active = t
      BY <3>2, <3>3
    <3> QED BY <3>2, <3>3, <3>4 DEF HiddenInv, Hidden
  <2>3. CASE DeleteThread(c, t)
    <3>1. PICK r, T, a : r = view.rev /\ T = view.threads /\ a = view.active
      OBVIOUS
    <3>x. PICK old : old = [rev |-> r, threads |-> T, active |-> a]
      OBVIOUS
    <3>2. view' = Without(old, {t})
      BY <2>3, <3>1, <3>x DEF DeleteThread, HiddenInv
    <3>v. PICK v : v = Without(old, {t})
      OBVIOUS
    <3>3. /\ view' = [rev |-> view'.rev, threads |-> view'.threads, active |-> view'.active]
          /\ view'.threads \cap {t} = {} /\ (view'.active \in Threads => view'.active # t)
      <4>1. /\ v = [rev |-> v.rev, threads |-> v.threads, active |-> v.active]
            /\ v.threads \cap {t} = {} /\ (v.active \in Threads => v.active \notin {t})
        BY <3>x, <3>v, WithoutHides
      <4> QED BY <3>2, <3>v, <4>1
    <3>4. view'.threads \subseteq T /\ (view'.active = a \/ view'.active \notin Threads)
      <4>2. old.threads = T /\ old.active = a
        BY <3>x
      <4>3. PICK b : b = IF old.active \in {t} THEN None ELSE old.active
        OBVIOUS
      <4>4. PICK n : n = [old EXCEPT !.threads = old.threads \ {t}, !.active = b]
        OBVIOUS
      <4>5. n = [rev |-> r, threads |-> T \ {t}, active |-> b]
        BY <3>x, <4>2, <4>4
      <4>6. view' = n
        BY <3>2, <4>3, <4>4 DEF Without
      <4>7. n.threads = T \ {t} /\ n.active = b
        BY <4>5
      <4> QED BY <4>2, <4>3, <4>6, <4>7 DEF EventAssumption
    <3>5. /\ deleting' = [x \in Threads |-> deleting'[x]]
          /\ \A x \in Threads : x # t => deleting'[x] = deleting[x]
      BY <1>0, <2>3 DEF DeleteThread
    <3>6. Hidden' \subseteq Hidden \cup {t}
      BY <3>5 DEF Hidden
    <3> QED BY <3>1, <3>3, <3>4, <3>5, <3>6 DEF HiddenInv
  <2> QED BY <1>5, <2>1, <2>2, <2>3
<1> QED BY <1>1, <1>2, <1>3, <1>4, <1>5 DEF TabNext

(* While a deletion is under way no answer, no event and no second request *)
(* brings the thread back into the tab, in the list or as the active one.  *)
THEOREM DeletingHidden == TabSpec => []DeletingStaysHidden
<1>1. EventInit /\ TabInit => HiddenInv
  <2> SUFFICES ASSUME TabInit PROVE HiddenInv
    OBVIOUS
  <2>1. view = [rev |-> 0, threads |-> {}, active |-> None]
    BY DEF TabInit
  <2>2. view.rev = 0 /\ view.threads = {} /\ view.active = None
    BY <2>1
  <2>3. deleting = [t \in Threads |-> NoDelete]
    BY DEF TabInit
  <2>4. \A t \in Threads : ~deleting[t].under
    BY <2>3 DEF NoDelete
  <2>5. deleting = [t \in Threads |-> deleting[t]] /\ Hidden = {}
    BY <2>3, <2>4 DEF Hidden
  <2> QED BY <2>1, <2>2, <2>5 DEF HiddenInv
<1>2. ASSUME HiddenInv, [TabNext]_svars PROVE HiddenInv'
  <2>1. CASE TabNext
    BY <1>2, <2>1, HiddenStep, EventAssumption
  <2>2. CASE UNCHANGED svars
    BY <1>2, <2>2, HiddenKept DEF svars, tabVars, ShownKept
  <2> QED BY <1>2, <2>1, <2>2
<1>3. HiddenInv => DeletingStaysHidden
  BY DEF HiddenInv, DeletingStaysHidden, Hidden
<1> QED BY <1>1, <1>2, <1>3, PTL DEF TabSpec

-----------------------------------------------------------------------------
(* Sequences of events in the order of their ids, none above a bound.      *)

InOrder(q, n) ==
  /\ q \in Seq(Range(q))
  /\ \A i \in 1..Len(q) : q[i].id \in Nat /\ q[i].id <= n
  /\ \A i, j \in 1..Len(q) : i < j => q[i].id < q[j].id

\* p is q with e at its end; q without its first k events.
Longer(p, q, e) ==
  /\ Len(q) \in Nat /\ Len(p) = Len(q) + 1 /\ p[Len(q) + 1] = e
  /\ \A i \in 1..Len(q) : p[i] = q[i]

Shorter(p, q, k) ==
  /\ Len(q) \in Nat /\ k <= Len(q) /\ Len(p) = Len(q) - k
  /\ \A i \in 1..Len(p) : i + k \in 1..Len(q) /\ p[i] = q[i + k]

LEMMA OrderAppend ==
  ASSUME NEW n \in Nat, NEW q, InOrder(q, n), NEW e, e.id = n + 1, NEW p, p = Append(q, e)
  PROVE  InOrder(p, n + 1) /\ Longer(p, q, e)
<1>1. PICK S : S = Range(q) \cup {e}
  OBVIOUS
<1>2. q \in Seq(S) /\ e \in S
  BY <1>1, SeqMonotonic DEF InOrder
<1>3. /\ p \in Seq(S) /\ Len(q) \in Nat /\ Len(p) = Len(q) + 1 /\ p[Len(q) + 1] = e
      /\ \A i \in 1..Len(q) : p[i] = q[i]
  BY <1>2, AppendProperties, LenProperties
<1>4. p \in Seq(Range(p))
  BY <1>3, SeqOfRange
<1>5. \A i \in 1..Len(p) : p[i].id \in Nat /\ p[i].id <= n + 1
  BY <1>3 DEF InOrder
<1>6. \A i, j \in 1..Len(p) : i < j => p[i].id < p[j].id
  <2> SUFFICES ASSUME NEW i \in 1..Len(p), NEW j \in 1..Len(p), i < j PROVE p[i].id < p[j].id
    OBVIOUS
  <2>1. i \in 1..Len(q) /\ p[i] = q[i] /\ p[i].id \in Nat /\ p[i].id <= n
    BY <1>3 DEF InOrder
  <2>2. CASE j \in 1..Len(q)
    BY <1>3, <2>1, <2>2 DEF InOrder
  <2>3. CASE j = Len(q) + 1
    <3>1. p[j] = e
      BY <1>3, <2>3
    <3>2. p[j].id = n + 1
      BY <3>1
    <3> QED BY <2>1, <3>2
  <2>4. j \in 1..(Len(q) + 1) /\ Len(q) \in Nat
    BY <1>3
  <2>5. j \in 1..Len(q) \/ j = Len(q) + 1
    BY <2>4
  <2> QED BY <2>2, <2>3, <2>5
<1> QED BY <1>3, <1>4, <1>5, <1>6 DEF InOrder, Longer

(* What follows the first k events.                                        *)
LEMMA OrderSub ==
  ASSUME NEW n \in Nat, NEW q, InOrder(q, n), NEW k \in Nat, k <= Len(q), NEW p, p = SubSeq(q, k + 1, Len(q))
  PROVE  InOrder(p, n) /\ Shorter(p, q, k)
<1>1. PICK S : S = Range(q)
  OBVIOUS
<1>2. q \in Seq(S)
  BY <1>1 DEF InOrder
<1>3. Len(q) \in Nat /\ \A i \in 1..Len(q) : q[i] \in S
  BY <1>2, LenProperties, ElementOfSeq
<1>4. \A i \in (k + 1)..Len(q) : q[i] \in S
  BY <1>3
<1>5. /\ p \in Seq(S) /\ Len(p) = (IF k + 1 <= Len(q) THEN Len(q) - (k + 1) + 1 ELSE 0)
      /\ \A i \in 1..(Len(q) - (k + 1) + 1) : p[i] = q[k + 1 + i - 1]
  <2>1. k + 1 \in Int /\ Len(q) \in Int
    BY <1>3
  <2> QED BY <1>4, <2>1, SubSeqProperties
<1>6. Len(p) = Len(q) - k
  BY <1>3, <1>5
<1>7. \A i \in 1..Len(p) : i + k \in 1..Len(q) /\ p[i] = q[i + k]
  BY <1>3, <1>5, <1>6
<1>8. p \in Seq(Range(p))
  BY <1>5, SeqOfRange
<1>9. \A i \in 1..Len(p) : p[i].id \in Nat /\ p[i].id <= n
  BY <1>7 DEF InOrder
<1>10. \A i, j \in 1..Len(p) : i < j => p[i].id < p[j].id
  <2> SUFFICES ASSUME NEW i \in 1..Len(p), NEW j \in 1..Len(p), i < j PROVE p[i].id < p[j].id
    OBVIOUS
  <2>1. i + k < j + k
    BY <1>3, <1>6
  <2> QED BY <1>7, <2>1 DEF InOrder
<1> QED BY <1>3, <1>6, <1>7, <1>8, <1>9, <1>10 DEF InOrder, Shorter

(* All but the first event.                                                *)
LEMMA OrderTail ==
  ASSUME NEW n \in Nat, NEW q, InOrder(q, n), q # <<>>, NEW p, p = Tail(q)
  PROVE  InOrder(p, n) /\ Shorter(p, q, 1)
<1>1. PICK S : S = Range(q)
  OBVIOUS
<1>2. q \in Seq(S)
  BY <1>1 DEF InOrder
<1>3. Len(q) \in Nat /\ Len(q) >= 1
  BY <1>2, EmptySeq
<1>4. p = SubSeq(q, 2, Len(q))
  BY <1>2, TailIsSubSeq
<1>5. PICK k \in Nat : k = 1
  OBVIOUS
<1>6. p = SubSeq(q, k + 1, Len(q)) /\ k <= Len(q)
  BY <1>3, <1>4, <1>5
<1> QED BY <1>5, <1>6, OrderSub

LEMMA OrderOne ==
  ASSUME NEW n \in Nat, NEW e, e.id = n, NEW p, p = <<e>>
  PROVE  InOrder(p, n) /\ Len(p) = 1 /\ p[1] = e
<1>1. PICK S : S = {e}
  OBVIOUS
<1>2. p \in Seq(S) /\ Len(p) = 1 /\ p[1] = e
  BY <1>1
<1>3. p \in Seq(Range(p))
  BY <1>2, SeqOfRange
<1> QED BY <1>2, <1>3 DEF InOrder

LEMMA OrderMore ==
  ASSUME NEW m \in Nat, NEW n \in Nat, m <= n, NEW q, InOrder(q, m)
  PROVE  InOrder(q, n)
BY DEF InOrder

LEMMA OrderNone ==
  ASSUME NEW n \in Nat
  PROVE  InOrder(<<>>, n) /\ Len(<<>>) = 0
<1>1. <<>> \in Seq(Range(<<>>)) /\ Len(<<>>) = 0
  BY EmptySeq
<1> QED BY <1>1 DEF InOrder
-----------------------------------------------------------------------------
(* The event stream. What the tab is owed is newer than its cursor, and is *)
(* kept for replay or older than everything that is kept: so a cursor that *)
(* is still kept has everything it is owed after it. What is on its way is *)
(* newer than the cursor and owed, but for a whole session at the head.    *)

Whole == {"snapshot", "reset"}

OwedOK(id, l, c, n) ==
  /\ id \in Nat /\ c < id /\ id <= n
  /\ \/ \E i \in 1..Len(l) : l[i].id = id
     \/ \A i \in 1..Len(l) : id < l[i].id

EventsOK(l, c, n, o) ==
  /\ n \in Nat /\ c \in Nat /\ c <= n
  /\ InOrder(l, n)
  /\ \A i \in 1..Len(l) : l[i].type \notin Whole /\ (c < l[i].id => l[i].id \in o)
  /\ \A id \in o : OwedOK(id, l, c, n)

ComingOK(e, i, c, o) ==
  /\ c < e.id
  /\ \/ e.type \in Whole /\ i = 1
     \/ e.type \notin Whole /\ e.id \in o

IsComing(q, id) ==
  \E i \in 1..Len(q) : q[i].id = id \/ (q[i].type \in Whole /\ id < q[i].id)

StreamOK(q, c, n, o) ==
  /\ InOrder(q, n)
  /\ \A i \in 1..Len(q) : ComingOK(q[i], i, c, o)
  /\ \A id \in o : IsComing(q, id)

\* A tab that is connected.
TabOK(l, q, c, n, o) == EventsOK(l, c, n, o) /\ StreamOK(q, c, n, o)

EventsInv ==
  /\ stream = [open |-> stream.open, queue |-> stream.queue]
  /\ EventsOK(log, cursor, last, owed)
  /\ stream.open => StreamOK(stream.queue, cursor, last, owed)

(* A broadcast is kept, and goes to the tab if it is connected.            *)
LEMMA EventsAppend ==
  ASSUME NEW l, NEW c, NEW n, NEW o, EventsOK(l, c, n, o),
         NEW e, e.id = n + 1, e.type \notin Whole, NEW p, p = Append(l, e), NEW w, w = o \cup {n + 1}
  PROVE  EventsOK(p, c, n + 1, w)
<1>1. n \in Nat /\ c \in Nat /\ c <= n /\ InOrder(l, n)
  BY DEF EventsOK
<1>o. InOrder(p, n + 1) /\ Longer(p, l, e)
  BY <1>1, OrderAppend
<1>2. /\ InOrder(p, n + 1)
      /\ Len(l) \in Nat /\ Len(p) = Len(l) + 1 /\ p[Len(l) + 1] = e
      /\ \A i \in 1..Len(l) : p[i] = l[i]
  BY <1>o DEF Longer
<1>3. ASSUME NEW i \in 1..Len(p) PROVE p[i].type \notin Whole /\ (c < p[i].id => p[i].id \in w)
  <2>1. i \in 1..Len(l) \/ i = Len(l) + 1
    BY <1>2
  <2>2. CASE i \in 1..Len(l)
    BY <1>2, <2>2 DEF EventsOK
  <2>3. CASE i = Len(l) + 1
    <3>1. p[i] = e
      BY <1>2, <2>3
    <3> QED BY <3>1
  <2> QED BY <2>1, <2>2, <2>3
<1>4. ASSUME NEW id \in w PROVE OwedOK(id, p, c, n + 1)
  <2>1. CASE id = n + 1
    <3>1. Len(l) + 1 \in 1..Len(p) /\ p[Len(l) + 1].id = id
      BY <1>2, <2>1
    <3> QED BY <1>1, <2>1, <3>1 DEF OwedOK
  <2>2. CASE id \in o
    <3>1. OwedOK(id, l, c, n)
      BY <2>2 DEF EventsOK
    <3>2. id \in Nat /\ c < id /\ id <= n
      BY <3>1 DEF OwedOK
    <3>3. CASE \E i \in 1..Len(l) : l[i].id = id
      <4>1. PICK i \in 1..Len(l) : l[i].id = id
        BY <3>3
      <4>2. i \in 1..Len(p) /\ p[i].id = id
        BY <1>2, <4>1
      <4> QED BY <1>1, <3>2, <4>2 DEF OwedOK
    <3>4. CASE \A i \in 1..Len(l) : id < l[i].id
      <4>1. ASSUME NEW i \in 1..Len(p) PROVE id < p[i].id
        <5>1. i \in 1..Len(l) \/ i = Len(l) + 1
          BY <1>2
        <5>2. CASE i = Len(l) + 1
          <6>1. p[i] = e
            BY <1>2, <5>2
          <6>2. p[i].id = n + 1
            BY <6>1
          <6> QED BY <1>1, <3>2, <6>2
        <5>3. CASE i \in 1..Len(l)
          BY <1>2, <3>4, <5>3
        <5> QED BY <5>1, <5>2, <5>3
      <4> QED BY <1>1, <3>2, <4>1 DEF OwedOK
    <3> QED BY <3>1, <3>3, <3>4 DEF OwedOK
  <2> QED BY <2>1, <2>2
<1> QED BY <1>1, <1>2, <1>3, <1>4 DEF EventsOK

LEMMA StreamAppend ==
  ASSUME NEW q, NEW c \in Nat, NEW n \in Nat, c <= n, NEW o, StreamOK(q, c, n, o),
         NEW e, e.id = n + 1, e.type \notin Whole, NEW p, p = Append(q, e), NEW w, w = o \cup {n + 1}
  PROVE  StreamOK(p, c, n + 1, w)
<1>1. InOrder(q, n)
  BY DEF StreamOK
<1>o. InOrder(p, n + 1) /\ Longer(p, q, e)
  BY <1>1, OrderAppend
<1>2. /\ InOrder(p, n + 1)
      /\ Len(q) \in Nat /\ Len(p) = Len(q) + 1 /\ p[Len(q) + 1] = e
      /\ \A i \in 1..Len(q) : p[i] = q[i]
  BY <1>o DEF Longer
<1>3. ASSUME NEW i \in 1..Len(p) PROVE ComingOK(p[i], i, c, w)
  <2>1. i \in 1..Len(q) \/ i = Len(q) + 1
    BY <1>2
  <2>2. CASE i \in 1..Len(q)
    <3>1. ComingOK(q[i], i, c, o) /\ p[i] = q[i]
      BY <1>2, <2>2 DEF StreamOK
    <3> QED BY <3>1 DEF ComingOK
  <2>3. CASE i = Len(q) + 1
    <3>1. p[i] = e
      BY <1>2, <2>3
    <3>2. ComingOK(e, i, c, w)
      BY DEF ComingOK
    <3> QED BY <3>1, <3>2
  <2> QED BY <2>1, <2>2, <2>3
<1>4. ASSUME NEW id \in w PROVE IsComing(p, id)
  <2>1. CASE id = n + 1
    <3>1. Len(q) + 1 \in 1..Len(p) /\ p[Len(q) + 1].id = id
      BY <1>2, <2>1
    <3> QED BY <3>1 DEF IsComing
  <2>2. CASE id \in o
    <3>1. IsComing(q, id)
      BY <2>2 DEF StreamOK
    <3>2. PICK i \in 1..Len(q) : q[i].id = id \/ (q[i].type \in Whole /\ id < q[i].id)
      BY <3>1 DEF IsComing
    <3>3. i \in 1..Len(p) /\ p[i] = q[i]
      BY <1>2
    <3> QED BY <3>2, <3>3 DEF IsComing
  <2> QED BY <2>1, <2>2
<1> QED BY <1>2, <1>3, <1>4 DEF StreamOK

(* The oldest event expires.                                               *)
LEMMA EventsTail ==
  ASSUME NEW l, NEW c, NEW n, NEW o, EventsOK(l, c, n, o), l # <<>>, NEW p, p = Tail(l)
  PROVE  EventsOK(p, c, n, o)
<1>1. n \in Nat /\ c \in Nat /\ c <= n /\ InOrder(l, n)
  BY DEF EventsOK
<1>o. InOrder(p, n) /\ Shorter(p, l, 1)
  BY <1>1, OrderTail
<1>2. /\ InOrder(p, n)
      /\ Len(l) \in Nat /\ Len(l) >= 1 /\ Len(p) = Len(l) - 1
      /\ \A i \in 1..Len(p) : i + 1 \in 1..Len(l) /\ p[i] = l[i + 1]
  BY <1>o DEF Shorter
<1>3. \A i \in 1..Len(p) : p[i].type \notin Whole /\ (c < p[i].id => p[i].id \in o)
  BY <1>2 DEF EventsOK
<1>4. ASSUME NEW id \in o PROVE OwedOK(id, p, c, n)
  <2>1. OwedOK(id, l, c, n)
    BY DEF EventsOK
  <2>2. id \in Nat /\ c < id /\ id <= n
    BY <2>1 DEF OwedOK
  <2>3. CASE \E i \in 1..Len(l) : l[i].id = id
    <3>1. PICK i \in 1..Len(l) : l[i].id = id
      BY <2>3
    <3>2. CASE i = 1
      <4>1. ASSUME NEW j \in 1..Len(p) PROVE id < p[j].id
        <5>1. j + 1 \in 1..Len(l) /\ p[j] = l[j + 1] /\ i < j + 1
          BY <1>2, <3>2
        <5>2. l[i].id < l[j + 1].id
          BY <1>1, <5>1 DEF InOrder
        <5> QED BY <3>1, <5>1, <5>2
      <4> QED BY <2>2, <4>1 DEF OwedOK
    <3>3. CASE i > 1
      <4>1. PICK j : j = i - 1
        OBVIOUS
      <4>2. j \in 1..Len(p) /\ p[j] = l[i]
        BY <1>2, <3>3, <4>1
      <4> QED BY <2>2, <3>1, <4>2 DEF OwedOK
    <3>4. i = 1 \/ i > 1
      BY <1>2
    <3> QED BY <3>2, <3>3, <3>4
  <2>4. CASE \A i \in 1..Len(l) : id < l[i].id
    BY <1>2, <2>2, <2>4 DEF OwedOK
  <2> QED BY <2>1, <2>3, <2>4 DEF OwedOK
<1> QED BY <1>1, <1>2, <1>3, <1>4 DEF EventsOK

(* A cursor that is kept: what follows it is all that the tab is owed.     *)
LEMMA StreamReplay ==
  ASSUME NEW l, NEW c, NEW n, NEW o, EventsOK(l, c, n, o), NEW k \in 1..Len(l), l[k].id = c,
         NEW p, p = SubSeq(l, k + 1, Len(l))
  PROVE  StreamOK(p, c, n, o)
<1>1. n \in Nat /\ c \in Nat /\ InOrder(l, n)
  BY DEF EventsOK
<1>2. Len(l) \in Nat /\ k \in Nat /\ k <= Len(l) /\ k >= 1
  BY <1>1, LenProperties DEF InOrder
<1>3. InOrder(p, n) /\ Shorter(p, l, k)
  BY <1>1, <1>2, OrderSub
<1>4. Len(p) = Len(l) - k
  BY <1>3 DEF Shorter
<1>5. \A i \in 1..Len(p) : i + k \in 1..Len(l)
  BY <1>3 DEF Shorter
<1>6. \A i \in 1..Len(p) : p[i] = l[i + k]
  BY <1>3 DEF Shorter
<1>7. ASSUME NEW i \in 1..Len(p) PROVE ComingOK(p[i], i, c, o)
  <2>1. i + k \in 1..Len(l) /\ p[i] = l[i + k] /\ k < i + k
    BY <1>2, <1>5, <1>6
  <2>2. l[k].id < l[i + k].id
    BY <1>1, <2>1 DEF InOrder
  <2>3. c < p[i].id
    BY <2>1, <2>2
  <2>4. p[i].type \notin Whole /\ p[i].id \in o
    BY <2>1, <2>3 DEF EventsOK
  <2> QED BY <2>3, <2>4 DEF ComingOK
<1>8. ASSUME NEW id \in o PROVE IsComing(p, id)
  <2>1. OwedOK(id, l, c, n)
    BY DEF EventsOK
  <2>2. id \in Nat /\ c < id /\ ~(id < l[k].id)
    BY <1>1, <2>1 DEF OwedOK
  <2>3. \E i \in 1..Len(l) : l[i].id = id
    BY <2>1, <2>2 DEF OwedOK
  <2>4. PICK i \in 1..Len(l) : l[i].id = id
    BY <2>3
  <2>5. k < i
    <3>1. SUFFICES ASSUME i <= k PROVE FALSE
      BY <1>2
    <3>2. i = k \/ i < k
      BY <1>2, <3>1
    <3>3. i < k => l[i].id < l[k].id
      BY <1>1 DEF InOrder
    <3>4. CASE i = k
      BY <1>1, <2>2, <2>4, <3>4
    <3>5. CASE i < k
      BY <1>1, <2>2, <2>4, <3>3, <3>5
    <3> QED BY <3>2, <3>4, <3>5
  <2>6. PICK j : j = i - k
    OBVIOUS
  <2>7. j \in 1..Len(p) /\ j + k = i
    BY <1>2, <1>4, <2>5, <2>6
  <2>8. p[j].id = id
    BY <1>6, <2>4, <2>7
  <2> QED BY <2>7, <2>8 DEF IsComing
<1> QED BY <1>3, <1>7, <1>8 DEF StreamOK

(* The tab starts again from a whole session.                              *)
LEMMA StreamFresh ==
  ASSUME NEW l, NEW c, NEW n, NEW o, EventsOK(l, c, n, o), NEW e, e.id = n + 1, e.type \in Whole,
         NEW p, p = <<e>>
  PROVE  EventsOK(l, c, n + 1, o) /\ StreamOK(p, c, n + 1, o)
<1>1. n \in Nat /\ c \in Nat /\ c <= n /\ InOrder(l, n)
  BY DEF EventsOK
<1>2. PICK m \in Nat : m = n + 1
  BY <1>1
<1>3. InOrder(p, m) /\ Len(p) = 1 /\ p[1] = e
  BY <1>2, OrderOne
<1>4. \A id \in o : OwedOK(id, l, c, m) /\ id < m
  BY <1>1, <1>2 DEF EventsOK, OwedOK
<1>5. EventsOK(l, c, m, o)
  <2>1. InOrder(l, m)
    BY <1>1, <1>2, OrderMore
  <2>2. c <= m
    BY <1>1, <1>2
  <2> QED BY <1>1, <1>4, <2>1, <2>2 DEF EventsOK
<1>6. ASSUME NEW i \in 1..Len(p) PROVE ComingOK(p[i], i, c, o)
  <2>1. i = 1 /\ p[i] = e
    BY <1>3
  <2>2. c < e.id
    BY <1>1
  <2> QED BY <2>1, <2>2 DEF ComingOK
<1>7. ASSUME NEW id \in o PROVE IsComing(p, id)
  <2>1. 1 \in 1..Len(p) /\ p[1].type \in Whole /\ id < p[1].id
    BY <1>2, <1>3, <1>4
  <2> QED BY <2>1 DEF IsComing
<1>8. StreamOK(p, c, m, o)
  BY <1>3, <1>6, <1>7 DEF StreamOK
<1> QED BY <1>2, <1>5, <1>8

(* The tab takes an event.                                                 *)
LEMMA Received ==
  ASSUME NEW l, NEW c, NEW n, NEW o, NEW q, EventsOK(l, c, n, o), StreamOK(q, c, n, o), q # <<>>,
         NEW e, e = Head(q), NEW w, w = IF e.type \in Whole THEN {id \in o : id > e.id} ELSE o \ {e.id},
         NEW p, p = Tail(q)
  PROVE  TabOK(l, p, e.id, n, w)
<1>1. n \in Nat /\ c \in Nat /\ c <= n /\ InOrder(l, n) /\ InOrder(q, n)
  BY DEF EventsOK, StreamOK
<1>o. InOrder(p, n) /\ Shorter(p, q, 1)
  BY <1>1, OrderTail
<1>2. /\ InOrder(p, n)
      /\ Len(q) \in Nat /\ Len(q) >= 1 /\ Len(p) = Len(q) - 1
      /\ \A i \in 1..Len(p) : i + 1 \in 1..Len(q) /\ p[i] = q[i + 1]
  BY <1>o DEF Shorter
<1>3. 1 \in 1..Len(q) /\ e = q[1]
  <2>1. q \in Seq(Range(q))
    BY <1>1 DEF InOrder
  <2> QED BY <1>2, <2>1
<1>4. e.id \in Nat /\ e.id <= n /\ c < e.id
  BY <1>1, <1>3 DEF InOrder, StreamOK, ComingOK
<1>5. \A j \in 2..Len(q) : e.id < q[j].id /\ q[j].type \notin Whole
  <2> SUFFICES ASSUME NEW j \in 2..Len(q) PROVE e.id < q[j].id /\ q[j].type \notin Whole
    OBVIOUS
  <2>1. j \in 1..Len(q) /\ 1 < j /\ j # 1
    BY <1>2
  <2>2. q[1].id < q[j].id
    BY <1>1, <1>3, <2>1 DEF InOrder
  <2>3. ComingOK(q[j], j, c, o)
    BY <2>1 DEF StreamOK
  <2> QED BY <1>3, <2>1, <2>2, <2>3 DEF ComingOK
<1>6. ASSUME NEW id \in w PROVE id \in o /\ \E j \in 2..Len(q) : q[j].id = id
  <2>1. id \in o
    BY DEF Whole
  <2>2. id \in Nat
    BY <2>1 DEF EventsOK, OwedOK
  <2>3. IsComing(q, id)
    BY <2>1 DEF StreamOK
  <2>4. PICK j \in 1..Len(q) : q[j].id = id \/ (q[j].type \in Whole /\ id < q[j].id)
    BY <2>3 DEF IsComing
  <2>5. j # 1
    <3> SUFFICES ASSUME j = 1 PROVE FALSE
      OBVIOUS
    <3>1. e.id = id \/ (e.type \in Whole /\ id < e.id)
      BY <1>3, <2>4
    <3>2. CASE e.type \in Whole
      <4>1. id > e.id
        BY <3>2
      <4> QED BY <1>4, <2>2, <3>1, <4>1
    <3>3. CASE e.type \notin Whole
      <4>1. id # e.id
        BY <3>3
      <4> QED BY <3>1, <3>3, <4>1
    <3> QED BY <3>2, <3>3
  <2>6. j \in 2..Len(q)
    BY <1>2, <2>5
  <2> QED BY <1>5, <2>1, <2>4, <2>6
<1>7. \A id \in o : id > e.id => id \in w
  <2> SUFFICES ASSUME NEW id \in o, id > e.id PROVE id \in w
    OBVIOUS
  <2>1. id \in Nat /\ id # e.id
    BY <1>4 DEF EventsOK, OwedOK
  <2> QED BY <2>1
<1>8. EventsOK(l, e.id, n, w)
  <2>1. ASSUME NEW i \in 1..Len(l), e.id < l[i].id PROVE l[i].id \in w
    <3>1. l[i].id \in Nat
      BY <1>1 DEF InOrder
    <3>2. c < l[i].id
      BY <1>1, <1>4, <2>1, <3>1
    <3>3. l[i].id \in o
      BY <3>2 DEF EventsOK
    <3> QED BY <1>4, <1>7, <2>1, <3>1, <3>3
  <2>2. ASSUME NEW id \in w PROVE OwedOK(id, l, e.id, n)
    <3>1. OwedOK(id, l, c, n)
      BY <1>6 DEF EventsOK
    <3>2. e.id < id
      BY <1>5, <1>6
    <3> QED BY <3>1, <3>2 DEF OwedOK
  <2>3. \A i \in 1..Len(l) : l[i].type \notin Whole
    BY DEF EventsOK
  <2> QED BY <1>1, <1>4, <2>1, <2>2, <2>3 DEF EventsOK
<1>9. StreamOK(p, e.id, n, w)
  <2>1. ASSUME NEW i \in 1..Len(p) PROVE ComingOK(p[i], i, e.id, w)
    <3>1. PICK j : j = i + 1
      OBVIOUS
    <3>2. j \in 2..Len(q) /\ j \in 1..Len(q) /\ p[i] = q[j]
      BY <1>2, <3>1
    <3>3. e.id < q[j].id /\ q[j].type \notin Whole
      BY <1>5, <3>2
    <3>4. q[j].id \in o
      BY <3>2, <3>3 DEF StreamOK, ComingOK
    <3>5. q[j].id \in Nat
      BY <1>1, <3>2 DEF InOrder
    <3>6. q[j].id \in w
      BY <1>4, <1>7, <3>3, <3>4, <3>5
    <3> QED BY <3>2, <3>3, <3>6 DEF ComingOK
  <2>2. ASSUME NEW id \in w PROVE IsComing(p, id)
    <3>1. PICK j \in 2..Len(q) : q[j].id = id
      BY <1>6
    <3>2. PICK i : i = j - 1
      OBVIOUS
    <3>3. i \in 1..Len(p) /\ i + 1 = j
      BY <1>2, <3>2
    <3>4. p[i].id = id
      BY <1>2, <3>1, <3>3
    <3> QED BY <3>3, <3>4 DEF IsComing
  <2> QED BY <1>2, <2>1, <2>2 DEF StreamOK
<1> QED BY <1>8, <1>9 DEF TabOK

(* The steps: what leaves the stream alone or ends it; a broadcast; a      *)
(* connection; an event that is received.                                  *)
LEMMA EventsKept ==
  ASSUME EventsInv, UNCHANGED <<log, last, owed, cursor>>, stream' = stream \/ stream' = [open |-> FALSE, queue |-> <<>>]
  PROVE  EventsInv'
<1>1. CASE stream' = stream
  BY <1>1 DEF EventsInv
<1>2. CASE stream' = [open |-> FALSE, queue |-> <<>>]
  <2>1. stream' = [open |-> stream'.open, queue |-> stream'.queue] /\ ~stream'.open
    BY <1>2
  <2> QED BY <2>1 DEF EventsInv
<1> QED BY <1>1, <1>2

LEMMA BroadcastKept ==
  ASSUME EventsInv, NEW e, Broadcast(e), e.id = last + 1, e.type \notin Whole, UNCHANGED cursor
  PROVE  EventsInv'
<1>1. PICK l, c, n, o, q : l = log /\ c = cursor /\ n = last /\ o = owed /\ q = stream.queue
  OBVIOUS
<1>2. PICK k, s, w : k = Append(l, e) /\ s = Append(q, e) /\ w = o \cup {n + 1}
  OBVIOUS
<1>3. EventsOK(l, c, n, o) /\ e.id = n + 1
  BY <1>1 DEF EventsInv
<1>4. n \in Nat /\ c \in Nat /\ c <= n
  BY <1>3 DEF EventsOK
<1>5. EventsOK(k, c, n + 1, w)
  BY <1>2, <1>3, EventsAppend
<1>6. log' = k /\ cursor' = c /\ last' = n + 1 /\ owed' = w
  BY <1>1, <1>2 DEF Broadcast
<1>7. CASE ~stream.open
  <2>1. stream' = stream
    BY <1>7 DEF Broadcast
  <2> QED BY <1>5, <1>6, <1>7, <2>1 DEF EventsInv
<1>8. CASE stream.open
  <2>1. StreamOK(q, c, n, o)
    BY <1>1, <1>8 DEF EventsInv
  <2>2. StreamOK(s, c, n + 1, w)
    BY <1>2, <1>3, <1>4, <2>1, StreamAppend
  <2>3. PICK t : t = [stream EXCEPT !.queue = s]
    OBVIOUS
  <2>4. t = [open |-> stream.open, queue |-> s]
    BY <2>3 DEF EventsInv
  <2>5. stream' = t
    BY <1>1, <1>2, <1>8, <2>3 DEF Broadcast
  <2>6. stream' = [open |-> stream'.open, queue |-> stream'.queue] /\ stream'.queue = s
    BY <2>4, <2>5
  <2> QED BY <1>5, <1>6, <2>2, <2>6 DEF EventsInv
<1> QED BY <1>7, <1>8

LEMMA ConnectKept ==
  ASSUME EventsInv, NEW after \in {0, cursor}, Connect(after), UNCHANGED cursor
  PROVE  EventsInv'
<1>1. PICK l, c, n, o : l = log /\ c = cursor /\ n = last /\ o = owed
  OBVIOUS
<1>2. EventsOK(l, c, n, o)
  BY <1>1 DEF EventsInv
<1>3. n \in Nat /\ c \in Nat /\ InOrder(l, n)
  BY <1>2 DEF EventsOK
<1>4. Len(l) \in Nat /\ DOMAIN l = 1..Len(l)
  BY <1>3, LenProperties DEF InOrder
<1>5. PICK e : e = Event("snapshot", {}, snap')
  OBVIOUS
<1>6. e.id = n + 1 /\ e.type = "snapshot"
  BY <1>1, <1>5 DEF Event
<1>7. PICK f : f = [e EXCEPT !.type = "reset"]
  OBVIOUS
<1>8. f.id = n + 1 /\ f.type = "reset"
  <2>1. PICK r, T, a : e = [id |-> n + 1, type |-> "snapshot", rev |-> r, threads |-> T, active |-> a, gone |-> {}]
    BY <1>1, <1>5 DEF Event
  <2>2. f = [id |-> n + 1, type |-> "reset", rev |-> r, threads |-> T, active |-> a, gone |-> {}]
    BY <1>7, <2>1
  <2> QED BY <2>2
<1>9. PICK p : p = Replay(after, e)
  OBVIOUS
<1>10. /\ stream' = [open |-> TRUE, queue |-> p]
       /\ last' = (IF p # <<>> /\ p[1].id = n + 1 THEN n + 1 ELSE n)
       /\ log' = l /\ owed' = o /\ cursor' = c
  BY <1>1, <1>5, <1>9 DEF Connect
<1>11. stream' = [open |-> stream'.open, queue |-> stream'.queue] /\ stream'.queue = p
  BY <1>10
<1>12. ASSUME NEW x, x.id = n + 1, x.type \in Whole, p = <<x>> PROVE EventsInv'
  <2>1. EventsOK(l, c, n + 1, o) /\ StreamOK(p, c, n + 1, o)
    BY <1>2, <1>12, StreamFresh
  <2>2. p # <<>> /\ p[1] = x
    BY <1>12
  <2>3. last' = n + 1
    BY <1>10, <1>12, <2>2
  <2> QED BY <1>10, <1>11, <2>1, <2>3 DEF EventsInv
<1>13. CASE after = 0
  <2>1. p = <<e>> /\ e.type \in Whole
    BY <1>1, <1>6, <1>9, <1>13 DEF Replay, Whole
  <2> QED BY <1>6, <1>12, <2>1
<1>14. PICK at : at = {i \in DOMAIN log : log[i].id = after}
  OBVIOUS
<1>15. CASE after # 0 /\ at = {}
  <2>1. p = <<f>> /\ f.type \in Whole
    BY <1>1, <1>7, <1>8, <1>9, <1>14, <1>15 DEF Replay, Whole
  <2> QED BY <1>8, <1>12, <2>1
<1>16. CASE after # 0 /\ at # {}
  <2>1. PICK k : k = CHOOSE i \in at : TRUE
    OBVIOUS
  <2>2. k \in at
    BY <1>16, <2>1
  <2>3. k \in 1..Len(l) /\ l[k].id = c
    BY <1>1, <1>4, <1>14, <1>16, <2>2
  <2>4. p = SubSeq(l, k + 1, Len(l))
    BY <1>1, <1>9, <1>14, <1>16, <2>1 DEF Replay
  <2>5. StreamOK(p, c, n, o)
    BY <1>2, <2>3, <2>4, StreamReplay
  <2>6. p # <<>> => p[1].id <= n /\ p[1].id \in Nat
    <3>1. p \in Seq(Range(p)) /\ \A i \in 1..Len(p) : p[i].id \in Nat /\ p[i].id <= n
      BY <2>5 DEF StreamOK, InOrder
    <3>2. p # <<>> => 1 \in 1..Len(p)
      BY <3>1, EmptySeq
    <3> QED BY <3>1, <3>2
  <2>7. last' = n
    BY <1>3, <1>10, <2>6
  <2> QED BY <1>2, <1>10, <1>11, <2>5, <2>7 DEF EventsInv
<1> QED BY <1>13, <1>15, <1>16

LEMMA ReceiveKept ==
  ASSUME EventsInv, ReceiveEvent
  PROVE  EventsInv'
<1>1. PICK l, c, n, o, q : l = log /\ c = cursor /\ n = last /\ o = owed /\ q = stream.queue
  OBVIOUS
<1>2. EventsOK(l, c, n, o) /\ StreamOK(q, c, n, o) /\ q # <<>>
  BY <1>1 DEF EventsInv, ReceiveEvent
<1>3. PICK e, p : e = Head(q) /\ p = Tail(q)
  OBVIOUS
<1>4. PICK w : w = IF e.type \in Whole THEN {id \in o : id > e.id} ELSE o \ {e.id}
  OBVIOUS
<1>5. TabOK(l, p, e.id, n, w)
  BY <1>2, <1>3, <1>4, Received
<1>6. cursor' = e.id /\ owed' = w /\ log' = l /\ last' = n
  BY <1>1, <1>3, <1>4 DEF ReceiveEvent, Settled, Whole
<1>7. PICK t : t = [stream EXCEPT !.queue = p]
  OBVIOUS
<1>8. t = [open |-> stream.open, queue |-> p]
  BY <1>7 DEF EventsInv
<1>9. stream' = t \/ stream' = [open |-> FALSE, queue |-> <<>>]
  BY <1>1, <1>3, <1>7 DEF ReceiveEvent
<1>10. stream' = [open |-> stream'.open, queue |-> stream'.queue] /\ (stream'.queue = p \/ ~stream'.open)
  BY <1>8, <1>9
<1> QED BY <1>5, <1>6, <1>10 DEF EventsInv, TabOK

LEMMA EventsStep ==
  ASSUME EventsInv, TabNext
  PROVE  EventsInv'
<1>1. ASSUME NEW c \in Calls, CallSteps(c) \/ AskOther(c) \/ CallFails(c), UNCHANGED cursor PROVE EventsInv'
  <2>1. CASE Commit(c) \/ Build(c) \/ ReadRows(c) \/ AskOther(c) \/ CallFails(c)
    BY <1>1, <2>1, EventsKept DEF Commit, Build, ReadRows, AskOther, CallFails
  <2>2. CASE SetSnapshot(c)
    <3>1. PICK e : e = Event("refreshed", {}, snap')
      OBVIOUS
    <3>2. e.id = last + 1 /\ e.type \notin Whole
      BY <3>1 DEF Event, Whole
    <3>3. UNCHANGED <<log, last, stream, owed>> \/ Broadcast(e)
      BY <2>2, <3>1 DEF SetSnapshot
    <3> QED BY <1>1, <3>2, <3>3, EventsKept, BroadcastKept
  <2>3. CASE Publish(c)
    <3>1. \E gone : \E s : Broadcast(Event("run", gone, s)) \/ Broadcast(Event("changed", gone, s))
      BY <2>3 DEF Publish
    <3>2. PICK gone, s : Broadcast(Event("run", gone, s)) \/ Broadcast(Event("changed", gone, s))
      BY <3>1
    <3>3. PICK e, f : e = Event("run", gone, s) /\ f = Event("changed", gone, s)
      OBVIOUS
    <3>4. e.id = last + 1 /\ e.type \notin Whole /\ f.id = last + 1 /\ f.type \notin Whole
      BY <3>3 DEF Event, Whole
    <3>5. Broadcast(e) \/ Broadcast(f)
      BY <3>2, <3>3
    <3> QED BY <1>1, <3>4, <3>5, BroadcastKept
  <2> QED BY <1>1, <2>1, <2>2, <2>3 DEF CallSteps
<1>2. CASE SessionSteps /\ UNCHANGED tabVars
  <2>1. UNCHANGED cursor
    BY <1>2 DEF tabVars
  <2>2. CASE StreamEnds \/ Restart
    BY <2>1, <2>2, EventsKept DEF StreamEnds, Restart
  <2>3. CASE Expire
    <3>1. PICK l, c, n, o, p : l = log /\ c = cursor /\ n = last /\ o = owed /\ p = Tail(log)
      OBVIOUS
    <3>2. EventsOK(l, c, n, o) /\ l # <<>> /\ p = Tail(l)
      BY <2>3, <3>1 DEF EventsInv, Expire
    <3>3. EventsOK(p, c, n, o)
      BY <3>2, EventsTail
    <3>4. log' = p /\ cursor' = c /\ last' = n /\ owed' = o /\ stream' = stream
      BY <2>1, <2>3, <3>1 DEF Expire
    <3> QED BY <3>1, <3>3, <3>4 DEF EventsInv
  <2> QED BY <1>1, <1>2, <2>1, <2>2, <2>3 DEF SessionSteps
<1>3. CASE Reconnect
  <2>1. PICK after \in {0, cursor} : after = IF resumes THEN cursor ELSE 0
    OBVIOUS
  <2>2. Connect(after) /\ UNCHANGED cursor
    BY <1>3, <2>1 DEF Reconnect, tabVars
  <2> QED BY <2>1, <2>2, ConnectKept
<1>4. CASE ReceiveEvent
  BY <1>4, ReceiveKept
<1>5. ASSUME NEW c \in Calls, TabSteps(c) \/ StartNewSession(c) PROVE EventsInv'
  BY <1>5, EventsKept DEF TabSteps, Read, Answered, Failed, Deleted, DeleteMissing, DeleteFailed, Reconciled,
     RollBack, StartNewSession, RowsKept, StreamKept, StreamFollows, tabVars
<1>6. ASSUME NEW c \in Calls, NEW t \in Threads, ActivateThread(c, t) \/ ArchiveThread(c, t) \/ DeleteThread(c, t)
      PROVE  EventsInv'
  BY <1>6, EventsKept DEF ActivateThread, ArchiveThread, DeleteThread, RowsKept, StreamKept,
     StreamFollows, tabVars
<1> QED BY <1>2, <1>3, <1>4, <1>5, <1>6 DEF TabNext

(* A connected tab has every broadcast it has not received on its way,     *)
(* once and in order, or a newer whole session before it: however often it *)
(* was cut off, the events expired or the object restarted.                *)
THEOREM EventsComplete == TabSpec => []NothingMissed
<1>1. EventInit /\ TabInit => EventsInv
  <2> SUFFICES ASSUME EventInit, TabInit PROVE EventsInv
    OBVIOUS
  <2>1. InOrder(<<>>, 0) /\ Len(<<>>) = 0
    BY OrderNone
  <2>2. log = <<>> /\ last = 0 /\ cursor = 0 /\ owed = {}
    BY DEF EventInit, TabInit
  <2>3. EventsOK(log, cursor, last, owed)
    BY <2>1, <2>2 DEF EventsOK
  <2>4. stream = [open |-> FALSE, queue |-> <<>>]
    BY DEF EventInit
  <2>5. stream = [open |-> stream.open, queue |-> stream.queue] /\ ~stream.open
    BY <2>4
  <2> QED BY <2>3, <2>5 DEF EventsInv
<1>2. ASSUME EventsInv, [TabNext]_svars PROVE EventsInv'
  <2>1. CASE TabNext
    BY <1>2, <2>1, EventsStep
  <2>2. CASE UNCHANGED svars
    BY <1>2, <2>2, EventsKept DEF svars, evars, tabVars
  <2> QED BY <1>2, <2>1, <2>2
<1>3. EventsInv => NothingMissed
  <2> SUFFICES ASSUME EventsInv, stream.open PROVE NothingMissed
    BY DEF NothingMissed
  <2>1. PICK q, c, n, o : q = stream.queue /\ c = cursor /\ n = last /\ o = owed
    OBVIOUS
  <2>2. StreamOK(q, c, n, o) /\ EventsOK(log, c, n, o)
    BY <2>1 DEF EventsInv
  <2>3. InOrder(q, n)
    BY <2>2 DEF StreamOK
  <2>4. DOMAIN q = 1..Len(q) /\ Len(q) \in Nat
    BY <2>3, LenProperties DEF InOrder
  <2>5. ASSUME NEW id \in o PROVE \E i \in DOMAIN q : q[i].id = id \/ (q[i].id > id /\ q[i].type \in {"snapshot", "reset"})
    <3>1. id \in Nat /\ IsComing(q, id)
      BY <2>2 DEF StreamOK, EventsOK, OwedOK
    <3>2. PICK i \in 1..Len(q) : q[i].id = id \/ (q[i].type \in Whole /\ id < q[i].id)
      BY <3>1 DEF IsComing
    <3>3. q[i].id \in Nat /\ i \in DOMAIN q
      BY <2>3, <2>4 DEF InOrder
    <3>4. id < q[i].id => q[i].id > id
      BY <3>1, <3>3
    <3>5. q[i].id = id \/ (q[i].id > id /\ q[i].type \in {"snapshot", "reset"})
      BY <3>2, <3>4 DEF Whole
    <3> QED BY <3>3, <3>5
  <2>6. ASSUME NEW i \in DOMAIN q PROVE q[i].id \in o \/ q[i].type \in {"snapshot", "reset"}
    BY <2>2, <2>4 DEF StreamOK, ComingOK, Whole
  <2>7. ASSUME NEW i \in DOMAIN q, NEW j \in 1..(i - 1) PROVE q[j].id < q[i].id
    <3>1. i \in 1..Len(q) /\ j \in 1..Len(q) /\ j < i
      BY <2>4
    <3> QED BY <2>3, <3>1 DEF InOrder
  <2> QED BY <2>1, <2>5, <2>6, <2>7 DEF NothingMissed
<1> QED BY <1>1, <1>2, <1>3, PTL DEF TabSpec
===============================================================================
