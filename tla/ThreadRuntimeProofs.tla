------------------------- MODULE ThreadRuntimeProofs -------------------------
(***************************************************************************)
(* The runtime's stream and detail are those of the selected thread, and a *)
(* detail that has been read lacks no event it could have been sent, for   *)
(* any threads, reads, events, attempts, failures and expiries.            *)
(*                                                                         *)
(* Each method of the runtime is shown to keep the shapes of its record    *)
(* (Formed) and to open, show or answer nothing by itself (Onward); the    *)
(* few steps that do are taken one by one (StepCompletes).                 *)
(***************************************************************************)
EXTENDS ThreadRuntime, TLAPS

Fields == {"connection", "selected", "detail", "pending", "events", "global", "orphans", "loads",
           "resync", "read", "attempt", "timer", "credentials", "refreshing", "started"}

\* FollowsSelection of a state of the runtime, with its shape.
Follows(r) ==
  /\ DOMAIN r = Fields
  /\ DOMAIN r.events = {"phase", "thread", "sent"}
  /\ DOMAIN r.detail = {"kind", "thread", "has"}
  /\ r.events.phase # "closed" => r.events.thread = r.selected
  /\ r.detail.thread = r.selected

-----------------------------------------------------------------------------
(* The methods of the runtime                                              *)

\* Fields that are neither the selection nor what follows it do not matter.
LEMMA OtherField ==
  ASSUME NEW r, Follows(r), NEW f \in Fields \ {"selected", "detail", "events"}, NEW v
  PROVE  Follows([r EXCEPT ![f] = v])
BY DEF Follows, Fields

\* A detail of the selected thread, or a stream that is closed, follows it.
LEMMA FollowingField ==
  ASSUME NEW r, Follows(r), NEW kind, NEW has
  PROVE  /\ Follows([r EXCEPT !.detail = Detail(kind, r.selected, has)])
         /\ Follows([r EXCEPT !.events = NoStream])
BY DEF Follows, Fields, Detail, NoStream

\* The methods that touch credentials, timers and connections only.
LEMMA OutsideMethods ==
  ASSUME NEW r, Follows(r), NEW t
  PROVE  /\ Follows(Refresh(r))
         /\ Follows(Touch(r))
         /\ Follows(markAuthenticated(r))
         /\ Follows(refreshed(r))
         /\ Follows(Ended(r))
         /\ Follows(Forget(r, t))
         /\ Follows(readsAreSent(r))
BY DEF Follows, Fields, Refresh, Touch, markAuthenticated, refreshed, Ended, Forget, readsAreSent

\* Closing a stream.
LEMMA ClosingMethods ==
  ASSUME NEW r, Follows(r), NEW kind
  PROVE  /\ Follows(disconnectEvents(r)) /\ disconnectEvents(r).selected = r.selected
         /\ Follows(disconnectGlobalEvents(r)) /\ disconnectGlobalEvents(r).selected = r.selected
         /\ disconnectEvents(r).events.phase = "closed"
         /\ Follows(applySessionLoss(r, kind))
BY DEF Follows, Fields, disconnectEvents, disconnectGlobalEvents, Close, NoStream,
       applySessionLoss, Idle, Detail

\* Reconnecting.
LEMMA ReconnectingMethods ==
  ASSUME NEW r, Follows(r)
  PROVE  /\ Follows(scheduleReconnect(r))
         /\ Follows(eventsLost(r))
         /\ Follows(globalLost(r))
<1>1. ASSUME NEW q, Follows(q) PROVE Follows(scheduleReconnect(q))
  <2>1. \A v, w : Follows([q EXCEPT !.attempt = v, !.timer = w])
    BY <1>1 DEF Follows, Fields
  <2>2. \A v : Follows([applySessionLoss(q, "unreachable") EXCEPT !.credentials = v])
    BY <1>1, ClosingMethods DEF Follows, Fields
  <2> QED
    BY <1>1, <2>1, <2>2 DEF scheduleReconnect
<1>2. Follows([disconnectEvents(r) EXCEPT !.connection = "reconnecting"])
  BY ClosingMethods DEF Follows, Fields
<1> QED
  BY <1>1, <1>2 DEF eventsLost, globalLost

\* Another thread is selected, or none, while the stream is closed.
LEMMA Selecting ==
  ASSUME NEW r, Follows(r), r.events.phase = "closed", NEW t, NEW kind, NEW has
  PROVE  Follows([r EXCEPT !.selected = t, !.detail = Detail(kind, t, has)])
BY DEF Follows, Fields, Detail

\* Opening the streams: that of a thread is opened for the selected one.
LEMMA OpeningMethods ==
  ASSUME NEW r, Follows(r)
  PROVE  /\ Follows(connectEvents(r, r.selected))
         /\ Follows(connectGlobalEvents(r))
<1>1. Follows(Open(r, "events", r.selected))
  <2> DEFINE c(p) == [Close(r, "events") EXCEPT
                        !["events"] = [phase |-> p, thread |-> r.selected, sent |-> {}]]
  <2>1. \A p : Follows(c(p))
    BY DEF Follows, Fields, Close, NoStream
  <2> QED
    BY <2>1, OutsideMethods DEF Open
<1>2. Follows(Open(r, "global", None))
  <2> DEFINE c(p) == [Close(r, "global") EXCEPT
                        !["global"] = [phase |-> p, thread |-> None, sent |-> {}]]
  <2>1. \A p : Follows(c(p))
    BY DEF Follows, Fields, Close, NoStream
  <2> QED
    BY <2>1, OutsideMethods DEF Open
<1> QED
  BY <1>1, <1>2, ClosingMethods DEF connectEvents, connectGlobalEvents

\* The resync, from its start to its end.
LEMMA ResyncMethods ==
  ASSUME NEW r, Follows(r)
  PROVE  /\ Follows(List(r))
         /\ Follows(Resync(r))
         /\ Follows(bootstrap(r))
         /\ Follows(Listed(r))
         /\ Follows(Restored(r))
         /\ Follows(resyncErrs(r))
         /\ Follows(resyncFails(r))
<1>1. ASSUME NEW q, Follows(q) PROVE Follows(List(q))
  <2>1. Follows([q EXCEPT !.connection = "resyncing", !.resync = "list",
                  !.detail = IF q.selected # None /\ @.kind # "ready"
                             THEN Detail("loading", q.selected, {}) ELSE @,
                  !.read = Read(q, None)])
    BY <1>1 DEF Follows, Fields, Detail
  <2> QED
    BY <2>1, OutsideMethods DEF List
<1>2. Follows(Resync(r))
  <2> DEFINE c == [r EXCEPT !.timer = FALSE]
  <2>1. Follows(c)
    BY DEF Follows, Fields
  <2>2. Follows([c EXCEPT !.connection = "refreshing", !.resync = "refresh"])
    BY <2>1 DEF Follows, Fields
  <2> HIDE DEF c
  <2>3. Follows(applySessionLoss(c, "unpaired")) /\ Follows(List(c))
    BY <1>1, <2>1, ClosingMethods
  <2>4. Follows(Refresh([c EXCEPT !.connection = "refreshing", !.resync = "refresh"]))
    BY <2>2, OutsideMethods
  <2> QED
    BY <2>3, <2>4 DEF Resync, c
<1>3. Follows(bootstrap(r))
  BY <1>2, ClosingMethods DEF bootstrap
<1>4. Follows(Listed(r))
  <2>1. CASE r.selected = None
    <3>1. Follows([disconnectEvents(r) EXCEPT !.detail = Idle])
      BY <2>1, ClosingMethods, FollowingField DEF Idle
    <3> QED
      BY <2>1, <3>1, OpeningMethods, OutsideMethods DEF Listed
  <2>2. CASE r.selected # None
    <3>1. Follows([r EXCEPT !.resync = "detail", !.read = Read(r, r.selected),
                       !.detail = IF @.kind = "ready" /\ @.thread = r.selected
                                  THEN @ ELSE Detail("loading", r.selected, {})])
      BY DEF Follows, Fields, Detail
    <3> QED
      BY <2>2, <3>1, OutsideMethods DEF Listed
  <2> QED
    BY <2>1, <2>2
<1>5. Follows(Restored(r))
  <2> DEFINE t == r.read.thread
             d == [Forget(r, t) EXCEPT !.detail = Drained(r, t, r.read.has)]
  <2>1. CASE r.selected # t
    BY <2>1, OutsideMethods DEF Restored
  <2>2. CASE r.selected = t
    <3>1. Follows(d) /\ d.selected = t
      BY <2>2 DEF Follows, Fields, Forget, Drained, Detail
    <3> HIDE DEF d
    <3>2. Follows(connectGlobalEvents(connectEvents(d, t)))
      BY <3>1, OpeningMethods
    <3> QED
      BY <2>2, <3>2, OutsideMethods DEF Restored, d
  <2> QED
    BY <2>1, <2>2
<1>6. Follows(resyncErrs(r))
  <2>1. Follows([Ended(r) EXCEPT !.detail = IF r.selected = None THEN @
                                            ELSE Detail("error", r.selected, {})])
    BY DEF Follows, Fields, Ended, Detail
  <2> QED
    BY <2>1, OutsideMethods DEF resyncErrs
<1>7. Follows(resyncFails(r))
  <2> DEFINE d == scheduleReconnect([disconnectEvents(Ended(r)) EXCEPT !.connection = "disconnected"])
  <2>1. Follows(disconnectEvents(Ended(r)))
    BY OutsideMethods, ClosingMethods
  <2>2. Follows([disconnectEvents(Ended(r)) EXCEPT !.connection = "disconnected"])
    BY <2>1 DEF Follows, Fields
  <2>3. Follows(d)
    BY <2>2, ReconnectingMethods
  <2> HIDE DEF d
  <2>4. Follows([d EXCEPT !.detail = IF d.selected # None /\ @.kind # "ready"
                                     THEN Detail("error", d.selected, {}) ELSE @])
    BY <2>3 DEF Follows, Fields, Detail
  <2> QED
    BY <2>4 DEF resyncFails, d
<1> QED
  BY <1>1, <1>2, <1>3, <1>4, <1>5, <1>6, <1>7
\* Reads of a thread: only the answer for the selected one is shown.
LEMMA LoadingMethods ==
  ASSUME NEW r, Follows(r), NEW l \in Loads
  PROVE  /\ Follows(Load(r, l, r.selected))
         /\ Follows(loadReturns(r, l))
         /\ Follows(loadFails(r, l))
         /\ Follows(loadErrs(r, l))
<1>1. Follows(Load(r, l, r.selected))
  <2> DEFINE p == [r EXCEPT !.pending[r.selected] = {}]
             c == connectEvents(p, r.selected)
  <2>1. Follows(p) /\ p.selected = r.selected
    BY DEF Follows, Fields
  <2> HIDE DEF p
  <2>2. Follows(c)
    BY <2>1, OpeningMethods
  <2> HIDE DEF c
  <2>3. Follows([c EXCEPT !.loads[l] = Read(c, r.selected)])
    BY <2>2 DEF Follows, Fields
  <2> QED
    BY <2>2, <2>3 DEF Load, c, p
<1>2. Follows([r EXCEPT !.loads[l] = NoRead])
  BY DEF Follows, Fields
<1>3. Follows(loadReturns(r, l))
  BY DEF Follows, Fields, loadReturns, Forget, Drained, Detail
<1>4. Follows(loadFails(r, l))
  <2>1. Follows([[r EXCEPT !.loads[l] = NoRead] EXCEPT !.connection = "reconnecting"])
    BY DEF Follows, Fields
  <2> QED
    BY <1>2, <2>1, ReconnectingMethods DEF loadFails
<1>5. Follows(loadErrs(r, l))
  BY DEF Follows, Fields, loadErrs, Detail
<1> QED
  BY <1>1, <1>3, <1>4, <1>5

\* What those who wait for a refresh do when it fails.
LEMMA RefreshFailsMethods ==
  ASSUME NEW r, Follows(r)
  PROVE  /\ Follows(streamsFail(loadsFail(r)))
         /\ Follows(resyncFailsToo(r))
<1>1. Follows(loadsFail(r))
  <2> DEFINE d == [r EXCEPT !.loads = [l \in Loads |-> IF l \in WaitingLoads(r) THEN NoRead ELSE @[l]]]
  <2>1. Follows(d)
    BY DEF Follows, Fields
  <2> HIDE DEF d
  <2>2. Follows([d EXCEPT !.connection = "reconnecting"])
    BY <2>1 DEF Follows, Fields
  <2> QED
    BY <2>1, <2>2, ReconnectingMethods DEF loadsFail, d
<1>2. ASSUME NEW q, Follows(q) PROVE Follows(streamsFail(q))
  <2> DEFINE g == IF q.global.phase = "connecting" THEN globalLost([q EXCEPT !.global = NoStream]) ELSE q
  <2>1. Follows([q EXCEPT !.global = NoStream])
    BY <1>2 DEF Follows, Fields
  <2>2. Follows(g)
    BY <1>2, <2>1, ReconnectingMethods
  <2> HIDE DEF g
  <2>3. Follows(eventsLost([g EXCEPT !.events = NoStream]))
    BY <2>2, FollowingField, ReconnectingMethods
  <2> QED
    BY <2>2, <2>3 DEF streamsFail, g
<1>3. Follows(resyncFailsToo(r))
  BY ResyncMethods DEF resyncFailsToo
<1> QED
  BY <1>1, <1>2, <1>3

\* What they do when it succeeds, and when the session is lost.
LEMMA RefreshSucceedsMethods ==
  ASSUME NEW r, Follows(r), NEW kind
  PROVE  /\ Follows(streamsConnect(r))
         /\ Follows(resyncGoesOn(r))
         /\ Follows(denied(r, kind))
<1>1. ASSUME NEW q, Follows(q) PROVE Follows(orphansReport(q))
  <2> DEFINE g == IF None \in q.orphans THEN globalLost(q) ELSE q
             s == IF g.selected \in Threads \cap q.orphans THEN applySessionLoss(g, "unpaired") ELSE g
  <2>1. Follows(g)
    BY <1>1, ReconnectingMethods
  <2> HIDE DEF g
  <2>2. Follows(s)
    BY <2>1, ClosingMethods
  <2> HIDE DEF s
  <2>3. Follows([s EXCEPT !.orphans = {}])
    BY <2>2 DEF Follows, Fields
  <2> QED
    BY <2>3 DEF orphansReport, s, g
<1>2. Follows(streamsConnect(r))
  <2> DEFINE Connected(s) == IF s.phase = "connecting" THEN [s EXCEPT !.phase = "opening"] ELSE s
  <2>1. Follows([r EXCEPT !.events = Connected(@), !.global = Connected(@)])
    BY DEF Follows, Fields
  <2> QED
    BY <1>1, <2>1 DEF streamsConnect
<1>3. Follows(resyncGoesOn(r))
  BY ResyncMethods DEF resyncGoesOn
<1>4. Follows(denied(r, kind))
  <2> DEFINE c == [r EXCEPT !.refreshing = FALSE, !.credentials = "none",
                            !.loads = [l \in Loads |-> IF l \in WaitingLoads(r) THEN NoRead ELSE @[l]]]
             d == applySessionLoss(c, kind)
             e == IF resyncWaits(r) THEN Ended(d) ELSE d
  <2>1. Follows(c)
    BY DEF Follows, Fields
  <2> HIDE DEF c
  <2>2. Follows(d)
    BY <2>1, ClosingMethods
  <2> HIDE DEF d
  <2>3. Follows(e)
    BY <2>2, OutsideMethods
  <2> HIDE DEF e
  <2>4. Follows([e EXCEPT !.orphans = {}])
    BY <2>3 DEF Follows, Fields
  <2> QED
    BY <2>4 DEF denied, e, d, c
<1> QED
  BY <1>2, <1>3, <1>4

-----------------------------------------------------------------------------
(* The steps                                                               *)

\* The user and the provider.
LEMMA UserSteps ==
  ASSUME Follows(rt),
         \/ Bootstrap \/ RetryConnection \/ ReportConnectionFailure \/ Deselect \/ OtherRequest
         \/ Logout \/ Pair
         \/ \E t \in Threads : SelectThread(t) \/ StartThread(t)
  PROVE  Follows(rt')
<1> USE DEF Becomes
<1>1. CASE Bootstrap
  <2>1. Follows([rt EXCEPT !.started = TRUE])
    BY DEF Follows, Fields
  <2> QED
    BY <1>1, <2>1, ResyncMethods DEF Bootstrap
<1>2. CASE RetryConnection
  <2>1. Follows([rt EXCEPT !.connection = "reconnecting"])
    BY DEF Follows, Fields
  <2> QED
    BY <1>2, <2>1, ResyncMethods, ClosingMethods DEF RetryConnection
<1>3. CASE ReportConnectionFailure
  <2> DEFINE d == disconnectEvents(rt)
  <2>1. Follows(d) /\ d.selected = rt.selected
    BY ClosingMethods
  <2> HIDE DEF d
  <2>2. \A s : Follows([d EXCEPT !.started = s, !.timer = FALSE, !.pending = [t \in Threads |-> {}],
                          !.connection = "disconnected",
                          !.detail = IF rt.selected # None /\ @.kind # "ready"
                                     THEN Detail("error", rt.selected, {}) ELSE @])
    BY <2>1 DEF Follows, Fields, Detail
  <2>3. PICK s \in {rt.started, TRUE} :
          rt' = [d EXCEPT !.started = s, !.timer = FALSE, !.pending = [t \in Threads |-> {}],
                          !.connection = "disconnected",
                          !.detail = IF rt.selected # None /\ @.kind # "ready"
                                     THEN Detail("error", rt.selected, {}) ELSE @]
    BY <1>3 DEF ReportConnectionFailure, d
  <2> QED
    BY <2>2, <2>3
<1>4. CASE Deselect
  <2> DEFINE d == disconnectEvents(rt)
  <2>1. Follows(d) /\ d.events.phase = "closed"
    BY ClosingMethods
  <2> HIDE DEF d
  <2>2. Follows([d EXCEPT !.pending = [t \in Threads |-> {}], !.selected = None, !.detail = Idle])
    <3> DEFINE p == [d EXCEPT !.pending = [t \in Threads |-> {}]]
    <3>1. Follows(p) /\ p.events.phase = "closed"
      BY <2>1 DEF Follows, Fields
    <3> HIDE DEF p
    <3>2. Follows([p EXCEPT !.selected = None, !.detail = Idle])
      BY <3>1, Selecting DEF Idle
    <3> QED
      BY <3>2 DEF p
  <2> QED
    BY <1>4, <2>2 DEF Deselect, d
<1>5. CASE OtherRequest
  BY <1>5, OutsideMethods DEF OtherRequest
<1>6. CASE Logout
  <2> DEFINE d == disconnectGlobalEvents(disconnectEvents(rt))
  <2>1. Follows(d) /\ d.events.phase = "closed"
    BY DEF Follows, Fields, disconnectGlobalEvents, disconnectEvents, Close, NoStream
  <2> HIDE DEF d
  <2>2. Follows([d EXCEPT !.credentials = "none", !.timer = FALSE, !.pending = [t \in Threads |-> {}],
                          !.connection = "unpaired", !.selected = None, !.detail = Idle])
    <3> DEFINE p == [d EXCEPT !.credentials = "none", !.timer = FALSE,
                              !.pending = [t \in Threads |-> {}], !.connection = "unpaired"]
    <3>1. Follows(p) /\ p.events.phase = "closed"
      BY <2>1 DEF Follows, Fields
    <3> HIDE DEF p
    <3>2. Follows([p EXCEPT !.selected = None, !.detail = Idle])
      BY <3>1, Selecting DEF Idle
    <3> QED
      BY <3>2 DEF p
  <2> QED
    BY <1>6, <2>2 DEF Logout, d
<1>7. CASE Pair
  <2>1. Follows([rt EXCEPT !.credentials = "fresh"])
    BY DEF Follows, Fields
  <2> QED
    BY <1>7, <2>1, ResyncMethods DEF Pair
<1>8. ASSUME NEW t \in Threads, SelectThread(t) PROVE Follows(rt')
  <2> DEFINE d == disconnectEvents(rt)
             s == [d EXCEPT !.pending[t] = {}, !.selected = t, !.detail = Detail("loading", t, {})]
  <2>1. Follows(d) /\ d.events.phase = "closed"
    BY ClosingMethods
  <2> HIDE DEF d
  <2>2. Follows(s) /\ s.selected = t
    <3> DEFINE p == [d EXCEPT !.pending[t] = {}]
    <3>1. Follows(p) /\ p.events.phase = "closed"
      BY <2>1 DEF Follows, Fields
    <3> HIDE DEF p
    <3>2. Follows([p EXCEPT !.selected = t, !.detail = Detail("loading", t, {})])
      BY <3>1, Selecting
    <3>3. s.selected = t
      BY <2>1 DEF Follows, Fields
    <3> QED
      BY <3>2, <3>3 DEF p
  <2> HIDE DEF s
  <2>3. \A l \in Loads : Follows(Load(s, l, t))
    BY <2>2, LoadingMethods
  <2> QED
    BY <1>8, <2>2, <2>3 DEF SelectThread, s, d
<1>9. ASSUME NEW t \in Threads, StartThread(t) PROVE Follows(rt')
  <2> DEFINE d == disconnectEvents(rt)
             s == [d EXCEPT !.pending[t] = {}, !.selected = t, !.detail = Detail("ready", t, {})]
  <2>1. Follows(d) /\ d.events.phase = "closed"
    BY ClosingMethods
  <2> HIDE DEF d
  <2>2. Follows(s) /\ s.selected = t
    <3> DEFINE p == [d EXCEPT !.pending[t] = {}]
    <3>1. Follows(p) /\ p.events.phase = "closed"
      BY <2>1 DEF Follows, Fields
    <3> HIDE DEF p
    <3>2. Follows([p EXCEPT !.selected = t, !.detail = Detail("ready", t, {})])
      BY <3>1, Selecting
    <3>3. s.selected = t
      BY <2>1 DEF Follows, Fields
    <3> QED
      BY <3>2, <3>3 DEF p
  <2> HIDE DEF s
  <2>3. Follows(connectGlobalEvents(connectEvents(s, t)))
    BY <2>2, OpeningMethods
  <2> QED
    BY <1>9, <2>3 DEF StartThread, s, d
<1> QED
  BY <1>1, <1>2, <1>3, <1>4, <1>5, <1>6, <1>7, <1>8, <1>9

\* The bridge, and the answers to reads.
LEMMA ReadSteps ==
  ASSUME Follows(rt),
         \/ \E t \in Threads : Emit(t)
         \/ \E l \in Loads : AnswerLoad(l) \/ RefuseLoad(l) \/ LoadReturns(l) \/ LoadFails(l)
         \/ Revoke \/ AnswerDetail \/ RefuseResync \/ ListReturns \/ DetailReturns \/ ResyncFails
  PROVE  Follows(rt')
<1> USE DEF Becomes
<1>1. ASSUME NEW t \in Threads, Emit(t) PROVE Follows(rt')
  BY <1>1 DEF Follows, Fields, Emit
<1>2. ASSUME NEW l \in Loads, AnswerLoad(l) PROVE Follows(rt')
  BY <1>2 DEF Follows, Fields, AnswerLoad
<1>3. ASSUME NEW l \in Loads, RefuseLoad(l) PROVE Follows(rt')
  <2>1. Follows([rt EXCEPT !.loads[l].state = "waiting"]) /\ Follows([rt EXCEPT !.loads[l] = NoRead])
    BY DEF Follows, Fields
  <2>2. /\ Follows(Refresh([rt EXCEPT !.loads[l].state = "waiting"]))
        /\ Follows(applySessionLoss([rt EXCEPT !.loads[l] = NoRead], "unpaired"))
    BY <2>1, OutsideMethods, ClosingMethods
  <2> QED
    BY <1>3, <2>1, <2>2 DEF RefuseLoad
<1>4. ASSUME NEW l \in Loads, LoadReturns(l) \/ LoadFails(l) PROVE Follows(rt')
  BY <1>4, LoadingMethods DEF LoadReturns, LoadFails
<1>5. CASE Revoke
  BY <1>5 DEF Revoke
<1>6. CASE AnswerDetail
  BY <1>6 DEF Follows, Fields, AnswerDetail
<1>7. CASE RefuseResync
  <2>1. Follows([rt EXCEPT !.read.state = "waiting"])
    BY DEF Follows, Fields
  <2>2. /\ Follows(Refresh([rt EXCEPT !.read.state = "waiting"]))
        /\ Follows(Ended(applySessionLoss(rt, "unpaired")))
    BY <2>1, OutsideMethods, ClosingMethods
  <2> QED
    BY <1>7, <2>2 DEF RefuseResync
<1>8. CASE ListReturns \/ DetailReturns \/ ResyncFails
  BY <1>8, ResyncMethods DEF ListReturns, DetailReturns, ResyncFails
<1> QED
  BY <1>1, <1>2, <1>3, <1>4, <1>5, <1>6, <1>7, <1>8

\* The streams and the timer.
LEMMA StreamSteps ==
  ASSUME Follows(rt),
         \/ \E field \in {"events", "global"} :
              StreamOpens(field) \/ StreamRefused(field) \/ StreamLost(field)
         \/ EventArrives \/ TimerFires
  PROVE  Follows(rt')
<1> USE DEF Becomes
<1>1. Follows(eventsLost(rt)) /\ Follows(globalLost([rt EXCEPT !.global = NoStream]))
  <2>1. Follows([rt EXCEPT !.global = NoStream])
    BY DEF Follows, Fields
  <2> QED
    BY <2>1, ReconnectingMethods
<1>2. ASSUME NEW field \in {"events", "global"}, StreamRefused(field) \/ StreamLost(field)
      PROVE  Follows(rt')
  BY <1>1, <1>2 DEF StreamRefused, StreamLost
<1>3. ASSUME StreamOpens("events") \/ StreamOpens("global") PROVE Follows(rt')
  BY <1>3 DEF Follows, Fields, StreamOpens
<1>4. CASE EventArrives
  <2>1. PICK e \in rt.events.sent :
          LET t == rt.events.thread
              s == [rt EXCEPT !.events.sent = @ \ {e}]
          IN  rt' = IF rt.detail.kind = "ready" THEN [s EXCEPT !.detail.has = @ \cup {e}]
                    ELSE [s EXCEPT !.pending[t] = @ \cup {e}]
    BY <1>4 DEF EventArrives
  <2> QED
    BY <2>1 DEF Follows, Fields
<1>5. CASE TimerFires
  <2>1. /\ Follows([rt EXCEPT !.timer = FALSE])
        /\ Follows([[rt EXCEPT !.timer = FALSE] EXCEPT !.connection = "reconnecting"])
    BY DEF Follows, Fields
  <2> QED
    BY <1>5, <2>1, ResyncMethods DEF TimerFires
<1> QED
  BY <1>2, <1>3, <1>4, <1>5

\* The session.
LEMMA SessionSteps ==
  ASSUME Follows(rt),
         \/ TokenAges \/ RefreshSucceeds \/ RefreshRecovered \/ RefreshFails
         \/ RefreshDenied \/ RefreshExpired
  PROVE  Follows(rt')
<1> USE DEF Becomes
<1>1. CASE TokenAges
  BY <1>1 DEF Follows, Fields, TokenAges
<1>2. Follows([rt EXCEPT !.refreshing = FALSE, !.credentials = "fresh"])
  BY DEF Follows, Fields
<1>3. ASSUME NEW r, Follows(r)
      PROVE  /\ Follows(resyncGoesOn(streamsConnect(readsAreSent(r))))
             /\ Follows(streamsConnect(resyncGoesOn(readsAreSent(r))))
  BY <1>3, OutsideMethods, RefreshSucceedsMethods
<1>4. CASE RefreshSucceeds
  <2> DEFINE r == refreshed([rt EXCEPT !.refreshing = FALSE, !.credentials = "fresh"])
  <2>1. Follows(r)
    BY <1>2, OutsideMethods
  <2>2. \/ rt' = resyncGoesOn(streamsConnect(readsAreSent(r)))
        \/ rt' = streamsConnect(resyncGoesOn(readsAreSent(r)))
    BY <1>4 DEF RefreshSucceeds, FirstOrLast
  <2> QED
    BY <1>3, <2>1, <2>2
<1>5. CASE RefreshRecovered
  <2> DEFINE r == [rt EXCEPT !.refreshing = FALSE, !.credentials = "fresh"]
  <2>1. \/ rt' = resyncGoesOn(streamsConnect(readsAreSent(r)))
        \/ rt' = streamsConnect(resyncGoesOn(readsAreSent(r)))
    BY <1>5 DEF RefreshRecovered, FirstOrLast
  <2> QED
    BY <1>2, <1>3, <2>1
<1>6. CASE RefreshFails
  <2> DEFINE d == [rt EXCEPT !.refreshing = FALSE, !.orphans = {}]
  <2>1. Follows(d)
    BY DEF Follows, Fields
  <2>2. \/ rt' = resyncFailsToo(streamsFail(loadsFail(d)))
        \/ rt' = streamsFail(loadsFail(resyncFailsToo(d)))
    BY <1>6 DEF RefreshFails, FirstOrLast
  <2> QED
    BY <2>1, <2>2, RefreshFailsMethods
<1>7. CASE RefreshDenied \/ RefreshExpired
  BY <1>7, RefreshSucceedsMethods DEF RefreshDenied, RefreshExpired
<1> QED
  BY <1>1, <1>4, <1>5, <1>6, <1>7

\* The runtime starts with nothing selected.
LEMMA InitFollows == Init => Follows(rt)
<1> SUFFICES ASSUME Init PROVE Follows(rt)
  OBVIOUS
<1>1. PICK c \in {"fresh", "stale", "none"} : rt = createInitialSnapshot(c)
  BY DEF Init
<1> QED
  BY <1>1 DEF createInitialSnapshot, Follows, Fields, NoStream, Idle, Detail

\* Every step of the runtime keeps it on the selection.
LEMMA StepFollows == Follows(rt) /\ [Next]_vars => Follows(rt)'
<1> SUFFICES ASSUME Follows(rt), [Next]_vars PROVE Follows(rt)'
  OBVIOUS
<1>1. CASE UNCHANGED vars
  BY <1>1 DEF vars, Follows
<1>2. CASE Next
  BY <1>2, UserSteps, ReadSteps, StreamSteps, SessionSteps DEF Next
<1> QED
  BY <1>1, <1>2

\* The stream and the detail of the runtime are those of the selected thread
\* (FollowsSelection), whatever reads, refreshes, losses and resyncs overlap,
\* for any threads, events, attempts and failures.
THEOREM RuntimeFollows == Spec => []FollowsSelection
<1>1. Follows(rt) => FollowsSelection
  BY DEF Follows, FollowsSelection
<1> QED
  BY InitFollows, StepFollows, <1>1, PTL DEF Spec

-----------------------------------------------------------------------------
(* Shapes, and what a method may change                                    *)

Snapshots ==
  [connection : Connections, selected : Threads \cup {None}, detail : Details,
   pending : [Threads -> SUBSET Numbers], events : Streams, global : Streams,
   orphans : SUBSET (Threads \cup {None}), loads : [Loads -> Reads],
   resync : {"idle", "refresh", "list", "detail"}, read : Reads,
   attempt : 0 .. MaxAttempts, timer : BOOLEAN,
   credentials : {"fresh", "stale", "none"}, refreshing : BOOLEAN, started : BOOLEAN]

\* Streams, reads of a detail and the resync's are of a thread, and events are
\* on a stream that is open.
Formed(r) ==
  /\ r \in Snapshots
  /\ r.events.phase # "closed" => r.events.thread \in Threads
  /\ r.events.sent # {} => r.events.phase = "open"
  /\ \A l \in Loads : r.loads[l].state # "none" => r.loads[l].thread \in Threads
  /\ r.resync = "detail" => r.read.thread \in Threads

\* A method may close a stream, hide a detail and drop a read, but it neither
\* opens, shows nor answers one.
Onward(r, s) ==
  /\ s.events.phase = "open" => s.events = r.events
  /\ s.detail.kind = "ready" => s.detail = r.detail
  /\ \A l \in Loads : s.loads[l].state = "answered" => s.loads[l] = r.loads[l]
  /\ s.read.state = "answered" => s.read = r.read

\* A read that was answered is shown, with what waited for it, or a new thread.
ShowsAnswer(r, s) ==
  \E q \in {r.loads[l] : l \in Loads} \cup {r.read} :
    /\ q.state = "answered" /\ q.thread \in Threads
    /\ s.detail = Drained(r, q.thread, q.has)

Answering(r, s) ==
  /\ s.events.phase = "open" => s.events = r.events
  /\ s.detail.kind = "ready" =>
       \/ s.detail = r.detail
       \/ ShowsAnswer(r, s)
       \/ s.detail.thread \in Threads /\ upstream[s.detail.thread] = 0
  /\ \A l \in Loads : s.loads[l].state = "answered" => s.loads[l] = r.loads[l]
  /\ s.read.state = "answered" => s.read = r.read

\* A method of a method.
LEMMA OnwardTwice ==
  ASSUME NEW r, NEW s, NEW u, Onward(r, s), Onward(s, u)
  PROVE  Onward(r, u)
  BY DEF Onward

\* What a method leaves of the stream, the detail and the reads.
StreamRests(r, s) ==
  \/ s.events = r.events
  \/ /\ s.events.phase # "open" /\ s.events.sent = {}
     /\ s.events.phase # "closed" => s.events.thread \in Threads

LoadsRest(r, s) ==
  \A l \in Loads : \/ s.loads[l] = r.loads[l]
                   \/ /\ s.loads[l].state # "answered"
                      /\ s.loads[l].state # "none" => s.loads[l].thread \in Threads

ReadRests(r, s) ==
  /\ s.read = r.read \/ s.read.state # "answered"
  /\ s.resync = "detail" => s.read.thread \in Threads \/ (s.read = r.read /\ s.resync = r.resync)

LEMMA Moves ==
  ASSUME NEW r, Formed(r), NEW s \in Snapshots,
         StreamRests(r, s), s.detail = r.detail \/ s.detail.kind # "ready", LoadsRest(r, s), ReadRests(r, s)
  PROVE  Formed(s) /\ Onward(r, s)
  BY DEF Formed, Onward, StreamRests, LoadsRest, ReadRests

\* What is neither stream, detail nor read is changed freely.
LEMMA FreeFields ==
  ASSUME NEW r, Formed(r), NEW s \in Snapshots,
         s.events = r.events, s.detail = r.detail, s.loads = r.loads, s.read = r.read, s.resync = r.resync
  PROVE  Formed(s) /\ Onward(r, s)
  BY DEF Formed, Onward

\* The names of connections.
LEMMA ConnectionsAre ==
  /\ Lost \subseteq Connections /\ Terminal \subseteq Lost /\ "unpaired" \in Lost
  /\ {"expired", "revoked", "unreachable"} \subseteq Lost
  /\ {"disconnected", "refreshing", "resyncing", "authenticated", "reconnecting"} \subseteq Connections
  BY DEF Connections, Lost, Terminal

\* A closed stream, and no read.
LEMMA NothingTyped == NoStream \in Streams /\ NoRead \in Reads /\ Idle \in Details
  BY DEF NoStream, NoRead, Idle, Detail, Streams, Reads, Details

\* The methods that touch credentials, timers and connections only.
LEMMA OutsideForms ==
  ASSUME NEW r, Formed(r)
  PROVE  /\ Formed(Refresh(r)) /\ Onward(r, Refresh(r))
         /\ Formed(Touch(r)) /\ Onward(r, Touch(r))
         /\ Formed(markAuthenticated(r)) /\ Onward(r, markAuthenticated(r))
         /\ Formed(refreshed(r)) /\ Onward(r, refreshed(r))
<1>0. r \in Snapshots /\ Onward(r, r)
  BY DEF Formed, Onward
<1>1. Formed(Refresh(r)) /\ Onward(r, Refresh(r))
  <2> DEFINE c == IF r.connection \in Terminal THEN r.connection ELSE "refreshing"
             s == [r EXCEPT !.refreshing = TRUE, !.connection = c]
  <2>1. c \in Connections
    BY <1>0, ConnectionsAre DEF Snapshots
  <2>2. ~r.refreshing => Refresh(r) = s
    BY DEF Refresh
  <2> HIDE DEF c
  <2>3. s \in Snapshots
    BY <1>0, <2>1 DEF Snapshots
  <2>4. /\ s.events = r.events /\ s.detail = r.detail /\ s.loads = r.loads
        /\ s.read = r.read /\ s.resync = r.resync
    BY <1>0 DEF Snapshots
  <2> HIDE DEF s
  <2>5. Formed(s) /\ Onward(r, s)
    BY <2>3, <2>4, FreeFields
  <2> QED
    BY <1>0, <2>2, <2>5 DEF Refresh
<1>2. Formed(markAuthenticated(r)) /\ Onward(r, markAuthenticated(r))
  <2> DEFINE s == markAuthenticated(r)
  <2>1. 0 \in 0 .. MaxAttempts
    BY RuntimeAssumption
  <2>2. s \in Snapshots
    BY <1>0, <2>1, ConnectionsAre DEF Snapshots, markAuthenticated
  <2>3. /\ s.events = r.events /\ s.detail = r.detail /\ s.loads = r.loads
        /\ s.read = r.read /\ s.resync = r.resync
    BY <1>0 DEF Snapshots, markAuthenticated
  <2> HIDE DEF s
  <2> QED
    BY <2>2, <2>3, FreeFields DEF s
<1> QED
  BY <1>0, <1>1, <1>2 DEF Touch, refreshed

\* The reads of the resync and of others.
LEMMA ReadForms ==
  ASSUME NEW r, Formed(r)
  PROVE  /\ Formed(Ended(r)) /\ Onward(r, Ended(r))
         /\ Formed(readsAreSent(r)) /\ Onward(r, readsAreSent(r))
         /\ \A t : Formed(Forget(r, t)) /\ Onward(r, Forget(r, t))
<1>1. Formed(Ended(r)) /\ Onward(r, Ended(r))
  BY NothingTyped DEF Formed, Onward, Snapshots, Ended, NoRead
<1>2. Formed(readsAreSent(r)) /\ Onward(r, readsAreSent(r))
  BY DEF Formed, Onward, Snapshots, readsAreSent, Reads
<1>3. ASSUME NEW t PROVE Formed(Forget(r, t)) /\ Onward(r, Forget(r, t))
  BY DEF Formed, Onward, Snapshots, Forget
<1> QED
  BY <1>1, <1>2, <1>3

\* Closing a stream.
LEMMA ClosingForms ==
  ASSUME NEW r, Formed(r), NEW kind \in Lost
  PROVE  /\ Formed(disconnectEvents(r)) /\ Onward(r, disconnectEvents(r))
         /\ Formed(disconnectGlobalEvents(r)) /\ Onward(r, disconnectGlobalEvents(r))
         /\ Formed(applySessionLoss(r, kind)) /\ Onward(r, applySessionLoss(r, kind))
<1>1. ASSUME NEW q, Formed(q) PROVE Formed(disconnectEvents(q)) /\ Onward(q, disconnectEvents(q))
  <2> DEFINE o == IF q.events.phase = "connecting" THEN q.orphans \cup {q.events.thread} ELSE q.orphans
             s == [q EXCEPT !.events = NoStream, !.orphans = o]
  <2>0. q \in Snapshots
    BY <1>1 DEF Formed
  <2>1. o \in SUBSET (Threads \cup {None})
    BY <2>0 DEF Snapshots, Streams
  <2>2. disconnectEvents(q) = s
    BY DEF disconnectEvents, Close
  <2> HIDE DEF o
  <2>3. s \in Snapshots
    BY <2>0, <2>1, NothingTyped DEF Snapshots
  <2>4. /\ s.events = NoStream /\ s.detail = q.detail /\ s.loads = q.loads
        /\ s.read = q.read /\ s.resync = q.resync
    BY <2>0 DEF Snapshots
  <2> HIDE DEF s
  <2> QED
    BY <1>1, <2>2, <2>3, <2>4, Moves DEF StreamRests, LoadsRest, ReadRests, NoStream
<1>2. ASSUME NEW q, Formed(q) PROVE Formed(disconnectGlobalEvents(q)) /\ Onward(q, disconnectGlobalEvents(q))
  <2> DEFINE o == IF q.global.phase = "connecting" THEN q.orphans \cup {q.global.thread} ELSE q.orphans
             s == [q EXCEPT !.global = NoStream, !.orphans = o]
  <2>0. q \in Snapshots
    BY <1>2 DEF Formed
  <2>1. o \in SUBSET (Threads \cup {None})
    BY <2>0 DEF Snapshots, Streams
  <2>2. disconnectGlobalEvents(q) = s
    BY DEF disconnectGlobalEvents, Close
  <2> HIDE DEF o
  <2>3. s \in Snapshots
    BY <2>0, <2>1, NothingTyped DEF Snapshots
  <2>4. /\ s.events = q.events /\ s.detail = q.detail /\ s.loads = q.loads
        /\ s.read = q.read /\ s.resync = q.resync
    BY <2>0 DEF Snapshots
  <2> HIDE DEF s
  <2> QED
    BY <1>2, <2>2, <2>3, <2>4, FreeFields
<1>3. Formed(applySessionLoss(r, kind)) /\ Onward(r, applySessionLoss(r, kind))
  <2> DEFINE d == disconnectGlobalEvents(disconnectEvents(r))
             none == [t \in Threads |-> {}]
             s == [d EXCEPT !.connection = kind, !.selected = None, !.detail = Idle, !.timer = FALSE,
                            !.pending = none]
  <2>1. Formed(d) /\ Onward(r, d)
    BY <1>1, <1>2, OnwardTwice
  <2>2. applySessionLoss(r, kind) = s
    BY DEF applySessionLoss
  <2> HIDE DEF d
  <2>3. d \in Snapshots
    BY <2>1 DEF Formed
  <2>4. none \in [Threads -> SUBSET Numbers]
    OBVIOUS
  <2> HIDE DEF none
  <2>5. s \in Snapshots
    BY <2>3, <2>4, NothingTyped, ConnectionsAre DEF Snapshots
  <2>6. /\ s.events = d.events /\ s.detail = Idle /\ s.loads = d.loads
        /\ s.read = d.read /\ s.resync = d.resync
    BY <2>3 DEF Snapshots
  <2>7. Idle.kind = "idle"
    BY DEF Idle, Detail
  <2> HIDE DEF s
  <2>8. Formed(s) /\ Onward(d, s)
    BY <2>1, <2>5, <2>6, <2>7, Moves DEF StreamRests, LoadsRest, ReadRests
  <2> QED
    BY <2>1, <2>2, <2>8, OnwardTwice
<1> QED
  BY <1>1, <1>2, <1>3

\* Reconnecting.
LEMMA ReconnectingForms ==
  ASSUME NEW r, Formed(r)
  PROVE  /\ Formed(scheduleReconnect(r)) /\ Onward(r, scheduleReconnect(r))
         /\ Formed(eventsLost(r)) /\ Onward(r, eventsLost(r))
         /\ Formed(globalLost(r)) /\ Onward(r, globalLost(r))
<1>1. ASSUME NEW q, Formed(q) PROVE Formed(scheduleReconnect(q)) /\ Onward(q, scheduleReconnect(q))
  <2> DEFINE d == applySessionLoss(q, "unreachable")
             u == [d EXCEPT !.credentials = "none"]
             s == [q EXCEPT !.attempt = q.attempt + 1, !.timer = TRUE]
  <2>1. Formed(d) /\ Onward(q, d)
    BY <1>1, ClosingForms, ConnectionsAre
  <2>2. /\ scheduleReconnect(q) \in {q, s, u}
        /\ scheduleReconnect(q) = s => q.attempt < MaxAttempts \/ s \in {q, u}
    BY DEF scheduleReconnect
  <2> HIDE DEF d
  <2>3. u \in Snapshots /\ d \in Snapshots
    BY <2>1 DEF Formed, Snapshots
  <2>4. /\ u.events = d.events /\ u.detail = d.detail /\ u.loads = d.loads
        /\ u.read = d.read /\ u.resync = d.resync
    BY <2>3 DEF Snapshots
  <2> HIDE DEF u
  <2>5. Formed(u) /\ Onward(q, u)
    BY <2>1, <2>3, <2>4, FreeFields, OnwardTwice
  <2>6. q \in Snapshots
    BY <1>1 DEF Formed
  <2>7. ASSUME q.attempt < MaxAttempts PROVE Formed(s) /\ Onward(q, s)
    <3>1. q.attempt + 1 \in 0 .. MaxAttempts
      BY <2>6, <2>7, RuntimeAssumption DEF Snapshots
    <3>2. s \in Snapshots
      BY <2>6, <3>1 DEF Snapshots
    <3>3. /\ s.events = q.events /\ s.detail = q.detail /\ s.loads = q.loads
          /\ s.read = q.read /\ s.resync = q.resync
      BY <2>6 DEF Snapshots
    <3> HIDE DEF s
    <3> QED
      BY <1>1, <3>2, <3>3, FreeFields
  <2>8. Onward(q, q)
    BY DEF Onward
  <2> HIDE DEF s
  <2> QED
    BY <1>1, <2>2, <2>5, <2>7, <2>8
<1>2. Formed(eventsLost(r)) /\ Onward(r, eventsLost(r))
  <2> DEFINE d == disconnectEvents(r)
             s == [d EXCEPT !.connection = "reconnecting"]
  <2>1. Formed(d) /\ Onward(r, d)
    BY ClosingForms, ConnectionsAre
  <2> HIDE DEF d
  <2>2. d \in Snapshots
    BY <2>1 DEF Formed
  <2>3. s \in Snapshots
    BY <2>2, ConnectionsAre DEF Snapshots
  <2>4. /\ s.events = d.events /\ s.detail = d.detail /\ s.loads = d.loads
        /\ s.read = d.read /\ s.resync = d.resync
    BY <2>2 DEF Snapshots
  <2> HIDE DEF s
  <2>5. Formed(s) /\ Onward(r, s)
    BY <2>1, <2>3, <2>4, FreeFields, OnwardTwice
  <2> QED
    BY <1>1, <2>5, OnwardTwice DEF eventsLost, s, d
<1>3. Onward(r, r)
  BY DEF Onward
<1> QED
  BY <1>1, <1>2, <1>3 DEF globalLost

\* A detail, and a read.
LEMMA DetailIs ==
  ASSUME NEW kind \in {"idle", "loading", "error", "ready"}, NEW t \in Threads \cup {None},
         NEW has \in SUBSET Numbers
  PROVE  /\ Detail(kind, t, has) \in Details
         /\ Detail(kind, t, has).kind = kind
         /\ Detail(kind, t, has).thread = t
         /\ Detail(kind, t, has).has = has
  BY DEF Detail, Details

LEMMA ReadIs ==
  ASSUME NEW r, NEW t \in Threads \cup {None}
  PROVE  /\ Read(r, t) \in Reads
         /\ Read(r, t).state \in {"waiting", "sent"}
         /\ Read(r, t).thread = t
  BY DEF Read, Reads

\* The connection alone is changed.
LEMMA ConnectionForms ==
  ASSUME NEW r, Formed(r), NEW c \in Connections
  PROVE  LET s == [r EXCEPT !.connection = c] IN Formed(s) /\ Onward(r, s) /\ s.selected = r.selected
<1> DEFINE s == [r EXCEPT !.connection = c]
<1>1. r \in Snapshots
  BY DEF Formed
<1>2. s \in Snapshots
  BY <1>1 DEF Snapshots
<1>3. /\ s.events = r.events /\ s.detail = r.detail /\ s.loads = r.loads
      /\ s.read = r.read /\ s.resync = r.resync /\ s.selected = r.selected
  BY <1>1 DEF Snapshots
<1> HIDE DEF s
<1> QED
  BY <1>2, <1>3, FreeFields DEF s

\* The detail is replaced by one that shows nothing, or stays.
LEMMA DetailForms ==
  ASSUME NEW r, Formed(r), NEW d \in Details, d = r.detail \/ d.kind # "ready"
  PROVE  LET s == [r EXCEPT !.detail = d] IN Formed(s) /\ Onward(r, s) /\ s.selected = r.selected
<1> DEFINE s == [r EXCEPT !.detail = d]
<1>1. r \in Snapshots
  BY DEF Formed
<1>2. s \in Snapshots
  BY <1>1 DEF Snapshots
<1>3. /\ s.events = r.events /\ s.detail = d /\ s.loads = r.loads
      /\ s.read = r.read /\ s.resync = r.resync /\ s.selected = r.selected
  BY <1>1 DEF Snapshots
<1> HIDE DEF s
<1>4. Formed(s) /\ Onward(r, s)
  BY <1>2, <1>3, Moves DEF StreamRests, LoadsRest, ReadRests
<1> QED
  BY <1>3, <1>4 DEF s

\* Opening the streams.
LEMMA OpeningForms ==
  ASSUME NEW r, Formed(r)
  PROVE  /\ \A t \in Threads : Formed(connectEvents(r, t)) /\ Onward(r, connectEvents(r, t))
         /\ Formed(connectGlobalEvents(r)) /\ Onward(r, connectGlobalEvents(r))
<1> DEFINE phase == IF r.credentials = "stale" THEN "connecting" ELSE "opening"
<1>1. ASSUME NEW t \in Threads PROVE Formed(Open(r, "events", t)) /\ Onward(r, Open(r, "events", t))
  <2> DEFINE c == disconnectEvents(r)
             stream == [phase |-> phase, thread |-> t, sent |-> {}]
             s == [c EXCEPT !.events = stream]
  <2>1. Formed(c) /\ Onward(r, c)
    BY ClosingForms, ConnectionsAre
  <2>2. Open(r, "events", t) = Touch(s)
    BY DEF Open, disconnectEvents
  <2>3. stream \in Streams /\ stream.phase # "open" /\ stream.sent = {} /\ stream.thread \in Threads
    BY DEF Streams
  <2> HIDE DEF c, stream
  <2>4. c \in Snapshots
    BY <2>1 DEF Formed
  <2>5. s \in Snapshots
    BY <2>3, <2>4 DEF Snapshots
  <2>6. /\ s.events = stream /\ s.detail = c.detail /\ s.loads = c.loads
        /\ s.read = c.read /\ s.resync = c.resync
    BY <2>4 DEF Snapshots
  <2> HIDE DEF s
  <2>7. Formed(s) /\ Onward(c, s)
    BY <2>1, <2>3, <2>5, <2>6, Moves DEF StreamRests, LoadsRest, ReadRests
  <2>8. Formed(Touch(s)) /\ Onward(s, Touch(s))
    BY <2>7, OutsideForms
  <2> QED
    BY <2>1, <2>2, <2>7, <2>8, OnwardTwice
<1>2. Formed(Open(r, "global", None)) /\ Onward(r, Open(r, "global", None))
  <2> DEFINE c == disconnectGlobalEvents(r)
             stream == [phase |-> phase, thread |-> None, sent |-> {}]
             s == [c EXCEPT !.global = stream]
  <2>1. Formed(c) /\ Onward(r, c)
    BY ClosingForms, ConnectionsAre
  <2>2. Open(r, "global", None) = Touch(s)
    BY DEF Open, disconnectGlobalEvents
  <2>3. stream \in Streams
    BY DEF Streams
  <2> HIDE DEF c, stream
  <2>4. c \in Snapshots
    BY <2>1 DEF Formed
  <2>5. s \in Snapshots
    BY <2>3, <2>4 DEF Snapshots
  <2>6. /\ s.events = c.events /\ s.detail = c.detail /\ s.loads = c.loads
        /\ s.read = c.read /\ s.resync = c.resync
    BY <2>4 DEF Snapshots
  <2> HIDE DEF s
  <2>7. Formed(s) /\ Onward(c, s)
    BY <2>1, <2>5, <2>6, FreeFields
  <2>8. Formed(Touch(s)) /\ Onward(s, Touch(s))
    BY <2>7, OutsideForms
  <2> QED
    BY <2>1, <2>2, <2>7, <2>8, OnwardTwice
<1>3. \A t \in Threads : Formed(connectEvents(r, t)) /\ Onward(r, connectEvents(r, t))
  BY <1>1, ClosingForms, ConnectionsAre DEF connectEvents
<1>4. Formed(connectGlobalEvents(r)) /\ Onward(r, connectGlobalEvents(r))
  BY <1>2, ClosingForms, ConnectionsAre DEF connectGlobalEvents
<1> QED
  BY <1>3, <1>4

\* The resync, from its start to its list.
LEMMA ListingForms ==
  ASSUME NEW r, Formed(r)
  PROVE  /\ Formed(List(r)) /\ Onward(r, List(r))
         /\ Formed(Resync(r)) /\ Onward(r, Resync(r))
         /\ Formed(bootstrap(r)) /\ Onward(r, bootstrap(r))
         /\ Formed(Listed(r)) /\ Onward(r, Listed(r))
<1>1. ASSUME NEW q, Formed(q) PROVE Formed(List(q)) /\ Onward(q, List(q))
  <2> DEFINE d == IF q.selected # None /\ q.detail.kind # "ready" THEN Detail("loading", q.selected, {}) ELSE q.detail
             read == Read(q, None)
             s == [q EXCEPT !.connection = "resyncing", !.resync = "list", !.detail = d, !.read = read]
  <2>1. q \in Snapshots
    BY <1>1 DEF Formed
  <2>2. d \in Details /\ (d = q.detail \/ d.kind # "ready")
    <3>1. q.selected \in Threads \cup {None} /\ q.detail \in Details
      BY <2>1 DEF Snapshots
    <3> QED
      BY <3>1, DetailIs
  <2>3. read \in Reads /\ read.state # "answered"
    BY ReadIs
  <2>4. List(q) = Touch(s)
    BY DEF List
  <2> HIDE DEF d, read
  <2>5. s \in Snapshots
    BY <2>1, <2>2, <2>3, ConnectionsAre DEF Snapshots
  <2>6. /\ s.events = q.events /\ s.detail = d /\ s.loads = q.loads
        /\ s.read = read /\ s.resync = "list"
    BY <2>1 DEF Snapshots
  <2> HIDE DEF s
  <2>7. Formed(s) /\ Onward(q, s)
    BY <1>1, <2>2, <2>3, <2>5, <2>6, Moves DEF StreamRests, LoadsRest, ReadRests
  <2> QED
    BY <2>4, <2>7, OutsideForms, OnwardTwice
<1>2. ASSUME NEW q, Formed(q) PROVE Formed(Resync(q)) /\ Onward(q, Resync(q))
  <2> DEFINE c == [q EXCEPT !.timer = FALSE]
             s == [c EXCEPT !.connection = "refreshing", !.resync = "refresh"]
  <2>1. q \in Snapshots
    BY <1>2 DEF Formed
  <2>2. c \in Snapshots
    BY <2>1 DEF Snapshots
  <2>3. /\ c.events = q.events /\ c.detail = q.detail /\ c.loads = q.loads
        /\ c.read = q.read /\ c.resync = q.resync
    BY <2>1 DEF Snapshots
  <2>0. /\ Resync(q) \in {q, applySessionLoss(c, "unpaired"), Refresh(s), List(c)}
    BY DEF Resync
  <2> HIDE DEF c
  <2>4. Formed(c) /\ Onward(q, c)
    BY <1>2, <2>2, <2>3, FreeFields
  <2>5. s \in Snapshots
    BY <2>2, ConnectionsAre DEF Snapshots
  <2>6. /\ s.events = c.events /\ s.detail = c.detail /\ s.loads = c.loads
        /\ s.read = c.read /\ s.resync = "refresh"
    BY <2>2 DEF Snapshots
  <2> HIDE DEF s
  <2>7. Formed(s) /\ Onward(c, s)
    BY <2>4, <2>5, <2>6, Moves DEF StreamRests, LoadsRest, ReadRests
  <2>8. Formed(Refresh(s)) /\ Onward(q, Refresh(s))
    BY <2>4, <2>7, OutsideForms, OnwardTwice
  <2>9. Formed(List(c)) /\ Onward(q, List(c))
    BY <1>1, <2>4, OnwardTwice
  <2>10. Formed(applySessionLoss(c, "unpaired")) /\ Onward(q, applySessionLoss(c, "unpaired"))
    BY <2>4, ClosingForms, ConnectionsAre, OnwardTwice
  <2>11. Onward(q, q)
    BY DEF Onward
  <2> QED
    BY <1>2, <2>0, <2>8, <2>9, <2>10, <2>11
<1>3. Formed(bootstrap(r)) /\ Onward(r, bootstrap(r))
  BY <1>2, ClosingForms, ConnectionsAre DEF bootstrap
<1>4. CASE r.selected = None
  <2> DEFINE c == disconnectEvents(r)
             d == [c EXCEPT !.detail = Idle]
  <2>1. Formed(c) /\ Onward(r, c)
    BY ClosingForms, ConnectionsAre
  <2> HIDE DEF c
  <2>2. Formed(d) /\ Onward(c, d)
    <3>1. Idle \in Details /\ Idle.kind # "ready"
      BY DetailIs DEF Idle
    <3> QED
      BY <2>1, <3>1, DetailForms
  <2> HIDE DEF d
  <2> DEFINE g == connectGlobalEvents(d)
             a == markAuthenticated(g)
  <2>3. Formed(g) /\ Onward(d, g)
    BY <2>2, OpeningForms
  <2> HIDE DEF g
  <2>4. Formed(a) /\ Onward(g, a)
    BY <2>3, OutsideForms
  <2> HIDE DEF a
  <2>5. Formed(Ended(a)) /\ Onward(a, Ended(a))
    BY <2>4, ReadForms
  <2>6. Listed(r) = Ended(a)
    BY <1>4 DEF Listed, a, g, d, c
  <2> QED
    BY <1>1, <1>2, <1>3, <2>1, <2>2, <2>3, <2>4, <2>5, <2>6, OnwardTwice
<1>5. CASE r.selected # None
  <2> DEFINE d == IF r.detail.kind = "ready" /\ r.detail.thread = r.selected THEN r.detail
                  ELSE Detail("loading", r.selected, {})
             read == Read(r, r.selected)
             s == [r EXCEPT !.resync = "detail", !.read = read, !.detail = d]
  <2>1. r \in Snapshots /\ r.selected \in Threads
    BY <1>5 DEF Formed, Snapshots
  <2>2. d \in Details /\ (d = r.detail \/ d.kind # "ready")
    <3>1. r.detail \in Details
      BY <2>1 DEF Snapshots
    <3> QED
      BY <2>1, <3>1, DetailIs
  <2>3. read \in Reads /\ read.state # "answered" /\ read.thread \in Threads
    BY <2>1, ReadIs
  <2>4. Listed(r) = Touch(s)
    BY <1>5 DEF Listed
  <2> HIDE DEF d, read
  <2>5. s \in Snapshots
    BY <2>1, <2>2, <2>3, ConnectionsAre DEF Snapshots
  <2>6. /\ s.events = r.events /\ s.detail = d /\ s.loads = r.loads
        /\ s.read = read /\ s.resync = "detail"
    BY <2>1 DEF Snapshots
  <2> HIDE DEF s
  <2>7. Formed(s) /\ Onward(r, s)
    BY <2>2, <2>3, <2>5, <2>6, Moves DEF StreamRests, LoadsRest, ReadRests
  <2> QED
    BY <1>1, <1>2, <1>3, <2>4, <2>7, OutsideForms, OnwardTwice
<1> QED
  BY <1>4, <1>5

\* The answer to a read is shown, and the read forgotten.
LEMMA ShownForms ==
  ASSUME NEW r, Formed(r), NEW q \in {r.loads[l] : l \in Loads} \cup {r.read},
         q.state = "answered", q.thread \in Threads,
         NEW d, d = [Forget(r, q.thread) EXCEPT !.detail = Drained(r, q.thread, q.has)]
  PROVE  /\ Formed(d)
         /\ \A s : Onward(d, s) => Answering(r, s)
<1> DEFINE f == Forget(r, q.thread)
           shown == Drained(r, q.thread, q.has)
<1>1. Formed(f) /\ Onward(r, f)
  BY ReadForms
<1>2. r \in Snapshots /\ f \in Snapshots
  BY <1>1 DEF Formed
<1>3. q \in Reads
  BY <1>2 DEF Snapshots
<1>4. shown \in Details
  <2>1. q.has \cup r.pending[q.thread] \in SUBSET Numbers
    BY <1>2, <1>3 DEF Snapshots, Reads
  <2> QED
    BY <2>1, DetailIs DEF Drained
<1>5. /\ f.events = r.events /\ f.detail = r.detail /\ f.loads = r.loads
      /\ f.read = r.read /\ f.resync = r.resync
  BY <1>2 DEF Forget, Snapshots
<1> HIDE DEF f, shown
<1>6. d = [f EXCEPT !.detail = shown]
  BY DEF f, shown
<1>7. d \in Snapshots
  BY <1>2, <1>4, <1>6 DEF Snapshots
<1>8. /\ d.events = r.events /\ d.detail = shown /\ d.loads = r.loads
      /\ d.read = r.read /\ d.resync = r.resync
  BY <1>2, <1>5, <1>6 DEF Snapshots
<1>9. Formed(d)
  BY <1>7, <1>8 DEF Formed
<1>10. ASSUME NEW s, Onward(d, s) PROVE Answering(r, s)
  <2>1. s.detail = shown => ShowsAnswer(r, s)
    BY DEF ShowsAnswer, shown
  <2> QED
    BY <1>8, <1>10, <2>1 DEF Onward, Answering
<1> QED
  BY <1>9, <1>10

\* A method that answers nothing.
LEMMA OnwardAnswers == \A r, s : Onward(r, s) => Answering(r, s)
  BY DEF Onward, Answering

\* The resync, from the detail to its end.
LEMMA RestoringForms ==
  ASSUME NEW r, Formed(r)
  PROVE  /\ Formed(resyncErrs(r)) /\ Onward(r, resyncErrs(r))
         /\ Formed(resyncFails(r)) /\ Onward(r, resyncFails(r))
         /\ r.resync = "detail" /\ r.read.state = "answered" =>
              Formed(Restored(r)) /\ Answering(r, Restored(r))
<1>0. Formed(Ended(r)) /\ Onward(r, Ended(r)) /\ Ended(r).selected = r.selected
      /\ Ended(r).detail = r.detail /\ r \in Snapshots
  BY ReadForms DEF Ended, Formed, Snapshots
<1>1. Formed(resyncErrs(r)) /\ Onward(r, resyncErrs(r))
  <2> DEFINE e == Ended(r)
             d == IF r.selected = None THEN e.detail ELSE Detail("error", r.selected, {})
             s == [e EXCEPT !.detail = d]
  <2>1. d \in Details /\ (d = e.detail \/ d.kind # "ready")
    <3>1. r.selected \in Threads \cup {None} /\ r.detail \in Details
      BY <1>0 DEF Snapshots
    <3> QED
      BY <1>0, <3>1, DetailIs
  <2>2. resyncErrs(r) = markAuthenticated(s)
    BY DEF resyncErrs
  <2> HIDE DEF d, e
  <2>3. Formed(s) /\ Onward(e, s)
    BY <1>0, <2>1, DetailForms DEF e
  <2> HIDE DEF s
  <2>4. Formed(markAuthenticated(s)) /\ Onward(s, markAuthenticated(s))
    BY <2>3, OutsideForms
  <2> QED
    BY <1>0, <2>2, <2>3, <2>4, OnwardTwice DEF e
<1>2. Formed(resyncFails(r)) /\ Onward(r, resyncFails(r))
  <2> DEFINE c == disconnectEvents(Ended(r))
             b == [c EXCEPT !.connection = "disconnected"]
             e == scheduleReconnect(b)
             d == IF e.selected # None /\ e.detail.kind # "ready" THEN Detail("error", e.selected, {}) ELSE e.detail
             s == [e EXCEPT !.detail = d]
  <2>0. resyncFails(r) = s
    BY DEF resyncFails
  <2>1. Formed(c) /\ Onward(r, c)
    BY <1>0, ClosingForms, ConnectionsAre, OnwardTwice
  <2> HIDE DEF c
  <2>2. Formed(b) /\ Onward(c, b)
    BY <2>1, ConnectionForms, ConnectionsAre
  <2> HIDE DEF b
  <2>3. Formed(e) /\ Onward(b, e)
    BY <2>2, ReconnectingForms
  <2> HIDE DEF e
  <2>4. d \in Details /\ (d = e.detail \/ d.kind # "ready")
    <3>1. e.selected \in Threads \cup {None} /\ e.detail \in Details
      BY <2>3 DEF Formed, Snapshots
    <3> QED
      BY <3>1, DetailIs
  <2> HIDE DEF d
  <2>5. Formed(s) /\ Onward(e, s)
    BY <2>3, <2>4, DetailForms
  <2> QED
    BY <2>0, <2>1, <2>2, <2>3, <2>5, OnwardTwice
<1>3. ASSUME r.resync = "detail", r.read.state = "answered"
      PROVE  Formed(Restored(r)) /\ Answering(r, Restored(r))
  <2> DEFINE t == r.read.thread
             d == [Forget(r, t) EXCEPT !.detail = Drained(r, t, r.read.has)]
             f == Forget(r, t)
  <2>1. t \in Threads
    BY <1>3 DEF Formed
  <2>2. CASE r.selected # t
    <3>1. Formed(f) /\ Onward(r, f)
      BY ReadForms
    <3>2. Formed(Ended(f)) /\ Onward(f, Ended(f))
      BY <3>1, ReadForms
    <3>3. Restored(r) = Ended(f)
      BY <2>2 DEF Restored
    <3> HIDE DEF f
    <3> QED
      BY <3>1, <3>2, <3>3, OnwardTwice, OnwardAnswers
  <2>3. CASE r.selected = t
    <3>1. Formed(d) /\ \A s : Onward(d, s) => Answering(r, s)
      BY <1>3, <2>1, ShownForms
    <3>2. Restored(r) = Ended(markAuthenticated(connectGlobalEvents(connectEvents(d, t))))
      BY <2>3 DEF Restored
    <3> HIDE DEF d, t, f
    <3> DEFINE c == connectEvents(d, t)
               g == connectGlobalEvents(c)
               a == markAuthenticated(g)
    <3>3. Formed(c) /\ Onward(d, c)
      BY <2>1, <3>1, OpeningForms
    <3> HIDE DEF c
    <3>4. Formed(g) /\ Onward(c, g)
      BY <3>3, OpeningForms
    <3> HIDE DEF g
    <3>5. Formed(a) /\ Onward(g, a)
      BY <3>4, OutsideForms
    <3> HIDE DEF a
    <3>6. Formed(Ended(a)) /\ Onward(a, Ended(a))
      BY <3>5, ReadForms
    <3>7. Onward(d, Ended(a))
      BY <3>3, <3>4, <3>5, <3>6, OnwardTwice
    <3> QED
      BY <3>1, <3>2, <3>6, <3>7 DEF a, g, c
  <2> QED
    BY <2>2, <2>3
<1> QED
  BY <1>1, <1>2, <1>3

\* One read by selectThread is replaced by another, that was not answered.
LEMMA LoadForms ==
  ASSUME NEW r, Formed(r), NEW l \in Loads, NEW read \in Reads, read.state # "answered",
         read.state # "none" => read.thread \in Threads
  PROVE  LET s == [r EXCEPT !.loads[l] = read] IN Formed(s) /\ Onward(r, s) /\ s.selected = r.selected
<1> DEFINE loads == [r.loads EXCEPT ![l] = read]
           s == [r EXCEPT !.loads = loads]
<1>1. r \in Snapshots
  BY DEF Formed
<1>2. loads \in [Loads -> Reads]
  BY <1>1 DEF Snapshots
<1>3. loads[l] = read /\ \A k \in Loads \ {l} : loads[k] = r.loads[k]
  BY <1>1 DEF Snapshots
<1>4. s = [r EXCEPT !.loads[l] = read]
  OBVIOUS
<1> HIDE DEF loads
<1>5. s \in Snapshots
  BY <1>1, <1>2 DEF Snapshots
<1>6. /\ s.events = r.events /\ s.detail = r.detail /\ s.loads = loads
      /\ s.read = r.read /\ s.resync = r.resync /\ s.selected = r.selected
  BY <1>1 DEF Snapshots
<1> HIDE DEF s
<1>7. LoadsRest(r, s)
  BY <1>3, <1>6 DEF LoadsRest
<1>8. Formed(s) /\ Onward(r, s)
  BY <1>5, <1>6, <1>7, Moves DEF StreamRests, ReadRests
<1> QED
  BY <1>4, <1>6, <1>8

\* Reads by selectThread.
LEMMA LoadingForms ==
  ASSUME NEW r, Formed(r), NEW l \in Loads
  PROVE  /\ \A t \in Threads : Formed(Load(r, l, t)) /\ Onward(r, Load(r, l, t))
         /\ Formed(loadFails(r, l)) /\ Onward(r, loadFails(r, l))
         /\ Formed(loadErrs(r, l)) /\ Onward(r, loadErrs(r, l))
         /\ r.loads[l].state = "answered" =>
              Formed(loadReturns(r, l)) /\ Answering(r, loadReturns(r, l))
<1> DEFINE n == [r EXCEPT !.loads[l] = NoRead]
<1>0. NoRead \in Reads /\ NoRead.state = "none"
  BY NothingTyped DEF NoRead
<1>1. Formed(n) /\ Onward(r, n) /\ n.selected = r.selected
  BY <1>0, LoadForms
<1>2. ASSUME NEW t \in Threads PROVE Formed(Load(r, l, t)) /\ Onward(r, Load(r, l, t))
  <2> DEFINE p == Forget(r, t)
             c == connectEvents(p, t)
             s == [c EXCEPT !.loads[l] = Read(c, t)]
  <2>1. Load(r, l, t) \in {c, s}
    BY DEF Load, Forget
  <2>2. Formed(p) /\ Onward(r, p)
    BY ReadForms
  <2> HIDE DEF p
  <2>3. Formed(c) /\ Onward(r, c)
    BY <2>2, OpeningForms, OnwardTwice
  <2> HIDE DEF c
  <2>4. Formed(s) /\ Onward(c, s)
    <3>1. Read(c, t) \in Reads /\ Read(c, t).state \in {"waiting", "sent"} /\ Read(c, t).thread = t
      BY ReadIs
    <3> QED
      BY <2>3, <3>1, LoadForms
  <2> HIDE DEF s
  <2> QED
    BY <2>1, <2>3, <2>4, OnwardTwice
<1>3. Formed(loadFails(r, l)) /\ Onward(r, loadFails(r, l))
  <2> DEFINE c == [n EXCEPT !.connection = "reconnecting"]
  <2>1. loadFails(r, l) \in {n, scheduleReconnect(c)}
    BY DEF loadFails
  <2> HIDE DEF n
  <2>2. Formed(c) /\ Onward(n, c)
    BY <1>1, ConnectionForms, ConnectionsAre
  <2> HIDE DEF c
  <2>3. Formed(scheduleReconnect(c)) /\ Onward(c, scheduleReconnect(c))
    BY <2>2, ReconnectingForms
  <2> QED
    BY <1>1, <2>1, <2>2, <2>3, OnwardTwice
<1>4. Formed(loadErrs(r, l)) /\ Onward(r, loadErrs(r, l))
  <2> DEFINE d == Detail("error", r.loads[l].thread, {})
             s == [n EXCEPT !.detail = d]
  <2>1. loadErrs(r, l) \in {n, s}
    BY DEF loadErrs
  <2>2. d \in Details /\ d.kind # "ready"
    <3>1. r.loads[l].thread \in Threads \cup {None}
      BY DEF Formed, Snapshots, Reads
    <3> QED
      BY <3>1, DetailIs
  <2> HIDE DEF n, d
  <2>3. Formed(s) /\ Onward(n, s)
    BY <1>1, <2>2, DetailForms
  <2> HIDE DEF s
  <2> QED
    BY <1>1, <2>1, <2>3, OnwardTwice
<1>5. ASSUME r.loads[l].state = "answered"
      PROVE  Formed(loadReturns(r, l)) /\ Answering(r, loadReturns(r, l))
  <2> DEFINE q == r.loads[l]
             t == q.thread
             shown == Drained(r, t, q.has)
             f == Forget(r, t)
             d == [f EXCEPT !.detail = shown]
             u == [f EXCEPT !.loads[l] = NoRead]
             s == [d EXCEPT !.loads[l] = NoRead]
  <2>1. t \in Threads
    BY <1>5 DEF Formed
  <2>2. loadReturns(r, l) \in {u, s}
    <3>1. loadReturns(r, l) = IF r.selected # t THEN u ELSE [u EXCEPT !.detail = shown]
      BY DEF loadReturns
    <3> HIDE DEF shown, f
    <3>2. [u EXCEPT !.detail = shown] = s
      OBVIOUS
    <3> QED
      BY <3>1, <3>2
  <2>3. Formed(d) /\ \A v : Onward(d, v) => Answering(r, v)
    BY <1>5, <2>1, ShownForms
  <2>4. Formed(f) /\ Onward(r, f)
    BY ReadForms
  <2> HIDE DEF f, d
  <2>5. Formed(u) /\ Onward(f, u)
    BY <1>0, <2>4, LoadForms
  <2>6. Formed(s) /\ Onward(d, s)
    BY <1>0, <2>3, LoadForms
  <2> HIDE DEF s, u
  <2> QED
    BY <2>2, <2>3, <2>4, <2>5, <2>6, OnwardTwice, OnwardAnswers
<1> QED
  BY <1>2, <1>3, <1>4, <1>5

\* What those who wait for a refresh do when it fails.
LEMMA RefreshFailsForms ==
  ASSUME NEW r, Formed(r)
  PROVE  /\ Formed(streamsFail(loadsFail(r))) /\ Onward(r, streamsFail(loadsFail(r)))
         /\ Formed(resyncFailsToo(r)) /\ Onward(r, resyncFailsToo(r))
<1>0. \A q : Onward(q, q)
  BY DEF Onward
<1>1. Formed(loadsFail(r)) /\ Onward(r, loadsFail(r))
  <2> DEFINE loads == [l \in Loads |-> IF l \in WaitingLoads(r) THEN NoRead ELSE r.loads[l]]
             d == [r EXCEPT !.loads = loads]
             c == [d EXCEPT !.connection = "reconnecting"]
  <2>1. loadsFail(r) \in {d, scheduleReconnect(c)}
    BY DEF loadsFail
  <2>2. r \in Snapshots
    BY DEF Formed
  <2>3. loads \in [Loads -> Reads]
    BY <2>2, NothingTyped DEF Snapshots
  <2>4. \A l \in Loads : loads[l] = r.loads[l] \/ loads[l] = NoRead
    OBVIOUS
  <2> HIDE DEF loads
  <2>5. d \in Snapshots
    BY <2>2, <2>3 DEF Snapshots
  <2>6. /\ d.events = r.events /\ d.detail = r.detail /\ d.loads = loads
        /\ d.read = r.read /\ d.resync = r.resync
    BY <2>2 DEF Snapshots
  <2> HIDE DEF d
  <2>7. LoadsRest(r, d)
    BY <2>4, <2>6 DEF LoadsRest, NoRead
  <2>8. Formed(d) /\ Onward(r, d)
    BY <2>5, <2>6, <2>7, Moves DEF StreamRests, ReadRests
  <2>9. Formed(c) /\ Onward(d, c)
    BY <2>8, ConnectionForms, ConnectionsAre
  <2> HIDE DEF c
  <2>10. Formed(scheduleReconnect(c)) /\ Onward(c, scheduleReconnect(c))
    BY <2>9, ReconnectingForms
  <2> QED
    BY <2>1, <2>8, <2>9, <2>10, OnwardTwice
<1>2. ASSUME NEW q, Formed(q) PROVE Formed(streamsFail(q)) /\ Onward(q, streamsFail(q))
  <2> DEFINE n == [q EXCEPT !.global = NoStream]
             g == IF q.global.phase = "connecting" THEN globalLost(n) ELSE q
             e == [g EXCEPT !.events = NoStream]
  <2>1. streamsFail(q) \in {g, eventsLost(e)}
    BY DEF streamsFail
  <2>2. q \in Snapshots
    BY <1>2 DEF Formed
  <2>3. n \in Snapshots
    BY <2>2, NothingTyped DEF Snapshots
  <2>4. /\ n.events = q.events /\ n.detail = q.detail /\ n.loads = q.loads
        /\ n.read = q.read /\ n.resync = q.resync
    BY <2>2 DEF Snapshots
  <2> HIDE DEF n
  <2>5. Formed(n) /\ Onward(q, n)
    BY <1>2, <2>3, <2>4, FreeFields
  <2>6. Formed(globalLost(n)) /\ Onward(q, globalLost(n))
    BY <2>5, ReconnectingForms, OnwardTwice
  <2>7. Formed(g) /\ Onward(q, g)
    BY <1>0, <1>2, <2>6
  <2> HIDE DEF g
  <2>8. g \in Snapshots
    BY <2>7 DEF Formed
  <2>9. e \in Snapshots
    BY <2>8, NothingTyped DEF Snapshots
  <2>10. /\ e.events = NoStream /\ e.detail = g.detail /\ e.loads = g.loads
         /\ e.read = g.read /\ e.resync = g.resync
    BY <2>8 DEF Snapshots
  <2> HIDE DEF e
  <2>11. Formed(e) /\ Onward(g, e)
    BY <2>7, <2>9, <2>10, Moves DEF StreamRests, LoadsRest, ReadRests, NoStream
  <2>12. Formed(eventsLost(e)) /\ Onward(e, eventsLost(e))
    BY <2>11, ReconnectingForms
  <2> QED
    BY <2>1, <2>7, <2>11, <2>12, OnwardTwice
<1>3. Formed(resyncFailsToo(r)) /\ Onward(r, resyncFailsToo(r))
  BY <1>0, RestoringForms DEF resyncFailsToo
<1>4. Formed(streamsFail(loadsFail(r))) /\ Onward(loadsFail(r), streamsFail(loadsFail(r)))
  BY <1>1, <1>2
<1> QED
  BY <1>1, <1>3, <1>4, OnwardTwice

\* What they do when it succeeds, and when the session is lost.
LEMMA RefreshSucceedsForms ==
  ASSUME NEW r, Formed(r), NEW kind \in Lost
  PROVE  /\ Formed(streamsConnect(r)) /\ Onward(r, streamsConnect(r))
         /\ Formed(resyncGoesOn(r)) /\ Onward(r, resyncGoesOn(r))
         /\ Formed(denied(r, kind)) /\ Onward(r, denied(r, kind))
<1>0. \A q : Onward(q, q)
  BY DEF Onward
<1>5. ASSUME NEW q, Formed(q) PROVE LET s == [q EXCEPT !.orphans = {}] IN Formed(s) /\ Onward(q, s)
  <2> DEFINE s == [q EXCEPT !.orphans = {}]
  <2>1. q \in Snapshots
    BY <1>5 DEF Formed
  <2>2. s \in Snapshots
    BY <2>1 DEF Snapshots
  <2>3. /\ s.events = q.events /\ s.detail = q.detail /\ s.loads = q.loads
        /\ s.read = q.read /\ s.resync = q.resync
    BY <2>1 DEF Snapshots
  <2> HIDE DEF s
  <2> QED
    BY <1>5, <2>2, <2>3, FreeFields DEF s
<1>1. ASSUME NEW q, Formed(q) PROVE Formed(orphansReport(q)) /\ Onward(q, orphansReport(q))
  <2> DEFINE g == IF None \in q.orphans THEN globalLost(q) ELSE q
             s == IF g.selected \in Threads \cap q.orphans THEN applySessionLoss(g, "unpaired") ELSE g
             o == [s EXCEPT !.orphans = {}]
  <2>1. orphansReport(q) = o
    BY DEF orphansReport
  <2>2. Formed(g) /\ Onward(q, g)
    BY <1>0, <1>1, ReconnectingForms
  <2> HIDE DEF g
  <2>3. Formed(s) /\ Onward(g, s)
    BY <1>0, <2>2, ClosingForms, ConnectionsAre
  <2> HIDE DEF s
  <2>4. Formed(o) /\ Onward(s, o)
    BY <1>5, <2>3
  <2> HIDE DEF o
  <2> QED
    BY <2>1, <2>2, <2>3, <2>4, OnwardTwice
<1>2. Formed(streamsConnect(r)) /\ Onward(r, streamsConnect(r))
  <2> DEFINE Connected(s) == IF s.phase = "connecting" THEN [s EXCEPT !.phase = "opening"] ELSE s
             e == Connected(r.events)
             g == Connected(r.global)
             s == [r EXCEPT !.events = e, !.global = g]
  <2>1. streamsConnect(r) = orphansReport(s)
    BY DEF streamsConnect
  <2>2. r \in Snapshots
    BY DEF Formed
  <2>3. /\ e \in Streams /\ g \in Streams
        /\ e = r.events \/ (r.events.phase = "connecting" /\ e.phase = "opening" /\ e.thread = r.events.thread /\ e.sent = r.events.sent)
    BY <2>2 DEF Snapshots, Streams
  <2> HIDE DEF e, g
  <2>4. s \in Snapshots
    BY <2>2, <2>3 DEF Snapshots
  <2>5. /\ s.events = e /\ s.detail = r.detail /\ s.loads = r.loads
        /\ s.read = r.read /\ s.resync = r.resync
    BY <2>2 DEF Snapshots
  <2> HIDE DEF s
  <2>6. StreamRests(r, s)
    BY <2>3, <2>5 DEF Formed, StreamRests
  <2>7. Formed(s) /\ Onward(r, s)
    BY <2>4, <2>5, <2>6, Moves DEF LoadsRest, ReadRests
  <2> QED
    BY <1>1, <2>1, <2>7, OnwardTwice
<1>3. Formed(resyncGoesOn(r)) /\ Onward(r, resyncGoesOn(r))
  BY <1>0, ListingForms DEF resyncGoesOn
<1>4. Formed(denied(r, kind)) /\ Onward(r, denied(r, kind))
  <2> DEFINE loads == [l \in Loads |-> IF l \in WaitingLoads(r) THEN NoRead ELSE r.loads[l]]
             c == [r EXCEPT !.refreshing = FALSE, !.credentials = "none", !.loads = loads]
             d == applySessionLoss(c, kind)
             e == IF resyncWaits(r) THEN Ended(d) ELSE d
             o == [e EXCEPT !.orphans = {}]
  <2>1. denied(r, kind) = o
    BY DEF denied
  <2>2. r \in Snapshots
    BY DEF Formed
  <2>3. loads \in [Loads -> Reads]
    BY <2>2, NothingTyped DEF Snapshots
  <2>4. \A l \in Loads : loads[l] = r.loads[l] \/ loads[l] = NoRead
    OBVIOUS
  <2> HIDE DEF loads
  <2>5. c \in Snapshots
    BY <2>2, <2>3 DEF Snapshots
  <2>6. /\ c.events = r.events /\ c.detail = r.detail /\ c.loads = loads
        /\ c.read = r.read /\ c.resync = r.resync
    BY <2>2 DEF Snapshots
  <2> HIDE DEF c
  <2>7. LoadsRest(r, c)
    BY <2>4, <2>6 DEF LoadsRest, NoRead
  <2>8. Formed(c) /\ Onward(r, c)
    BY <2>5, <2>6, <2>7, Moves DEF StreamRests, ReadRests
  <2>9. Formed(d) /\ Onward(c, d)
    BY <2>8, ClosingForms
  <2> HIDE DEF d
  <2>10. Formed(e) /\ Onward(d, e)
    BY <1>0, <2>9, ReadForms
  <2> HIDE DEF e
  <2>11. Formed(o) /\ Onward(e, o)
    BY <1>5, <2>10
  <2> HIDE DEF o
  <2> QED
    BY <2>1, <2>8, <2>9, <2>10, <2>11, OnwardTwice
<1> QED
  BY <1>2, <1>3, <1>4

-----------------------------------------------------------------------------
(* What a detail and an answer lack                                        *)

\* The events on the stream that is open for the thread, and the answers that
\* were not handled yet.
Carried(t) == IF rt.events.phase = "open" /\ rt.events.thread = t THEN rt.events.sent ELSE {}
Replies(t) == {q \in {rt.loads[l] : l \in Loads} \cup {rt.read} : q.state = "answered" /\ q.thread = t}
Shown(t) == rt.detail.kind = "ready" /\ rt.detail.thread = t

\* A detail that is shown lacks no event but the excused ones and those on its
\* stream, and an answer none but these and those that wait for it.
ShownIsComplete ==
  \A t \in Threads :
    Shown(t) => 1 .. upstream[t] \subseteq rt.detail.has \cup excused[t] \cup Carried(t)
RepliesAreComplete ==
  \A t \in Threads : \A q \in Replies(t) :
    1 .. upstream[t] \subseteq q.has \cup rt.pending[t] \cup excused[t] \cup Carried(t)

CompleteInv ==
  /\ Formed(rt) /\ Follows(rt)
  /\ upstream \in [Threads -> 0 .. MaxEvents]
  /\ trusted \in BOOLEAN /\ failures \in 0 .. MaxFailures /\ agings \in 0 .. MaxAgings
  /\ excused \in [Threads -> SUBSET Numbers]
  /\ ShownIsComplete /\ RepliesAreComplete

\* A step that answers no read, and excuses what it loses.
LEMMA ExcuseKeeps ==
  ASSUME CompleteInv, Formed(rt'), Answering(rt, rt'), Excuse, UNCHANGED upstream
  PROVE  /\ excused' \in [Threads -> SUBSET Numbers]
         /\ ShownIsComplete' /\ RepliesAreComplete'
<1> DEFINE Cut(t)     == IF rt.events.thread = t /\ rt'.events.phase # "open" THEN rt.events.sent ELSE {}
           Dropped(t) == IF Shown(t)' THEN {} ELSE rt.pending[t] \ rt'.pending[t]
           Hidden(t)  == IF Shown(t)' THEN UNION {rt'.detail.has \ q.has : q \in Replies(t)'} ELSE {}
<1>1. excused' = [t \in Threads |-> excused[t] \cup Cut(t) \cup Dropped(t) \cup Hidden(t)]
  BY DEF Excuse, Shown, Replies
<1>2. rt \in Snapshots /\ rt' \in Snapshots
  BY DEF CompleteInv, Formed
<1>3. \A t \in Threads : Cut(t) \in SUBSET Numbers /\ Dropped(t) \in SUBSET Numbers
  BY <1>2 DEF Snapshots, Streams
<1>4. \A t \in Threads : Hidden(t) \in SUBSET Numbers
  BY <1>2 DEF Snapshots, Details
<1>5. \A t \in Threads : Carried(t) \subseteq Carried(t)' \cup Cut(t)
  BY DEF Answering, Carried
<1>6. \A t \in Threads : ~Shown(t)' => rt.pending[t] \subseteq rt'.pending[t] \cup Dropped(t)
  OBVIOUS
<1>7. \A t \in Threads : Shown(t)' => \A q \in Replies(t)' : rt'.detail.has \subseteq q.has \cup Hidden(t)
  OBVIOUS
<1> HIDE DEF Cut, Dropped, Hidden
<1>8. excused' \in [Threads -> SUBSET Numbers]
  BY <1>1, <1>3, <1>4 DEF CompleteInv
<1>9. \A t \in Threads : excused'[t] = excused[t] \cup Cut(t) \cup Dropped(t) \cup Hidden(t)
  BY <1>1
<1>10. ASSUME NEW t \in Threads, Shown(t)'
       PROVE  1 .. upstream[t] \subseteq rt'.detail.has \cup excused'[t] \cup Carried(t)'
  <2>1. CASE rt'.detail = rt.detail
    <3>1. Shown(t)
      BY <1>10, <2>1 DEF Shown
    <3>2. 1 .. upstream[t] \subseteq rt.detail.has \cup excused[t] \cup Carried(t)
      BY <3>1 DEF CompleteInv, ShownIsComplete
    <3> QED
      BY <1>5, <1>9, <2>1, <3>2
  <2>2. CASE ShowsAnswer(rt, rt')
    <3>1. PICK q \in {rt.loads[l] : l \in Loads} \cup {rt.read} :
            q.state = "answered" /\ q.thread \in Threads /\ rt'.detail = Drained(rt, q.thread, q.has)
      BY <2>2 DEF ShowsAnswer
    <3>2. q.thread = t /\ rt'.detail.has = q.has \cup rt.pending[t]
      BY <1>10, <3>1 DEF Shown, Drained, Detail
    <3>3. q \in Replies(t)
      BY <3>1, <3>2 DEF Replies
    <3>4. 1 .. upstream[t] \subseteq q.has \cup rt.pending[t] \cup excused[t] \cup Carried(t)
      BY <3>3 DEF CompleteInv, RepliesAreComplete
    <3> QED
      BY <1>5, <1>9, <3>2, <3>4
  <2>3. CASE upstream[rt'.detail.thread] = 0
    <3>1. upstream[t] = 0
      BY <1>10, <2>3 DEF Shown
    <3> QED
      BY <3>1
  <2> QED
    BY <1>10, <2>1, <2>2, <2>3 DEF Answering, Shown
<1>11. ASSUME NEW t \in Threads, NEW q \in Replies(t)'
       PROVE  1 .. upstream[t] \subseteq q.has \cup rt'.pending[t] \cup excused'[t] \cup Carried(t)'
  <2>1. CASE Shown(t)'
    BY <1>7, <1>9, <1>10, <2>1
  <2>2. CASE ~Shown(t)'
    <3>1. q \in Replies(t)
      BY DEF Replies, Answering
    <3>2. 1 .. upstream[t] \subseteq q.has \cup rt.pending[t] \cup excused[t] \cup Carried(t)
      BY <3>1 DEF CompleteInv, RepliesAreComplete
    <3> QED
      BY <1>5, <1>6, <1>9, <2>2, <3>2
  <2> QED
    BY <2>1, <2>2
<1> QED
  BY <1>8, <1>10, <1>11 DEF ShownIsComplete, RepliesAreComplete

\* A step that touches neither stream, detail, reads nor what waits.
LEMMA ElsewhereKeeps ==
  ASSUME CompleteInv, UNCHANGED <<upstream, excused>>,
         rt'.events = rt.events, rt'.detail = rt.detail, rt'.loads = rt.loads, rt'.read = rt.read,
         rt'.pending = rt.pending
  PROVE  ShownIsComplete' /\ RepliesAreComplete'
<1>1. \A t : Carried(t)' = Carried(t) /\ Replies(t)' = Replies(t) /\ Shown(t)' = Shown(t)
  BY DEF Carried, Replies, Shown
<1> QED
  BY <1>1 DEF CompleteInv, ShownIsComplete, RepliesAreComplete

\* Flags of the runtime.
LEMMA FlagForms ==
  ASSUME NEW r, Formed(r)
  PROVE  /\ \A b \in BOOLEAN : LET s == [r EXCEPT !.started = b] IN Formed(s) /\ Onward(r, s)
         /\ \A b \in BOOLEAN : LET s == [r EXCEPT !.timer = b] IN Formed(s) /\ Onward(r, s)
         /\ \A c \in {"fresh", "stale", "none"} :
              LET s == [r EXCEPT !.credentials = c] IN Formed(s) /\ Onward(r, s)
         /\ LET s == [r EXCEPT !.refreshing = FALSE, !.credentials = "fresh"] IN Formed(s) /\ Onward(r, s)
         /\ LET s == [r EXCEPT !.refreshing = FALSE, !.orphans = {}] IN Formed(s) /\ Onward(r, s)
         /\ LET s == [r EXCEPT !.global = NoStream] IN Formed(s) /\ Onward(r, s)
<1> DEFINE Same(s) == /\ s.events = r.events /\ s.detail = r.detail /\ s.loads = r.loads
                      /\ s.read = r.read /\ s.resync = r.resync
<1>0. r \in Snapshots
  BY DEF Formed
<1>1. \A b \in BOOLEAN : LET s == [r EXCEPT !.started = b] IN s \in Snapshots /\ Same(s)
  BY <1>0 DEF Snapshots
<1>2. \A b \in BOOLEAN : LET s == [r EXCEPT !.timer = b] IN s \in Snapshots /\ Same(s)
  BY <1>0 DEF Snapshots
<1>3. \A c \in {"fresh", "stale", "none"} : LET s == [r EXCEPT !.credentials = c] IN s \in Snapshots /\ Same(s)
  BY <1>0 DEF Snapshots
<1>4. LET s == [r EXCEPT !.refreshing = FALSE, !.credentials = "fresh"] IN s \in Snapshots /\ Same(s)
  BY <1>0 DEF Snapshots
<1>5. LET s == [r EXCEPT !.refreshing = FALSE, !.orphans = {}] IN s \in Snapshots /\ Same(s)
  BY <1>0 DEF Snapshots
<1>6. LET s == [r EXCEPT !.global = NoStream] IN s \in Snapshots /\ Same(s)
  BY <1>0, NothingTyped DEF Snapshots
<1>7. \A s : s \in Snapshots /\ Same(s) => Formed(s) /\ Onward(r, s)
  BY FreeFields
<1> HIDE DEF Same
<1> QED
  BY <1>1, <1>2, <1>3, <1>4, <1>5, <1>6, <1>7

\* The user and the provider.
LEMMA UserCompletes ==
  ASSUME CompleteInv,
         \/ Bootstrap \/ RetryConnection \/ ReportConnectionFailure \/ Deselect \/ Logout \/ Pair
         \/ \E t \in Threads : SelectThread(t) \/ StartThread(t)
  PROVE  Formed(rt') /\ Answering(rt, rt')
<1>0. Formed(rt) /\ rt \in Snapshots
  BY DEF CompleteInv, Formed
<1> DEFINE none == [t \in Threads |-> {}]
<1>n. none \in [Threads -> SUBSET Numbers]
  OBVIOUS
<1>i. Idle \in Details /\ Idle.kind # "ready"
  BY DetailIs DEF Idle
<1> SUFFICES Formed(rt') /\ (Onward(rt, rt') \/ Answering(rt, rt'))
  BY OnwardAnswers
<1> USE DEF Becomes
<1>1. CASE Bootstrap
  <2> DEFINE s == [rt EXCEPT !.started = TRUE]
  <2>1. rt' = bootstrap(s)
    BY <1>1 DEF Bootstrap
  <2>2. Formed(s) /\ Onward(rt, s)
    BY <1>0, FlagForms
  <2> HIDE DEF s
  <2> QED
    BY <2>1, <2>2, ListingForms, OnwardTwice
<1>2. CASE RetryConnection
  <2> DEFINE s == [rt EXCEPT !.connection = "reconnecting"]
  <2>1. rt' \in {applySessionLoss(rt, "unpaired"), Resync(s)}
    BY <1>2 DEF RetryConnection
  <2>2. Formed(s) /\ Onward(rt, s)
    BY <1>0, ConnectionForms, ConnectionsAre
  <2> HIDE DEF s
  <2>3. Formed(Resync(s)) /\ Onward(s, Resync(s))
    BY <2>2, ListingForms
  <2> QED
    BY <1>0, <2>1, <2>2, <2>3, ClosingForms, ConnectionsAre, OnwardTwice
<1>3. CASE ReportConnectionFailure
  <2> DEFINE c == disconnectEvents(rt)
             d == IF rt.selected # None /\ c.detail.kind # "ready" THEN Detail("error", rt.selected, {}) ELSE c.detail
  <2>1. PICK b \in {rt.started, TRUE} :
          rt' = [c EXCEPT !.started = b, !.timer = FALSE, !.pending = none, !.connection = "disconnected",
                          !.detail = d]
    BY <1>3 DEF ReportConnectionFailure
  <2>2. Formed(c) /\ Onward(rt, c)
    BY <1>0, ClosingForms, ConnectionsAre
  <2> HIDE DEF c
  <2>3. c \in Snapshots /\ b \in BOOLEAN
    BY <1>0, <2>2 DEF Formed, Snapshots
  <2>4. d \in Details /\ (d = c.detail \/ d.kind # "ready")
    <3>1. rt.selected \in Threads \cup {None} /\ c.detail \in Details
      BY <1>0, <2>3 DEF Snapshots
    <3> QED
      BY <3>1, DetailIs
  <2> HIDE DEF d, none
  <2>5. rt' \in Snapshots
    BY <1>n, <2>1, <2>3, <2>4, ConnectionsAre DEF Snapshots
  <2>6. /\ rt'.events = c.events /\ rt'.detail = d /\ rt'.loads = c.loads
        /\ rt'.read = c.read /\ rt'.resync = c.resync
    BY <2>1, <2>3 DEF Snapshots
  <2>7. Formed(rt') /\ Onward(c, rt')
    BY <2>2, <2>4, <2>5, <2>6, Moves DEF StreamRests, LoadsRest, ReadRests
  <2> QED
    BY <2>2, <2>7, OnwardTwice
<1>4. CASE Deselect
  <2> DEFINE c == disconnectEvents(rt)
  <2>1. rt' = [c EXCEPT !.pending = none, !.selected = None, !.detail = Idle]
    BY <1>4 DEF Deselect
  <2>2. Formed(c) /\ Onward(rt, c)
    BY <1>0, ClosingForms, ConnectionsAre
  <2> HIDE DEF c, none
  <2>3. c \in Snapshots
    BY <2>2 DEF Formed
  <2>5. rt' \in Snapshots
    BY <1>n, <1>i, <2>1, <2>3 DEF Snapshots
  <2>6. /\ rt'.events = c.events /\ rt'.detail = Idle /\ rt'.loads = c.loads
        /\ rt'.read = c.read /\ rt'.resync = c.resync
    BY <2>1, <2>3 DEF Snapshots
  <2>7. Formed(rt') /\ Onward(c, rt')
    BY <1>i, <2>2, <2>5, <2>6, Moves DEF StreamRests, LoadsRest, ReadRests
  <2> QED
    BY <2>2, <2>7, OnwardTwice
<1>5. CASE Logout
  <2> DEFINE c == disconnectGlobalEvents(disconnectEvents(rt))
  <2>1. rt' = [c EXCEPT !.credentials = "none", !.timer = FALSE, !.pending = none,
                        !.connection = "unpaired", !.selected = None, !.detail = Idle]
    BY <1>5 DEF Logout
  <2>2. Formed(c) /\ Onward(rt, c)
    BY <1>0, ClosingForms, ConnectionsAre, OnwardTwice
  <2> HIDE DEF c, none
  <2>3. c \in Snapshots
    BY <2>2 DEF Formed
  <2>5. rt' \in Snapshots
    BY <1>n, <1>i, <2>1, <2>3, ConnectionsAre DEF Snapshots
  <2>6. /\ rt'.events = c.events /\ rt'.detail = Idle /\ rt'.loads = c.loads
        /\ rt'.read = c.read /\ rt'.resync = c.resync
    BY <2>1, <2>3 DEF Snapshots
  <2>7. Formed(rt') /\ Onward(c, rt')
    BY <1>i, <2>2, <2>5, <2>6, Moves DEF StreamRests, LoadsRest, ReadRests
  <2> QED
    BY <2>2, <2>7, OnwardTwice
<1>6. CASE Pair
  <2> DEFINE s == [rt EXCEPT !.credentials = "fresh"]
  <2>1. rt' = bootstrap(s)
    BY <1>6 DEF Pair
  <2>2. Formed(s) /\ Onward(rt, s)
    BY <1>0, FlagForms
  <2> HIDE DEF s
  <2> QED
    BY <2>1, <2>2, ListingForms, OnwardTwice
<1>7. ASSUME NEW t \in Threads, NEW kind \in {"loading", "ready"}
      PROVE  LET s == [disconnectEvents(rt) EXCEPT !.pending[t] = {}, !.selected = t, !.detail = Detail(kind, t, {})]
             IN  /\ Formed(s)
                 /\ kind = "loading" => Onward(rt, s)
                 /\ kind = "ready" /\ upstream[t] = 0 => \A u : Onward(s, u) => Answering(rt, u)
  <2> DEFINE c == disconnectEvents(rt)
             p == [c.pending EXCEPT ![t] = {}]
             d == Detail(kind, t, {})
             s == [c EXCEPT !.pending = p, !.selected = t, !.detail = d]
  <2>1. Formed(c) /\ Onward(rt, c)
    BY <1>0, ClosingForms, ConnectionsAre
  <2>2. s = [disconnectEvents(rt) EXCEPT !.pending[t] = {}, !.selected = t, !.detail = Detail(kind, t, {})]
    OBVIOUS
  <2> HIDE DEF c
  <2>3. c \in Snapshots
    BY <2>1 DEF Formed
  <2>4. p \in [Threads -> SUBSET Numbers]
    BY <2>3 DEF Snapshots
  <2>5. d \in Details /\ d.kind = kind /\ d.thread = t
    BY DetailIs
  <2> HIDE DEF p, d
  <2>6. s \in Snapshots
    BY <2>3, <2>4, <2>5 DEF Snapshots
  <2>7. /\ s.events = c.events /\ s.detail = d /\ s.loads = c.loads
        /\ s.read = c.read /\ s.resync = c.resync
    BY <2>3 DEF Snapshots
  <2> HIDE DEF s
  <2>8. Formed(s)
    BY <2>1, <2>6, <2>7 DEF Formed
  <2>9. kind = "loading" => Onward(rt, s)
    BY <2>1, <2>5, <2>7 DEF Onward
  <2>10. ASSUME upstream[t] = 0, NEW u, Onward(s, u) PROVE Answering(rt, u)
    BY <2>1, <2>5, <2>7, <2>10 DEF Onward, Answering
  <2> QED
    BY <2>2, <2>8, <2>9, <2>10
<1>8. ASSUME NEW t \in Threads, SelectThread(t) PROVE Formed(rt') /\ Onward(rt, rt')
  <2> DEFINE s == [disconnectEvents(rt) EXCEPT !.pending[t] = {}, !.selected = t, !.detail = Detail("loading", t, {})]
  <2>1. \E l \in Loads : rt' \in {s, Load(s, l, t)}
    BY <1>8 DEF SelectThread
  <2>2. Formed(s) /\ Onward(rt, s)
    BY <1>7
  <2> HIDE DEF s
  <2> QED
    BY <2>1, <2>2, LoadingForms, OnwardTwice
<1>9. ASSUME NEW t \in Threads, StartThread(t) PROVE Formed(rt') /\ Answering(rt, rt')
  <2> DEFINE s == [disconnectEvents(rt) EXCEPT !.pending[t] = {}, !.selected = t, !.detail = Detail("ready", t, {})]
             c == connectEvents(s, t)
  <2>1. rt' = connectGlobalEvents(c) /\ upstream[t] = 0
    BY <1>9 DEF StartThread
  <2>2. Formed(s) /\ \A u : Onward(s, u) => Answering(rt, u)
    BY <1>7, <2>1
  <2> HIDE DEF s
  <2>3. Formed(c) /\ Onward(s, c)
    BY <2>2, OpeningForms
  <2> HIDE DEF c
  <2>4. Formed(rt') /\ Onward(c, rt')
    BY <2>1, <2>3, OpeningForms
  <2> QED
    BY <2>2, <2>3, <2>4, OnwardTwice
<1> QED
  BY <1>1, <1>2, <1>3, <1>4, <1>5, <1>6, <1>8, <1>9

\* Answers, refusals and failures.
LEMMA ReadCompletes ==
  ASSUME CompleteInv,
         \/ \E l \in Loads : RefuseLoad(l) \/ LoadReturns(l) \/ LoadFails(l)
         \/ RefuseResync \/ ListReturns \/ DetailReturns \/ ResyncFails
  PROVE  Formed(rt') /\ Answering(rt, rt')
<1>0. Formed(rt) /\ rt \in Snapshots
  BY DEF CompleteInv, Formed
<1> USE DEF Becomes
<1>1. ASSUME NEW l \in Loads, RefuseLoad(l) PROVE Formed(rt') /\ Onward(rt, rt')
  <2> DEFINE q == [rt.loads[l] EXCEPT !.state = "waiting"]
             w == [rt EXCEPT !.loads[l] = q]
             n == [rt EXCEPT !.loads[l] = NoRead]
  <2>1. rt' \in {Refresh(w), applySessionLoss(n, "unpaired"), n} /\ rt.loads[l].state = "sent"
    <3>1. w = [rt EXCEPT !.loads[l].state = "waiting"]
      OBVIOUS
    <3> QED
      BY <1>1, <3>1 DEF RefuseLoad
  <2>2. q \in Reads /\ q.state = "waiting" /\ q.thread \in Threads
    <3>1. rt.loads[l] \in Reads /\ rt.loads[l].thread \in Threads
      BY <1>0, <2>1 DEF Formed, Snapshots
    <3> QED
      BY <3>1 DEF Reads
  <2>3. NoRead \in Reads /\ NoRead.state = "none"
    BY NothingTyped DEF NoRead
  <2> HIDE DEF q
  <2>4. Formed(w) /\ Onward(rt, w) /\ Formed(n) /\ Onward(rt, n)
    BY <1>0, <2>2, <2>3, LoadForms
  <2> HIDE DEF w, n
  <2>5. Formed(Refresh(w)) /\ Onward(w, Refresh(w))
    BY <2>4, OutsideForms
  <2>6. Formed(applySessionLoss(n, "unpaired")) /\ Onward(n, applySessionLoss(n, "unpaired"))
    BY <2>4, ClosingForms, ConnectionsAre
  <2> QED
    BY <2>1, <2>4, <2>5, <2>6, OnwardTwice
<1>2. ASSUME NEW l \in Loads, LoadReturns(l) PROVE Formed(rt') /\ Answering(rt, rt')
  BY <1>0, <1>2, LoadingForms DEF LoadReturns
<1>3. ASSUME NEW l \in Loads, LoadFails(l) PROVE Formed(rt') /\ Onward(rt, rt')
  BY <1>0, <1>3, LoadingForms DEF LoadFails
<1>4. CASE RefuseResync
  <2> DEFINE q == [rt.read EXCEPT !.state = "waiting"]
             w == [rt EXCEPT !.read = q]
             d == applySessionLoss(rt, "unpaired")
  <2>1. rt' \in {Refresh(w), Ended(d)}
    <3>1. w = [rt EXCEPT !.read.state = "waiting"]
      OBVIOUS
    <3> QED
      BY <1>4, <3>1 DEF RefuseResync
  <2>2. q \in Reads /\ q.state = "waiting" /\ q.thread = rt.read.thread
    <3>1. rt.read \in Reads
      BY <1>0 DEF Snapshots
    <3> QED
      BY <3>1 DEF Reads
  <2> HIDE DEF q
  <2>3. w \in Snapshots
    BY <1>0, <2>2 DEF Snapshots
  <2>4. /\ w.events = rt.events /\ w.detail = rt.detail /\ w.loads = rt.loads
        /\ w.read = q /\ w.resync = rt.resync
    BY <1>0 DEF Snapshots
  <2> HIDE DEF w
  <2>5. ReadRests(rt, w)
    BY <1>0, <2>2, <2>4 DEF ReadRests, Formed
  <2>6. Formed(w) /\ Onward(rt, w)
    BY <1>0, <2>3, <2>4, <2>5, Moves DEF StreamRests, LoadsRest
  <2>7. Formed(Refresh(w)) /\ Onward(w, Refresh(w))
    BY <2>6, OutsideForms
  <2>8. Formed(d) /\ Onward(rt, d)
    BY <1>0, ClosingForms, ConnectionsAre
  <2> HIDE DEF d
  <2>9. Formed(Ended(d)) /\ Onward(d, Ended(d))
    BY <2>8, ReadForms
  <2> QED
    BY <2>1, <2>6, <2>7, <2>8, <2>9, OnwardTwice, OnwardAnswers
<1>5. CASE ListReturns
  BY <1>0, <1>5, ListingForms, OnwardAnswers DEF ListReturns
<1>6. CASE DetailReturns
  BY <1>0, <1>6, RestoringForms DEF DetailReturns
<1>7. CASE ResyncFails
  BY <1>0, <1>7, RestoringForms, OnwardAnswers DEF ResyncFails
<1> QED
  BY <1>1, <1>2, <1>3, <1>4, <1>5, <1>6, <1>7, OnwardAnswers

\* Streams that are lost, the timer and the session.
LEMMA SessionCompletes ==
  ASSUME CompleteInv,
         \/ \E field \in {"events", "global"} : StreamRefused(field) \/ StreamLost(field)
         \/ TimerFires \/ RefreshSucceeds \/ RefreshRecovered \/ RefreshFails
         \/ RefreshDenied \/ RefreshExpired
  PROVE  Formed(rt') /\ Answering(rt, rt')
<1>0. Formed(rt) /\ rt \in Snapshots
  BY DEF CompleteInv, Formed
<1> SUFFICES Formed(rt') /\ Onward(rt, rt')
  BY OnwardAnswers
<1> USE DEF Becomes
<1>1. ASSUME NEW field \in {"events", "global"}, StreamRefused(field) \/ StreamLost(field)
      PROVE  Formed(rt') /\ Onward(rt, rt')
  <2> DEFINE n == [rt EXCEPT !.global = NoStream]
  <2>1. rt' \in {eventsLost(rt), globalLost(n)}
    BY <1>1 DEF StreamRefused, StreamLost
  <2>2. Formed(n) /\ Onward(rt, n)
    BY <1>0, FlagForms
  <2> HIDE DEF n
  <2>3. Formed(globalLost(n)) /\ Onward(n, globalLost(n))
    BY <2>2, ReconnectingForms
  <2> QED
    BY <1>0, <2>1, <2>2, <2>3, ReconnectingForms, OnwardTwice
<1>2. CASE TimerFires
  <2> DEFINE c == [rt EXCEPT !.timer = FALSE]
             d == [c EXCEPT !.connection = "reconnecting"]
  <2>1. rt' \in {c, Resync(d)}
    BY <1>2 DEF TimerFires
  <2>2. Formed(c) /\ Onward(rt, c)
    BY <1>0, FlagForms
  <2> HIDE DEF c
  <2>3. Formed(d) /\ Onward(c, d)
    BY <2>2, ConnectionForms, ConnectionsAre
  <2> HIDE DEF d
  <2>4. Formed(Resync(d)) /\ Onward(d, Resync(d))
    BY <2>3, ListingForms
  <2> QED
    BY <2>1, <2>2, <2>3, <2>4, OnwardTwice
<1> DEFINE f == [rt EXCEPT !.refreshing = FALSE, !.credentials = "fresh"]
<1>3. Formed(f) /\ Onward(rt, f)
  BY <1>0, FlagForms
<1>4. ASSUME NEW r, Formed(r)
      PROVE  \A s \in FirstOrLast(readsAreSent(r), streamsConnect, resyncGoesOn) : Formed(s) /\ Onward(r, s)
  <2> DEFINE a == readsAreSent(r)
  <2>1. Formed(a) /\ Onward(r, a)
    BY <1>4, ReadForms
  <2> HIDE DEF a
  <2>2. \A q : Formed(q) => /\ Formed(streamsConnect(q)) /\ Onward(q, streamsConnect(q))
                            /\ Formed(resyncGoesOn(q)) /\ Onward(q, resyncGoesOn(q))
    BY RefreshSucceedsForms, ConnectionsAre
  <2>3. /\ Formed(streamsConnect(resyncGoesOn(a))) /\ Onward(resyncGoesOn(a), streamsConnect(resyncGoesOn(a)))
        /\ Formed(resyncGoesOn(streamsConnect(a))) /\ Onward(streamsConnect(a), resyncGoesOn(streamsConnect(a)))
        /\ Onward(a, resyncGoesOn(a)) /\ Onward(a, streamsConnect(a))
    BY <2>1, <2>2
  <2>4. Onward(r, streamsConnect(resyncGoesOn(a))) /\ Onward(r, resyncGoesOn(streamsConnect(a)))
    BY <2>1, <2>3, OnwardTwice
  <2> QED
    BY <2>3, <2>4 DEF FirstOrLast, a
<1>5. CASE RefreshSucceeds
  <2>1. Formed(refreshed(f)) /\ Onward(f, refreshed(f))
    BY <1>3, OutsideForms
  <2>2. rt' \in FirstOrLast(readsAreSent(refreshed(f)), streamsConnect, resyncGoesOn)
    BY <1>5 DEF RefreshSucceeds
  <2> HIDE DEF f
  <2> QED
    BY <1>3, <1>4, <2>1, <2>2, OnwardTwice
<1>6. CASE RefreshRecovered
  <2>1. rt' \in FirstOrLast(readsAreSent(f), streamsConnect, resyncGoesOn)
    BY <1>6 DEF RefreshRecovered
  <2> HIDE DEF f
  <2> QED
    BY <1>3, <1>4, <2>1, OnwardTwice
<1>7. CASE RefreshFails
  <2> DEFINE d == [rt EXCEPT !.refreshing = FALSE, !.orphans = {}]
  <2>1. Formed(d) /\ Onward(rt, d)
    BY <1>0, FlagForms
  <2>2. rt' \in {streamsFail(loadsFail(resyncFailsToo(d))), resyncFailsToo(streamsFail(loadsFail(d)))}
    BY <1>7 DEF RefreshFails, FirstOrLast
  <2> HIDE DEF d
  <2>3. \A q : Formed(q) => /\ Formed(streamsFail(loadsFail(q))) /\ Onward(q, streamsFail(loadsFail(q)))
                            /\ Formed(resyncFailsToo(q)) /\ Onward(q, resyncFailsToo(q))
    BY RefreshFailsForms
  <2> QED
    BY <2>1, <2>2, <2>3, OnwardTwice
<1>8. CASE RefreshDenied \/ RefreshExpired
  BY <1>0, <1>8, RefreshSucceedsForms, ConnectionsAre DEF RefreshDenied, RefreshExpired
<1> QED
  BY <1>1, <1>2, <1>5, <1>6, <1>7, <1>8

\* An event is emitted: it is on the stream, or excused.
LEMMA EmitCompletes ==
  ASSUME CompleteInv, NEW t \in Threads, Emit(t)
  PROVE  CompleteInv'
<1> DEFINE e == upstream[t] + 1
           carried == rt.events.phase = "open" /\ rt.events.thread = t
           sent == rt.events.sent \cup {e}
           stream == [rt.events EXCEPT !.sent = sent]
<1>0. Formed(rt) /\ rt \in Snapshots /\ Follows(rt)
  BY DEF CompleteInv, Formed
<1>1. /\ upstream[t] \in 0 .. MaxEvents /\ upstream[t] < MaxEvents
      /\ upstream' = [upstream EXCEPT ![t] = e]
      /\ carried => rt' = [rt EXCEPT !.events = stream] /\ excused' = excused
      /\ ~carried => rt' = rt /\ excused' = [excused EXCEPT ![t] = excused[t] \cup {e}]
      /\ UNCHANGED <<trusted, failures, agings>>
  BY DEF Emit, Becomes, CompleteInv
<1>2. e \in Numbers /\ 1 .. e = (1 .. upstream[t]) \cup {e} /\ e \in 0 .. MaxEvents
  BY <1>1, RuntimeAssumption DEF Numbers
<1>3. /\ upstream' \in [Threads -> 0 .. MaxEvents] /\ upstream'[t] = e
      /\ \A u \in Threads \ {t} : upstream'[u] = upstream[u]
  BY <1>1, <1>2 DEF CompleteInv
<1>4. stream \in Streams /\ stream.phase = rt.events.phase /\ stream.thread = rt.events.thread /\ stream.sent = sent
  <2>1. rt.events \in Streams
    BY <1>0 DEF Snapshots
  <2>2. sent \in SUBSET Numbers
    BY <1>2, <2>1 DEF Streams
  <2> HIDE DEF sent
  <2> QED
    BY <2>1, <2>2 DEF Streams
<1> HIDE DEF e, stream
<1>5. CASE carried
  <2>1. rt' \in Snapshots
    BY <1>0, <1>1, <1>4, <1>5 DEF Snapshots
  <2>2. /\ rt'.events = stream /\ rt'.detail = rt.detail /\ rt'.loads = rt.loads
        /\ rt'.read = rt.read /\ rt'.resync = rt.resync /\ rt'.pending = rt.pending
    BY <1>0, <1>1, <1>5 DEF Snapshots
  <2>3. Formed(rt')
    BY <1>0, <1>4, <1>5, <2>1, <2>2 DEF Formed
  <2>4. Follows(rt')
    BY <1>0, StepFollows, UserSteps, ReadSteps
  <2>5. /\ Carried(t)' = Carried(t) \cup {e}
        /\ \A u \in Threads \ {t} : Carried(u)' = Carried(u)
    BY <1>4, <1>5, <2>2 DEF Carried
  <2>6. \A u : Replies(u)' = Replies(u) /\ Shown(u)' = Shown(u)
    BY <2>2 DEF Replies, Shown
  <2>7. ShownIsComplete'
    BY <1>1, <1>2, <1>3, <1>5, <2>2, <2>5, <2>6 DEF ShownIsComplete, CompleteInv
  <2>8. RepliesAreComplete'
    BY <1>1, <1>2, <1>3, <1>5, <2>2, <2>5, <2>6 DEF RepliesAreComplete, CompleteInv
  <2> QED
    BY <1>1, <1>3, <1>5, <2>3, <2>4, <2>7, <2>8 DEF CompleteInv
<1>6. CASE ~carried
  <2>1. /\ excused' \in [Threads -> SUBSET Numbers] /\ excused'[t] = excused[t] \cup {e}
        /\ \A u \in Threads \ {t} : excused'[u] = excused[u]
    BY <1>1, <1>2, <1>6 DEF CompleteInv
  <2>2. \A u : Replies(u)' = Replies(u) /\ Shown(u)' = Shown(u) /\ Carried(u)' = Carried(u)
    BY <1>1, <1>6 DEF Replies, Shown, Carried
  <2>3. ShownIsComplete'
    BY <1>1, <1>2, <1>3, <1>6, <2>1, <2>2 DEF ShownIsComplete, CompleteInv
  <2>4. RepliesAreComplete'
    BY <1>1, <1>2, <1>3, <1>6, <2>1, <2>2 DEF RepliesAreComplete, CompleteInv
  <2> QED
    BY <1>1, <1>3, <1>6, <2>1, <2>3, <2>4 DEF CompleteInv
<1> QED
  BY <1>5, <1>6

\* The bridge answers a read with every event so far.
LEMMA AnswerCompletes ==
  ASSUME CompleteInv, (\E l \in Loads : AnswerLoad(l)) \/ AnswerDetail
  PROVE  Formed(rt') /\ ShownIsComplete' /\ RepliesAreComplete'
<1>0. Formed(rt) /\ rt \in Snapshots
  BY DEF CompleteInv, Formed
<1>u. UNCHANGED <<upstream, excused>>
  BY DEF AnswerLoad, AnswerDetail, Quietly, LeavesBridge
<1>1. ASSUME NEW q \in Reads, q.thread \in Threads
      PROVE  /\ Answered(q) \in Reads /\ Answered(q).state = "answered" /\ Answered(q).thread = q.thread
             /\ Answered(q).has = 1 .. upstream[q.thread]
  <2>1. upstream[q.thread] \in 0 .. MaxEvents
    BY <1>1 DEF CompleteInv
  <2>2. 1 .. upstream[q.thread] \in SUBSET Numbers
    BY <2>1, RuntimeAssumption DEF Numbers
  <2> QED
    BY <1>1, <2>2 DEF Answered, Reads
<1>2. ASSUME NEW q, q.state = "answered", q.has = 1 .. upstream[q.thread], q.thread \in Threads,
             rt'.events = rt.events, rt'.detail = rt.detail, rt'.pending = rt.pending,
             \A u : Replies(u)' \subseteq Replies(u) \cup {p \in {q} : p.thread = u}
      PROVE  ShownIsComplete' /\ RepliesAreComplete'
  <2>1. \A t : Carried(t)' = Carried(t) /\ Shown(t)' = Shown(t)
    BY <1>2 DEF Carried, Shown
  <2>2. ShownIsComplete'
    BY <1>u, <1>2, <2>1 DEF ShownIsComplete, CompleteInv
  <2>3. ASSUME NEW t \in Threads, NEW p \in Replies(t)'
        PROVE  1 .. upstream'[t] \subseteq p.has \cup rt'.pending[t] \cup excused'[t] \cup Carried(t)'
    <3>1. CASE p \in Replies(t)
      BY <1>u, <1>2, <2>1, <3>1 DEF RepliesAreComplete, CompleteInv
    <3>2. CASE p = q /\ q.thread = t
      BY <1>u, <1>2, <3>2
    <3> QED
      BY <1>2, <2>3, <3>1, <3>2
  <2> QED
    BY <2>2, <2>3 DEF RepliesAreComplete
<1>3. ASSUME NEW l \in Loads, AnswerLoad(l) PROVE Formed(rt') /\ ShownIsComplete' /\ RepliesAreComplete'
  <2> DEFINE q == Answered(rt.loads[l])
             m == [rt.loads EXCEPT ![l] = q]
  <2>1. rt' = [rt EXCEPT !.loads = m] /\ rt.loads[l].state = "sent"
    BY <1>3 DEF AnswerLoad, Becomes
  <2>2. rt.loads \in [Loads -> Reads] /\ rt.loads[l] \in Reads /\ rt.loads[l].thread \in Threads
    BY <1>0, <2>1 DEF Formed, Snapshots
  <2>3. /\ q \in Reads /\ q.state = "answered" /\ q.thread = rt.loads[l].thread
        /\ q.has = 1 .. upstream[q.thread] /\ q.thread \in Threads
    BY <1>1, <2>2
  <2> HIDE DEF q
  <2>4. m \in [Loads -> Reads] /\ m[l] = q /\ \A k \in Loads \ {l} : m[k] = rt.loads[k]
    BY <2>2, <2>3
  <2> HIDE DEF m
  <2>5. rt' \in Snapshots
    BY <1>0, <2>1, <2>4 DEF Snapshots
  <2>6. /\ rt'.events = rt.events /\ rt'.detail = rt.detail /\ rt'.loads = m
        /\ rt'.read = rt.read /\ rt'.resync = rt.resync /\ rt'.pending = rt.pending
    BY <1>0, <2>1 DEF Snapshots
  <2>7. Formed(rt')
    BY <1>0, <2>3, <2>4, <2>5, <2>6 DEF Formed
  <2>8. \A u : Replies(u)' \subseteq Replies(u) \cup {p \in {q} : p.thread = u}
    BY <2>4, <2>6 DEF Replies
  <2> QED
    BY <1>2, <2>3, <2>6, <2>7, <2>8
<1>4. CASE AnswerDetail
  <2> DEFINE q == Answered(rt.read)
  <2>1. rt' = [rt EXCEPT !.read = q] /\ rt.resync = "detail"
    BY <1>4 DEF AnswerDetail, Becomes
  <2>2. rt.read \in Reads /\ rt.read.thread \in Threads
    BY <1>0, <2>1 DEF Formed, Snapshots
  <2>3. /\ q \in Reads /\ q.state = "answered" /\ q.thread = rt.read.thread
        /\ q.has = 1 .. upstream[q.thread] /\ q.thread \in Threads
    BY <1>1, <2>2
  <2> HIDE DEF q
  <2>5. rt' \in Snapshots
    BY <1>0, <2>1, <2>3 DEF Snapshots
  <2>6. /\ rt'.events = rt.events /\ rt'.detail = rt.detail /\ rt'.loads = rt.loads
        /\ rt'.read = q /\ rt'.resync = rt.resync /\ rt'.pending = rt.pending
    BY <1>0, <2>1 DEF Snapshots
  <2>7. Formed(rt')
    BY <1>0, <2>3, <2>5, <2>6 DEF Formed
  <2>8. \A u : Replies(u)' \subseteq Replies(u) \cup {p \in {q} : p.thread = u}
    BY <2>6 DEF Replies
  <2> QED
    BY <1>2, <2>3, <2>6, <2>7, <2>8
<1> QED
  BY <1>3, <1>4

\* A stream opens, and has nothing on it yet.
LEMMA StreamOpensCompletes ==
  ASSUME CompleteInv, NEW field \in {"events", "global"}, StreamOpens(field)
  PROVE  Formed(rt') /\ ShownIsComplete' /\ RepliesAreComplete'
<1> DEFINE stream == [rt[field] EXCEPT !.phase = "open"]
<1>0. Formed(rt) /\ rt \in Snapshots
  BY DEF CompleteInv, Formed
<1>1. /\ rt' = [rt EXCEPT ![field] = stream] /\ rt[field].phase = "opening"
      /\ UNCHANGED <<upstream, excused>>
  BY DEF StreamOpens, Becomes, Quietly, LeavesBridge
<1>2. rt.events \in Streams /\ rt.global \in Streams
  BY <1>0 DEF Snapshots
<1>3. stream \in Streams /\ stream.phase = "open" /\ stream.thread = rt[field].thread /\ stream.sent = rt[field].sent
  BY <1>2 DEF Streams
<1> HIDE DEF stream
<1>4. CASE field = "events"
  <2>1. rt' = [rt EXCEPT !.events = stream]
    BY <1>1, <1>4
  <2>2. rt' \in Snapshots
    BY <1>0, <1>3, <2>1 DEF Snapshots
  <2>3. /\ rt'.events = stream /\ rt'.detail = rt.detail /\ rt'.loads = rt.loads
        /\ rt'.read = rt.read /\ rt'.resync = rt.resync /\ rt'.pending = rt.pending
    BY <1>0, <2>1 DEF Snapshots
  <2>4. Formed(rt')
    BY <1>0, <1>1, <1>3, <1>4, <2>2, <2>3 DEF Formed
  <2>5. \A t : Carried(t) = {} /\ Shown(t)' = Shown(t) /\ Replies(t)' = Replies(t)
    BY <1>1, <1>4, <2>3 DEF Carried, Shown, Replies
  <2> QED
    BY <1>1, <2>3, <2>4, <2>5 DEF CompleteInv, ShownIsComplete, RepliesAreComplete
<1>5. CASE field = "global"
  <2>1. rt' = [rt EXCEPT !.global = stream]
    BY <1>1, <1>5
  <2>2. rt' \in Snapshots
    BY <1>0, <1>3, <2>1 DEF Snapshots
  <2>3. /\ rt'.events = rt.events /\ rt'.detail = rt.detail /\ rt'.loads = rt.loads
        /\ rt'.read = rt.read /\ rt'.resync = rt.resync /\ rt'.pending = rt.pending
    BY <1>0, <2>1 DEF Snapshots
  <2> QED
    BY <1>0, <1>1, <2>2, <2>3, FreeFields, ElsewhereKeeps
<1> QED
  BY <1>4, <1>5

\* An event arrives: it is shown, or waits for the read.
LEMMA EventArrivesCompletes ==
  ASSUME CompleteInv, EventArrives
  PROVE  /\ Formed(rt') /\ excused' \in [Threads -> SUBSET Numbers]
         /\ ShownIsComplete' /\ RepliesAreComplete'
<1>0. Formed(rt) /\ rt \in Snapshots /\ Follows(rt)
  BY DEF CompleteInv, Formed
<1> DEFINE t == rt.events.thread
<1>1. PICK e \in rt.events.sent :
        LET s == [rt EXCEPT !.events.sent = @ \ {e}]
        IN  rt' = IF rt.detail.kind = "ready" THEN [s EXCEPT !.detail.has = @ \cup {e}]
                  ELSE [s EXCEPT !.pending[t] = @ \cup {e}]
  BY DEF EventArrives, Becomes
<1>2. rt.events.phase = "open" /\ t \in Threads /\ rt.events \in Streams /\ e \in Numbers
  BY <1>0 DEF Formed, Snapshots, Streams
<1>3. Excuse /\ UNCHANGED upstream
  BY DEF EventArrives, Quietly, LeavesBridge
<1> DEFINE stream == [rt.events EXCEPT !.sent = rt.events.sent \ {e}]
           d == IF rt.detail.kind = "ready" THEN [rt.detail EXCEPT !.has = rt.detail.has \cup {e}] ELSE rt.detail
           p == IF rt.detail.kind = "ready" THEN rt.pending ELSE [rt.pending EXCEPT ![t] = rt.pending[t] \cup {e}]
<1>4. rt' = [rt EXCEPT !.events = stream, !.detail = d, !.pending = p]
  <2>1. CASE rt.detail.kind = "ready"
    BY <1>0, <1>1, <2>1 DEF Snapshots
  <2>2. CASE rt.detail.kind # "ready"
    BY <1>0, <1>1, <2>2 DEF Snapshots
  <2> QED
    BY <2>1, <2>2
<1>5. stream \in Streams /\ stream.phase = "open" /\ stream.thread = t /\ stream.sent = rt.events.sent \ {e}
  BY <1>2 DEF Streams
<1>6. /\ d \in Details /\ d.kind = rt.detail.kind /\ d.thread = rt.detail.thread
      /\ d.kind = "ready" => d.has = rt.detail.has \cup {e}
  <2>1. rt.detail \in Details
    BY <1>0 DEF Snapshots
  <2> QED
    BY <1>2, <2>1 DEF Details
<1>7. /\ p \in [Threads -> SUBSET Numbers]
      /\ d.kind # "ready" => p[t] = rt.pending[t] \cup {e}
      /\ \A u \in Threads : rt.pending[u] \subseteq p[u]
  <2>1. rt.pending \in [Threads -> SUBSET Numbers]
    BY <1>0 DEF Snapshots
  <2> QED
    BY <1>2, <2>1
<1> HIDE DEF stream, d, p
<1>8. rt' \in Snapshots
  <2>1. p \in [Threads -> SUBSET Numbers] /\ d \in Details /\ stream \in Streams
    BY <1>5, <1>6, <1>7
  <2> QED
    BY <1>0, <1>4, <2>1 DEF Snapshots
<1>9. /\ rt'.events = stream /\ rt'.detail = d /\ rt'.loads = rt.loads
      /\ rt'.read = rt.read /\ rt'.resync = rt.resync /\ rt'.pending = p
  BY <1>0, <1>4 DEF Snapshots
<1>10. Formed(rt')
  BY <1>0, <1>2, <1>5, <1>8, <1>9 DEF Formed
<1>11. /\ \A u : Shown(u)' = Shown(u) /\ Replies(u)' = Replies(u)
       /\ \A u : Carried(u) \subseteq Carried(u)' \cup {v \in {e} : u = t}
       /\ \A u : Shown(u) /\ rt.events.thread # rt.selected => FALSE
  BY <1>0, <1>2, <1>5, <1>6, <1>9 DEF Shown, Replies, Carried, Follows
<1> DEFINE Cut(u)     == IF rt.events.thread = u /\ rt'.events.phase # "open" THEN rt.events.sent ELSE {}
           Dropped(u) == IF Shown(u)' THEN {} ELSE rt.pending[u] \ rt'.pending[u]
           Hidden(u)  == IF Shown(u)' THEN UNION {rt'.detail.has \ q.has : q \in Replies(u)'} ELSE {}
<1>12. excused' = [u \in Threads |-> excused[u] \cup Cut(u) \cup Dropped(u) \cup Hidden(u)]
  BY <1>3 DEF Excuse, Shown, Replies
<1>13. \A u \in Threads : Cut(u) = {} /\ Dropped(u) = {} /\ Hidden(u) \in SUBSET Numbers
  BY <1>5, <1>7, <1>8, <1>9 DEF Snapshots, Details
<1>14. \A u \in Threads : Shown(u)' => \A q \in Replies(u)' : rt'.detail.has \subseteq q.has \cup Hidden(u)
  OBVIOUS
<1> HIDE DEF Cut, Dropped, Hidden
<1>15. excused' \in [Threads -> SUBSET Numbers] /\ \A u \in Threads : excused'[u] = excused[u] \cup Hidden(u)
  BY <1>12, <1>13 DEF CompleteInv
<1>16. ASSUME NEW u \in Threads, Shown(u)'
       PROVE  1 .. upstream[u] \subseteq rt'.detail.has \cup excused'[u] \cup Carried(u)'
  <2>1. 1 .. upstream[u] \subseteq rt.detail.has \cup excused[u] \cup Carried(u)
    BY <1>11, <1>16 DEF CompleteInv, ShownIsComplete
  <2>2. rt'.detail.has = rt.detail.has \cup {e}
    BY <1>6, <1>9, <1>16 DEF Shown
  <2> QED
    BY <1>11, <1>15, <2>1, <2>2
<1>17. ASSUME NEW u \in Threads, NEW q \in Replies(u)'
       PROVE  1 .. upstream[u] \subseteq q.has \cup rt'.pending[u] \cup excused'[u] \cup Carried(u)'
  <2>1. 1 .. upstream[u] \subseteq q.has \cup rt.pending[u] \cup excused[u] \cup Carried(u)
    BY <1>11 DEF CompleteInv, RepliesAreComplete
  <2>2. CASE Shown(u)'
    BY <1>14, <1>15, <1>16, <2>2
  <2>3. CASE ~Shown(u)' /\ u = t
    <3>1. d.kind # "ready"
      BY <1>0, <1>2, <1>6, <1>9, <2>3 DEF Shown, Follows
    <3>2. rt'.pending[u] = rt.pending[u] \cup {e}
      <4>1. rt'.pending = p /\ p[t] = rt.pending[t] \cup {e}
        BY <1>7, <1>9, <3>1
      <4> QED
        BY <2>3, <4>1
    <3> QED
      BY <1>11, <1>15, <2>1, <2>3, <3>2
  <2>4. CASE u # t
    BY <1>7, <1>9, <1>11, <1>15, <2>1, <2>4
  <2> QED
    BY <2>2, <2>3, <2>4
<1> QED
  BY <1>3, <1>10, <1>15, <1>16, <1>17 DEF ShownIsComplete, RepliesAreComplete

\* Steps beside the threads: a request, a token that ages, a device that is
\* revoked.
LEMMA BesideCompletes ==
  ASSUME CompleteInv, OtherRequest \/ TokenAges \/ Revoke
  PROVE  Formed(rt') /\ ShownIsComplete' /\ RepliesAreComplete'
<1>0. Formed(rt) /\ rt \in Snapshots
  BY DEF CompleteInv, Formed
<1> USE DEF Becomes
<1>1. CASE OtherRequest
  <2> DEFINE c == IF rt.connection \in Terminal THEN rt.connection ELSE "refreshing"
             s == [rt EXCEPT !.refreshing = TRUE, !.connection = c]
  <2>1. rt' = Refresh(rt) /\ ~rt.refreshing
    BY <1>1 DEF OtherRequest
  <2>2. Formed(rt') /\ rt' = s
    BY <1>0, <2>1, OutsideForms DEF Refresh
  <2> HIDE DEF c
  <2>3. /\ rt'.events = rt.events /\ rt'.detail = rt.detail /\ rt'.loads = rt.loads
        /\ rt'.read = rt.read /\ rt'.pending = rt.pending
    BY <1>0, <2>2 DEF Snapshots
  <2>4. UNCHANGED <<upstream, excused>>
    BY <1>1 DEF OtherRequest, Quietly, LeavesBridge
  <2> QED
    BY <2>2, <2>3, <2>4, ElsewhereKeeps
<1>2. CASE TokenAges
  <2>1. rt' = [rt EXCEPT !.credentials = "stale"] /\ UNCHANGED <<upstream, excused>>
    BY <1>2 DEF TokenAges, LeavesBridge
  <2>2. Formed(rt')
    BY <1>0, <2>1, FlagForms
  <2>3. /\ rt'.events = rt.events /\ rt'.detail = rt.detail /\ rt'.loads = rt.loads
        /\ rt'.read = rt.read /\ rt'.pending = rt.pending
    BY <1>0, <2>1 DEF Snapshots
  <2> QED
    BY <2>1, <2>2, <2>3, ElsewhereKeeps
<1>3. CASE Revoke
  BY <1>0, <1>3, ElsewhereKeeps DEF Revoke
<1> QED
  BY <1>1, <1>2, <1>3

\* What the bridge and the bounds count.
LEMMA BoundsComplete ==
  ASSUME CompleteInv, Next, \A t \in Threads : ~Emit(t)
  PROVE  /\ UNCHANGED upstream
         /\ trusted' \in BOOLEAN /\ failures' \in 0 .. MaxFailures /\ agings' \in 0 .. MaxAgings
<1>1. /\ trusted \in BOOLEAN /\ failures \in 0 .. MaxFailures /\ agings \in 0 .. MaxAgings
      /\ MaxFailures \in Nat /\ MaxAgings \in Nat
  BY RuntimeAssumption DEF CompleteInv
<1>2. Quietly => UNCHANGED <<upstream, trusted, failures, agings>>
  BY DEF Quietly, LeavesBridge
<1>3. Failing => UNCHANGED <<upstream, trusted, agings>> /\ failures' \in 0 .. MaxFailures
  BY <1>1 DEF Failing, LeavesBridge
<1>4. TokenAges => UNCHANGED <<upstream, trusted, failures>> /\ agings' \in 0 .. MaxAgings
  BY <1>1 DEF TokenAges, LeavesBridge
<1>5. /\ Pair => UNCHANGED <<upstream, failures, agings>> /\ trusted' = TRUE
      /\ Revoke => UNCHANGED <<upstream, failures, agings>> /\ trusted' = FALSE
  BY DEF Pair, Revoke
<1>6. Quietly \/ Failing \/ TokenAges \/ Pair \/ Revoke
  <2>1. CASE Bootstrap \/ RetryConnection \/ ReportConnectionFailure \/ Deselect \/ OtherRequest \/ Logout
    BY <2>1 DEF Bootstrap, RetryConnection, ReportConnectionFailure, Deselect, OtherRequest, Logout
  <2>2. CASE \E t \in Threads : SelectThread(t) \/ StartThread(t)
    BY <2>2 DEF SelectThread, StartThread
  <2>3. CASE \E l \in Loads : AnswerLoad(l) \/ RefuseLoad(l) \/ LoadReturns(l) \/ LoadFails(l)
    BY <2>3 DEF AnswerLoad, RefuseLoad, LoadReturns, LoadFails
  <2>4. CASE AnswerDetail \/ RefuseResync \/ ListReturns \/ DetailReturns \/ ResyncFails
    BY <2>4 DEF AnswerDetail, RefuseResync, ListReturns, DetailReturns, ResyncFails
  <2>5. CASE \E field \in {"events", "global"} : StreamOpens(field) \/ StreamRefused(field) \/ StreamLost(field)
    BY <2>5 DEF StreamOpens, StreamRefused, StreamLost
  <2>6. CASE \/ EventArrives \/ TimerFires \/ RefreshSucceeds \/ RefreshRecovered
             \/ RefreshFails \/ RefreshDenied \/ RefreshExpired
    BY <2>6 DEF EventArrives, TimerFires, RefreshSucceeds, RefreshRecovered,
                RefreshFails, RefreshDenied, RefreshExpired
  <2> QED
    BY <2>1, <2>2, <2>3, <2>4, <2>5, <2>6 DEF Next
<1> QED
  BY <1>1, <1>2, <1>3, <1>4, <1>5, <1>6

\* Every step but Emit excuses what it loses, or touches no event.
LEMMA StepCompletes == CompleteInv /\ [Next]_vars => CompleteInv'
<1> SUFFICES ASSUME CompleteInv, [Next]_vars PROVE CompleteInv'
  OBVIOUS
<1>f. Follows(rt)'
  BY StepFollows DEF CompleteInv
<1>1. CASE UNCHANGED vars
  <2>1. UNCHANGED <<rt, upstream, trusted, failures, agings, excused>>
    BY <1>1 DEF vars
  <2>2. ShownIsComplete' /\ RepliesAreComplete'
    BY <2>1, ElsewhereKeeps
  <2> QED
    BY <2>1, <2>2 DEF CompleteInv
<1>2. CASE \E t \in Threads : Emit(t)
  BY <1>2, EmitCompletes
<1>3. CASE Next /\ \A t \in Threads : ~Emit(t)
  <2>1. /\ upstream' = upstream
        /\ trusted' \in BOOLEAN /\ failures' \in 0 .. MaxFailures /\ agings' \in 0 .. MaxAgings
    BY <1>3, BoundsComplete
  <2> SUFFICES /\ Formed(rt') /\ excused' \in [Threads -> SUBSET Numbers]
               /\ ShownIsComplete' /\ RepliesAreComplete'
    BY <1>f, <2>1 DEF CompleteInv
  <2>2. ASSUME Formed(rt') /\ Answering(rt, rt'), Excuse
        PROVE  excused' \in [Threads -> SUBSET Numbers] /\ ShownIsComplete' /\ RepliesAreComplete'
    BY <2>1, <2>2, ExcuseKeeps
  <2>3. ASSUME excused' = excused PROVE excused' \in [Threads -> SUBSET Numbers]
    BY <2>3 DEF CompleteInv
  <2>4. CASE Bootstrap \/ RetryConnection \/ ReportConnectionFailure \/ Deselect \/ Logout \/ Pair
    <3>1. Excuse
      BY <2>4 DEF Bootstrap, RetryConnection, ReportConnectionFailure, Deselect, Logout, Pair
    <3> QED
      BY <2>2, <2>4, <3>1, UserCompletes
  <2>5. CASE \E t \in Threads : SelectThread(t) \/ StartThread(t)
    <3>1. Excuse
      BY <2>5 DEF SelectThread, StartThread
    <3> QED
      BY <2>2, <2>5, <3>1, UserCompletes
  <2>6. CASE \/ \E l \in Loads : RefuseLoad(l) \/ LoadReturns(l) \/ LoadFails(l)
             \/ RefuseResync \/ ListReturns \/ DetailReturns \/ ResyncFails
    <3>1. Excuse
      BY <2>6 DEF RefuseLoad, LoadReturns, LoadFails, RefuseResync, ListReturns, DetailReturns, ResyncFails
    <3> QED
      BY <2>2, <2>6, <3>1, ReadCompletes
  <2>7. CASE \/ \E field \in {"events", "global"} : StreamRefused(field) \/ StreamLost(field)
             \/ TimerFires \/ RefreshSucceeds \/ RefreshRecovered \/ RefreshFails
             \/ RefreshDenied \/ RefreshExpired
    <3>1. Excuse
      BY <2>7 DEF StreamRefused, StreamLost, TimerFires, RefreshSucceeds, RefreshRecovered,
                  RefreshFails, RefreshDenied, RefreshExpired
    <3> QED
      BY <2>2, <2>7, <3>1, SessionCompletes
  <2>8. CASE (\E l \in Loads : AnswerLoad(l)) \/ AnswerDetail
    <3>1. excused' = excused
      BY <2>8 DEF AnswerLoad, AnswerDetail
    <3> QED
      BY <2>3, <2>8, <3>1, AnswerCompletes
  <2>9. CASE \E field \in {"events", "global"} : StreamOpens(field)
    <3>1. excused' = excused
      BY <2>9 DEF StreamOpens
    <3> QED
      BY <2>3, <2>9, <3>1, StreamOpensCompletes
  <2>10. CASE OtherRequest \/ TokenAges \/ Revoke
    <3>1. excused' = excused
      BY <2>10 DEF OtherRequest, TokenAges, Revoke
    <3> QED
      BY <2>3, <2>10, <3>1, BesideCompletes
  <2>11. CASE EventArrives
    BY <2>11, EventArrivesCompletes
  <2> QED
    BY <1>3, <2>4, <2>5, <2>6, <2>7, <2>8, <2>9, <2>10, <2>11 DEF Next
<1> QED
  BY <1>1, <1>2, <1>3

\* Nothing is shown, read or emitted at first.
LEMMA InitCompletes == Init => CompleteInv
<1> SUFFICES ASSUME Init PROVE CompleteInv
  OBVIOUS
<1>1. PICK c \in {"fresh", "stale", "none"} : rt = createInitialSnapshot(c)
  BY DEF Init
<1>2. /\ upstream = [t \in Threads |-> 0] /\ trusted = TRUE /\ failures = 0 /\ agings = 0
      /\ excused = [t \in Threads |-> {}]
  BY DEF Init
<1>3. /\ rt.events = NoStream /\ rt.detail = Idle /\ rt.read = NoRead /\ rt.resync = "idle"
      /\ rt.loads = [l \in Loads |-> NoRead]
  BY <1>1 DEF createInitialSnapshot
<1>4. NoStream.phase = "closed" /\ NoStream.sent = {} /\ Idle.kind = "idle" /\ NoRead.state = "none"
  BY DEF NoStream, Idle, Detail, NoRead
<1>5. 0 \in 0 .. MaxAttempts /\ 0 \in 0 .. MaxEvents /\ 0 \in 0 .. MaxFailures /\ 0 \in 0 .. MaxAgings
  BY RuntimeAssumption
<1>6. rt \in Snapshots
  <2>1. [t \in Threads |-> {}] \in [Threads -> SUBSET Numbers] /\ [l \in Loads |-> NoRead] \in [Loads -> Reads]
    BY NothingTyped
  <2>2. (IF c = "none" THEN "unpaired" ELSE "disconnected") \in Connections
    BY ConnectionsAre
  <2> QED
    BY <1>1, <1>5, <2>1, <2>2, NothingTyped DEF createInitialSnapshot, Snapshots
<1>7. Formed(rt)
  BY <1>3, <1>4, <1>6 DEF Formed
<1>8. \A t \in Threads : ~Shown(t) /\ Replies(t) = {}
  BY <1>3, <1>4 DEF Shown, Replies
<1> QED
  BY <1>2, <1>5, <1>7, <1>8, InitFollows DEF CompleteInv, ShownIsComplete, RepliesAreComplete

\* The runtime, its streams and its reads keep their shapes, whatever method
\* runs from whatever state, and no counter leaves its bound: the attempts of
\* scheduleReconnect stay within MAX_RECONNECT_ATTEMPTS.
THEOREM RuntimeIsTyped == Spec => []TypeOK
<1>1. CompleteInv => TypeOK
  BY DEF CompleteInv, Formed, Snapshots, TypeOK
<1> QED
  BY InitCompletes, StepCompletes, <1>1, PTL DEF Spec

\* However reads, events, selections, losses of streams and resyncs interleave,
\* a detail that is shown while its stream is open and drained, and no read of
\* it is under way, lacks no event but those that no open stream carried or
\* that the answer to an older read took back.
THEOREM RuntimeShowsEveryEvent == Spec => []DetailIsComplete
<1>1. CompleteInv => DetailIsComplete
  <2> SUFFICES ASSUME CompleteInv, rt.detail.kind = "ready", rt.events.phase = "open", rt.events.sent = {}
               PROVE  1 .. upstream[rt.selected] \subseteq rt.detail.has \cup excused[rt.selected]
    BY DEF DetailIsComplete
  <2>1. rt.events.thread = rt.selected /\ rt.detail.thread = rt.selected /\ rt.selected \in Threads
    BY DEF CompleteInv, Formed, Follows
  <2>2. Shown(rt.selected) /\ Carried(rt.selected) = {}
    BY <2>1 DEF Shown, Carried
  <2> QED
    BY <2>1, <2>2 DEF CompleteInv, ShownIsComplete
<1> QED
  BY InitCompletes, StepCompletes, <1>1, PTL DEF Spec
=============================================================================
