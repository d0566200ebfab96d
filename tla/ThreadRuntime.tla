---------------------------- MODULE ThreadRuntime ----------------------------
(***************************************************************************)
(* BridgeThreadRuntime of the SDK: the connection, the selected thread and *)
(* its detail, the two event streams, and the resync that rebuilds all of  *)
(* them from the bridge.                                                   *)
(*                                                                         *)
(* A JavaScript task is one action.  What the code keeps across an await   *)
(* is a read of a detail on its way to the bridge and back, a stream that  *)
(* waits for its credentials, or the stage of the resync.  The fields of   *)
(* the runtime are one record, and its methods operators from record to    *)
(* record.  An event is its number in its thread.                          *)
(***************************************************************************)
EXTENDS Naturals, FiniteSets

CONSTANTS
  Threads,      \* ids of threads
  Loads,        \* bound: slots for reads by selectThread under way together
  MaxEvents,    \* bound on the events of each thread
  MaxAttempts,  \* MAX_RECONNECT_ATTEMPTS
  MaxFailures,  \* bound on failed requests and lost streams
  MaxAgings,    \* bound on expiries of the access token
  None

ASSUME RuntimeAssumption ==
  /\ None \notin Threads
  /\ MaxEvents \in Nat
  /\ MaxAttempts \in Nat
  /\ MaxFailures \in Nat
  /\ MaxAgings \in Nat

VARIABLES
  rt,        \* the runtime and its client
  upstream,  \* number of events of each thread at the bridge
  trusted,   \* the bridge still trusts the device
  failures, agings,
  excused    \* history: events no stream carried to the client, or that the
             \* answer to an older read took back

vars == <<rt, upstream, trusted, failures, agings, excused>>

Numbers == 1 .. MaxEvents
Terminal == {"expired", "revoked", "unreachable"}
Lost == Terminal \cup {"unpaired"}
Connections ==
  Lost \cup {"disconnected", "refreshing", "resyncing", "authenticated", "reconnecting"}

Details == [kind : {"idle", "loading", "error", "ready"}, thread : Threads \cup {None},
            has : SUBSET Numbers]
Streams == [phase : {"closed", "connecting", "opening", "open"}, thread : Threads \cup {None},
            sent : SUBSET Numbers]
Reads == [state : {"none", "waiting", "sent", "answered"}, thread : Threads \cup {None},
          has : SUBSET Numbers]

Detail(kind, t, has) == [kind |-> kind, thread |-> t, has |-> has]
Idle == Detail("idle", None, {})
NoStream == [phase |-> "closed", thread |-> None, sent |-> {}]
NoRead == [state |-> "none", thread |-> None, has |-> {}]

TypeOK ==
  /\ rt \in [connection : Connections, selected : Threads \cup {None}, detail : Details,
             pending : [Threads -> SUBSET Numbers], events : Streams, global : Streams,
             orphans : SUBSET (Threads \cup {None}), loads : [Loads -> Reads],
             resync : {"idle", "refresh", "list", "detail"}, read : Reads,
             attempt : 0 .. MaxAttempts, timer : BOOLEAN,
             credentials : {"fresh", "stale", "none"}, refreshing : BOOLEAN, started : BOOLEAN]
  /\ upstream \in [Threads -> 0 .. MaxEvents]
  /\ trusted \in BOOLEAN
  /\ failures \in 0 .. MaxFailures
  /\ agings \in 0 .. MaxAgings
  /\ excused \in [Threads -> SUBSET Numbers]

createInitialSnapshot(c) ==
  [connection |-> IF c = "none" THEN "unpaired" ELSE "disconnected",
   selected |-> None, detail |-> Idle, pending |-> [t \in Threads |-> {}],
   events |-> NoStream, global |-> NoStream, orphans |-> {}, loads |-> [l \in Loads |-> NoRead],
   resync |-> "idle", read |-> NoRead, attempt |-> 0, timer |-> FALSE, credentials |-> c,
   refreshing |-> FALSE, started |-> FALSE]

Init ==
  /\ \E c \in {"fresh", "stale", "none"} : rt = createInitialSnapshot(c)
  /\ upstream = [t \in Threads |-> 0]
  /\ trusted = TRUE
  /\ failures = 0
  /\ agings = 0
  /\ excused = [t \in Threads |-> {}]

-----------------------------------------------------------------------------
(* Methods of the runtime and the client, from one state to the next.      *)

\* refreshCredentials, and the 'refreshing' event it emits
Refresh(r) ==
  IF r.refreshing THEN r
  ELSE [r EXCEPT !.refreshing = TRUE,
                 !.connection = IF @ \in Terminal THEN @ ELSE "refreshing"]

\* getValidCredentials: credentials that expired are refreshed, once for all
\* who ask.
Touch(r) == IF r.credentials = "stale" THEN Refresh(r) ELSE r

Read(r, t) == [state |-> IF r.credentials = "stale" THEN "waiting" ELSE "sent",
               thread |-> t, has |-> {}]

\* A subscription that is closed while it waits for its credentials reports
\* to its handler once it has them.
Close(r, field) ==
  [r EXCEPT ![field] = NoStream,
            !.orphans = IF r[field].phase = "connecting" THEN @ \cup {r[field].thread} ELSE @]

disconnectEvents(r) == Close(r, "events")
disconnectGlobalEvents(r) == Close(r, "global")

applySessionLoss(r, kind) ==
  [disconnectGlobalEvents(disconnectEvents(r)) EXCEPT
     !.connection = kind, !.selected = None, !.detail = Idle, !.timer = FALSE,
     !.pending = [t \in Threads |-> {}]]

\* Faulty: it tries for ever.
scheduleReconnectWithoutEnd(r) ==
  IF r.timer \/ r.credentials = "none" THEN r ELSE [r EXCEPT !.attempt = @ + 1, !.timer = TRUE]

scheduleReconnect(r) ==
  CASE r.timer \/ r.credentials = "none" -> r
    [] ~r.timer /\ r.credentials # "none" /\ r.attempt < MaxAttempts ->
         [r EXCEPT !.attempt = @ + 1, !.timer = TRUE]
    [] OTHER -> [applySessionLoss(r, "unreachable") EXCEPT !.credentials = "none"]

markAuthenticated(r) == [r EXCEPT !.connection = "authenticated", !.attempt = 0]

Open(r, field, t) ==
  Touch([Close(r, field) EXCEPT
           ![field] = [phase |-> IF r.credentials = "stale" THEN "connecting" ELSE "opening",
                       thread |-> t, sent |-> {}]])

\* Without credentials the stream reports missingCredentials at once: the
\* session is lost, and the handler of the global stream retries nothing.
connectEvents(r, t) ==
  IF r.credentials = "none" THEN applySessionLoss(r, "unpaired") ELSE Open(r, "events", t)

connectGlobalEvents(r) ==
  IF r.credentials = "none" THEN disconnectGlobalEvents(r) ELSE Open(r, "global", None)

\* onDisconnect of the two streams, for a failure of the network
eventsLost(r) == scheduleReconnect([disconnectEvents(r) EXCEPT !.connection = "reconnecting"])
globalLost(r) == IF r.connection = "authenticated" THEN scheduleReconnect(r) ELSE r

\* performResync, up to its first request ...
List(r) ==
  Touch([r EXCEPT !.connection = "resyncing", !.resync = "list",
                  !.detail = IF r.selected # None /\ @.kind # "ready"
                             THEN Detail("loading", r.selected, {}) ELSE @,
                  !.read = Read(r, None)])

Resync(r) ==
  LET c == [r EXCEPT !.timer = FALSE]
  IN  IF r.resync # "idle" THEN r
      ELSE CASE r.credentials = "none"  -> applySessionLoss(c, "unpaired")
             [] r.credentials = "stale" -> Refresh([c EXCEPT !.connection = "refreshing",
                                                             !.resync = "refresh"])
             [] OTHER                   -> List(c)

\* Faulty: the promise of the resync is never forgotten.
EndedForGood(r) == [r EXCEPT !.read = NoRead]

Ended(r) == [r EXCEPT !.resync = "idle", !.read = NoRead]

\* ... after the list, with a selected thread or without ...
Listed(r) ==
  IF r.selected = None
  THEN Ended(markAuthenticated(connectGlobalEvents([disconnectEvents(r) EXCEPT !.detail = Idle])))
  ELSE Touch([r EXCEPT !.resync = "detail", !.read = Read(r, r.selected),
                       !.detail = IF @.kind = "ready" /\ @.thread = r.selected
                                  THEN @ ELSE Detail("loading", r.selected, {})])

\* Faulty: the queued events are dropped.
DrainedOnly(r, t, has) == Detail("ready", t, has)

\* drainPendingEvents
Drained(r, t, has) == Detail("ready", t, has \cup r.pending[t])
Forget(r, t) == [r EXCEPT !.pending[t] = {}]

\* ... after the detail ...
Restored(r) ==
  LET t == r.read.thread
      d == [Forget(r, t) EXCEPT !.detail = Drained(r, t, r.read.has)]
  IN  IF r.selected # t
      THEN Ended(Forget(r, t))
      ELSE Ended(markAuthenticated(connectGlobalEvents(connectEvents(d, t))))

\* ... or when a request of it fails: at the bridge, or on the way.
resyncErrs(r) ==
  markAuthenticated(
    [Ended(r) EXCEPT !.detail = IF r.selected = None THEN @ ELSE Detail("error", r.selected, {})])

resyncFails(r) ==
  LET d == scheduleReconnect([disconnectEvents(Ended(r)) EXCEPT !.connection = "disconnected"])
  IN  [d EXCEPT !.detail = IF d.selected # None /\ @.kind # "ready"
                           THEN Detail("error", d.selected, {}) ELSE @]

\* loadSelectedThread
Load(r, l, t) ==
  LET c == connectEvents([r EXCEPT !.pending[t] = {}], t)
  IN  IF c.credentials = "none" THEN c ELSE [c EXCEPT !.loads[l] = Read(c, t)]

\* Faulty: the answer is shown whatever is selected by now.
loadReturnsUnchecked(r, l) ==
  LET t == r.loads[l].thread
  IN  [Forget(r, t) EXCEPT !.loads[l] = NoRead, !.detail = Drained(r, t, r.loads[l].has)]

loadReturns(r, l) ==
  LET t == r.loads[l].thread
      d == [Forget(r, t) EXCEPT !.loads[l] = NoRead]
  IN  IF r.selected # t THEN d ELSE [d EXCEPT !.detail = Drained(r, t, r.loads[l].has)]

loadFails(r, l) ==
  LET d == [r EXCEPT !.loads[l] = NoRead]
  IN  IF r.selected # r.loads[l].thread
      THEN d ELSE scheduleReconnect([d EXCEPT !.connection = "reconnecting"])

loadErrs(r, l) ==
  LET t == r.loads[l].thread
      d == [r EXCEPT !.loads[l] = NoRead]
  IN  IF r.selected # t THEN d ELSE [d EXCEPT !.detail = Detail("error", t, {})]

WaitingLoads(r) == {l \in Loads : r.loads[l].state = "waiting"}

\* What everyone who waits for a refresh does when it fails on the way ...
loadsFail(r) ==
  LET d == [r EXCEPT !.loads = [l \in Loads |-> IF l \in WaitingLoads(r) THEN NoRead ELSE @[l]]]
  IN  IF \E l \in WaitingLoads(r) : r.loads[l].thread = r.selected
      THEN scheduleReconnect([d EXCEPT !.connection = "reconnecting"]) ELSE d

streamsFail(r) ==
  LET g == IF r.global.phase = "connecting" THEN globalLost([r EXCEPT !.global = NoStream]) ELSE r
  IN  IF g.events.phase = "connecting" THEN eventsLost([g EXCEPT !.events = NoStream]) ELSE g

resyncWaits(r) == r.resync = "refresh" \/ r.read.state = "waiting"
resyncFailsToo(r) == IF resyncWaits(r) THEN resyncFails(r) ELSE r

\* ... and when it succeeds.  A stream that was closed meanwhile reports
\* missingCredentials, to the handler of its thread.
orphansReport(r) ==
  LET g == IF None \in r.orphans THEN globalLost(r) ELSE r
  IN  [(IF g.selected \in Threads \cap r.orphans THEN applySessionLoss(g, "unpaired") ELSE g)
         EXCEPT !.orphans = {}]

streamsConnect(r) ==
  LET Connected(s) == IF s.phase = "connecting" THEN [s EXCEPT !.phase = "opening"] ELSE s
  IN  orphansReport([r EXCEPT !.events = Connected(@), !.global = Connected(@)])

readsAreSent(r) ==
  LET Sent(q) == IF q.state = "waiting" THEN [q EXCEPT !.state = "sent"] ELSE q
  IN  [r EXCEPT !.loads = [l \in Loads |-> Sent(@[l])], !.read = Sent(@)]

resyncGoesOn(r) == IF r.resync = "refresh" THEN List(r) ELSE r

\* The listener of the 'refreshed' event
refreshed(r) ==
  IF r.resync = "idle" /\ r.connection \notin Lost THEN markAuthenticated(r) ELSE r

\* Those who wait run in the order in which they came.
FirstOrLast(r, Op1(_), Op2(_)) == {Op1(Op2(r)), Op2(Op1(r))}

-----------------------------------------------------------------------------
(* The user                                                                *)

Becomes(r) == rt' = r
LeavesBridge == UNCHANGED <<upstream, trusted>>
Quietly == LeavesBridge /\ UNCHANGED <<failures, agings>>
Failing == failures < MaxFailures /\ failures' = failures + 1 /\ LeavesBridge /\ UNCHANGED agings

\* Events that were on a stream when it was closed, or in a queue when it was
\* thrown away, and those that a detail shows and an answer still to come lacks.
Excuse ==
  LET shows(t)   == rt'.detail.kind = "ready" /\ rt'.detail.thread = t
      answers(t) == {q \in {rt'.loads[l] : l \in Loads} \cup {rt'.read} :
                       q.state = "answered" /\ q.thread = t}
      Cut(t)     == IF rt.events.thread = t /\ rt'.events.phase # "open" THEN rt.events.sent ELSE {}
      Dropped(t) == IF shows(t) THEN {} ELSE rt.pending[t] \ rt'.pending[t]
      Hidden(t)  == IF shows(t) THEN UNION {rt'.detail.has \ q.has : q \in answers(t)} ELSE {}
  IN  excused' = [t \in Threads |-> excused[t] \cup Cut(t) \cup Dropped(t) \cup Hidden(t)]

bootstrap(r) == IF r.credentials = "none" THEN applySessionLoss(r, "unpaired") ELSE Resync(r)

\* The provider has mounted, and the version of the bridge is right.
Bootstrap ==
  /\ ~rt.started
  /\ Becomes(bootstrap([rt EXCEPT !.started = TRUE]))
  /\ Quietly /\ Excuse

\* The window gets the focus or comes online, or the user asks.
RetryConnection ==
  /\ rt.connection # "authenticated"
  /\ rt.resync = "idle"
  /\ rt.connection \notin Terminal \/ rt.credentials = "none"
  /\ Becomes(IF rt.credentials = "none" THEN applySessionLoss(rt, "unpaired")
             ELSE Resync([rt EXCEPT !.connection = "reconnecting"]))
  /\ Quietly /\ Excuse

\* ... but the version of the bridge cannot be read, on this occasion or
\* when the provider mounted.
ReportConnectionFailure ==
  /\ rt.connection # "authenticated"
  /\ rt.credentials # "none"
  /\ \E s \in {rt.started, TRUE} :
       Becomes([disconnectEvents(rt) EXCEPT
                !.started = s, !.timer = FALSE, !.pending = [t \in Threads |-> {}], !.connection = "disconnected",
                !.detail = IF rt.selected # None /\ @.kind # "ready"
                           THEN Detail("error", rt.selected, {}) ELSE @])
  /\ Failing /\ Excuse

SelectThread(t) ==
  /\ t # rt.selected
  /\ LET s == [disconnectEvents(rt) EXCEPT !.pending[t] = {}, !.selected = t,
                                           !.detail = Detail("loading", t, {})]
     IN  \E l \in Loads :
           /\ rt.loads[l] = NoRead
           /\ Becomes(IF s.connection = "authenticated" THEN Load(s, l, t) ELSE s)
  /\ Quietly /\ Excuse

Deselect ==
  /\ rt.selected # None
  /\ Becomes([disconnectEvents(rt) EXCEPT !.pending = [t \in Threads |-> {}], !.selected = None,
                                          !.detail = Idle])
  /\ Quietly /\ Excuse

\* startThread is answered: a thread without events is shown.
StartThread(t) ==
  /\ rt.credentials # "none"
  /\ t # rt.selected
  /\ upstream[t] = 0
  /\ Becomes(connectGlobalEvents(connectEvents(
       [disconnectEvents(rt) EXCEPT !.pending[t] = {}, !.selected = t,
                                    !.detail = Detail("ready", t, {})], t)))
  /\ Quietly /\ Excuse

\* Any other request of the user needs valid credentials.
OtherRequest ==
  /\ rt.credentials = "stale"
  /\ ~rt.refreshing
  /\ Becomes(Refresh(rt))
  /\ Quietly /\ UNCHANGED excused

\* The user logs out: clearCredentials, resetState.
Logout ==
  /\ rt.credentials # "none"
  /\ Becomes([disconnectGlobalEvents(disconnectEvents(rt)) EXCEPT
                !.credentials = "none", !.timer = FALSE, !.pending = [t \in Threads |-> {}],
                !.connection = "unpaired", !.selected = None, !.detail = Idle])
  /\ Quietly /\ Excuse

\* The user pairs again, and the provider sees credentials.
Pair ==
  /\ rt.credentials = "none"
  /\ ~rt.refreshing
  /\ Becomes(bootstrap([rt EXCEPT !.credentials = "fresh"]))
  /\ trusted' = TRUE
  /\ UNCHANGED <<upstream, failures, agings>> /\ Excuse

-----------------------------------------------------------------------------
(* The bridge                                                              *)

Emit(t) ==
  /\ upstream[t] < MaxEvents
  /\ upstream' = [upstream EXCEPT ![t] = @ + 1]
  /\ LET e == upstream[t] + 1
         carried == rt.events.phase = "open" /\ rt.events.thread = t
     IN  IF carried
         THEN Becomes([rt EXCEPT !.events.sent = @ \cup {e}]) /\ UNCHANGED excused
         ELSE UNCHANGED rt /\ excused' = [excused EXCEPT ![t] = @ \cup {e}]
  /\ UNCHANGED <<trusted, failures, agings>>

Revoke ==
  /\ trusted
  /\ rt.credentials # "none"
  /\ trusted' = FALSE
  /\ UNCHANGED <<rt, upstream, failures, agings, excused>>

\* The bridge answers a read of a detail with the events so far.
Answered(q) == [q EXCEPT !.state = "answered", !.has = 1 .. upstream[q.thread]]

AnswerLoad(l) ==
  /\ trusted
  /\ rt.loads[l].state = "sent"
  /\ Becomes([rt EXCEPT !.loads[l] = Answered(@)])
  /\ Quietly /\ UNCHANGED excused

AnswerDetail ==
  /\ trusted
  /\ rt.resync = "detail"
  /\ rt.read.state = "sent"
  /\ Becomes([rt EXCEPT !.read = Answered(@)])
  /\ Quietly /\ UNCHANGED excused

\* A device that is not trusted is refused, and the client tries a refresh.
RefuseLoad(l) ==
  /\ ~trusted
  /\ rt.loads[l].state = "sent"
  /\ LET r == [rt EXCEPT !.loads[l] = NoRead]
     IN  Becomes(CASE rt.credentials # "none" -> Refresh([rt EXCEPT !.loads[l].state = "waiting"])
                   [] rt.credentials = "none" /\ rt.selected = rt.loads[l].thread ->
                          applySessionLoss(r, "unpaired")
                   [] OTHER -> r)
  /\ Quietly /\ Excuse

RefuseResync ==
  /\ ~trusted
  /\ rt.read.state = "sent"
  /\ Becomes(IF rt.credentials = "none" THEN Ended(applySessionLoss(rt, "unpaired"))
             ELSE Refresh([rt EXCEPT !.read.state = "waiting"]))
  /\ Quietly /\ Excuse

-----------------------------------------------------------------------------
(* What comes back                                                         *)

ListReturns ==
  /\ trusted
  /\ rt.resync = "list"
  /\ rt.read.state = "sent"
  /\ Becomes(Listed(rt))
  /\ Quietly /\ Excuse

DetailReturns ==
  /\ rt.resync = "detail"
  /\ rt.read.state = "answered"
  /\ Becomes(Restored(rt))
  /\ Quietly /\ Excuse

ResyncFails ==
  /\ rt.read.state # "none" /\ rt.read.state # "waiting"
  /\ Becomes(resyncFails(rt)) \/ Becomes(resyncErrs(rt))
  /\ Failing /\ Excuse

LoadReturns(l) ==
  /\ rt.loads[l].state = "answered"
  /\ Becomes(loadReturns(rt, l))
  /\ Quietly /\ Excuse

LoadFails(l) ==
  /\ rt.loads[l].state \in {"sent", "answered"}
  /\ Becomes(loadFails(rt, l)) \/ Becomes(loadErrs(rt, l))
  /\ Failing /\ Excuse

StreamOpens(field) ==
  /\ rt[field].phase = "opening"
  /\ trusted
  /\ Becomes([rt EXCEPT ![field].phase = "open"])
  /\ Quietly /\ UNCHANGED excused

StreamRefused(field) ==
  /\ rt[field].phase = "opening"
  /\ ~trusted
  /\ Becomes(IF field = "events" THEN eventsLost(rt) ELSE globalLost([rt EXCEPT !.global = NoStream]))
  /\ Quietly /\ Excuse

StreamLost(field) ==
  /\ rt[field].phase \in {"opening", "open"}
  /\ Becomes(IF field = "events" THEN eventsLost(rt) ELSE globalLost([rt EXCEPT !.global = NoStream]))
  /\ Failing /\ Excuse

EventArrives ==
  \E e \in rt.events.sent :
    LET t == rt.events.thread
        s == [rt EXCEPT !.events.sent = @ \ {e}]
    IN  /\ \A f \in rt.events.sent : e <= f
        /\ Becomes(IF rt.detail.kind = "ready" THEN [s EXCEPT !.detail.has = @ \cup {e}]
                   ELSE [s EXCEPT !.pending[t] = @ \cup {e}])
  /\ Quietly /\ Excuse

TimerFires ==
  /\ rt.timer
  /\ LET c == [rt EXCEPT !.timer = FALSE]
     IN  Becomes(IF rt.credentials = "none" THEN c
                 ELSE Resync([c EXCEPT !.connection = "reconnecting"]))
  /\ Quietly /\ Excuse

-----------------------------------------------------------------------------
(* The session                                                             *)

TokenAges ==
  /\ rt.credentials = "fresh"
  /\ agings < MaxAgings
  /\ agings' = agings + 1
  /\ Becomes([rt EXCEPT !.credentials = "stale"])
  /\ LeavesBridge /\ UNCHANGED <<failures, excused>>

\* The credentials are saved, even when they were cleared meanwhile.
RefreshSucceeds ==
  /\ rt.refreshing
  /\ trusted
  /\ LET r == refreshed([rt EXCEPT !.refreshing = FALSE, !.credentials = "fresh"])
     IN  \E s \in FirstOrLast(readsAreSent(r), streamsConnect, resyncGoesOn) : Becomes(s)
  /\ Quietly /\ Excuse

\* Another tab has rotated the tokens: its credentials serve, and no event
\* tells so.
RefreshRecovered ==
  /\ rt.refreshing
  /\ trusted
  /\ rt.credentials # "none"
  /\ LET r == [rt EXCEPT !.refreshing = FALSE, !.credentials = "fresh"]
     IN  \E s \in FirstOrLast(readsAreSent(r), streamsConnect, resyncGoesOn) : Becomes(s)
  /\ Quietly /\ Excuse

RefreshFails ==
  /\ rt.refreshing
  /\ LET Others(r) == streamsFail(loadsFail(r))
         d == [rt EXCEPT !.refreshing = FALSE, !.orphans = {}]
     IN  \E s \in FirstOrLast(d, Others, resyncFailsToo) : Becomes(s)
  /\ Failing /\ Excuse

denied(r, kind) ==
  LET d == applySessionLoss([r EXCEPT !.refreshing = FALSE, !.credentials = "none",
                              !.loads = [l \in Loads |->
                                           IF l \in WaitingLoads(r) THEN NoRead ELSE @[l]]], kind)
  IN  [(IF resyncWaits(r) THEN Ended(d) ELSE d) EXCEPT !.orphans = {}]

RefreshDenied ==
  /\ rt.refreshing
  /\ ~trusted
  /\ Becomes(denied(rt, "revoked"))
  /\ Quietly /\ Excuse

RefreshExpired ==
  /\ rt.refreshing
  /\ trusted
  /\ Becomes(denied(rt, "expired"))
  /\ Failing /\ Excuse

-----------------------------------------------------------------------------
Next ==
  \/ Bootstrap \/ RetryConnection \/ ReportConnectionFailure \/ Deselect \/ OtherRequest
  \/ Logout \/ Pair \/ Revoke
  \/ \E t \in Threads : SelectThread(t) \/ StartThread(t) \/ Emit(t)
  \/ \E l \in Loads : AnswerLoad(l) \/ RefuseLoad(l) \/ LoadReturns(l) \/ LoadFails(l)
  \/ AnswerDetail \/ RefuseResync \/ ListReturns \/ DetailReturns \/ ResyncFails
  \/ \E field \in {"events", "global"} :
       StreamOpens(field) \/ StreamRefused(field) \/ StreamLost(field)
  \/ EventArrives \/ TimerFires \/ TokenAges
  \/ RefreshSucceeds \/ RefreshRecovered \/ RefreshFails \/ RefreshDenied \/ RefreshExpired

Spec == Init /\ [][Next]_vars

\* Requests, streams, refreshes and timers end; the user comes back to the
\* window now and then.
Fairness ==
  /\ WF_vars(\E l \in Loads : AnswerLoad(l) \/ RefuseLoad(l) \/ LoadReturns(l))
  /\ WF_vars(AnswerDetail \/ RefuseResync \/ ListReturns \/ DetailReturns)
  /\ WF_vars(\E field \in {"events", "global"} : StreamOpens(field) \/ StreamRefused(field))
  /\ WF_vars(EventArrives) /\ WF_vars(TimerFires)
  /\ WF_vars(RefreshSucceeds \/ RefreshRecovered \/ RefreshDenied)
  /\ WF_vars(RetryConnection)

FairSpec == Spec /\ Fairness

-----------------------------------------------------------------------------
(* Properties                                                              *)

\* The stream of a thread and the detail are those of the selected thread,
\* whatever answer or handler of a former selection came in between.
FollowsSelection ==
  /\ rt.events.phase # "closed" => rt.events.thread = rt.selected
  /\ rt.detail.thread = rt.selected

\* When failures end, the selection rests and the user comes back to the
\* window, the runtime gets back to the bridge, or says the session is lost.
Recovers ==
  \A s \in Threads \cup {None} :
    <>[](rt.selected = s) => []<>(rt.connection \in Lost \cup {"authenticated"})

\* The detail of the selected thread, once read and with its stream open and
\* empty, shows every event, but for those that were emitted while no stream
\* was open for them, or that an older answer took back.
Reading(t) ==
  \/ rt.read.state # "none" /\ rt.read.thread = t
  \/ \E l \in Loads : rt.loads[l].state # "none" /\ rt.loads[l].thread = t

DetailIsComplete ==
  rt.detail.kind = "ready" /\ rt.events.phase = "open" /\ rt.events.sent = {} /\ ~Reading(rt.selected)
    => 1 .. upstream[rt.selected] \subseteq rt.detail.has \cup excused[rt.selected]
=============================================================================
