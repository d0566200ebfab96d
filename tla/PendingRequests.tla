-------------------------- MODULE PendingRequests --------------------------
(***************************************************************************)
(* Approvals and questions: requests the app-server makes, the tables in   *)
(* which the bridge keeps them (PendingRequestState and the method map of  *)
(* ThreadRuntimeCache), the events by which the thread lists of its        *)
(* clients learn of them, and the answers on their way back.               *)
(*                                                                         *)
(* Requests, notifications and answers travel over the app-server's two    *)
(* ordered pipes; each client has an ordered event stream and an HTTP      *)
(* connection of its own.  Every client lists every thread.  The change    *)
(* detector takes part because it announces a thread it did not know with  *)
(* a summary listed earlier, which replaces the one a client has.          *)
(***************************************************************************)
EXTENDS Naturals, Sequences

CONSTANTS
  Requests,     \* ids the app-server gives its requests; it reuses none
  Threads,
  ThreadOf,     \* the thread of each request
  Supported,    \* requests whose method the bridge knows
  Undetected,   \* threads the change detector will find new
  Clients,      \* SDK runtimes, with a global event stream each
  MaxReplays,   \* bound on requests the app-server sends again
  MaxResponses  \* bound on responses by the clients' users

ASSUME RequestsAssumption ==
  /\ ThreadOf \in [Requests -> Threads]
  /\ Requests \cap Threads = {}
  /\ Supported \subseteq Requests
  /\ Undetected \subseteq Threads
  /\ MaxReplays \in Nat
  /\ MaxResponses \in Nat

VARIABLES
  upstream,     \* each request at the app-server: new, open, closed
  replays,      \* number of requests sent again
  pipe,         \* messages from the app-server the bridge has not read
  listed,       \* how often a request is in its thread's list
  byId,         \* the requests found by id
  methods,      \* the requests whose method is recorded
  answers,      \* responses the app-server has not read
  detection,    \* the detector on each thread: unaware, listed, announced
  listing,      \* the pending requests it listed
  link,         \* a client's stream: open, lost, or lost and listed anew
  interrupted,  \* history: clients that have ever lost their stream
  events,       \* events on a client's stream
  shown,        \* requests in a client's thread list
  responding,   \* requests whose response a client awaits
  posts,        \* responses on their way to the bridge
  attempts      \* number of responses

appServerVars == <<upstream, replays>>
tableVars == <<listed, byId, methods>>
detectorVars == <<detection, listing>>
clientVars == <<link, interrupted, shown>>
respondVars == <<responding, posts, attempts>>

vars == <<appServerVars, pipe, tableVars, answers, detectorVars, clientVars,
          events, respondVars>>

Messages ==
  [type : {"request", "resolved", "closed", "added", "started"},
   about : Requests \cup Threads, pending : SUBSET Requests]

Message(type, about) == [type |-> type, about |-> about, pending |-> {}]

TypeOK ==
  /\ upstream \in [Requests -> {"new", "open", "closed"}]
  /\ replays \in 0 .. MaxReplays
  /\ pipe \in Seq(Messages)
  /\ listed \in [Requests -> Nat]
  /\ byId \subseteq Requests
  /\ methods \subseteq Requests
  /\ answers \in Seq(Requests)
  /\ detection \in [Threads -> {"unaware", "listed", "announced"}]
  /\ listing \in [Threads -> SUBSET Requests]
  /\ link \in [Clients -> {"open", "lost", "listed"}]
  /\ interrupted \subseteq Clients
  /\ events \in [Clients -> Seq(Messages)]
  /\ shown \in [Clients -> SUBSET Requests]
  /\ responding \in [Clients -> SUBSET Requests]
  /\ posts \subseteq Clients \X Requests
  /\ attempts \in 0 .. MaxResponses

Init ==
  /\ upstream = [r \in Requests |-> "new"]
  /\ replays = 0
  /\ pipe = <<>>
  /\ listed = [r \in Requests |-> 0]
  /\ byId = {}
  /\ methods = {}
  /\ answers = <<>>
  /\ detection = [t \in Threads |-> IF t \in Undetected THEN "unaware" ELSE "announced"]
  /\ listing = [t \in Threads |-> {}]
  /\ link = [c \in Clients |-> "open"]
  /\ interrupted = {}
  /\ events = [c \in Clients |-> <<>>]
  /\ shown = [c \in Clients |-> {}]
  /\ responding = [c \in Clients |-> {}]
  /\ posts = {}
  /\ attempts = 0

RequestsOf(t) == {r \in Requests : ThreadOf[r] = t}

-----------------------------------------------------------------------------
(* The app-server.                                                         *)

AppServerAsks(r) ==
  /\ upstream[r] = "new"
  /\ upstream' = [upstream EXCEPT ![r] = "open"]
  /\ pipe' = Append(pipe, Message("request", r))
  /\ UNCHANGED <<replays, tableVars, answers, detectorVars, clientVars, events, respondVars>>

\* A thread that is resumed has its open requests sent again.
AppServerReplays(r) ==
  /\ upstream[r] = "open"
  /\ replays < MaxReplays
  /\ replays' = replays + 1
  /\ pipe' = Append(pipe, Message("request", r))
  /\ UNCHANGED <<upstream, tableVars, answers, detectorVars, clientVars, events, respondVars>>

\* The turn ended or was interrupted: nobody waits for the answer any more.
AppServerCleansUp(r) ==
  /\ upstream[r] = "open"
  /\ upstream' = [upstream EXCEPT ![r] = "closed"]
  /\ pipe' = Append(pipe, Message("resolved", r))
  /\ UNCHANGED <<replays, tableVars, answers, detectorVars, clientVars, events, respondVars>>

\* A thread is unloaded and its requests are cancelled.
AppServerCloses(t) ==
  /\ \E r \in RequestsOf(t) : upstream[r] = "open"
  /\ upstream' = [r \in Requests |-> IF ThreadOf[r] = t /\ upstream[r] = "open"
                                     THEN "closed" ELSE upstream[r]]
  /\ pipe' = Append(pipe, Message("closed", t))
  /\ UNCHANGED <<replays, tableVars, answers, detectorVars, clientVars, events, respondVars>>

\* The first answer to an open request counts, any other is ignored.
AppServerReadsAnswer ==
  /\ answers # <<>>
  /\ answers' = Tail(answers)
  /\ IF upstream[Head(answers)] = "open"
     THEN /\ upstream' = [upstream EXCEPT ![Head(answers)] = "closed"]
          /\ pipe' = Append(pipe, Message("resolved", Head(answers)))
     ELSE UNCHANGED <<upstream, pipe>>
  /\ UNCHANGED <<replays, tableVars, detectorVars, clientVars, events, respondVars>>

-----------------------------------------------------------------------------
(* The bridge reads the pipe.                                              *)

Broadcast(m) ==
  events' = [c \in Clients |-> IF link[c] = "open" THEN Append(events[c], m) ELSE events[c]]

\* Faulty: a request that is sent again is listed again.
RequestArrivesTwice ==
  /\ pipe # <<>>
  /\ Head(pipe).type = "request"
  /\ pipe' = Tail(pipe)
  /\ LET r == Head(pipe).about
     IN  IF r \in Supported
         THEN /\ listed' = [listed EXCEPT ![r] = @ + 1]
              /\ byId' = byId \cup {r}
              /\ methods' = methods \cup {r}
              /\ Broadcast(Message("added", r))
         ELSE UNCHANGED <<tableVars, events>>
  /\ UNCHANGED <<appServerVars, answers, detectorVars, clientVars, respondVars>>

\* toRequestBridgeEvent: upsert filters the request out of its thread's list
\* before it appends it.  A request of another method is never answered.
RequestArrives ==
  /\ pipe # <<>>
  /\ Head(pipe).type = "request"
  /\ pipe' = Tail(pipe)
  /\ LET r == Head(pipe).about
     IN  IF r \in Supported
         THEN /\ listed' = [listed EXCEPT ![r] = 1]
              /\ byId' = byId \cup {r}
              /\ methods' = methods \cup {r}
              /\ Broadcast(Message("added", r))
         ELSE UNCHANGED <<tableVars, events>>
  /\ UNCHANGED <<appServerVars, answers, detectorVars, clientVars, respondVars>>

\* Faulty: an entry is taken off the list whether it is there or not.
ResolvedArrivesUnchecked ==
  /\ pipe # <<>>
  /\ Head(pipe).type = "resolved"
  /\ pipe' = Tail(pipe)
  /\ LET r == Head(pipe).about
     IN  /\ methods' = methods \ {r}
         /\ byId' = byId \ {r}
         /\ listed' = [listed EXCEPT ![r] = @ - 1]
         /\ Broadcast(Message("resolved", r))
  /\ UNCHANGED <<appServerVars, answers, detectorVars, clientVars, respondVars>>

\* Faulty: the clients are told and the tables left to the end of the thread.
ResolvedArrivesTellingOnly ==
  /\ pipe # <<>>
  /\ Head(pipe).type = "resolved"
  /\ pipe' = Tail(pipe)
  /\ Broadcast(Message("resolved", Head(pipe).about))
  /\ UNCHANGED <<appServerVars, tableVars, answers, detectorVars, clientVars, respondVars>>

\* serverRequest/resolved: the event goes out even for an unknown request.
ResolvedArrives ==
  /\ pipe # <<>>
  /\ Head(pipe).type = "resolved"
  /\ pipe' = Tail(pipe)
  /\ LET r == Head(pipe).about
     IN  /\ methods' = methods \ {r}
         /\ byId' = byId \ {r}
         /\ listed' = [listed EXCEPT ![r] = 0]
         /\ Broadcast(Message("resolved", r))
  /\ UNCHANGED <<appServerVars, answers, detectorVars, clientVars, respondVars>>

\* Faulty: only the thread's list is dropped.
ClosedArrivesKeepingIndex ==
  /\ pipe # <<>>
  /\ Head(pipe).type = "closed"
  /\ pipe' = Tail(pipe)
  /\ listed' = [r \in Requests |-> IF ThreadOf[r] = Head(pipe).about THEN 0 ELSE listed[r]]
  /\ UNCHANGED <<appServerVars, byId, methods, answers, detectorVars, clientVars, events, respondVars>>

\* thread/closed: what is in the thread's list leaves both tables.  No event
\* is emitted, and the methods stay.
ClosedArrives ==
  /\ pipe # <<>>
  /\ Head(pipe).type = "closed"
  /\ pipe' = Tail(pipe)
  /\ LET cleared == {r \in RequestsOf(Head(pipe).about) : listed[r] > 0}
     IN  /\ byId' = byId \ cleared
         /\ listed' = [r \in Requests |-> IF r \in cleared THEN 0 ELSE listed[r]]
  /\ UNCHANGED <<appServerVars, methods, answers, detectorVars, clientVars, events, respondVars>>

(* The change detector lists a thread it does not know, reads files, and   *)
(* only then announces it.                                                 *)

DetectorLists(t) ==
  /\ detection[t] = "unaware"
  /\ detection' = [detection EXCEPT ![t] = "listed"]
  /\ listing' = [listing EXCEPT ![t] = byId \cap RequestsOf(t)]
  /\ UNCHANGED <<appServerVars, pipe, tableVars, answers, clientVars, events, respondVars>>

DetectorAnnounces(t) ==
  /\ detection[t] = "listed"
  /\ detection' = [detection EXCEPT ![t] = "announced"]
  /\ Broadcast([type |-> "started", about |-> t, pending |-> listing[t]])
  /\ UNCHANGED <<appServerVars, pipe, tableVars, answers, listing, clientVars, respondVars>>
-----------------------------------------------------------------------------
(* The clients.                                                            *)

\* Faulty: a resolution removes every request of its thread.
EventArrivesClearing(c) ==
  /\ events[c] # <<>>
  /\ events' = [events EXCEPT ![c] = Tail(@)]
  /\ LET m == Head(events[c])
     IN  shown' = [shown EXCEPT ![c] =
           CASE m.type = "added"    -> @ \cup {m.about}
             [] m.type = "resolved" -> @ \ RequestsOf(ThreadOf[m.about])
             [] m.type = "started"  -> (@ \ RequestsOf(m.about)) \cup m.pending]
  /\ UNCHANGED <<appServerVars, pipe, tableVars, answers, detectorVars, link, interrupted, respondVars>>

\* updateThreadSummaryState.  A started thread replaces its whole summary.
EventArrives(c) ==
  /\ events[c] # <<>>
  /\ events' = [events EXCEPT ![c] = Tail(@)]
  /\ LET m == Head(events[c])
     IN  shown' = [shown EXCEPT ![c] =
           CASE m.type = "added"    -> @ \cup {m.about}
             [] m.type = "resolved" -> @ \ {m.about}
             [] m.type = "started"  -> (@ \ RequestsOf(m.about)) \cup m.pending]
  /\ UNCHANGED <<appServerVars, pipe, tableVars, answers, detectorVars, link, interrupted, respondVars>>

\* The stream breaks, or a resync replaces it.
StreamLost(c) ==
  /\ link[c] = "open"
  /\ link' = [link EXCEPT ![c] = "lost"]
  /\ interrupted' = interrupted \cup {c}
  /\ events' = [events EXCEPT ![c] = <<>>]
  /\ UNCHANGED <<appServerVars, pipe, tableVars, answers, detectorVars, shown, respondVars>>

\* performResync lists the threads first ...
ThreadsListed(c) ==
  /\ link[c] = "lost"
  /\ link' = [link EXCEPT ![c] = "listed"]
  /\ shown' = [shown EXCEPT ![c] = {r \in Requests : listed[r] > 0}]
  /\ UNCHANGED <<appServerVars, pipe, tableVars, answers, detectorVars, interrupted, events, respondVars>>

\* ... and opens the stream afterwards.
StreamOpens(c) ==
  /\ link[c] = "listed"
  /\ link' = [link EXCEPT ![c] = "open"]
  /\ UNCHANGED <<appServerVars, pipe, tableVars, answers, detectorVars, interrupted, shown, events, respondVars>>

(* A user answers a request; it is shown until the resolution arrives. *)

Responds(c, r) ==
  /\ r \in shown[c] \ responding[c]
  /\ attempts < MaxResponses
  /\ attempts' = attempts + 1
  /\ responding' = [responding EXCEPT ![c] = @ \cup {r}]
  /\ posts' = posts \cup {<<c, r>>}
  /\ UNCHANGED <<appServerVars, pipe, tableVars, answers, detectorVars, clientVars, events>>

\* ThreadService.respondToRequest leaves the tables as they are.
RespondHandled(c, r) ==
  /\ <<c, r>> \in posts
  /\ posts' = posts \ {<<c, r>>}
  /\ answers' = IF r \in byId THEN Append(answers, r) ELSE answers
  /\ UNCHANGED <<appServerVars, pipe, tableVars, detectorVars, clientVars, events, responding, attempts>>

\* The reply, an error reply or a lost reply: either way the user may try again.
RespondSettles(c, r) ==
  /\ r \in responding[c]
  /\ <<c, r>> \notin posts
  /\ responding' = [responding EXCEPT ![c] = @ \ {r}]
  /\ UNCHANGED <<appServerVars, pipe, tableVars, answers, detectorVars, clientVars, events, posts, attempts>>

RespondLost(c, r) ==
  /\ <<c, r>> \in posts
  /\ posts' = posts \ {<<c, r>>}
  /\ responding' = [responding EXCEPT ![c] = @ \ {r}]
  /\ UNCHANGED <<appServerVars, pipe, tableVars, answers, detectorVars, clientVars, events, attempts>>

-----------------------------------------------------------------------------
BridgeReads == RequestArrives \/ ResolvedArrives \/ ClosedArrives

AppServerStep ==
  \/ \E r \in Requests : AppServerAsks(r) \/ AppServerReplays(r) \/ AppServerCleansUp(r)
  \/ \E t \in Threads : AppServerCloses(t)
  \/ AppServerReadsAnswer

ClientStep(c) ==
  \/ EventArrives(c)
  \/ StreamLost(c)
  \/ ThreadsListed(c)
  \/ StreamOpens(c)
  \/ \E r \in Requests : \/ Responds(c, r)
                         \/ RespondHandled(c, r)
                         \/ RespondSettles(c, r)
                         \/ RespondLost(c, r)

Next ==
  \/ AppServerStep
  \/ BridgeReads
  \/ \E t \in Threads : DetectorLists(t) \/ DetectorAnnounces(t)
  \/ \E c \in Clients : ClientStep(c)

Spec == Init /\ [][Next]_vars

(* Both ends of the pipes are read. *)
Fairness == WF_vars(BridgeReads) /\ WF_vars(AppServerReadsAnswer)

FairSpec == Spec /\ Fairness

-----------------------------------------------------------------------------
(* Properties                                                              *)

\* The last word on a request in a queue of messages, or what holds now if the
\* queue does not mention it.
About(m, r) == m.about \in {r, ThreadOf[r]}

SaysOpen(m, r) == m.type \in {"request", "added"} \/ r \in m.pending

WillHold(q, r, now) ==
  \/ /\ now
     /\ \A i \in DOMAIN q : ~About(q[i], r)
  \/ \E i \in DOMAIN q :
       /\ About(q[i], r)
       /\ SaysOpen(q[i], r)
       /\ \A j \in DOMAIN q : j > i => ~About(q[j], r)

\* A request is found by id exactly when its thread lists it, once, and it
\* then has its method recorded, so an answer to it can be given in the terms
\* of that method (upsert, resolve and clearThread against replays).
TablesAgree ==
  \A r \in Requests :
    /\ listed[r] = IF r \in byId THEN 1 ELSE 0
    /\ r \in byId => r \in methods

\* Once the bridge has read what is in the pipe, it holds exactly the requests
\* of known methods that are open at the app-server, whatever was answered,
\* cleaned up, cancelled with its thread or sent again.
PendingIsKnown ==
  \A r \in Supported : upstream[r] = "open" <=> WillHold(pipe, r, r \in byId)

\* A request in the bridge's tables is shown, or will be once the events under
\* way have arrived, by every client whose stream was never interrupted, if
\* the change detector knew its thread.
RequestsReachConnectedClients ==
  \A c \in Clients \ interrupted, r \in byId :
    ThreadOf[r] \notin Undetected => WillHold(events[c], r, r \in shown[c])

\* An answered request leaves the bridge's tables, even if the app-server had
\* closed it before the answer came.
AnsweredIsForgotten ==
  \A r \in Requests : (\E i \in DOMAIN answers : answers[i] = r) ~> r \notin byId

\* The session-list spec: the tabs of threads that wait for approval or input
\* update in real time.  Every client whose stream was never interrupted shows
\* what the bridge holds, whichever thread it belongs to.
WaitingTabsAreUpToDate ==
  \A c \in Clients \ interrupted, r \in byId : WillHold(events[c], r, r \in shown[c])
=============================================================================
