---------------------- MODULE ThreadEventStreamRegistry ----------------------
(***************************************************************************)
(* The per-thread half of the bridge's ThreadEventStreamRegistry, together *)
(* with the HTTP route that opens and closes the SSE streams.              *)
(*                                                                         *)
(* A client opens a stream for one thread.  The first stream of a thread   *)
(* resumes it on the app-server; when the last one goes away the registry  *)
(* waits a grace window, asks whether the thread can be unloaded, and then *)
(* unsubscribes.  The bridge is one Node thread: an action below runs from *)
(* one await to the next, and everything that may run between two halves   *)
(* of an asynchronous operation is an action of its own.                   *)
(*                                                                         *)
(* Requests to the app-server travel over one ordered pipe, so the effect  *)
(* of a resume or an unsubscribe is recorded when it is written: subscribed*)
(* is what the app-server will hold once it has read everything written so *)
(* far.  Only the reply comes later.                                       *)
(***************************************************************************)
EXTENDS Naturals, FiniteSets

CONSTANTS
  Clients,         \* the SSE requests; each is opened at most once
  Threads,         \* the threads they stream
  ThreadOf,        \* the threadId each request asks for
  UpstreamMayFail  \* may a thread/resume or thread/unsubscribe be refused?

ASSUME ClientsAssumption ==
  /\ IsFiniteSet(Clients)
  /\ ThreadOf \in [Clients -> Threads]
  /\ UpstreamMayFail \in BOOLEAN

VARIABLES
  stream,            \* life of each request: new, resuming, open, gone
  peerClosed,        \* requests whose 'close' event has fired
  doomed,            \* resuming requests whose thread/resume will be refused
  eventClients,      \* the registry's set of clients it broadcasts to
  subscriberCounts,  \* threadSubscriberCounts; an absent entry is 0
  timers,            \* threads with a scheduled unsubscribe
  checks,            \* canUnloadThread calls in flight, per thread
  subscribed,        \* threads the app-server streams to this bridge
  refused,           \* history: threads whose last request was refused
  closing

vars == <<stream, peerClosed, doomed, eventClients, subscriberCounts, timers,
          checks, subscribed, refused, closing>>

Outcomes == IF UpstreamMayFail THEN {TRUE, FALSE} ELSE {TRUE}

TypeOK ==
  /\ stream \in [Clients -> {"new", "resuming", "open", "gone"}]
  /\ peerClosed \subseteq Clients
  /\ doomed \subseteq Clients
  /\ eventClients \subseteq Clients
  /\ subscriberCounts \in [Threads -> Nat]
  /\ timers \subseteq Threads
  /\ checks \in [Threads -> Nat]
  /\ subscribed \subseteq Threads
  /\ refused \subseteq Threads
  /\ closing \in BOOLEAN

Init ==
  /\ stream = [c \in Clients |-> "new"]
  /\ peerClosed = {}
  /\ doomed = {}
  /\ eventClients = {}
  /\ subscriberCounts = [t \in Threads |-> 0]
  /\ timers = {}
  /\ checks = [t \in Threads |-> 0]
  /\ subscribed = {}
  /\ refused = {}
  /\ closing = FALSE

-----------------------------------------------------------------------------
(* A stream is opened: addClient up to its await.                          *)

\* Whether the app-server takes a request about t, its last so far.
Answers(ok, t) == refused' = IF ok THEN refused \ {t} ELSE refused \cup {t}

\* Only the first subscriber of a thread with no pending unsubscribe resumes.
NeedsResume(t) == subscriberCounts[t] = 0 /\ t \notin timers

Register(c) ==
  LET t == ThreadOf[c]
  IN  /\ eventClients' = eventClients \cup {c}
      /\ timers' = timers \ {t}
      /\ subscriberCounts' = [subscriberCounts EXCEPT ![t] = @ + 1]

AddClientResumes(c) ==
  /\ stream[c] = "new"
  /\ ~closing
  /\ NeedsResume(ThreadOf[c])
  /\ Register(c)
  /\ stream' = [stream EXCEPT ![c] = "resuming"]
  /\ \E ok \in Outcomes :
       /\ subscribed' = IF ok THEN subscribed \cup {ThreadOf[c]} ELSE subscribed
       /\ doomed' = IF ok THEN doomed ELSE doomed \cup {c}
       /\ Answers(ok, ThreadOf[c])
  /\ UNCHANGED <<peerClosed, checks, closing>>

\* With nothing to await, the route sets clientAdded before any other event.
AddClientJoins(c) ==
  /\ stream[c] = "new"
  /\ ~closing
  /\ ~NeedsResume(ThreadOf[c])
  /\ Register(c)
  /\ stream' = [stream EXCEPT ![c] = "open"]
  /\ UNCHANGED <<peerClosed, doomed, checks, subscribed, refused, closing>>

AddClientRefused(c) ==
  /\ stream[c] = "new"
  /\ closing
  /\ stream' = [stream EXCEPT ![c] = "gone"]
  /\ UNCHANGED <<peerClosed, doomed, eventClients, subscriberCounts, timers,
                 checks, subscribed, refused, closing>>

(* resumeThread settles and addClient runs to its end. *)

ResumeReturns(c) ==
  /\ stream[c] = "resuming"
  /\ c \notin doomed
  /\ stream' = [stream EXCEPT ![c] = "open"]
  /\ UNCHANGED <<peerClosed, doomed, eventClients, subscriberCounts, timers,
                 checks, subscribed, refused, closing>>

\* Faulty: the failed client stays in the set that is broadcast to.
ResumeThrowsKeepingClient(c) ==
  /\ stream[c] = "resuming"
  /\ c \in doomed
  /\ stream' = [stream EXCEPT ![c] = "gone"]
  /\ subscriberCounts' = [subscriberCounts EXCEPT ![ThreadOf[c]] = 0]
  /\ UNCHANGED <<peerClosed, doomed, eventClients, timers, checks, subscribed,
                 refused, closing>>

\* Faulty: the failed client stays counted.
ResumeThrowsKeepingCount(c) ==
  /\ stream[c] = "resuming"
  /\ c \in doomed
  /\ stream' = [stream EXCEPT ![c] = "gone"]
  /\ eventClients' = eventClients \ {c}
  /\ UNCHANGED <<peerClosed, doomed, subscriberCounts, timers, checks,
                 subscribed, refused, closing>>

\* Only a client that found the count at 0 awaits a resume, so the count it
\* restores is always the deletion of the thread's entry.
ResumeThrows(c) ==
  /\ stream[c] = "resuming"
  /\ c \in doomed
  /\ stream' = [stream EXCEPT ![c] = "gone"]
  /\ eventClients' = eventClients \ {c}
  /\ subscriberCounts' = [subscriberCounts EXCEPT ![ThreadOf[c]] = 0]
  /\ UNCHANGED <<peerClosed, doomed, timers, checks, subscribed, refused, closing>>

-----------------------------------------------------------------------------
(* A stream is closed by its peer.                                         *)

\* 'close' while addClient is pending: clientAdded is false and the event is
\* spent, so nobody will ever remove the client.
PeerClosesEarly(c) ==
  /\ stream[c] = "resuming"
  /\ c \notin peerClosed
  /\ peerClosed' = peerClosed \cup {c}
  /\ UNCHANGED <<stream, doomed, eventClients, subscriberCounts, timers,
                 checks, subscribed, refused, closing>>

\* Faulty: the count is decremented whatever it is.
RemoveClientUnclamped(c) ==
  LET t == ThreadOf[c]
  IN  IF closing
      THEN UNCHANGED <<eventClients, subscriberCounts, timers>>
      ELSE /\ eventClients' = eventClients \ {c}
           /\ subscriberCounts' = [subscriberCounts EXCEPT ![t] = @ - 1]
           /\ timers' = IF subscriberCounts[t] <= 1 THEN timers \cup {t} ELSE timers

\* Faulty: the last subscriber is taken for one of two.
RemoveClientOffByOne(c) ==
  LET t == ThreadOf[c]
  IN  IF closing
      THEN UNCHANGED <<eventClients, subscriberCounts, timers>>
      ELSE /\ eventClients' = eventClients \ {c}
           /\ IF subscriberCounts[t] < 1
              THEN UNCHANGED subscriberCounts /\ timers' = timers \cup {t}
              ELSE /\ subscriberCounts' = [subscriberCounts EXCEPT ![t] = @ - 1]
                   /\ UNCHANGED timers

RemoveClient(c) ==
  LET t == ThreadOf[c]
  IN  IF closing
      THEN UNCHANGED <<eventClients, subscriberCounts, timers>>
      ELSE /\ eventClients' = eventClients \ {c}
           /\ IF subscriberCounts[t] <= 1
              THEN /\ subscriberCounts' = [subscriberCounts EXCEPT ![t] = 0]
                   /\ timers' = timers \cup {t}
              ELSE /\ subscriberCounts' = [subscriberCounts EXCEPT ![t] = @ - 1]
                   /\ UNCHANGED timers

PeerCloses(c) ==
  /\ stream[c] = "open"
  /\ c \notin peerClosed
  /\ peerClosed' = peerClosed \cup {c}
  /\ stream' = [stream EXCEPT ![c] = "gone"]
  /\ RemoveClient(c)
  /\ UNCHANGED <<doomed, checks, subscribed, refused, closing>>

\* Broadcasting an event of thread t drops the clients whose write throws;
\* their counts are left to the 'close' event that ending them brings.
BroadcastDrops(t) ==
  /\ ~closing
  /\ \E dead \in SUBSET {c \in eventClients : ThreadOf[c] = t} \ {{}} :
       eventClients' = eventClients \ dead
  /\ UNCHANGED <<stream, peerClosed, doomed, subscriberCounts, timers, checks,
                 subscribed, refused, closing>>

-----------------------------------------------------------------------------
(* The delayed unsubscribe.                                                *)

UnsubscribeTimerFires(t) ==
  /\ t \in timers
  /\ timers' = timers \ {t}
  /\ checks' = IF subscriberCounts[t] > 0 THEN checks
               ELSE [checks EXCEPT ![t] = @ + 1]
  /\ UNCHANGED <<stream, peerClosed, doomed, eventClients, subscriberCounts,
                 subscribed, refused, closing>>

\* Faulty: a busy thread is not looked at again.
CheckSaysBusyOnce(t) ==
  /\ checks[t] > 0
  /\ checks' = [checks EXCEPT ![t] = @ - 1]
  /\ UNCHANGED <<stream, peerClosed, doomed, eventClients, subscriberCounts,
                 timers, subscribed, refused, closing>>

\* canUnloadThread resolves to false: the thread is active, or the app-server
\* gave an error it does not know.
CheckSaysBusy(t) ==
  /\ checks[t] > 0
  /\ checks' = [checks EXCEPT ![t] = @ - 1]
  /\ timers' = timers \cup {t}
  /\ UNCHANGED <<stream, peerClosed, doomed, eventClients, subscriberCounts,
                 subscribed, refused, closing>>

\* canUnloadThread resolves to true.  The count is not looked at again.
CheckSaysIdle(t) ==
  /\ checks[t] > 0
  /\ checks' = [checks EXCEPT ![t] = @ - 1]
  /\ subscriberCounts' = [subscriberCounts EXCEPT ![t] = 0]
  /\ \E ok \in Outcomes :
       /\ subscribed' = IF ok THEN subscribed \ {t} ELSE subscribed
       /\ Answers(ok, t)
  /\ UNCHANGED <<stream, peerClosed, doomed, eventClients, timers, closing>>

Close ==
  /\ ~closing
  /\ closing' = TRUE
  /\ timers' = {}
  /\ eventClients' = {}
  /\ subscriberCounts' = [t \in Threads |-> 0]
  /\ UNCHANGED <<stream, peerClosed, doomed, checks, subscribed, refused>>

-----------------------------------------------------------------------------
ClientStep(c) ==
  \/ AddClientResumes(c)
  \/ AddClientJoins(c)
  \/ AddClientRefused(c)
  \/ ResumeReturns(c)
  \/ ResumeThrows(c)
  \/ PeerClosesEarly(c)
  \/ PeerCloses(c)

ThreadStep(t) ==
  \/ BroadcastDrops(t)
  \/ UnsubscribeTimerFires(t)
  \/ CheckSaysBusy(t)
  \/ CheckSaysIdle(t)

Next ==
  \/ \E c \in Clients : ClientStep(c)
  \/ \E t \in Threads : ThreadStep(t)
  \/ Close

Spec == Init /\ [][Next]_vars

(***************************************************************************)
(* Timers fire and the app-server answers.  An idle answer is a strong     *)
(* fairness assumption: a thread does not stay active, nor the app-server  *)
(* in error, for ever.  Nothing is assumed of clients.                     *)
(***************************************************************************)
Fairness ==
  /\ \A t \in Threads : WF_vars(UnsubscribeTimerFires(t))
  /\ \A t \in Threads : WF_vars(CheckSaysBusy(t) \/ CheckSaysIdle(t))
  /\ \A t \in Threads : SF_vars(CheckSaysIdle(t))
  /\ \A c \in Clients : WF_vars(ResumeReturns(c) \/ ResumeThrows(c))

FairSpec == Spec /\ Fairness

-----------------------------------------------------------------------------
(* Properties                                                              *)

\* The streams of a thread that have begun and not ended: those a client still
\* reads, and those whose peer went away while the resume was awaited.
Held(t) == {c \in Clients : ThreadOf[c] = t /\ stream[c] \in {"resuming", "open"}}

Connected(t) == Held(t) \ peerClosed
Leaked(t) == Held(t) \cap peerClosed

\* A thread's count exceeds its connected clients by at most the streams closed
\* during their own resume, which the route leaves counted for good (its 'close'
\* handler finds clientAdded false).  Neither failed resumes nor unload checks
\* that cross joins and removals leave another phantom subscriber
\* (addClient / removeClient counting).
PhantomsAreLeaks ==
  \A t \in Threads :
    subscriberCounts[t] <= Cardinality(Connected(t)) + Cardinality(Leaked(t))

\* While the bridge runs, a subscribed thread that no stream holds has its
\* unsubscribe scheduled or its unload check in flight: no interleaving of
\* timers, checks, refused resumes and streams forgets it.  Two threads are
\* outside the claim: one that a stream leaked, and one whose last request the
\* app-server refused (the error of a failed unsubscribe is ignored).
AbandonedThreadHasCleanup ==
  \A t \in subscribed \ refused :
    Held(t) = {} => closing \/ t \in timers \/ checks[t] > 0

\* The registry broadcasts only to clients it still holds: a client whose
\* resume failed or whose stream was removed is never written to again.
BroadcastsOnlyToHeld ==
  \A c \in eventClients : c \in Held(ThreadOf[c])

\* A thread whose clients are gone for good ends up unsubscribed (the delayed
\* unsubscribe retried by attemptThreadUnsubscribe), unless the bridge closes,
\* the app-server refuses, or a stream closed during its own resume leaks.
EventuallyUnsubscribed ==
  \A t \in Threads :
    <>[](Connected(t) = {} /\ ~closing)
      => <>[](t \notin subscribed \/ t \in refused \/ Leaked(t) # {})

\* The reconnect spec says the bridge unsubscribes when the grace window
\* expires "with no subscribers".
UnsubscribesOnlyWithoutSubscribers ==
  [][\A t \in Threads :
       t \in subscribed /\ t \notin subscribed' => Held(t) = {}]_vars
=============================================================================
