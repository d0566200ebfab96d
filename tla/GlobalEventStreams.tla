------------------------- MODULE GlobalEventStreams -------------------------
(***************************************************************************)
(* The global half of the bridge's ThreadEventStreamRegistry: streams      *)
(* opened without a thread, and the one ThreadChangeDetector they share.   *)
(* The first such stream creates a detector and awaits its start; streams  *)
(* opened meanwhile await the same promise; the last one to leave closes   *)
(* the detector, and a later stream creates another.                       *)
(*                                                                         *)
(* A stream is opened at most once, and a detector bears the name of the   *)
(* stream that created it.                                                 *)
(***************************************************************************)
EXTENDS ThreadChangeDetector

CONSTANT None  \* no detector

ASSUME NoneAssumption == None \notin Detectors

Streams == Detectors

VARIABLES
  gstream,        \* life of each request: new, waiting, open, gone
  peerClosed,     \* requests whose 'close' event has fired
  globalClients,  \* globalEventClients
  assigned,       \* threadChangeDetector
  starting,       \* the detector whose start() is awaited (detectorInitPromise)
  closing

streamVars == <<gstream, peerClosed, globalClients, assigned, starting, closing>>

vars == <<detectorVars, streamVars>>

TypeOK ==
  /\ DetectorTypeOK
  /\ gstream \in [Streams -> {"new", "waiting", "open", "gone"}]
  /\ peerClosed \subseteq Streams
  /\ globalClients \subseteq Streams
  /\ assigned \in Detectors \cup {None}
  /\ starting \in Detectors \cup {None}
  /\ closing \in BOOLEAN

Init ==
  /\ DetectorInit
  /\ gstream = [c \in Streams |-> "new"]
  /\ peerClosed = {}
  /\ globalClients = {}
  /\ assigned = None
  /\ starting = None
  /\ closing = FALSE

-----------------------------------------------------------------------------
(* addGlobalClient                                                         *)

\* Faulty: without the lock, a stream opened during a start creates another
\* detector.
AddGlobalCreatesUnlocked(c) ==
  /\ gstream[c] = "new"
  /\ ~closing
  /\ assigned = None
  /\ Create(c)
  /\ IF sessionsDir
     THEN /\ gstream' = [gstream EXCEPT ![c] = "waiting"]
          /\ starting' = c
          /\ UNCHANGED <<globalClients, assigned>>
     ELSE /\ gstream' = [gstream EXCEPT ![c] = "open"]
          /\ globalClients' = globalClients \cup {c}
          /\ assigned' = c
          /\ UNCHANGED starting
  /\ UNCHANGED <<peerClosed, closing>>

\* No detector and none starting: this request creates one and awaits it.  A
\* detector that finds no sessions directory is assigned without a wait.
AddGlobalCreates(c) ==
  /\ gstream[c] = "new"
  /\ ~closing
  /\ assigned = None
  /\ starting = None
  /\ Create(c)
  /\ IF sessionsDir
     THEN /\ gstream' = [gstream EXCEPT ![c] = "waiting"]
          /\ starting' = c
          /\ UNCHANGED <<globalClients, assigned>>
     ELSE /\ gstream' = [gstream EXCEPT ![c] = "open"]
          /\ globalClients' = globalClients \cup {c}
          /\ assigned' = c
          /\ UNCHANGED starting
  /\ UNCHANGED <<peerClosed, closing>>

AddGlobalWaits(c) ==
  /\ gstream[c] = "new"
  /\ ~closing
  /\ starting # None
  /\ gstream' = [gstream EXCEPT ![c] = "waiting"]
  /\ UNCHANGED <<peerClosed, globalClients, assigned, starting, closing>>
  /\ UNCHANGED detectorVars

AddGlobalJoins(c) ==
  /\ gstream[c] = "new"
  /\ ~closing
  /\ starting = None
  /\ assigned # None
  /\ gstream' = [gstream EXCEPT ![c] = "open"]
  /\ globalClients' = globalClients \cup {c}
  /\ UNCHANGED <<peerClosed, assigned, starting, closing>>
  /\ UNCHANGED detectorVars

AddGlobalRefused(c) ==
  /\ gstream[c] = "new"
  /\ closing
  /\ gstream' = [gstream EXCEPT ![c] = "gone"]
  /\ UNCHANGED <<peerClosed, globalClients, assigned, starting, closing>>
  /\ UNCHANGED detectorVars

\* start() resolves: everyone who awaited it assigns the detector and adds its
\* client, without looking at #closing again.
DetectorReady(d) ==
  /\ starting = d
  /\ Started(d)
  /\ starting' = None
  /\ assigned' = d
  /\ LET waiting == {c \in Streams : gstream[c] = "waiting"}
     IN  /\ globalClients' = globalClients \cup waiting
         /\ gstream' = [c \in Streams |-> IF c \in waiting THEN "open" ELSE gstream[c]]
  /\ UNCHANGED <<peerClosed, closing>>

-----------------------------------------------------------------------------
(* Streams end.                                                            *)

\* 'close' while addGlobalClient is pending: clientAdded is false and the
\* event is spent, so nobody will ever remove the client.
GlobalPeerClosesEarly(c) ==
  /\ gstream[c] = "waiting"
  /\ c \notin peerClosed
  /\ peerClosed' = peerClosed \cup {c}
  /\ UNCHANGED <<gstream, globalClients, assigned, starting, closing>>
  /\ UNCHANGED detectorVars

\* Faulty: any stream that leaves closes the detector.
GlobalPeerClosesAny(c) ==
  /\ gstream[c] = "open"
  /\ c \notin peerClosed
  /\ gstream' = [gstream EXCEPT ![c] = "gone"]
  /\ peerClosed' = peerClosed \cup {c}
  /\ globalClients' = globalClients \ {c}
  /\ IF c \in globalClients /\ assigned # None
     THEN Shut(assigned) /\ assigned' = None
     ELSE UNCHANGED <<assigned, detectorVars>>
  /\ UNCHANGED <<starting, closing>>

GlobalPeerCloses(c) ==
  /\ gstream[c] = "open"
  /\ c \notin peerClosed
  /\ gstream' = [gstream EXCEPT ![c] = "gone"]
  /\ peerClosed' = peerClosed \cup {c}
  /\ globalClients' = globalClients \ {c}
  /\ IF globalClients = {c} /\ assigned # None
     THEN Shut(assigned) /\ assigned' = None
     ELSE UNCHANGED <<assigned, detectorVars>>
  /\ UNCHANGED <<starting, closing>>

\* broadcast drops the clients whose write throws; when their 'close' comes,
\* removeGlobalClient finds nothing to delete and returns.
GlobalBroadcastDrops ==
  /\ ~closing
  /\ \E dead \in SUBSET globalClients \ {{}} : globalClients' = globalClients \ dead
  /\ UNCHANGED <<gstream, peerClosed, assigned, starting, closing>>
  /\ UNCHANGED detectorVars

\* The registry forgets the promise, but those who await it still do: starting
\* stands for them, and with closing set no new stream looks at it.
Close ==
  /\ ~closing
  /\ closing' = TRUE
  /\ globalClients' = {}
  /\ assigned' = None
  /\ IF assigned # None THEN Shut(assigned) ELSE UNCHANGED detectorVars
  /\ UNCHANGED <<gstream, peerClosed, starting>>

-----------------------------------------------------------------------------
StreamStep(c) ==
  \/ AddGlobalCreates(c)
  \/ AddGlobalWaits(c)
  \/ AddGlobalJoins(c)
  \/ AddGlobalRefused(c)
  \/ GlobalPeerClosesEarly(c)
  \/ GlobalPeerCloses(c)

Next ==
  \/ \E c \in Streams : StreamStep(c)
  \/ \E d \in Detectors : DetectorReady(d)
  \/ GlobalBroadcastDrops
  \/ Close
  \/ \E d \in Detectors : DetectorStep(d) /\ UNCHANGED streamVars
  \/ \E f \in Files : DiskChanges(f) /\ UNCHANGED streamVars

Spec == Init /\ [][Next]_vars

(* The watcher delivers, timers fire, the app-server answers and files can  *)
(* be read; nothing is assumed of peers or of who writes the files.         *)
Fairness ==
  \A d \in Detectors :
    /\ WF_vars(DetectorReady(d))
    /\ WF_vars(FileEventArrives(d) /\ UNCHANGED streamVars)
    /\ WF_vars(DebounceElapses(d) /\ UNCHANGED streamVars)
    /\ WF_vars((ListReturns(d) \/ ListFails(d)) /\ UNCHANGED streamVars)
    /\ \A f \in Files : WF_vars(StatusInferred(d, f) /\ UNCHANGED streamVars)
    /\ WF_vars(DiffReported(d) /\ UNCHANGED streamVars)

FairSpec == Spec /\ Fairness

-----------------------------------------------------------------------------
(* Properties                                                              *)

\* However streams come and go while a detector starts or stops, there is
\* never a second one watching (detectorInitPromise is the lock).
OneDetectorWatches ==
  \A d, e \in Detectors : Watching(d) /\ Watching(e) => d = e

\* Until the bridge closes, registered global streams have a started detector
\* that nobody has closed under them (removeGlobalClient against the awaits of
\* addGlobalClient).
RegisteredStreamsAreServed ==
  globalClients # {} /\ ~closing =>
    /\ assigned # None
    /\ phase[assigned] \in {"running", "blind"}

\* The change-detection spec: "No CPU or I/O overhead when no global SSE
\* clients are connected".  A started detector runs only while the peer of some
\* global stream is there.
DetectorOnlyWhileConnected ==
  (\E d \in Detectors : phase[d] = "running") =>
    \E c \in Streams : gstream[c] = "open" /\ c \notin peerClosed

\* The acceptance criteria of the change-detection spec: status changes, new,
\* renamed and deleted threads show up.  Once the files stay as they are, the
\* cache of a detector that runs for some stream comes to agree with them.
ChangesEventuallyShow ==
  \A d \in Detectors, f \in Files, s \in OnDisk :
    <>[](disk[f] = s /\ phase[d] = "running" /\ globalClients # {} /\ ~failed)
      => <>[](cache[d][f] = s)
=============================================================================
