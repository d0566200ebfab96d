------------------------ MODULE ThreadChangeDetector ------------------------
(***************************************************************************)
(* The ThreadChangeDetector: it watches the sessions directory, lists the  *)
(* threads after each burst of file changes, infers the status of the ones *)
(* that are not loaded from the tails of their rollout files, and reports  *)
(* the difference to what it had cached.                                   *)
(*                                                                         *)
(* A detector is started and closed by the event registry, which may start *)
(* another after it, so every variable of a detector is a function of the  *)
(* detector.  Other processes (the TUI, the CLI) change the directory.     *)
(***************************************************************************)
EXTENDS Naturals, FiniteSets

CONSTANTS
  Detectors,   \* detector objects; the registry creates each at most once
  Files,       \* threads that may have a rollout file
  Names,       \* thread names
  MaxChanges   \* bound on the changes other processes make

ASSUME DetectorAssumption == MaxChanges \in Nat

VARIABLES
  disk,        \* the rollout files: what a complete listing would show
  sessionsDir, \* the sessions directory exists
  changes,     \* number of changes made to the directory
  phase,     \* unborn, starting, running, blind (no watcher), closed
  fsEvent,   \* a file event the watcher has not delivered yet
  timer,     \* the debounce timer is set
  work,      \* progress of handleChange: none, listing, inferring
  newMap,    \* the listing handleChange works on
  unread,    \* files whose tail it has still to read
  cache,     \* the threads as last reported
  told,      \* history: the events given to onEvent, applied to the baseline
  failed     \* history: a listing for a diff has failed

detectorVars == <<disk, sessionsDir, changes, phase, fsEvent, timer, work, newMap, unread,
                  cache, told, failed>>

Absent == [kind |-> "absent"]

Summaries(statuses) ==
  [kind : {"thread"}, status : statuses, name : Names, updatedAt : 0 .. MaxChanges]

OnDisk == Summaries({"idle", "active"}) \cup {Absent}
Listed == Summaries({"idle", "active", "notLoaded"}) \cup {Absent}

DetectorTypeOK ==
  /\ disk \in [Files -> OnDisk]
  /\ sessionsDir \in BOOLEAN
  /\ changes \in 0 .. MaxChanges
  /\ phase \in [Detectors -> {"unborn", "starting", "running", "blind", "closed"}]
  /\ fsEvent \in [Detectors -> BOOLEAN]
  /\ timer \in [Detectors -> BOOLEAN]
  /\ work \in [Detectors -> {"none", "listing", "inferring"}]
  /\ newMap \in [Detectors -> [Files -> Listed]]
  /\ unread \in [Detectors -> SUBSET Files]
  /\ cache \in [Detectors -> [Files -> Listed]]
  /\ told \in [Detectors -> [Files -> Listed]]
  /\ failed \in BOOLEAN

Nothing == [f \in Files |-> Absent]

DetectorInit ==
  /\ disk \in [Files -> {s \in OnDisk : s # Absent => s.updatedAt = 0}]
  /\ sessionsDir \in {b \in BOOLEAN : disk # Nothing => b}
  /\ changes = 0
  /\ phase = [d \in Detectors |-> "unborn"]
  /\ fsEvent = [d \in Detectors |-> FALSE]
  /\ timer = [d \in Detectors |-> FALSE]
  /\ work = [d \in Detectors |-> "none"]
  /\ newMap = [d \in Detectors |-> Nothing]
  /\ unread = [d \in Detectors |-> {}]
  /\ cache = [d \in Detectors |-> Nothing]
  /\ told = [d \in Detectors |-> Nothing]
  /\ failed = FALSE

Watching(d) == phase[d] \in {"starting", "running"}

-----------------------------------------------------------------------------
(* Other processes create, write, rename and delete rollout files.         *)

DiskChanges(f) ==
  /\ changes < MaxChanges
  /\ changes' = changes + 1
  /\ \E s \in OnDisk :
       /\ s # disk[f]
       /\ s # Absent => s.updatedAt = changes + 1
       /\ disk' = [disk EXCEPT ![f] = s]
  /\ sessionsDir' = TRUE
  /\ fsEvent' = [d \in Detectors |-> fsEvent[d] \/ Watching(d)]
  /\ UNCHANGED <<phase, timer, work, newMap, unread, cache, told, failed>>

-----------------------------------------------------------------------------
(* What the app-server lists: it has not loaded these threads, so it does  *)
(* not know their status.                                                  *)

Unloaded(s) == IF s = Absent THEN s ELSE [s EXCEPT !.status = "notLoaded"]

Listing == [f \in Files |-> Unloaded(disk[f])]

(* scheduleHandleChange: a change is dropped while starting, closing or    *)
(* processing; otherwise it (re)starts the debounce timer.                 *)
Accepts(d) == phase[d] = "running" /\ work[d] = "none"

\* The synchronous part of start(): the watcher is created and the baseline
\* listing requested.  Without a sessions directory start() is over at once and
\* the detector watches nothing, then or later.
Create(d) ==
  /\ phase[d] = "unborn"
  /\ phase' = [phase EXCEPT ![d] = IF sessionsDir THEN "starting" ELSE "blind"]
  /\ UNCHANGED <<disk, sessionsDir, changes, fsEvent, timer, work, newMap, unread,
                 cache, told, failed>>

\* The baseline listing arrives, or fails and leaves the cache empty; the
\* first diff is scheduled.
Started(d) ==
  /\ phase[d] = "starting"
  /\ phase' = [phase EXCEPT ![d] = "running"]
  /\ timer' = [timer EXCEPT ![d] = TRUE]
  /\ \E baseline \in {Listing, Nothing} :
       /\ cache' = [cache EXCEPT ![d] = baseline]
       /\ told' = [told EXCEPT ![d] = baseline]
  /\ UNCHANGED <<disk, sessionsDir, changes, fsEvent, work, newMap, unread, failed>>

\* close(): nothing is delivered or started any more; closing the watcher
\* waits for no I/O, so the cache is emptied at once.  A handleChange under way
\* goes on to its next check of #closing.
Shut(d) ==
  /\ phase' = [phase EXCEPT ![d] = "closed"]
  /\ timer' = [timer EXCEPT ![d] = FALSE]
  /\ fsEvent' = [fsEvent EXCEPT ![d] = FALSE]
  /\ cache' = [cache EXCEPT ![d] = Nothing]
  /\ told' = [told EXCEPT ![d] = Nothing]
  /\ UNCHANGED <<disk, sessionsDir, changes, work, newMap, unread, failed>>

\* Faulty: a second burst of changes while the timer runs clears it for good.
FileEventArrivesClearing(d) ==
  /\ fsEvent[d]
  /\ fsEvent' = [fsEvent EXCEPT ![d] = FALSE]
  /\ timer' = IF Accepts(d) THEN [timer EXCEPT ![d] = ~@] ELSE timer
  /\ UNCHANGED <<disk, sessionsDir, changes, phase, work, newMap, unread, cache, told, failed>>

FileEventArrives(d) ==
  /\ fsEvent[d]
  /\ fsEvent' = [fsEvent EXCEPT ![d] = FALSE]
  /\ timer' = IF Accepts(d) THEN [timer EXCEPT ![d] = TRUE] ELSE timer
  /\ UNCHANGED <<disk, sessionsDir, changes, phase, work, newMap, unread, cache, told, failed>>

DebounceElapses(d) ==
  /\ timer[d]
  /\ timer' = [timer EXCEPT ![d] = FALSE]
  /\ work' = [work EXCEPT ![d] = "listing"]
  /\ UNCHANGED <<disk, sessionsDir, changes, phase, fsEvent, newMap, unread, cache, told, failed>>

ListReturns(d) ==
  /\ work[d] = "listing"
  /\ IF phase[d] = "closed"
     THEN /\ work' = [work EXCEPT ![d] = "none"]
          /\ UNCHANGED <<newMap, unread>>
     ELSE /\ work' = [work EXCEPT ![d] = "inferring"]
          /\ newMap' = [newMap EXCEPT ![d] = Listing]
          /\ unread' = [unread EXCEPT ![d] = {f \in Files : disk[f] # Absent}]
  /\ UNCHANGED <<disk, sessionsDir, changes, phase, fsEvent, timer, cache, told, failed>>

ListFails(d) ==
  /\ work[d] = "listing"
  /\ work' = [work EXCEPT ![d] = "none"]
  /\ failed' = TRUE
  /\ UNCHANGED <<disk, sessionsDir, changes, phase, fsEvent, timer, newMap, unread, cache, told>>

\* Faulty: a null from inferThreadStatus is taken for a status.
StatusInferredUnchecked(d, f) ==
  /\ work[d] = "inferring"
  /\ f \in unread[d]
  /\ unread' = [unread EXCEPT ![d] = @ \ {f}]
  /\ newMap' = IF phase[d] = "closed" THEN newMap
               ELSE [newMap EXCEPT ![d][f].status =
                       IF disk[f] = Absent THEN "null" ELSE disk[f].status]
  /\ UNCHANGED <<disk, sessionsDir, changes, phase, fsEvent, timer, work, cache, told, failed>>

\* inferThreadStatus reads the file as it is by then; a file that is gone, or
\* a detector that is closing, leaves the listed status.
StatusInferred(d, f) ==
  /\ work[d] = "inferring"
  /\ f \in unread[d]
  /\ unread' = [unread EXCEPT ![d] = @ \ {f}]
  /\ newMap' = IF phase[d] = "closed" \/ disk[f] = Absent THEN newMap
               ELSE [newMap EXCEPT ![d][f].status = disk[f].status]
  /\ UNCHANGED <<disk, sessionsDir, changes, phase, fsEvent, timer, work, cache, told, failed>>

-----------------------------------------------------------------------------
(* The diff, as the types of the events emitted for one thread; what they   *)
(* carry is taken from the new row.                                         *)

\* Faulty: a thread missing from the new listing is not reported.
EventsForWithoutDeletions(old, new) ==
  IF old = Absent THEN (IF new = Absent THEN {} ELSE {"threadStarted"})
  ELSE IF new = Absent THEN {}
  ELSE {type \in {"threadStatusChanged", "threadNameUpdated"} :
          IF type = "threadNameUpdated" THEN new.name # old.name
          ELSE \/ new.status # old.status
               \/ new.updatedAt # old.updatedAt /\ new.name = old.name}

EventsFor(old, new) ==
  IF old = Absent THEN (IF new = Absent THEN {} ELSE {"threadStarted"})
  ELSE IF new = Absent THEN {"threadDeleted"}
  ELSE {type \in {"threadStatusChanged", "threadNameUpdated"} :
          IF type = "threadNameUpdated" THEN new.name # old.name
          ELSE \/ new.status # old.status
               \/ new.updatedAt # old.updatedAt /\ new.name = old.name}

\* What a listener makes of one thread's events (updateThreadSummaryState):
\* started replaces the thread, deleted drops it, the updates change a thread it
\* knows.
Hears(s, events, new) ==
  IF "threadStarted" \in events THEN new
  ELSE IF "threadDeleted" \in events \/ s = Absent THEN Absent
  ELSE [kind |-> s.kind,
        status |-> IF "threadStatusChanged" \in events THEN new.status ELSE s.status,
        name |-> IF "threadNameUpdated" \in events THEN new.name ELSE s.name,
        updatedAt |-> s.updatedAt]

\* All tails are read: the difference is reported and becomes the cache, also
\* by a detector that was closed meanwhile.
DiffReported(d) ==
  /\ work[d] = "inferring"
  /\ unread[d] = {}
  /\ work' = [work EXCEPT ![d] = "none"]
  /\ told' = [told EXCEPT ![d] =
                [f \in Files |->
                   Hears(told[d][f], EventsFor(cache[d][f], newMap[d][f]), newMap[d][f])]]
  /\ cache' = [cache EXCEPT ![d] = newMap[d]]
  /\ newMap' = [newMap EXCEPT ![d] = Nothing]
  /\ UNCHANGED <<disk, sessionsDir, changes, phase, fsEvent, timer, unread, failed>>

-----------------------------------------------------------------------------
DetectorStep(d) ==
  \/ FileEventArrives(d)
  \/ DebounceElapses(d)
  \/ ListReturns(d)
  \/ ListFails(d)
  \/ \E f \in Files : StatusInferred(d, f)
  \/ DiffReported(d)

-----------------------------------------------------------------------------
(* Properties                                                              *)

SameRow(s, u) ==
  \/ s = Absent /\ u = Absent
  \/ s # Absent /\ u # Absent /\ s.status = u.status /\ s.name = u.name

\* The events of a running detector always add up to its cache: a listener
\* that knew the baseline shows the same threads with the same status and
\* name (the diff in handleChange against updateThreadSummaryState).
ListenerAgreesWithCache ==
  \A d \in Detectors : phase[d] = "running" =>
    \A f \in Files : SameRow(told[d][f], cache[d][f])

\* A change whose file event set the debounce timer is reported: the thread
\* is cached as it then was, unless it changes again, a listing fails or the
\* detector is closed.
AcceptedChangeIsReported ==
  \A d \in Detectors, f \in Files, s \in OnDisk :
    timer[d] /\ disk[f] = s
      ~> disk[f] # s \/ cache[d][f] = s \/ failed \/ phase[d] = "closed"
=============================================================================
