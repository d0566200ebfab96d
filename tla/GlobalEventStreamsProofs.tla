----------------------- MODULE GlobalEventStreamsProofs -----------------------
(***************************************************************************)
(* Proofs about the global streams and their detector, for any sets of     *)
(* streams, files and names and any number of changes.                     *)
(***************************************************************************)
EXTENDS GlobalEventStreams, TLAPS

Statuses == {"idle", "active", "notLoaded"}

-----------------------------------------------------------------------------
(* Thread rows                                                             *)

\* A thread's row is never mistaken for the absence of the thread.
LEMMA RowIsNotAbsent ==
  ASSUME NEW S, NEW s \in Summaries(S)
  PROVE  s # Absent
<1>1. s.kind = "thread"
  BY DEF Summaries
<1>2. Absent.kind = "absent"
  BY DEF Absent
<1> QED
  BY <1>1, <1>2

\* Replacing the status of a listed row, as inferThreadStatus does, keeps it a
\* listed row.
LEMMA StatusReplaced ==
  ASSUME NEW s \in Listed, s # Absent, NEW v \in Statuses
  PROVE  /\ [s EXCEPT !.status = v] \in Listed
         /\ [s EXCEPT !.status = v] # Absent
<1>1. s \in Summaries(Statuses)
  BY DEF Listed, Statuses
<1>2. [s EXCEPT !.status = v] \in Summaries(Statuses)
  BY <1>1 DEF Summaries
<1> QED
  BY <1>2, RowIsNotAbsent DEF Listed, Statuses

\* What is on disk is listed as a row without a status.
LEMMA UnloadedListed ==
  ASSUME NEW s \in OnDisk
  PROVE  /\ Unloaded(s) \in Listed
         /\ s # Absent => Unloaded(s) # Absent
<1>1. CASE s = Absent
  BY <1>1 DEF Unloaded, Listed
<1>2. CASE s # Absent
  <2>1. s \in Summaries({"idle", "active"})
    BY <1>2 DEF OnDisk
  <2>2. s \in Listed
    BY <2>1 DEF Summaries, Listed
  <2> QED
    BY <1>2, <2>2, StatusReplaced DEF Unloaded, Statuses
<1> QED
  BY <1>1, <1>2

\* A listener whose row agrees with the cached one and who hears the events of
\* the diff shows the new row: the diff and updateThreadSummaryState fit.
LEMMA DiffIsHeard ==
  ASSUME NEW s \in Listed, NEW old \in Listed, NEW new \in Listed
  PROVE  /\ Hears(s, EventsFor(old, new), new) \in Listed
         /\ SameRow(s, old) => SameRow(Hears(s, EventsFor(old, new), new), new)
<1> DEFINE E == EventsFor(old, new)
           heard == Hears(s, E, new)
<1>1. CASE old = Absent
  <2>1. E = IF new = Absent THEN {} ELSE {"threadStarted"}
    BY <1>1 DEF EventsFor
  <2>2. CASE new = Absent
    <3>1. E = {}
      BY <2>1, <2>2
    <3>2. CASE s = Absent
      BY <3>1, <3>2, <2>2 DEF Hears, SameRow, Listed
    <3>3. CASE s # Absent
      <4>1. heard = [kind |-> s.kind, status |-> s.status, name |-> s.name,
                     updatedAt |-> s.updatedAt]
        BY <3>1, <3>3 DEF Hears
      <4>2. s \in Summaries(Statuses)
        BY <3>3 DEF Listed, Statuses
      <4>3. heard \in Listed
        BY <4>1, <4>2 DEF Summaries, Listed, Statuses
      <4> QED
        BY <4>3, <3>3, <1>1 DEF SameRow
    <3> QED
      BY <3>2, <3>3
  <2>3. CASE new # Absent
    BY <2>1, <2>3 DEF Hears, SameRow
  <2> QED
    BY <2>2, <2>3
<1>2. CASE old # Absent /\ new = Absent
  <2>1. E = {"threadDeleted"}
    BY <1>2 DEF EventsFor
  <2>2. heard = Absent
    BY <2>1 DEF Hears
  <2> QED
    BY <2>2, <1>2 DEF SameRow, Listed
<1>3. CASE old # Absent /\ new # Absent
  <2>1. E = {type \in {"threadStatusChanged", "threadNameUpdated"} :
               IF type = "threadNameUpdated" THEN new.name # old.name
               ELSE \/ new.status # old.status
                    \/ new.updatedAt # old.updatedAt /\ new.name = old.name}
    BY <1>3 DEF EventsFor
  <2>2. /\ "threadStarted" \notin E
        /\ "threadDeleted" \notin E
        /\ "threadNameUpdated" \in E <=> new.name # old.name
        /\ new.status # old.status => "threadStatusChanged" \in E
    BY <2>1
  <2>3. CASE s = Absent
    BY <2>2, <2>3, <1>3 DEF Hears, SameRow, Listed
  <2>4. CASE s # Absent
    <3>1. heard = [kind |-> s.kind,
                   status |-> IF "threadStatusChanged" \in E THEN new.status ELSE s.status,
                   name |-> IF "threadNameUpdated" \in E THEN new.name ELSE s.name,
                   updatedAt |-> s.updatedAt]
      BY <2>2, <2>4 DEF Hears
    <3>2. s \in Summaries(Statuses) /\ new \in Summaries(Statuses)
      BY <2>4, <1>3 DEF Listed, Statuses
    <3>3. heard \in Summaries(Statuses)
      BY <3>1, <3>2 DEF Summaries
    <3>4. SameRow(s, old) => heard.status = new.status /\ heard.name = new.name
      BY <3>1, <2>2, <2>4, <1>3 DEF SameRow
    <3> QED
      BY <3>3, <3>4, <1>3, RowIsNotAbsent DEF SameRow, Listed, Statuses
  <2> QED
    BY <2>3, <2>4
<1> QED
  BY <1>1, <1>2, <1>3

-----------------------------------------------------------------------------
(* Type correctness                                                        *)

\* The rows still to be enriched are rows of the listing.
UnreadListed ==
  \A d \in Detectors : \A f \in unread[d] : newMap[d][f] # Absent

TInv == TypeOK /\ UnreadListed

LEMMA NothingListed == Nothing \in [Files -> Listed]
BY DEF Nothing, Listed

LEMMA ListingListed ==
  ASSUME DetectorTypeOK
  PROVE  /\ Listing \in [Files -> Listed]
         /\ \A f \in Files : disk[f] # Absent => Listing[f] # Absent
BY UnloadedListed DEF Listing, DetectorTypeOK

LEMMA TInvInit == Init => TInv
<1> SUFFICES ASSUME Init PROVE TInv
  OBVIOUS
<1> USE DEF Init, DetectorInit
<1>1. DetectorTypeOK
  <2>1. disk \in [Files -> OnDisk]
    OBVIOUS
  <2>2. sessionsDir \in BOOLEAN
    OBVIOUS
  <2>3. changes \in 0 .. MaxChanges
    BY DetectorAssumption
  <2> QED
    BY <2>1, <2>2, <2>3, NothingListed DEF DetectorTypeOK
<1>2. TypeOK
  BY <1>1 DEF Init, TypeOK
<1>3. UnreadListed
  BY DEF Init, DetectorInit, UnreadListed
<1> QED
  BY <1>2, <1>3 DEF TInv

LEMMA ShutTyped ==
  ASSUME TInv, NEW d \in Detectors, Shut(d)
  PROVE  DetectorTypeOK' /\ UnreadListed'
<1>1. DetectorTypeOK'
  BY NothingListed DEF Shut, TInv, TypeOK, DetectorTypeOK
<1>2. UnreadListed'
  BY DEF Shut, TInv, UnreadListed
<1> QED
  BY <1>1, <1>2

LEMMA CreateTyped ==
  ASSUME TInv, NEW d \in Detectors, Create(d)
  PROVE  DetectorTypeOK' /\ UnreadListed'
<1>1. DetectorTypeOK'
  BY DEF Create, TInv, TypeOK, DetectorTypeOK
<1>2. UnreadListed'
  BY DEF Create, TInv, UnreadListed
<1> QED
  BY <1>1, <1>2

LEMMA StartedTyped ==
  ASSUME TInv, NEW d \in Detectors, Started(d)
  PROVE  DetectorTypeOK' /\ UnreadListed'
<1>1. DetectorTypeOK
  BY DEF TInv, TypeOK
<1>2. Listing \in [Files -> Listed] /\ Nothing \in [Files -> Listed]
  BY <1>1, ListingListed, NothingListed
<1>3. DetectorTypeOK'
  BY <1>1, <1>2 DEF Started, DetectorTypeOK
<1>4. UnreadListed'
  BY DEF Started, TInv, UnreadListed
<1> QED
  BY <1>3, <1>4

LEMMA DiskChangesTyped ==
  ASSUME TInv, NEW f \in Files, DiskChanges(f)
  PROVE  DetectorTypeOK' /\ UnreadListed'
<1>1. DetectorTypeOK
  BY DEF TInv, TypeOK
<1>2. PICK s \in OnDisk : disk' = [disk EXCEPT ![f] = s]
  BY DEF DiskChanges
<1>3. disk' \in [Files -> OnDisk]
  BY <1>1, <1>2 DEF DetectorTypeOK
<1>4. changes' \in 0 .. MaxChanges
  BY <1>1, DetectorAssumption DEF DiskChanges, DetectorTypeOK
<1>5. fsEvent' \in [Detectors -> BOOLEAN]
  <2>1. \A d \in Detectors : (fsEvent[d] \/ Watching(d)) \in BOOLEAN
    BY DEF Watching
  <2> QED
    BY <2>1 DEF DiskChanges
<1>6. DetectorTypeOK'
  BY <1>1, <1>3, <1>4, <1>5 DEF DiskChanges, DetectorTypeOK
<1>7. UnreadListed'
  BY DEF DiskChanges, TInv, UnreadListed
<1> QED
  BY <1>6, <1>7

LEMMA DetectorStepTyped ==
  ASSUME TInv, NEW d \in Detectors, DetectorStep(d)
  PROVE  DetectorTypeOK' /\ UnreadListed'
<1>1. DetectorTypeOK /\ UnreadListed
  BY DEF TInv, TypeOK
<1>2. CASE FileEventArrives(d)
  <2>1. Accepts(d) \in BOOLEAN
    BY DEF Accepts
  <2> QED
    BY <1>1, <1>2, <2>1 DEF FileEventArrives, DetectorTypeOK, UnreadListed
<1>3. CASE DebounceElapses(d)
  BY <1>1, <1>3 DEF DebounceElapses, DetectorTypeOK, UnreadListed
<1>4. CASE ListReturns(d)
  <2>1. CASE phase[d] = "closed"
    BY <1>1, <1>4, <2>1 DEF ListReturns, DetectorTypeOK, UnreadListed
  <2>2. CASE phase[d] # "closed"
    <3>1. /\ newMap' = [newMap EXCEPT ![d] = Listing]
          /\ unread' = [unread EXCEPT ![d] = {f \in Files : disk[f] # Absent}]
          /\ work' = [work EXCEPT ![d] = "inferring"]
      BY <1>4, <2>2 DEF ListReturns
    <3>2. DetectorTypeOK'
      BY <1>1, <1>4, <3>1, ListingListed DEF ListReturns, DetectorTypeOK
    <3>3. UnreadListed'
      BY <1>1, <3>1, ListingListed DEF DetectorTypeOK, UnreadListed
    <3> QED
      BY <3>2, <3>3
  <2> QED
    BY <2>1, <2>2
<1>5. CASE ListFails(d)
  BY <1>1, <1>5 DEF ListFails, DetectorTypeOK, UnreadListed
<1>6. CASE \E f \in Files : StatusInferred(d, f)
  <2>1. PICK f \in Files : StatusInferred(d, f)
    BY <1>6
  <2>2. newMap[d] \in [Files -> Listed] /\ newMap[d][f] \in Listed
        /\ newMap[d][f] # Absent
    BY <1>1, <2>1 DEF StatusInferred, DetectorTypeOK, UnreadListed
  <2> DEFINE row == [newMap[d][f] EXCEPT !.status = disk[f].status]
  <2>3. CASE newMap' = newMap
    BY <1>1, <2>1, <2>3 DEF StatusInferred, DetectorTypeOK, UnreadListed
  <2>4. CASE disk[f] # Absent /\ newMap' = [newMap EXCEPT ![d][f].status = disk[f].status]
    <3>1. disk[f].status \in Statuses
      <4>1. disk[f] \in Summaries({"idle", "active"})
        BY <1>1, <2>4 DEF DetectorTypeOK, OnDisk
      <4> QED
        BY <4>1 DEF Summaries, Statuses
    <3>2. row \in Listed /\ row # Absent
      BY <2>2, <3>1, StatusReplaced
    <3> HIDE DEF row
    <3>3. newMap' = [newMap EXCEPT ![d] = [newMap[d] EXCEPT ![f] = row]]
      BY <2>4 DEF row
    <3>4. [newMap[d] EXCEPT ![f] = row] \in [Files -> Listed]
      BY <2>2, <3>2
    <3>5. newMap' \in [Detectors -> [Files -> Listed]]
      BY <1>1, <3>3, <3>4 DEF DetectorTypeOK
    <3>6. unread' \in [Detectors -> SUBSET Files]
      BY <1>1, <2>1 DEF StatusInferred, DetectorTypeOK
    <3>7. DetectorTypeOK'
      BY <1>1, <2>1, <3>5, <3>6 DEF StatusInferred, DetectorTypeOK
    <3>8. \A e \in Detectors : unread'[e] \subseteq unread[e]
      BY <1>1, <2>1 DEF StatusInferred, DetectorTypeOK
    <3>9. \A e \in Detectors, g \in Files :
            newMap[e][g] # Absent => newMap'[e][g] # Absent
      BY <1>1, <2>2, <3>2, <3>3 DEF DetectorTypeOK
    <3>10. UnreadListed'
      BY <1>1, <3>8, <3>9 DEF UnreadListed, DetectorTypeOK
    <3> QED
      BY <3>7, <3>10
  <2> QED
    BY <2>1, <2>3, <2>4 DEF StatusInferred
<1>7. CASE DiffReported(d)
  <2>1. newMap[d] \in [Files -> Listed]
    BY <1>1 DEF DetectorTypeOK
  <2> DEFINE heard == [f \in Files |->
                         Hears(told[d][f], EventsFor(cache[d][f], newMap[d][f]), newMap[d][f])]
  <2>2. heard \in [Files -> Listed]
    BY <1>1, DiffIsHeard DEF DetectorTypeOK
  <2>3. told' = [told EXCEPT ![d] = heard]
    BY <1>7 DEF DiffReported
  <2> HIDE DEF heard
  <2>4. DetectorTypeOK'
    BY <1>1, <1>7, <2>1, <2>2, <2>3, NothingListed DEF DiffReported, DetectorTypeOK
  <2>5. UnreadListed'
    BY <1>1, <1>7 DEF DiffReported, DetectorTypeOK, UnreadListed
  <2> QED
    BY <2>4, <2>5
<1> QED
  BY <1>2, <1>3, <1>4, <1>5, <1>6, <1>7 DEF DetectorStep

\* The variables of the streams keep their types in every step of a stream or
\* of the registry; so do those of the detectors, in every step.
LEMMA TInvStep == TInv /\ [Next]_vars => TInv'
<1> SUFFICES ASSUME TInv, [Next]_vars PROVE TInv'
  OBVIOUS
<1> USE DEF TInv
<1>1. TypeOK /\ DetectorTypeOK /\ UnreadListed
  BY DEF TypeOK
<1>2. ASSUME UNCHANGED detectorVars PROVE DetectorTypeOK' /\ UnreadListed'
  BY <1>1, <1>2 DEF detectorVars, DetectorTypeOK, UnreadListed
<1>3. ASSUME UNCHANGED streamVars, DetectorTypeOK', UnreadListed' PROVE TInv'
  BY <1>1, <1>3 DEF streamVars, TypeOK
<1>4. ASSUME NEW c \in Streams, StreamStep(c) PROVE TInv'
  <2>1. CASE AddGlobalCreates(c)
    <3>1. DetectorTypeOK' /\ UnreadListed'
      BY <2>1, CreateTyped DEF AddGlobalCreates, Streams
    <3> QED
      BY <1>1, <2>1, <3>1 DEF AddGlobalCreates, TypeOK, Streams
  <2>2. CASE AddGlobalWaits(c)
    BY <1>1, <1>2, <2>2 DEF AddGlobalWaits, TypeOK
  <2>3. CASE AddGlobalJoins(c)
    BY <1>1, <1>2, <2>3 DEF AddGlobalJoins, TypeOK
  <2>4. CASE AddGlobalRefused(c)
    BY <1>1, <1>2, <2>4 DEF AddGlobalRefused, TypeOK
  <2>5. CASE GlobalPeerClosesEarly(c)
    BY <1>1, <1>2, <2>5 DEF GlobalPeerClosesEarly, TypeOK
  <2>6. CASE GlobalPeerCloses(c)
    <3>1. DetectorTypeOK' /\ UnreadListed'
      BY <1>1, <1>2, <2>6, ShutTyped DEF GlobalPeerCloses, TypeOK
    <3> QED
      BY <1>1, <2>6, <3>1 DEF GlobalPeerCloses, TypeOK
  <2> QED
    BY <1>4, <2>1, <2>2, <2>3, <2>4, <2>5, <2>6 DEF StreamStep
<1>5. ASSUME NEW d \in Detectors, DetectorReady(d) PROVE TInv'
  <2>1. DetectorTypeOK' /\ UnreadListed'
    BY <1>5, StartedTyped DEF DetectorReady
  <2> QED
    BY <1>1, <1>5, <2>1 DEF DetectorReady, TypeOK, Streams
<1>6. CASE GlobalBroadcastDrops
  BY <1>1, <1>2, <1>6 DEF GlobalBroadcastDrops, TypeOK
<1>7. CASE Close
  <2>1. DetectorTypeOK' /\ UnreadListed'
    BY <1>1, <1>2, <1>7, ShutTyped DEF Close, TypeOK
  <2> QED
    BY <1>1, <1>7, <2>1 DEF Close, TypeOK
<1>8. ASSUME NEW d \in Detectors, DetectorStep(d), UNCHANGED streamVars PROVE TInv'
  BY <1>3, <1>8, DetectorStepTyped
<1>9. ASSUME NEW f \in Files, DiskChanges(f), UNCHANGED streamVars PROVE TInv'
  BY <1>3, <1>9, DiskChangesTyped
<1>10. CASE UNCHANGED vars
  BY <1>2, <1>3, <1>10 DEF vars
<1> QED
  BY <1>4, <1>5, <1>6, <1>7, <1>8, <1>9, <1>10 DEF Next

\* Every variable of the streams and detectors keeps its type.
THEOREM GlobalTypeOK == Spec => []TypeOK
<1>1. TInv => TypeOK
  BY DEF TInv
<1> QED
  BY <1>1, TInvInit, TInvStep, PTL DEF Spec

-----------------------------------------------------------------------------
(* Streams and their detector                                              *)

\* Until a detector is closed, exactly one of the registry's two variables
\* knows it, and a detector being started excludes an assigned one.
OneKnown ==
  /\ \A d \in Detectors : phase[d] = "starting" <=> starting = d
  /\ \A d \in Detectors : phase[d] \in {"running", "blind"} <=> assigned = d
  /\ starting = None \/ assigned = None

ServedIfRegistered == globalClients # {} /\ ~closing => assigned # None

SInv == TInv /\ OneKnown /\ ServedIfRegistered

LEMMA SInvInit == Init => SInv
<1> SUFFICES ASSUME Init PROVE SInv
  OBVIOUS
<1>1. OneKnown /\ ServedIfRegistered
  BY NoneAssumption DEF Init, DetectorInit, OneKnown, ServedIfRegistered
<1> QED
  BY <1>1, TInvInit DEF SInv

LEMMA SInvStep == SInv /\ [Next]_vars => SInv'
<1> SUFFICES ASSUME SInv, [Next]_vars PROVE OneKnown' /\ ServedIfRegistered'
  BY TInvStep DEF SInv
<1>1. /\ OneKnown
      /\ ServedIfRegistered
      /\ phase \in [Detectors -> {"unborn", "starting", "running", "blind", "closed"}]
      /\ assigned \in Detectors \cup {None}
      /\ starting \in Detectors \cup {None}
      /\ Streams = Detectors
      /\ None \notin Detectors
  BY NoneAssumption DEF SInv, TInv, TypeOK, DetectorTypeOK, Streams
<1>2. ASSUME UNCHANGED <<phase, assigned, starting>> PROVE OneKnown'
  BY <1>1, <1>2 DEF OneKnown
<1>3. ASSUME UNCHANGED detectorVars, UNCHANGED <<assigned, starting>> PROVE OneKnown'
  BY <1>2, <1>3 DEF detectorVars
<1>4. ASSUME NEW c \in Streams, StreamStep(c) PROVE OneKnown' /\ ServedIfRegistered'
  <2>1. CASE AddGlobalCreates(c)
    <3>1. CASE sessionsDir
      BY <1>1, <2>1, <3>1 DEF AddGlobalCreates, Create, OneKnown, ServedIfRegistered
    <3>2. CASE ~sessionsDir
      BY <1>1, <2>1, <3>2 DEF AddGlobalCreates, Create, OneKnown, ServedIfRegistered
    <3> QED
      BY <3>1, <3>2
  <2>2. CASE AddGlobalWaits(c)
    BY <1>1, <1>3, <2>2 DEF AddGlobalWaits, ServedIfRegistered
  <2>3. CASE AddGlobalJoins(c)
    BY <1>1, <1>3, <2>3 DEF AddGlobalJoins, ServedIfRegistered
  <2>4. CASE AddGlobalRefused(c)
    BY <1>1, <1>3, <2>4 DEF AddGlobalRefused, ServedIfRegistered
  <2>5. CASE GlobalPeerClosesEarly(c)
    BY <1>1, <1>3, <2>5 DEF GlobalPeerClosesEarly, ServedIfRegistered
  <2>6. CASE GlobalPeerCloses(c)
    <3>1. CASE globalClients = {c} /\ assigned # None
      BY <1>1, <2>6, <3>1 DEF GlobalPeerCloses, Shut, OneKnown, ServedIfRegistered
    <3>2. CASE ~(globalClients = {c} /\ assigned # None)
      BY <1>1, <1>3, <2>6, <3>2 DEF GlobalPeerCloses, ServedIfRegistered
    <3> QED
      BY <3>1, <3>2
  <2> QED
    BY <1>4, <2>1, <2>2, <2>3, <2>4, <2>5, <2>6 DEF StreamStep
<1>5. ASSUME NEW d \in Detectors, DetectorReady(d) PROVE OneKnown' /\ ServedIfRegistered'
  BY <1>1, <1>5 DEF DetectorReady, Started, OneKnown, ServedIfRegistered
<1>6. CASE GlobalBroadcastDrops
  BY <1>1, <1>3, <1>6 DEF GlobalBroadcastDrops, ServedIfRegistered
<1>7. CASE Close
  <2>1. CASE assigned # None
    BY <1>1, <1>7, <2>1 DEF Close, Shut, OneKnown, ServedIfRegistered
  <2>2. CASE assigned = None
    BY <1>1, <1>3, <1>7, <2>2 DEF Close, ServedIfRegistered
  <2> QED
    BY <2>1, <2>2
<1>8. ASSUME NEW d \in Detectors, DetectorStep(d), UNCHANGED streamVars
      PROVE  OneKnown' /\ ServedIfRegistered'
  <2>1. UNCHANGED phase
    BY <1>8 DEF DetectorStep, FileEventArrives, DebounceElapses, ListReturns, ListFails,
                StatusInferred, DiffReported
  <2> QED
    BY <1>1, <1>2, <1>8, <2>1 DEF streamVars, ServedIfRegistered
<1>9. ASSUME NEW f \in Files, DiskChanges(f), UNCHANGED streamVars
      PROVE  OneKnown' /\ ServedIfRegistered'
  BY <1>1, <1>2, <1>9 DEF DiskChanges, streamVars, ServedIfRegistered
<1>10. CASE UNCHANGED vars
  BY <1>1, <1>3, <1>10 DEF vars, streamVars, ServedIfRegistered
<1> QED
  BY <1>4, <1>5, <1>6, <1>7, <1>8, <1>9, <1>10 DEF Next

\* For any number of streams: two detectors never watch at once.
THEOREM OneDetector == Spec => []OneDetectorWatches
<1>1. SInv => OneDetectorWatches
  BY NoneAssumption DEF SInv, OneKnown, OneDetectorWatches, Watching
<1> QED
  BY <1>1, SInvInit, SInvStep, PTL DEF Spec

\* For any number of streams: while the bridge runs, registered streams have a
\* detector that is started and not closed.
THEOREM StreamsServed == Spec => []RegisteredStreamsAreServed
<1>1. SInv => RegisteredStreamsAreServed
  BY DEF SInv, TInv, TypeOK, OneKnown, ServedIfRegistered, RegisteredStreamsAreServed
<1> QED
  BY <1>1, SInvInit, SInvStep, PTL DEF Spec

-----------------------------------------------------------------------------
(* What a listener is told                                                 *)

LInv == TInv /\ ListenerAgreesWithCache

LEMMA SameRowReflexive == ASSUME NEW s PROVE SameRow(s, s)
BY DEF SameRow

LEMMA LInvInit == Init => LInv
<1> SUFFICES ASSUME Init PROVE LInv
  OBVIOUS
<1>1. ListenerAgreesWithCache
  BY DEF Init, DetectorInit, ListenerAgreesWithCache
<1> QED
  BY <1>1, TInvInit DEF LInv

LEMMA LInvStep == LInv /\ [Next]_vars => LInv'
<1> SUFFICES ASSUME LInv, [Next]_vars PROVE ListenerAgreesWithCache'
  BY TInvStep DEF LInv
<1>1. DetectorTypeOK /\ ListenerAgreesWithCache
  BY DEF LInv, TInv, TypeOK
<1>2. ASSUME UNCHANGED <<phase, cache, told>> PROVE ListenerAgreesWithCache'
  BY <1>1, <1>2 DEF ListenerAgreesWithCache
<1>3. ASSUME UNCHANGED detectorVars PROVE ListenerAgreesWithCache'
  BY <1>2, <1>3 DEF detectorVars
<1>4. ASSUME NEW d \in Detectors, Shut(d) PROVE ListenerAgreesWithCache'
  BY <1>1, <1>4 DEF Shut, ListenerAgreesWithCache, DetectorTypeOK
<1>5. ASSUME NEW c \in Streams, StreamStep(c) PROVE ListenerAgreesWithCache'
  <2>1. CASE AddGlobalCreates(c)
    BY <1>1, <2>1 DEF AddGlobalCreates, Create, ListenerAgreesWithCache, DetectorTypeOK
  <2>2. CASE GlobalPeerCloses(c)
    <3>1. assigned # None => assigned \in Detectors
      BY DEF LInv, TInv, TypeOK
    <3> QED
      BY <1>3, <1>4, <2>2, <3>1 DEF GlobalPeerCloses
  <2> QED
    BY <1>3, <1>5, <2>1, <2>2 DEF StreamStep, AddGlobalWaits, AddGlobalJoins,
       AddGlobalRefused, GlobalPeerClosesEarly
<1>6. ASSUME NEW d \in Detectors, DetectorReady(d) PROVE ListenerAgreesWithCache'
  <2>1. PICK baseline : /\ cache' = [cache EXCEPT ![d] = baseline]
                        /\ told' = [told EXCEPT ![d] = baseline]
    BY <1>6 DEF DetectorReady, Started
  <2>2. phase' = [phase EXCEPT ![d] = "running"]
    BY <1>6 DEF DetectorReady, Started
  <2> QED
    BY <1>1, <2>1, <2>2, SameRowReflexive DEF ListenerAgreesWithCache, DetectorTypeOK
<1>7. CASE GlobalBroadcastDrops
  BY <1>3, <1>7 DEF GlobalBroadcastDrops
<1>8. CASE Close
  <2>1. assigned # None => assigned \in Detectors
    BY DEF LInv, TInv, TypeOK
  <2> QED
    BY <1>3, <1>4, <1>8, <2>1 DEF Close
<1>9. ASSUME NEW d \in Detectors, DetectorStep(d) PROVE ListenerAgreesWithCache'
  <2>1. CASE DiffReported(d)
    <3> DEFINE heard == [f \in Files |->
                           Hears(told[d][f], EventsFor(cache[d][f], newMap[d][f]), newMap[d][f])]
    <3>1. /\ told' = [told EXCEPT ![d] = heard]
          /\ cache' = [cache EXCEPT ![d] = newMap[d]]
          /\ phase' = phase
      BY <2>1 DEF DiffReported
    <3>2. phase[d] = "running" => \A f \in Files : SameRow(told[d][f], cache[d][f])
      BY <1>1 DEF ListenerAgreesWithCache
    <3>3. phase[d] = "running" => \A f \in Files : SameRow(heard[f], newMap[d][f])
      BY <1>1, <3>2, DiffIsHeard DEF DetectorTypeOK
    <3> HIDE DEF heard
    <3> QED
      BY <1>1, <3>1, <3>3 DEF ListenerAgreesWithCache, DetectorTypeOK
  <2> QED
    BY <1>2, <1>9, <2>1 DEF DetectorStep, FileEventArrives, DebounceElapses, ListReturns,
       ListFails, StatusInferred
<1>10. ASSUME NEW f \in Files, DiskChanges(f) PROVE ListenerAgreesWithCache'
  BY <1>2, <1>10 DEF DiskChanges
<1>11. CASE UNCHANGED vars
  BY <1>3, <1>11 DEF vars
<1> QED
  BY <1>5, <1>6, <1>7, <1>8, <1>9, <1>10, <1>11 DEF Next

\* For any files, names and changes: what a running detector has emitted adds
\* up to its cache.
THEOREM ListenerAgrees == Spec => []ListenerAgreesWithCache
<1>1. LInv => ListenerAgreesWithCache
  BY DEF LInv
<1> QED
  BY <1>1, LInvInit, LInvStep, PTL DEF Spec
=============================================================================
