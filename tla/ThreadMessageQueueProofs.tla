---------------------- MODULE ThreadMessageQueueProofs ----------------------
(***************************************************************************)
(* Proofs about the messages of a thread, for any messages, turns and      *)
(* troubles.                                                               *)
(***************************************************************************)
EXTENDS ThreadMessageQueue, SequenceTheorems, FiniteSetTheorems, TLAPS

-----------------------------------------------------------------------------
(* Sequences without duplicates                                            *)

Distinct(q) == \A i, j \in DOMAIN q : q[i] = q[j] => i = j
Holds(q, m) == \E i \in DOMAIN q : q[i] = m

\* A message that was not in the queue joins it at the end.
LEMMA AppendHolds ==
  ASSUME NEW S, NEW q \in Seq(S), NEW m \in S, ~Holds(q, m), Distinct(q)
  PROVE  /\ Append(q, m) \in Seq(S)
         /\ Distinct(Append(q, m))
         /\ \A n : Holds(Append(q, m), n) <=> Holds(q, n) \/ n = m
<1> DEFINE p == Append(q, m)
<1>1. /\ p \in Seq(S)
      /\ Len(q) \in Nat
      /\ DOMAIN q = 1 .. Len(q)
      /\ DOMAIN p = 1 .. Len(q) + 1
      /\ p[Len(q) + 1] = m
      /\ \A i \in 1 .. Len(q) : p[i] = q[i]
  OBVIOUS
<1> HIDE DEF p
<1>2. \A i \in DOMAIN p : i = Len(q) + 1 \/ i \in DOMAIN q
  BY <1>1
<1>3. Distinct(p)
  BY <1>1, <1>2 DEF Distinct, Holds
<1>4. \A n : Holds(p, n) <=> Holds(q, n) \/ n = m
  BY <1>1, <1>2 DEF Holds
<1> QED
  BY <1>1, <1>3, <1>4 DEF p

\* The head leaves, and nothing else.
LEMMA TailHolds ==
  ASSUME NEW S, NEW q \in Seq(S), q # <<>>, Distinct(q)
  PROVE  /\ Head(q) \in S
         /\ Holds(q, Head(q))
         /\ Tail(q) \in Seq(S)
         /\ Distinct(Tail(q))
         /\ \A n : Holds(Tail(q), n) <=> Holds(q, n) /\ n # Head(q)
<1> DEFINE p == Tail(q)
<1>1. /\ p \in Seq(S)
      /\ Len(q) \in Nat
      /\ Len(q) >= 1
      /\ DOMAIN q = 1 .. Len(q)
      /\ DOMAIN p = 1 .. Len(q) - 1
      /\ Head(q) = q[1]
      /\ q[1] \in S
      /\ \A i \in 1 .. Len(q) - 1 : p[i] = q[i + 1]
  OBVIOUS
<1> HIDE DEF p
<1>2. \A i \in DOMAIN p : i + 1 \in DOMAIN q /\ i + 1 # 1 /\ p[i] = q[i + 1]
  BY <1>1
<1>3. \A i \in DOMAIN q : i = 1 \/ (i - 1 \in DOMAIN p /\ p[i - 1] = q[i])
  BY <1>1
<1>4. 1 \in DOMAIN q
  BY <1>1
<1>5. ASSUME NEW i \in DOMAIN p, NEW j \in DOMAIN p, p[i] = p[j]
      PROVE  i = j
  <2>1. i + 1 = j + 1
    BY <1>2, <1>5 DEF Distinct
  <2> QED
    BY <1>1, <2>1
<1>6. ASSUME NEW n
      PROVE  Holds(p, n) <=> Holds(q, n) /\ n # Head(q)
  <2>1. Holds(p, n) => Holds(q, n) /\ n # Head(q)
    BY <1>1, <1>2, <1>4 DEF Holds, Distinct
  <2>2. Holds(q, n) /\ n # Head(q) => Holds(p, n)
    BY <1>1, <1>3 DEF Holds
  <2> QED
    BY <2>1, <2>2
<1> QED
  BY <1>1, <1>4, <1>5, <1>6 DEF p, Holds, Distinct

\* What is left when the element at i is taken out.
LEMMA TakenOut ==
  ASSUME NEW S, NEW q \in Seq(S), NEW i \in DOMAIN q
  PROVE  LET p == SubSeq(q, 1, i - 1) \o SubSeq(q, i + 1, Len(q))
         IN  /\ p \in Seq(S)
             /\ DOMAIN p = 1 .. Len(q) - 1
             /\ \A k \in 1 .. i - 1 : p[k] = q[k]
             /\ \A k \in i .. Len(q) - 1 : p[k] = q[k + 1]
<1> DEFINE a == SubSeq(q, 1, i - 1)
           b == SubSeq(q, i + 1, Len(q))
           p == a \o b
<1>1. /\ Len(q) \in Nat
      /\ DOMAIN q = 1 .. Len(q)
      /\ q[i] \in S
      /\ i \in Nat /\ i >= 1 /\ i <= Len(q)
  OBVIOUS
<1>2. /\ a \in Seq(S)
      /\ Len(a) = i - 1
      /\ \A k \in 1 .. i - 1 : a[k] = q[k]
  <2>1. \A k \in 1 .. i - 1 : q[k] \in S
    BY <1>1
  <2> QED
    BY <1>1, <2>1, SubSeqProperties
<1>3. /\ b \in Seq(S)
      /\ Len(b) = Len(q) - i
      /\ \A k \in 1 .. Len(q) - i : b[k] = q[k + i]
  <2>1. \A k \in i + 1 .. Len(q) : q[k] \in S
    BY <1>1
  <2>2. /\ b \in Seq(S)
        /\ Len(b) = IF i + 1 <= Len(q) THEN Len(q) - (i + 1) + 1 ELSE 0
        /\ \A k \in 1 .. Len(q) - (i + 1) + 1 : b[k] = q[i + 1 + k - 1]
    BY <1>1, <2>1, SubSeqProperties
  <2> QED
    BY <1>1, <2>2
<1> HIDE DEF a, b
<1>4. /\ p \in Seq(S)
      /\ DOMAIN p = 1 .. Len(q) - 1
      /\ \A k \in 1 .. i - 1 : p[k] = q[k]
      /\ \A k \in i .. Len(q) - 1 : p[k] = q[k + 1]
  <2>1. /\ p \in Seq(S)
        /\ Len(p) = Len(a) + Len(b)
        /\ \A k \in 1 .. Len(a) + Len(b) : p[k] = IF k <= Len(a) THEN a[k] ELSE b[k - Len(a)]
    BY <1>2, <1>3, ConcatProperties
  <2> HIDE DEF p
  <2>2. DOMAIN p = 1 .. Len(q) - 1 /\ Len(a) + Len(b) = Len(q) - 1
    BY <1>1, <1>2, <1>3, <2>1
  <2>3. ASSUME NEW k \in 1 .. i - 1
        PROVE  p[k] = q[k]
    BY <1>1, <1>2, <2>1, <2>2
  <2>4. ASSUME NEW k \in i .. Len(q) - 1
        PROVE  p[k] = q[k + 1]
    <3>1. p[k] = b[k - (i - 1)] /\ k - (i - 1) \in 1 .. Len(q) - i
      BY <1>1, <1>2, <2>1, <2>2
    <3>2. b[k - (i - 1)] = q[k - (i - 1) + i]
      BY <1>3, <3>1
    <3> QED
      BY <1>1, <3>1, <3>2
  <2> QED
    BY <2>1, <2>2, <2>3, <2>4
<1> QED
  BY <1>4 DEF p, a, b

\* A message is taken out of the middle, and no other.
LEMMA TakenOutHolds ==
  ASSUME NEW S, NEW q \in Seq(S), NEW i \in DOMAIN q, Distinct(q)
  PROVE  LET p == SubSeq(q, 1, i - 1) \o SubSeq(q, i + 1, Len(q))
         IN  /\ q[i] \in S
             /\ p \in Seq(S)
             /\ Distinct(p)
             /\ \A n : Holds(p, n) <=> Holds(q, n) /\ n # q[i]
<1> DEFINE p == SubSeq(q, 1, i - 1) \o SubSeq(q, i + 1, Len(q))
<1>1. /\ Len(q) \in Nat
      /\ DOMAIN q = 1 .. Len(q)
      /\ q[i] \in S
      /\ i \in Nat /\ i >= 1 /\ i <= Len(q)
  OBVIOUS
<1>4. /\ p \in Seq(S)
      /\ DOMAIN p = 1 .. Len(q) - 1
      /\ \A k \in 1 .. i - 1 : p[k] = q[k]
      /\ \A k \in i .. Len(q) - 1 : p[k] = q[k + 1]
  BY TakenOut
<1> HIDE DEF p
<1> DEFINE from(k) == IF k < i THEN k ELSE k + 1
           to(k) == IF k < i THEN k ELSE k - 1
<1>5. \A k \in DOMAIN p : from(k) \in DOMAIN q /\ from(k) # i /\ p[k] = q[from(k)]
  BY <1>1, <1>4
<1>6. \A k \in DOMAIN q : k # i => to(k) \in DOMAIN p /\ p[to(k)] = q[k]
  BY <1>1, <1>4
<1>7. \A k, l \in DOMAIN p : from(k) = from(l) => k = l
  BY <1>1, <1>4
<1> HIDE DEF from, to
<1>8. Distinct(p)
  BY <1>5, <1>7 DEF Distinct
<1>9. ASSUME NEW n
      PROVE  Holds(p, n) <=> Holds(q, n) /\ n # q[i]
  <2>1. Holds(p, n) => Holds(q, n) /\ n # q[i]
    BY <1>5 DEF Holds, Distinct
  <2>2. Holds(q, n) /\ n # q[i] => Holds(p, n)
    BY <1>6 DEF Holds
  <2> QED
    BY <2>1, <2>2
<1> QED
  BY <1>1, <1>4, <1>8, <1>9 DEF p

-----------------------------------------------------------------------------
(* Type correctness                                                        *)

\* The initial state has its types.
LEMMA InitTypeOK == Init => TypeOK
<1> SUFFICES ASSUME Init PROVE TypeOK
  OBVIOUS
<1> USE QueueAssumption DEF Init
<1>1. events \in Seq(Events) /\ queue \in Seq(Messages)
  OBVIOUS
<1>2. posts \in [Messages -> Nat] /\ losses \in 0 .. MaxTroubles
  OBVIOUS
<1>3. /\ upstream \in [Turns -> {"new", "running", "failed", "over"}]
      /\ startedBy \in [Turns -> Messages \cup {None}]
      /\ snapshot \in [Turns -> Shown]
      /\ view \in [Turns -> Shown]
  BY DEF Shown
<1> QED
  BY <1>1, <1>2, <1>3 DEF TypeOK

\* The streams of events stay sequences of events.
LEMMA EmitType ==
  ASSUME TypeOK, NEW type \in {"turnStarted", "turnError", "turnCompleted"}, NEW t \in Turns,
         Emit(type, t)
  PROVE  events' \in Seq(Events)
<1>1. [type |-> type, turn |-> t] \in Events
  BY DEF Events
<1> QED
  BY <1>1 DEF TypeOK, Emit

\* What is read is an event.
LEMMA EventReadType ==
  ASSUME TypeOK, NEW type, EventRead(type)
  PROVE  /\ events' \in Seq(Events)
         /\ Head(events) \in Events
         /\ Head(events).turn \in Turns
<1>1. Head(events) \in Events
  BY HeadTailProperties DEF TypeOK, EventRead
<1>2. Tail(events) \in Seq(Events)
  BY HeadTailProperties DEF TypeOK, EventRead
<1> QED
  BY <1>1, <1>2 DEF EventRead, Events

\* A turn starts.
LEMMA StartsType ==
  ASSUME TypeOK, NEW t \in Turns, NEW m \in Messages \cup {None}, Starts(t, m)
  PROVE  /\ upstream' \in [Turns -> {"new", "running", "failed", "over"}]
         /\ startedBy' \in [Turns -> Messages \cup {None}]
         /\ events' \in Seq(Events)
         /\ stale' \in BOOLEAN
<1>1. events' \in Seq(Events)
  BY EmitType DEF Starts
<1> QED
  BY <1>1 DEF TypeOK, Starts, Missed

\* A drain keeps the types.
LEMMA DrainType ==
  ASSUME TypeOK, Drain
  PROVE  /\ queue' \in Seq(Messages)
         /\ draining' \in Messages \cup {None}
         /\ posts' \in [Messages -> Nat]
<1>1. CASE draining # None \/ queue = <<>>
  BY <1>1 DEF TypeOK, Drain, queueVars
<1>2. CASE ~(draining # None \/ queue = <<>>)
  <2>1. Head(queue) \in Messages /\ Tail(queue) \in Seq(Messages)
    BY <1>2, HeadTailProperties DEF TypeOK
  <2>2. Append(Tail(queue), Head(queue)) \in Seq(Messages)
    BY <2>1
  <2>3. CASE compacting' \/ Active(view')
    BY <1>2, <2>1, <2>2, <2>3 DEF TypeOK, Drain
  <2>4. CASE ~(compacting' \/ Active(view'))
    <3>1. posts' = [posts EXCEPT ![Head(queue)] = @ + 1]
      BY <1>2, <2>4 DEF Drain
    <3>2. queue' = Tail(queue) /\ draining' = Head(queue)
      BY <1>2, <2>4 DEF Drain
    <3> QED
      BY <2>1, <3>1, <3>2 DEF TypeOK
  <2> QED
    BY <2>3, <2>4
<1> QED
  BY <1>1, <1>2

\* The session ends with its drain forgotten or not.
LEMMA SessionSteps ==
  ApplySessionLoss \/ ResetState => SessionEnds /\ draining' \in {draining, None}
BY DEF ApplySessionLoss, ResetState

\* Every step keeps the types.
LEMMA StepTypeOK == TypeOK /\ [Next]_vars => TypeOK'
<1> SUFFICES ASSUME TypeOK, [Next]_vars PROVE TypeOK'
  OBVIOUS
<1> USE QueueAssumption
<1> USE DEF upstreamVars, streamVars, queueVars, callVars, compactVars, userVars
<1>1. ASSUME NEW t \in Turns, OtherTurnStarts(t) PROVE TypeOK'
  BY <1>1, StartsType DEF TypeOK, OtherTurnStarts
<1>2. ASSUME NEW t \in Turns, TurnFails(t) PROVE TypeOK'
  BY <1>2, EmitType DEF TypeOK, TurnFails, Missed
<1>3. ASSUME NEW t \in Turns, TurnEnds(t) PROVE TypeOK'
  BY <1>3, EmitType DEF TypeOK, TurnEnds, Missed
<1>4. ASSUME NEW t \in Turns, CompactHandled(t) PROVE TypeOK'
  BY <1>4, StartsType DEF TypeOK, CompactHandled
<1>5. ASSUME NEW m \in Messages, StartTurnRefused(m) PROVE TypeOK'
  BY <1>5 DEF TypeOK, StartTurnRefused
<1>6. ASSUME NEW m \in Messages, NEW t \in Turns, StartTurnHandled(m, t) PROVE TypeOK'
  BY <1>6, StartsType DEF TypeOK, StartTurnHandled
<1>7. CASE CompactRefused
  BY <1>7 DEF TypeOK, CompactRefused
<1>8. ASSUME NEW m \in Messages, SendPosts(m) PROVE TypeOK'
  BY <1>8 DEF TypeOK, SendPosts
<1>9. ASSUME NEW m \in Messages, SendQueues(m) PROVE TypeOK'
  BY <1>9 DEF TypeOK, SendQueues
<1>10. ASSUME NEW m \in Messages, SendFails(m) PROVE TypeOK'
  BY <1>10 DEF TypeOK, SendFails, Settled
<1>11. ASSUME NEW m \in Messages, NEW t \in Turns, SendSucceeds(m, t) PROVE TypeOK'
  <2>1. view' \in [Turns -> Shown] /\ stale' \in BOOLEAN
    BY <1>11 DEF TypeOK, SendSucceeds, Shown
  <2> QED
    BY <1>11, <2>1 DEF TypeOK, SendSucceeds, Settled
<1>12. ASSUME NEW m \in Messages, NEW t \in Turns, ReplyLost(m, t) PROVE TypeOK'
  BY <1>12 DEF TypeOK, ReplyLost
<1>13. CASE StartedArrives
  BY <1>13, EventReadType DEF TypeOK, StartedArrives, EventRead, Shown
<1>14. CASE CompletedArrives
  BY <1>14, EventReadType, DrainType DEF TypeOK, CompletedArrives, EventRead, Shown
<1>15. CASE ErrorArrives
  BY <1>15, EventReadType, DrainType DEF TypeOK, ErrorArrives, EventRead, Shown
<1>16. CASE StreamLost
  <2> DEFINE bad == failed \cup {m \in Messages : <<m, None>> \in replies}
  <2>0. Cardinality(bad) \in Nat
    <3>1. bad \subseteq Messages
      BY DEF TypeOK
    <3> QED
      BY <3>1, FS_Subset, FS_CardinalityType
  <2> HIDE DEF bad
  <2>1. losses + 1 \in 0 .. MaxTroubles
    <3>1. losses + Cardinality(bad) + (IF compaction = "none" THEN 0 ELSE 1) < MaxTroubles
      BY <1>16 DEF StreamLost, MayTrouble, bad
    <3> QED
      BY <2>0, <3>1 DEF TypeOK
  <2>2. <<>> \in Seq(Events)
    OBVIOUS
  <2> QED
    BY <1>16, <2>1, <2>2 DEF TypeOK, StreamLost
<1>17. CASE DetailRead
  BY <1>17 DEF TypeOK, DetailRead, Shown
<1>18. CASE DetailArrives
  BY <1>18 DEF TypeOK, DetailArrives, Shown
<1>19. CASE StreamOpens
  BY <1>19 DEF TypeOK, StreamOpens
<1>20. ASSUME NEW i \in DOMAIN queue, RemovePending(i) PROVE TypeOK'
  <2>1. queue[i] \in Messages
    BY DEF TypeOK
  <2>2. queue' \in Seq(Messages)
    BY <1>20, TakenOut DEF TypeOK, RemovePending
  <2> QED
    BY <1>20, <2>1, <2>2 DEF TypeOK, RemovePending
<1>21. CASE CompactStarts
  BY <1>21 DEF TypeOK, CompactStarts
<1>22. CASE CompactFails
  BY <1>22 DEF TypeOK, CompactFails
<1>23. CASE UNCHANGED vars
  BY <1>23 DEF TypeOK, vars
<1>24. CASE SessionEnds /\ draining' \in {draining, None}
  <2>1. events' \in Seq(Events) /\ queue' \in Seq(Messages) /\ draining' \in Messages \cup {None}
    BY <1>24 DEF TypeOK, SessionEnds
  <2>2. snapshot' \in [Turns -> Shown] /\ view' \in [Turns -> Shown]
    BY <1>24 DEF SessionEnds, Shown
  <2> QED
    BY <1>24, <2>1, <2>2 DEF TypeOK, SessionEnds
<1> QED
  BY <1>1, <1>2, <1>3, <1>4, <1>5, <1>6, <1>7, <1>8, <1>9, <1>10, <1>11, <1>12, <1>13, <1>14,
     <1>15, <1>16, <1>17, <1>18, <1>19, <1>20, <1>21, <1>22, <1>23, <1>24, SessionSteps
  DEF Next, AppServerStep, CallStep, StreamStep, EventArrives

\* Type correctness of the queue, the calls, the stream and the turns, for any
\* messages, turns and troubles (TypeOK).
THEOREM QueueTypeOK == Spec => []TypeOK
<1> QED
  BY InitTypeOK, StepTypeOK, PTL DEF Spec

-----------------------------------------------------------------------------
(* A message is in one place                                               *)

\* No turn, reply, failure or removal is known of m.
Untouched(m) ==
  /\ m \notin failed /\ m \notin removed
  /\ \A t \in Turns : startedBy[t] # m
  /\ \A t \in Turns \cup {None} : <<m, t>> \notin replies

\* A message waits or is posted, once, only before anything else happens to it;
\* the message that a turn was started for is known by its reply.
OnePlace ==
  /\ Distinct(queue)
  /\ \A m \in Messages : posts[m] <= 1
  /\ \A m \in Messages : m \notin given => ~Holds(queue, m) /\ posts[m] = 0 /\ Untouched(m)
  /\ \A m \in Messages : Holds(queue, m) => posts[m] = 0 /\ Untouched(m)
  /\ \A m \in Messages : posts[m] > 0 => Untouched(m)
  /\ \A t \in Turns : upstream[t] = "new" => startedBy[t] = None
  /\ \A s, t \in Turns : startedBy[s] = startedBy[t] /\ startedBy[s] # None => s = t
  /\ \A m \in Messages, t \in Turns : <<m, t>> \in replies => startedBy[t] = m
  /\ compacting => compaction # "none"

QueueInv == TypeOK /\ OnePlace /\ DrainIsUnderWay

\* Nothing has been sent in the initial state.
LEMMA InitInv == Init => QueueInv
<1> SUFFICES ASSUME Init PROVE QueueInv
  OBVIOUS
<1>1. TypeOK
  BY InitTypeOK
<1>2. DOMAIN queue = {}
  BY DEF Init
<1>3. OnePlace
  BY <1>2, QueueAssumption DEF Init, OnePlace, Untouched, Distinct, Holds
<1>4. DrainIsUnderWay
  BY DEF Init, DrainIsUnderWay
<1> QED
  BY <1>1, <1>3, <1>4 DEF QueueInv

\* A drain posts the head, drops it, puts it last, or does nothing.
DrainPosts ==
  /\ draining = None /\ draining' \in Messages
  /\ Holds(queue, draining')
  /\ \A m \in Messages : Holds(queue', m) <=> Holds(queue, m) /\ m # draining'
  /\ posts' = [posts EXCEPT ![draining'] = @ + 1]

DrainDrops ==
  /\ compacting' /\ UNCHANGED <<draining, posts>>
  /\ \E n \in Messages : /\ Holds(queue, n)
                         /\ \A m \in Messages : Holds(queue', m) <=> Holds(queue, m) /\ m # n

DrainKeeps ==
  /\ UNCHANGED <<draining, posts>>
  /\ \A m \in Messages : Holds(queue', m) <=> Holds(queue, m)

\* What Drain does is one of them.
LEMMA DrainOutcomes ==
  ASSUME TypeOK, Distinct(queue), Drain
  PROVE  Distinct(queue)' /\ (DrainPosts \/ DrainDrops \/ DrainKeeps)
<1>1. CASE draining # None \/ queue = <<>>
  BY <1>1 DEF Drain, queueVars, DrainKeeps, Distinct
<1>2. CASE ~(draining # None \/ queue = <<>>)
  <2>1. /\ Head(queue) \in Messages
        /\ Holds(queue, Head(queue))
        /\ Tail(queue) \in Seq(Messages)
        /\ Distinct(Tail(queue))
        /\ \A n : Holds(Tail(queue), n) <=> Holds(queue, n) /\ n # Head(queue)
    BY <1>2, TailHolds DEF TypeOK
  <2>2. CASE compacting'
    <3>1. queue' = Tail(queue) /\ UNCHANGED <<draining, posts>>
      BY <1>2, <2>2 DEF Drain
    <3> QED
      BY <2>1, <2>2, <3>1 DEF DrainDrops, Distinct
  <2>3. CASE ~compacting' /\ Active(view')
    <3>1. queue' = Append(Tail(queue), Head(queue)) /\ UNCHANGED <<draining, posts>>
      BY <1>2, <2>3 DEF Drain
    <3>2. /\ Distinct(Append(Tail(queue), Head(queue)))
          /\ \A n : Holds(Append(Tail(queue), Head(queue)), n)
                    <=> Holds(Tail(queue), n) \/ n = Head(queue)
      BY <2>1, AppendHolds
    <3> QED
      BY <2>1, <3>1, <3>2 DEF DrainKeeps, Distinct
  <2>4. CASE ~compacting' /\ ~Active(view')
    <3>1. /\ queue' = Tail(queue)
          /\ draining' = Head(queue)
          /\ posts' = [posts EXCEPT ![Head(queue)] = @ + 1]
      BY <1>2, <2>4 DEF Drain
    <3> QED
      BY <1>2, <2>1, <3>1 DEF DrainPosts, Distinct
  <2> QED
    BY <2>2, <2>3, <2>4
<1> QED
  BY <1>1, <1>2

\* An event that drains keeps a message in one place.
LEMMA DrainKeepsOnePlace ==
  ASSUME QueueInv, Drain,
         UNCHANGED <<upstream, startedBy, replies, compaction, given, failed, removed>>,
         compacting' => compacting
  PROVE  OnePlace' /\ DrainIsUnderWay'
<1> USE DEF QueueInv
<1>1. Distinct(queue)' /\ (DrainPosts \/ DrainDrops \/ DrainKeeps)
  BY DrainOutcomes DEF OnePlace
<1>2. \A m \in Messages : Untouched(m)' <=> Untouched(m)
  BY DEF Untouched
<1>3. CASE DrainPosts
  <2>1. /\ draining' \in Messages /\ draining' \in given
        /\ posts[draining'] = 0 /\ Untouched(draining')
    BY <1>3 DEF DrainPosts, OnePlace
  <2>2. posts'[draining'] = 1 /\ \A m \in Messages : m # draining' => posts'[m] = posts[m]
    BY <1>3, <2>1 DEF DrainPosts, TypeOK
  <2>3. OnePlace'
    BY <1>1, <1>2, <1>3, <2>1, <2>2 DEF DrainPosts, OnePlace, TypeOK
  <2>4. DrainIsUnderWay'
    BY <2>2 DEF DrainIsUnderWay
  <2> QED
    BY <2>3, <2>4
<1>4. CASE DrainDrops
  BY <1>1, <1>2, <1>4 DEF DrainDrops, OnePlace, DrainIsUnderWay
<1>5. CASE DrainKeeps
  BY <1>1, <1>2, <1>5 DEF DrainKeeps, OnePlace, DrainIsUnderWay
<1> QED
  BY <1>1, <1>3, <1>4, <1>5

\* A step that touches no message keeps each in its place.
LEMMA RestKeepsOnePlace ==
  ASSUME QueueInv,
         UNCHANGED <<startedBy, queue, draining, posts, replies, given, failed, removed>>,
         \A t \in Turns : upstream'[t] = "new" => upstream[t] = "new",
         compacting' => compaction' # "none"
  PROVE  OnePlace' /\ DrainIsUnderWay'
<1>1. \A m \in Messages : Untouched(m)' <=> Untouched(m)
  BY DEF Untouched
<1>2. \A m : Holds(queue, m)' <=> Holds(queue, m)
  BY DEF Holds
<1>3. Distinct(queue)'
  BY DEF QueueInv, OnePlace, Distinct
<1> QED
  BY <1>1, <1>2, <1>3 DEF QueueInv, OnePlace, DrainIsUnderWay

\* A turn that no message starts.
LEMMA TurnOfNone ==
  ASSUME QueueInv, NEW t \in Turns, Starts(t, None),
         UNCHANGED <<queue, draining, posts, replies, given, failed, removed>>,
         compacting' => compaction' # "none"
  PROVE  OnePlace' /\ DrainIsUnderWay'
<1>1. startedBy[t] = None
  BY DEF Starts, Fresh, QueueInv, OnePlace
<1>2. startedBy' = startedBy
  BY <1>1 DEF Starts, QueueInv, TypeOK
<1>3. \A s \in Turns : upstream'[s] = "new" => upstream[s] = "new"
  BY DEF Starts, QueueInv, TypeOK
<1> QED
  BY <1>2, <1>3, RestKeepsOnePlace

\* A message that is posted is posted once, and is nowhere else.
LEMMA OnePosted ==
  ASSUME QueueInv, NEW m \in Messages, posts[m] > 0, posts' = [posts EXCEPT ![m] = @ - 1]
  PROVE  /\ posts[m] = 1 /\ Untouched(m) /\ ~Holds(queue, m) /\ m \in given
         /\ posts'[m] = 0
         /\ \A n \in Messages : n # m => posts'[n] = posts[n]
<1>1. posts \in [Messages -> Nat]
  BY DEF QueueInv, TypeOK
<1>2. posts[m] \in Nat /\ posts[m] <= 1
  BY <1>1 DEF QueueInv, OnePlace
<1>3. posts[m] = 1
  BY <1>2
<1>4. posts'[m] = 0 /\ \A n \in Messages : n # m => posts'[n] = posts[n]
  BY <1>1, <1>3
<1>5. Untouched(m) /\ ~Holds(queue, m) /\ m \in given
  BY <1>3 DEF QueueInv, OnePlace
<1> QED
  BY <1>3, <1>4, <1>5

\* A message that has been answered waits and is posted no longer.
LEMMA RepliedIsNowhere ==
  ASSUME QueueInv, NEW m \in Messages, NEW t \in Turns \cup {None}, <<m, t>> \in replies
  PROVE  posts[m] = 0 /\ ~Holds(queue, m) /\ m \in given
<1>1. ~Untouched(m)
  BY DEF Untouched
<1>2. posts[m] \in Nat
  BY DEF QueueInv, TypeOK
<1> QED
  BY <1>1, <1>2 DEF QueueInv, OnePlace

\* Every step keeps each message in one place, and the drain under way.
LEMMA StepInv == QueueInv /\ [Next]_vars => QueueInv'
<1> SUFFICES ASSUME QueueInv, [Next]_vars PROVE OnePlace' /\ DrainIsUnderWay'
  BY StepTypeOK DEF QueueInv
<1> USE DEF upstreamVars, streamVars, queueVars, callVars, compactVars, userVars
<1>0. /\ None \notin Messages /\ None \notin Turns
      /\ posts \in [Messages -> Nat] /\ DOMAIN posts = Messages
  BY QueueAssumption DEF Turns, QueueInv, TypeOK
<1>1. ASSUME NEW t \in Turns, OtherTurnStarts(t) PROVE OnePlace' /\ DrainIsUnderWay'
  BY <1>1, TurnOfNone DEF OtherTurnStarts, QueueInv, OnePlace
<1>2. ASSUME NEW t \in Turns, TurnFails(t) \/ TurnEnds(t) PROVE OnePlace' /\ DrainIsUnderWay'
  BY <1>2, RestKeepsOnePlace DEF TurnFails, TurnEnds, QueueInv, OnePlace, TypeOK
<1>4. ASSUME NEW t \in Turns, CompactHandled(t) PROVE OnePlace' /\ DrainIsUnderWay'
  BY <1>4, TurnOfNone DEF CompactHandled
<1>5. ASSUME NEW m \in Messages, StartTurnRefused(m) PROVE OnePlace' /\ DrainIsUnderWay'
  <2>0. posts[m] > 0 /\ posts' = [posts EXCEPT ![m] = @ - 1]
    BY <1>5 DEF StartTurnRefused
  <2>1. /\ posts[m] = 1 /\ Untouched(m) /\ ~Holds(queue, m) /\ m \in given
        /\ posts'[m] = 0
        /\ \A n \in Messages : n # m => posts'[n] = posts[n]
    BY <1>0, <2>0, OnePosted
  <2>2. \A n \in Messages : n # m => (Untouched(n)' <=> Untouched(n))
    BY <1>5 DEF StartTurnRefused, Untouched
  <2>3. Distinct(queue)' /\ \A n : Holds(queue, n)' <=> Holds(queue, n)
    BY <1>5 DEF StartTurnRefused, QueueInv, OnePlace, Distinct, Holds
  <2>4. \A n \in Messages, t \in Turns : <<n, t>> \in replies' => <<n, t>> \in replies
    BY <1>0, <1>5 DEF StartTurnRefused
  <2>5. OnePlace'
    BY <1>0, <1>5, <2>1, <2>2, <2>3, <2>4 DEF StartTurnRefused, QueueInv, OnePlace, TypeOK
  <2>6. DrainIsUnderWay'
    BY <1>5, <2>1 DEF StartTurnRefused, QueueInv, DrainIsUnderWay, TypeOK
  <2> QED
    BY <2>5, <2>6
<1>6. ASSUME NEW m \in Messages, NEW t \in Turns, StartTurnHandled(m, t)
      PROVE  OnePlace' /\ DrainIsUnderWay'
  <2>1. /\ posts[m] = 1 /\ Untouched(m) /\ ~Holds(queue, m) /\ m \in given
        /\ posts'[m] = 0
        /\ \A n \in Messages : n # m => posts'[n] = posts[n]
    <3>1. posts[m] > 0 /\ posts' = [posts EXCEPT ![m] = @ - 1]
      BY <1>6 DEF StartTurnHandled
    <3> QED
      BY <1>0, <3>1, OnePosted
  <2>0. startedBy[t] = None /\ startedBy' = [startedBy EXCEPT ![t] = m]
    BY <1>6 DEF StartTurnHandled, Starts, Fresh, QueueInv, OnePlace
  <2>2. \A n \in Messages : n # m => (Untouched(n)' <=> Untouched(n))
    BY <1>0, <1>6, <2>0, <2>1 DEF StartTurnHandled, Untouched, QueueInv, TypeOK
  <2>3. Distinct(queue)' /\ \A n : Holds(queue, n)' <=> Holds(queue, n)
    BY <1>6 DEF StartTurnHandled, QueueInv, OnePlace, Distinct, Holds
  <2>4. \A s \in Turns : upstream'[s] = "new" => upstream[s] = "new" /\ s # t
    BY <1>6 DEF StartTurnHandled, Starts, QueueInv, TypeOK
  <2>5. \A n \in Messages, s \in Turns :
          <<n, s>> \in replies' => <<n, s>> \in replies \/ (n = m /\ s = t)
    BY <1>6 DEF StartTurnHandled
  <2>6. \A s \in Turns : s # t => startedBy'[s] = startedBy[s] /\ startedBy[s] # m
    BY <2>0, <2>1 DEF QueueInv, TypeOK, Untouched
  <2>7. startedBy'[t] = m
    BY <2>0, <2>1 DEF QueueInv, TypeOK
  <2>8. \A s, u \in Turns : startedBy'[s] = startedBy'[u] /\ startedBy'[s] # None => s = u
    BY <2>6, <2>7 DEF QueueInv, OnePlace
  <2>9. \A n \in Messages, s \in Turns : <<n, s>> \in replies' => startedBy'[s] = n
    BY <1>0, <2>0, <2>5, <2>6, <2>7 DEF QueueInv, OnePlace
  <2>10. OnePlace'
    BY <1>0, <1>6, <2>1, <2>2, <2>3, <2>4, <2>6, <2>8, <2>9 DEF StartTurnHandled, QueueInv, OnePlace, TypeOK
  <2>11. DrainIsUnderWay'
    BY <1>6, <2>1 DEF StartTurnHandled, QueueInv, DrainIsUnderWay, TypeOK
  <2> QED
    BY <2>10, <2>11
<1>7. CASE CompactRefused
  BY <1>7, RestKeepsOnePlace DEF CompactRefused, QueueInv, OnePlace
<1>8. ASSUME NEW m \in Messages, SendPosts(m) PROVE OnePlace' /\ DrainIsUnderWay'
  <2>0. posts' = [posts EXCEPT ![m] = @ + 1] /\ m \notin given
    BY <1>8 DEF SendPosts
  <2>1. /\ posts[m] = 0 /\ Untouched(m) /\ ~Holds(queue, m)
        /\ posts'[m] = 1
        /\ \A n \in Messages : n # m => posts'[n] = posts[n]
    BY <1>0, <2>0 DEF QueueInv, OnePlace
  <2>2. \A n \in Messages : Untouched(n)' <=> Untouched(n)
    BY <1>8 DEF SendPosts, Untouched
  <2>3. Distinct(queue)' /\ \A n : Holds(queue, n)' <=> Holds(queue, n)
    BY <1>8 DEF SendPosts, QueueInv, OnePlace, Distinct, Holds
  <2>4. OnePlace'
    BY <1>8, <2>1, <2>2, <2>3 DEF SendPosts, QueueInv, OnePlace, TypeOK
  <2>5. DrainIsUnderWay'
    <3>1. draining' = draining /\ replies' = replies /\ draining \in Messages \cup {None}
      BY <1>8 DEF SendPosts, QueueInv, TypeOK
    <3>2. \A n \in Messages : posts[n] > 0 => posts'[n] > 0
      BY <2>1
    <3> QED
      BY <3>1, <3>2 DEF QueueInv, DrainIsUnderWay
  <2> QED
    BY <2>4, <2>5
<1>9. ASSUME NEW m \in Messages, SendQueues(m) PROVE OnePlace' /\ DrainIsUnderWay'
  <2>1. posts[m] = 0 /\ Untouched(m) /\ ~Holds(queue, m)
    BY <1>9 DEF SendQueues, QueueInv, OnePlace
  <2>2. \A n \in Messages : Untouched(n)' <=> Untouched(n)
    BY <1>9 DEF SendQueues, Untouched
  <2>3. Distinct(queue') /\ \A n : Holds(queue', n) <=> Holds(queue, n) \/ n = m
    BY <1>9, <2>1, AppendHolds DEF SendQueues, QueueInv, OnePlace, TypeOK
  <2>4. OnePlace'
    BY <1>9, <2>1, <2>2, <2>3 DEF SendQueues, QueueInv, OnePlace, TypeOK, Distinct, Holds
  <2>5. DrainIsUnderWay'
    BY <1>9 DEF SendQueues, QueueInv, DrainIsUnderWay
  <2> QED
    BY <2>4, <2>5
<1>10. ASSUME NEW m \in Messages, SendFails(m) PROVE OnePlace' /\ DrainIsUnderWay'
  <2>1. posts[m] = 0 /\ ~Holds(queue, m) /\ m \in given
    BY <1>10, RepliedIsNowhere DEF SendFails
  <2>2. \A n \in Messages : n # m => (Untouched(n)' <=> Untouched(n))
    BY <1>10 DEF SendFails, Untouched
  <2>3. Distinct(queue)' /\ \A n : Holds(queue, n)' <=> Holds(queue, n)
    BY <1>10 DEF SendFails, QueueInv, OnePlace, Distinct, Holds
  <2>4. OnePlace'
    BY <1>10, <2>1, <2>2, <2>3 DEF SendFails, QueueInv, OnePlace, TypeOK
  <2>5. DrainIsUnderWay'
    BY <1>10 DEF SendFails, Settled, QueueInv, DrainIsUnderWay
  <2> QED
    BY <2>4, <2>5
<1>11. ASSUME NEW m \in Messages, NEW t \in Turns, SendSucceeds(m, t)
       PROVE  OnePlace' /\ DrainIsUnderWay'
  <2>1. posts[m] = 0 /\ ~Holds(queue, m) /\ m \in given
    BY <1>11, RepliedIsNowhere DEF SendSucceeds
  <2>2. \A n \in Messages : n # m => (Untouched(n)' <=> Untouched(n))
    BY <1>11 DEF SendSucceeds, Untouched
  <2>3. Distinct(queue)' /\ \A n : Holds(queue, n)' <=> Holds(queue, n)
    BY <1>11 DEF SendSucceeds, QueueInv, OnePlace, Distinct, Holds
  <2>4. OnePlace'
    BY <1>11, <2>1, <2>2, <2>3 DEF SendSucceeds, QueueInv, OnePlace, TypeOK
  <2>5. DrainIsUnderWay'
    BY <1>11 DEF SendSucceeds, Settled, QueueInv, DrainIsUnderWay
  <2> QED
    BY <2>4, <2>5
<1>12. ASSUME NEW m \in Messages, NEW t \in Turns, ReplyLost(m, t)
       PROVE  OnePlace' /\ DrainIsUnderWay'
  <2>1. posts[m] = 0 /\ ~Holds(queue, m) /\ m \in given
    BY <1>12, RepliedIsNowhere DEF ReplyLost
  <2>2. \A n \in Messages : n # m => (Untouched(n)' <=> Untouched(n))
    BY <1>12 DEF ReplyLost, Untouched
  <2>3. Distinct(queue)' /\ \A n : Holds(queue, n)' <=> Holds(queue, n)
    BY <1>12 DEF ReplyLost, QueueInv, OnePlace, Distinct, Holds
  <2>4. \A n \in Messages, s \in Turns : <<n, s>> \in replies' => <<n, s>> \in replies
    BY <1>0, <1>12 DEF ReplyLost
  <2>5. OnePlace'
    BY <1>12, <2>1, <2>2, <2>3, <2>4 DEF ReplyLost, QueueInv, OnePlace, TypeOK
  <2>6. DrainIsUnderWay'
    BY <1>12 DEF ReplyLost, QueueInv, DrainIsUnderWay
  <2> QED
    BY <2>5, <2>6
<1>13. CASE StartedArrives
  BY <1>13, RestKeepsOnePlace DEF StartedArrives
<1>14. CASE CompletedArrives
  BY <1>14, DrainKeepsOnePlace DEF CompletedArrives
<1>15. CASE ErrorArrives
  BY <1>15, DrainKeepsOnePlace DEF ErrorArrives
<1>16. CASE StreamLost \/ DetailRead \/ DetailArrives \/ StreamOpens
  BY <1>16, RestKeepsOnePlace DEF StreamLost, DetailRead, DetailArrives, StreamOpens, QueueInv, OnePlace
<1>20. ASSUME NEW i \in DOMAIN queue, RemovePending(i) PROVE OnePlace' /\ DrainIsUnderWay'
  <2>1. /\ queue[i] \in Messages
        /\ Distinct(queue')
        /\ \A n : Holds(queue', n) <=> Holds(queue, n) /\ n # queue[i]
    BY <1>20, TakenOutHolds DEF RemovePending, QueueInv, OnePlace, TypeOK
  <2>2. posts[queue[i]] = 0 /\ queue[i] \in given
    BY <2>1 DEF Holds, QueueInv, OnePlace
  <2>3. \A n \in Messages : n # queue[i] => (Untouched(n)' <=> Untouched(n))
    BY <1>20 DEF RemovePending, Untouched
  <2>4. \A n : Holds(queue, n)' <=> Holds(queue', n)
    BY DEF Holds
  <2>5. OnePlace'
    <3>1. UNCHANGED <<upstream, startedBy, replies, posts, compactVars, given, failed>>
      BY <1>20 DEF RemovePending
    <3>2. \A m \in Messages : m \notin given' =>
            ~Holds(queue', m) /\ posts'[m] = 0 /\ Untouched(m)'
      BY <2>1, <2>2, <2>3, <3>1 DEF QueueInv, OnePlace
    <3>3. \A m \in Messages : Holds(queue', m) => posts'[m] = 0 /\ Untouched(m)'
      BY <2>1, <2>3, <3>1 DEF QueueInv, OnePlace
    <3>4. \A m \in Messages : posts'[m] > 0 => Untouched(m)'
      BY <2>1, <2>2, <2>3, <3>1 DEF QueueInv, OnePlace
    <3>5. Distinct(queue)'
      BY <2>1 DEF Distinct
    <3> QED
      BY <2>4, <3>1, <3>2, <3>3, <3>4, <3>5 DEF QueueInv, OnePlace
  <2>6. DrainIsUnderWay'
    BY <1>20 DEF RemovePending, QueueInv, DrainIsUnderWay
  <2> QED
    BY <2>5, <2>6
<1>21. CASE CompactStarts \/ CompactFails
  BY <1>21, RestKeepsOnePlace DEF CompactStarts, CompactFails
<1>23. CASE UNCHANGED vars
  BY <1>23, RestKeepsOnePlace DEF vars, QueueInv, OnePlace
<1>24. CASE SessionEnds /\ draining' \in {draining, None}
  <2>1. \A m \in Messages : Untouched(m)' <=> Untouched(m)
    BY <1>24 DEF SessionEnds, Untouched
  <2>2. Distinct(queue)' /\ \A m : ~Holds(queue, m)'
    BY <1>24 DEF SessionEnds, Distinct, Holds
  <2>3. OnePlace'
    BY <1>24, <2>1, <2>2 DEF SessionEnds, QueueInv, OnePlace
  <2>4. DrainIsUnderWay'
    BY <1>24 DEF SessionEnds, QueueInv, DrainIsUnderWay
  <2> QED
    BY <2>3, <2>4
<1> QED
  BY <1>1, <1>2, <1>4, <1>5, <1>6, <1>7, <1>8, <1>9, <1>10, <1>11, <1>12, <1>13, <1>14,
     <1>15, <1>16, <1>20, <1>21, <1>23, <1>24, SessionSteps
  DEF Next, AppServerStep, CallStep, StreamStep, EventArrives

\* No message waits twice, is posted twice, or waits or is posted although it
\* has started a turn (NeverSentTwice), whatever the order of replies, events,
\* losses and failures.
THEOREM MessagesSentOnce == Spec => []NeverSentTwice
<1>1. QueueInv => NeverSentTwice
  <2> SUFFICES ASSUME QueueInv PROVE NeverSentTwice
    OBVIOUS
  <2>1. \A i \in DOMAIN queue : queue[i] \in Messages /\ Holds(queue, queue[i])
    BY DEF QueueInv, TypeOK, Holds
  <2>2. \A i \in DOMAIN queue : posts[queue[i]] = 0 /\ Untouched(queue[i])
    BY <2>1 DEF QueueInv, OnePlace
  <2>3. ASSUME NEW t \in Turns, startedBy[t] # None
        PROVE  /\ posts[startedBy[t]] = 0
               /\ \A i \in DOMAIN queue : queue[i] # startedBy[t]
               /\ \A s \in Turns \ {t} : startedBy[s] # startedBy[t]
    <3>1. startedBy[t] \in Messages /\ ~Untouched(startedBy[t])
      BY <2>3 DEF QueueInv, TypeOK, Untouched
    <3>2. posts[startedBy[t]] = 0
      BY <3>1 DEF QueueInv, OnePlace, TypeOK
    <3> QED
      BY <2>2, <2>3, <3>1, <3>2 DEF QueueInv, OnePlace
  <2> QED
    BY <2>2, <2>3 DEF NeverSentTwice, QueueInv, OnePlace, Distinct
<1> QED
  BY InitInv, StepInv, <1>1, PTL DEF Spec

\* The mark that keeps drains apart stands for a message under way, or for its
\* reply (DrainIsUnderWay): no failure leaves the thread without drains.
THEOREM DrainSettles == Spec => []DrainIsUnderWay
<1>1. QueueInv => DrainIsUnderWay
  BY DEF QueueInv
<1> QED
  BY InitInv, StepInv, <1>1, PTL DEF Spec
-----------------------------------------------------------------------------
(* The queue implements the delivery of messages                           *)

\* A message whose marks stay is where it was.
LEMMA SameStage ==
  ASSUME NEW n \in Messages,
         (n \in given)' <=> n \in given,
         Holds(queue, n)' <=> Holds(queue, n),
         (posts[n] > 0)' <=> posts[n] > 0,
         (\E t \in Turns : startedBy[t] = n)' <=> \E t \in Turns : startedBy[t] = n,
         (n \in failed \/ <<n, None>> \in replies)' <=> (n \in failed \/ <<n, None>> \in replies),
         (n \in removed)' <=> n \in removed
  PROVE  Stage(n)' = Stage(n)
<1>1. /\ Queued(n) <=> Holds(queue, n)
      /\ Queued(n)' <=> Holds(queue, n)'
  BY DEF Queued, Holds
<1> QED
  BY <1>1 DEF Stage

\* Where a message with given marks is.
LEMMA StageOf ==
  ASSUME NEW n \in Messages
  PROVE  /\ n \notin given => Stage(n) = "unsent"
         /\ n \in given /\ Holds(queue, n) => Stage(n) = "waiting"
         /\ n \in given /\ ~Holds(queue, n) =>
              /\ posts[n] > 0 => Stage(n) = "posted"
              /\ ~(posts[n] > 0) =>
                   /\ (\E t \in Turns : startedBy[t] = n) => Stage(n) = "accepted"
                   /\ (\A t \in Turns : startedBy[t] # n) =>
                        /\ n \in failed \/ <<n, None>> \in replies => Stage(n) = "failed"
                        /\ n \notin failed /\ <<n, None>> \notin replies =>
                             /\ n \in removed => Stage(n) = "removed"
                             /\ n \notin removed => Stage(n) = "dropped"
<1>1. Queued(n) <=> Holds(queue, n)
  BY DEF Queued, Holds
<1> QED
  BY <1>1 DEF Stage

\* Where a message was that no turn, reply, failure or removal is known of.
LEMMA StageOfUntouched ==
  ASSUME NEW n \in Messages, Untouched(n)
  PROVE  /\ n \notin given => Stage(n) = "unsent"
         /\ n \in given /\ Holds(queue, n) => Stage(n) = "waiting"
         /\ n \in given /\ ~Holds(queue, n) /\ posts[n] > 0 => Stage(n) = "posted"
         /\ n \in given /\ ~Holds(queue, n) /\ ~(posts[n] > 0) => Stage(n) = "dropped"
BY StageOf DEF Untouched

\* The session goes on, or is over already.
SameSession == link' = "out" <=> link = "out"

\* One message moves.
LEMMA OneMoves ==
  ASSUME NEW n \in Messages, NEW a, NEW b, Stage(n) = a, Stage(n)' = b,
         \A k \in Messages \ {n} : Stage(k)' = Stage(k),
         UNCHANGED compaction, SameSession
  PROVE  Delivery!Moves(n, a, b)
<1> DEFINE now == [k \in Messages |-> Stage(k)]
           then == [k \in Messages |-> Stage(k)']
<1>1. now[n] = a
  OBVIOUS
<1>2. \A k \in Messages : then[k] = [now EXCEPT ![n] = b][k]
  OBVIOUS
<1>3. then = [now EXCEPT ![n] = b]
  BY <1>2
<1> QED
  BY <1>1, <1>3 DEF Delivery!Moves, SameSession

\* None moves.
LEMMA NoneMoves ==
  ASSUME \A k \in Messages : Stage(k)' = Stage(k), UNCHANGED <<draining, compaction>>,
         SameSession
  PROVE  UNCHANGED Delivery!deliveryVars
BY DEF Delivery!deliveryVars, SameSession

\* The initial states of the queue are those of the delivery.
LEMMA DeliveryInit == Init => Delivery!Init
<1> SUFFICES ASSUME Init PROVE Delivery!Init
  OBVIOUS
<1>1. \A m \in Messages : Stage(m) = "unsent"
  BY StageOf DEF Init
<1> QED
  BY <1>1 DEF Init, Delivery!Init

\* A drain posts a message that waited, drops it for a compaction, or moves none.
LEMMA DrainDelivers ==
  ASSUME QueueInv, Drain,
         UNCHANGED <<startedBy, replies, compaction, given, failed, removed>>,
         compacting' => compacting, SameSession
  PROVE  Delivery!Next \/ UNCHANGED Delivery!deliveryVars
<1> USE DEF QueueInv
<1>1. DrainPosts \/ DrainDrops \/ DrainKeeps
  BY DrainOutcomes DEF OnePlace
<1>2. \A m : Holds(queue, m)' <=> Holds(queue', m)
  BY DEF Holds
<1>3. \A m \in Messages : Untouched(m)' <=> Untouched(m)
  BY DEF Untouched
<1>4. CASE DrainPosts
  <2>0. PICK n \in Messages : n = draining'
    BY <1>4 DEF DrainPosts
  <2>1. /\ draining = None /\ n \in given
        /\ Holds(queue, n) /\ ~Holds(queue', n)
        /\ posts[n] = 0 /\ Untouched(n)
    BY <1>4, <2>0 DEF DrainPosts, OnePlace
  <2>2. posts'[n] = 1 /\ \A m \in Messages : m # n => posts'[m] = posts[m]
    BY <1>4, <2>0, <2>1 DEF DrainPosts, TypeOK
  <2>3. Stage(n) = "waiting"
    BY <2>1, StageOf
  <2>4. Stage(n)' = "posted"
    <3>1. n \in given' /\ ~Holds(queue, n)' /\ (posts[n] > 0)'
      BY <1>2, <2>1, <2>2
    <3> QED
      BY <2>1, <3>1 DEF Stage, Queued, Holds
  <2>5. \A k \in Messages \ {n} : Stage(k)' = Stage(k)
    BY <1>2, <1>4, <2>0, <2>2, SameStage DEF DrainPosts
  <2>6. Delivery!Moves(n, "waiting", "posted")
    BY <2>1, <2>3, <2>4, <2>5, OneMoves
  <2>7. Delivery!Post(n)
    BY <2>0, <2>1, <2>6 DEF Delivery!Post
  <2> QED
    BY <2>1, <2>7 DEF Delivery!Next
<1>5. CASE DrainDrops
  <2>1. PICK n \in Messages : /\ Holds(queue, n)
                              /\ \A m \in Messages : Holds(queue', m) <=> Holds(queue, m) /\ m # n
    BY <1>5 DEF DrainDrops
  <2>2. posts[n] = 0 /\ Untouched(n) /\ n \in given /\ compaction # "none"
    BY <1>5, <2>1 DEF DrainDrops, OnePlace
  <2>3. Stage(n) = "waiting"
    BY <2>1, <2>2, StageOf
  <2>4. Stage(n)' = "dropped"
    <3>1. n \in given' /\ ~Holds(queue, n)' /\ ~(posts[n] > 0)' /\ Untouched(n)'
      BY <1>2, <1>3, <1>5, <2>1, <2>2 DEF DrainDrops
    <3> QED
      BY <3>1 DEF Stage, Queued, Holds, Untouched
  <2>5. \A k \in Messages \ {n} : Stage(k)' = Stage(k)
    BY <1>2, <1>5, <2>1, SameStage DEF DrainDrops
  <2>6. Delivery!Moves(n, "waiting", "dropped")
    BY <2>3, <2>4, <2>5, OneMoves
  <2>7. Delivery!Drop(n)
    BY <1>5, <2>2, <2>6 DEF DrainDrops, Delivery!Drop
  <2> QED
    BY <2>7 DEF Delivery!Next
<1>6. CASE DrainKeeps
  <2>1. \A k \in Messages : Stage(k)' = Stage(k)
    BY <1>2, <1>6, SameStage DEF DrainKeeps
  <2> QED
    BY <1>6, <2>1, NoneMoves DEF DrainKeeps
<1> QED
  BY <1>1, <1>4, <1>5, <1>6

\* A step that touches no message moves none.
LEMMA RestDelivers ==
  ASSUME UNCHANGED <<startedBy, queue, draining, posts, replies, given, failed, removed>>,
         compaction # "none" <=> compaction' # "none", SameSession
  PROVE  UNCHANGED Delivery!deliveryVars
<1>1. \A k \in Messages : Stage(k)' = Stage(k)
  BY DEF Stage, Queued
<1> QED
  BY <1>1 DEF Delivery!deliveryVars, SameSession

\* The answer to a message that was drained lets the next be.
LEMMA ReplyDelivers ==
  ASSUME QueueInv, NEW m \in Messages, Settled(m), Stage(m) \in {"accepted", "failed"},
         UNCHANGED compaction, SameSession,
         \A k \in Messages : Stage(k)' = Stage(k)
  PROVE  Delivery!Next \/ UNCHANGED Delivery!deliveryVars
<1>1. CASE draining = m
  <2>1. draining # None /\ draining' = None
    BY <1>1, QueueAssumption DEF Settled
  <2>2. [k \in Messages |-> Stage(k)][draining] \in {"accepted", "failed"}
    BY <1>1
  <2>3. Delivery!Settle
    BY <2>1, <2>2 DEF Delivery!Settle, SameSession
  <2> QED
    BY <2>3 DEF Delivery!Next
<1>2. CASE draining # m
  BY <1>2, NoneMoves DEF Settled
<1> QED
  BY <1>1, <1>2

\* Every step of the queue is a step of the delivery, or none.
LEMMA DeliveryStep ==
  QueueInv /\ [Next]_vars => Delivery!Next \/ UNCHANGED Delivery!deliveryVars
<1> SUFFICES ASSUME QueueInv, [Next]_vars
             PROVE  Delivery!Next \/ UNCHANGED Delivery!deliveryVars
  OBVIOUS
<1> DEFINE Goal == Delivery!Next \/ UNCHANGED Delivery!deliveryVars
<1> USE DEF upstreamVars, streamVars, queueVars, callVars, compactVars, userVars, SameSession
<1>0. /\ None \notin Messages /\ None \notin Turns
      /\ posts \in [Messages -> Nat] /\ startedBy \in [Turns -> Messages \cup {None}]
  BY QueueAssumption DEF Turns, QueueInv, TypeOK
<1>1. ASSUME NEW t \in Turns, OtherTurnStarts(t) PROVE Goal
  <2>1. startedBy[t] = None
    BY <1>1 DEF OtherTurnStarts, Starts, Fresh, QueueInv, OnePlace
  <2>2. startedBy' = startedBy
    BY <1>0, <1>1, <2>1 DEF OtherTurnStarts, Starts
  <2> QED
    BY <1>1, <2>2, RestDelivers DEF OtherTurnStarts
<1>2. ASSUME NEW t \in Turns, TurnFails(t) \/ TurnEnds(t) PROVE Goal
  BY <1>2, RestDelivers DEF TurnFails, TurnEnds
<1>4. ASSUME NEW t \in Turns, CompactHandled(t) PROVE Goal
  <2>1. startedBy[t] = None
    BY <1>4 DEF CompactHandled, Starts, Fresh, QueueInv, OnePlace
  <2>2. startedBy' = startedBy
    BY <1>0, <1>4, <2>1 DEF CompactHandled, Starts
  <2> QED
    BY <1>4, <2>2, RestDelivers DEF CompactHandled
<1>5. ASSUME NEW m \in Messages, StartTurnRefused(m) PROVE Goal
  <2>0. posts[m] > 0 /\ posts' = [posts EXCEPT ![m] = @ - 1]
    BY <1>5 DEF StartTurnRefused
  <2>1. /\ posts[m] = 1 /\ Untouched(m) /\ ~Holds(queue, m) /\ m \in given
        /\ posts'[m] = 0
        /\ \A n \in Messages : n # m => posts'[n] = posts[n]
    BY <2>0, OnePosted
  <2>2. Stage(m) = "posted"
    BY <2>1, StageOfUntouched
  <2>3. Stage(m)' = "failed"
    <3>1. /\ m \in given' /\ ~(\E i \in DOMAIN queue' : queue'[i] = m) /\ ~(posts'[m] > 0)
          /\ ~(\E t \in Turns : startedBy'[t] = m) /\ <<m, None>> \in replies'
      BY <1>5, <2>1 DEF StartTurnRefused, Holds, Untouched
    <3> QED
      BY <3>1 DEF Stage, Queued
  <2>4. \A k \in Messages \ {m} : Stage(k)' = Stage(k)
    BY <1>5, <2>1 DEF StartTurnRefused, Stage, Queued
  <2>5. Delivery!Moves(m, "posted", "failed")
    BY <1>5, <2>2, <2>3, <2>4, OneMoves DEF StartTurnRefused
  <2>6. Delivery!Handle(m)
    BY <1>5, <2>5 DEF StartTurnRefused, Delivery!Handle
  <2> QED
    BY <2>6 DEF Delivery!Next
<1>6. ASSUME NEW m \in Messages, NEW t \in Turns, StartTurnHandled(m, t) PROVE Goal
  <2>0. posts[m] > 0 /\ posts' = [posts EXCEPT ![m] = @ - 1]
    BY <1>6 DEF StartTurnHandled
  <2>1. /\ posts[m] = 1 /\ Untouched(m) /\ ~Holds(queue, m) /\ m \in given
        /\ posts'[m] = 0
        /\ \A n \in Messages : n # m => posts'[n] = posts[n]
    BY <2>0, OnePosted
  <2>2. startedBy[t] = None /\ startedBy' = [startedBy EXCEPT ![t] = m]
    BY <1>6 DEF StartTurnHandled, Starts, Fresh, QueueInv, OnePlace
  <2>3. startedBy'[t] = m /\ \A s \in Turns : s # t => startedBy'[s] = startedBy[s]
    BY <1>0, <2>2
  <2>4. \A k \in Messages \ {m} :
          (\E s \in Turns : startedBy'[s] = k) <=> (\E s \in Turns : startedBy[s] = k)
    BY <1>0, <2>2, <2>3
  <2>5. Stage(m) = "posted"
    BY <2>1, StageOfUntouched
  <2>6. Stage(m)' = "accepted"
    <3>1. /\ m \in given' /\ ~(\E i \in DOMAIN queue' : queue'[i] = m) /\ ~(posts'[m] > 0)
          /\ \E s \in Turns : startedBy'[s] = m
      BY <1>6, <2>1, <2>3 DEF StartTurnHandled, Holds
    <3> QED
      BY <3>1 DEF Stage, Queued
  <2>7. ASSUME NEW k \in Messages \ {m} PROVE Stage(k)' = Stage(k)
    <3>1. /\ queue' = queue /\ given' = given /\ failed' = failed /\ removed' = removed
          /\ posts'[k] = posts[k]
          /\ <<k, None>> \in replies' <=> <<k, None>> \in replies
      BY <1>0, <1>6, <2>1 DEF StartTurnHandled
    <3> QED
      BY <2>4, <3>1 DEF Stage, Queued
  <2>8. Delivery!Moves(m, "posted", "accepted")
    BY <1>6, <2>5, <2>6, <2>7, OneMoves DEF StartTurnHandled
  <2>9. Delivery!Handle(m)
    BY <1>6, <2>8 DEF StartTurnHandled, Delivery!Handle
  <2> QED
    BY <2>9 DEF Delivery!Next
<1>7. CASE CompactRefused \/ CompactFails
  BY <1>7, RestDelivers DEF CompactRefused, CompactFails
<1>8. ASSUME NEW m \in Messages, SendPosts(m) PROVE Goal
  <2>1. m \notin given /\ posts[m] = 0 /\ ~Holds(queue, m)
    BY <1>8 DEF SendPosts, QueueInv, OnePlace
  <2>2. posts'[m] = 1 /\ \A n \in Messages : n # m => posts'[n] = posts[n]
    BY <1>0, <1>8, <2>1 DEF SendPosts
  <2>3. Stage(m) = "unsent"
    BY <2>1, StageOf
  <2>4. Stage(m)' = "posted"
    <3>1. m \in given' /\ ~(\E i \in DOMAIN queue' : queue'[i] = m) /\ posts'[m] > 0
      BY <1>8, <2>1, <2>2 DEF SendPosts, Holds
    <3> QED
      BY <3>1 DEF Stage, Queued
  <2>5. \A k \in Messages \ {m} : Stage(k)' = Stage(k)
    BY <1>8, <2>2 DEF SendPosts, Stage, Queued
  <2>6. Delivery!Moves(m, "unsent", "posted")
    BY <1>8, <2>3, <2>4, <2>5, OneMoves DEF SendPosts
  <2>7. Delivery!Send(m)
    BY <1>8, <2>6 DEF SendPosts, Delivery!Send
  <2> QED
    BY <2>7 DEF Delivery!Next
<1>9. ASSUME NEW m \in Messages, SendQueues(m) PROVE Goal
  <2>1. m \notin given /\ ~Holds(queue, m)
    BY <1>9 DEF SendQueues, QueueInv, OnePlace
  <2>2. \A n : Holds(queue', n) <=> Holds(queue, n) \/ n = m
    BY <1>9, <2>1, AppendHolds DEF SendQueues, QueueInv, OnePlace, TypeOK
  <2>3. Stage(m) = "unsent"
    BY <2>1, StageOf
  <2>4. Stage(m)' = "waiting"
    <3>1. m \in given' /\ (\E i \in DOMAIN queue' : queue'[i] = m)
      BY <1>9, <2>2 DEF SendQueues, Holds
    <3> QED
      BY <3>1 DEF Stage, Queued
  <2>5. \A k \in Messages \ {m} : Stage(k)' = Stage(k)
    BY <1>9, <2>2 DEF SendQueues, Stage, Queued, Holds
  <2>6. Delivery!Moves(m, "unsent", "waiting")
    BY <1>9, <2>3, <2>4, <2>5, OneMoves DEF SendQueues
  <2>7. Delivery!Send(m)
    BY <1>9, <2>6 DEF SendQueues, Delivery!Send
  <2> QED
    BY <2>7 DEF Delivery!Next
<1>10. ASSUME NEW m \in Messages, SendFails(m) PROVE Goal
  <2>1. posts[m] = 0 /\ ~Holds(queue, m) /\ m \in given
    BY <1>10, RepliedIsNowhere DEF SendFails
  <2>2. Stage(m) \in {"accepted", "failed"}
    BY <1>10, <2>1, StageOf DEF SendFails
  <2>3. \A k \in Messages : Stage(k)' = Stage(k)
    BY <1>10 DEF SendFails, Stage, Queued
  <2> QED
    BY <1>10, <2>2, <2>3, ReplyDelivers DEF SendFails
<1>11. ASSUME NEW m \in Messages, NEW t \in Turns, SendSucceeds(m, t) PROVE Goal
  <2>1. posts[m] = 0 /\ ~Holds(queue, m) /\ m \in given
    BY <1>11, RepliedIsNowhere DEF SendSucceeds
  <2>2. startedBy[t] = m
    BY <1>11 DEF SendSucceeds, QueueInv, OnePlace
  <2>3. Stage(m) = "accepted"
    <3>1. /\ m \in given /\ ~(\E i \in DOMAIN queue : queue[i] = m) /\ ~(posts[m] > 0)
          /\ \E s \in Turns : startedBy[s] = m
      BY <2>1, <2>2 DEF Holds
    <3> QED
      BY <3>1 DEF Stage, Queued
  <2>4. ASSUME NEW k \in Messages PROVE Stage(k)' = Stage(k)
    <3>1. <<k, None>> \in replies' <=> <<k, None>> \in replies
      BY <1>0, <1>11 DEF SendSucceeds
    <3> QED
      BY <1>11, <3>1 DEF SendSucceeds, Stage, Queued
  <2> QED
    BY <1>11, <2>3, <2>4, ReplyDelivers DEF SendSucceeds
<1>12. ASSUME NEW m \in Messages, NEW t \in Turns, ReplyLost(m, t) PROVE Goal
  <2>1. posts[m] = 0 /\ ~Holds(queue, m) /\ m \in given
    BY <1>12, RepliedIsNowhere DEF ReplyLost
  <2>2. startedBy[t] = m
    BY <1>12 DEF ReplyLost, QueueInv, OnePlace
  <2>3. Stage(m) = "accepted"
    <3>1. /\ m \in given /\ ~(\E i \in DOMAIN queue : queue[i] = m) /\ ~(posts[m] > 0)
          /\ \E s \in Turns : startedBy[s] = m
      BY <2>1, <2>2 DEF Holds
    <3> QED
      BY <3>1 DEF Stage, Queued
  <2>4. ASSUME NEW k \in Messages PROVE Stage(k)' = Stage(k)
    <3>1. CASE k = m
      <4>1. /\ m \in given' /\ ~(\E i \in DOMAIN queue' : queue'[i] = m) /\ ~(posts'[m] > 0)
            /\ \E s \in Turns : startedBy'[s] = m
        BY <1>12, <2>1, <2>2 DEF ReplyLost, Holds
      <4> QED
        BY <2>3, <3>1, <4>1 DEF Stage, Queued
    <3>2. CASE k # m
      <4>1. <<k, None>> \in replies' <=> <<k, None>> \in replies
        BY <1>12, <3>2 DEF ReplyLost
      <4> QED
        BY <1>12, <4>1 DEF ReplyLost, Stage, Queued
    <3> QED
      BY <3>1, <3>2
  <2> QED
    BY <1>12, <2>4, NoneMoves DEF ReplyLost
<1>13. CASE StartedArrives
  BY <1>13, RestDelivers DEF StartedArrives
<1>14. CASE CompletedArrives
  BY <1>14, DrainDelivers DEF CompletedArrives
<1>15. CASE ErrorArrives
  BY <1>15, DrainDelivers DEF ErrorArrives
<1>16. CASE StreamLost \/ DetailRead \/ DetailArrives \/ StreamOpens
  BY <1>16, RestDelivers DEF StreamLost, DetailRead, DetailArrives, StreamOpens
<1>20. ASSUME NEW i \in DOMAIN queue, RemovePending(i) PROVE Goal
  <2>0. PICK m \in Messages : m = queue[i]
    BY DEF QueueInv, TypeOK
  <2>1. Holds(queue, m) /\ posts[m] = 0 /\ Untouched(m) /\ m \in given
    BY <2>0 DEF Holds, QueueInv, OnePlace
  <2>2. \A n : Holds(queue', n) <=> Holds(queue, n) /\ n # m
    BY <1>20, <2>0, TakenOutHolds DEF RemovePending, QueueInv, OnePlace, TypeOK
  <2>3. Stage(m) = "waiting"
    BY <2>1, StageOf
  <2>4. Stage(m)' = "removed"
    <3>0. /\ UNCHANGED <<startedBy, replies, posts, given, failed>>
          /\ removed' = removed \cup {m}
      BY <1>20, <2>0 DEF RemovePending
    <3>1. /\ m \in given' /\ ~(\E j \in DOMAIN queue' : queue'[j] = m) /\ ~(posts'[m] > 0)
          /\ ~(\E t \in Turns : startedBy'[t] = m)
          /\ ~(m \in failed' \/ <<m, None>> \in replies') /\ m \in removed'
      BY <2>1, <2>2, <3>0 DEF Holds, Untouched
    <3> QED
      BY <3>1 DEF Stage, Queued
  <2>5. \A k \in Messages \ {m} : Stage(k)' = Stage(k)
    BY <1>20, <2>0, <2>2 DEF RemovePending, Stage, Queued, Holds
  <2>6. Delivery!Moves(m, "waiting", "removed")
    BY <1>20, <2>3, <2>4, <2>5, OneMoves DEF RemovePending
  <2>7. Delivery!Remove(m)
    BY <1>20, <2>6 DEF RemovePending, Delivery!Remove
  <2> QED
    BY <2>7 DEF Delivery!Next
<1>21. CASE CompactStarts
  <2>1. \A k \in Messages : Stage(k)' = Stage(k)
    BY <1>21 DEF CompactStarts, Stage, Queued
  <2>2. Delivery!Compact
    BY <1>21, <2>1 DEF CompactStarts, Delivery!Compact
  <2> QED
    BY <2>2 DEF Delivery!Next
<1>23. CASE UNCHANGED vars
  BY <1>23, RestDelivers DEF vars
<1>24. CASE SessionEnds /\ draining' \in {draining, None}
  <2>1. ASSUME NEW k \in Messages
        PROVE  Stage(k)' = IF Stage(k) = "waiting" THEN "dropped" ELSE Stage(k)
    <3>1. /\ UNCHANGED <<posts, startedBy, replies, given, failed, removed>>
          /\ ~Holds(queue, k)'
      BY <1>24 DEF SessionEnds, Holds
    <3>2. CASE Holds(queue, k)
      <4>1. posts[k] = 0 /\ Untouched(k) /\ k \in given
        BY <3>2 DEF QueueInv, OnePlace
      <4>2. Stage(k) = "waiting"
        BY <3>2, <4>1, StageOf
      <4>3. Stage(k)' = "dropped"
        BY <3>1, <4>1 DEF Stage, Queued, Holds, Untouched
      <4> QED
        BY <4>2, <4>3
    <3>3. CASE ~Holds(queue, k)
      <4>1. Stage(k)' = Stage(k)
        BY <3>1, <3>3, SameStage
      <4>2. Stage(k) # "waiting"
        BY <3>3 DEF Stage, Queued, Holds
      <4> QED
        BY <4>1, <4>2
    <3> QED
      BY <3>2, <3>3
  <2>2. Delivery!LoseSession
    BY <1>24, <2>1 DEF SessionEnds, Delivery!LoseSession
  <2> QED
    BY <2>2 DEF Delivery!Next
<1> QED
  BY <1>1, <1>2, <1>4, <1>5, <1>6, <1>7, <1>8, <1>9, <1>10, <1>11, <1>12, <1>13, <1>14,
     <1>15, <1>16, <1>20, <1>21, <1>23, <1>24, SessionSteps
  DEF Next, AppServerStep, CallStep, StreamStep, EventArrives

\* The queue implements MessageDelivery (DeliversMessages): whatever the order
\* of replies, events, lost streams and the end of the session, a message is
\* posted once, never comes back once posted, and is dropped only after a
\* compaction or by the end of the session.
THEOREM QueueDelivers == Spec => DeliversMessages
<1>1. Init => Delivery!Init
  BY DeliveryInit
<1>2. QueueInv /\ [Next]_vars => [Delivery!Next]_(Delivery!deliveryVars)
  BY DeliveryStep
<1> QED
  BY InitInv, StepInv, <1>1, <1>2, PTL DEF Spec, DeliversMessages, Delivery!Spec

-----------------------------------------------------------------------------
(* The view                                                                *)

\* The end of a turn is among the events that were not read yet.
EndComes(evs, t) == \E j \in DOMAIN evs : evs[j].turn = t /\ evs[j].type = "turnCompleted"

\* Events are of turns that started, and no event of a turn comes after its
\* end.
EventsFollow ==
  /\ link # "open" => events = <<>>
  /\ \A i \in DOMAIN events :
       /\ upstream[events[i].turn] # "new"
       /\ upstream[events[i].turn] = "over" =>
            \E j \in DOMAIN events :
              j >= i /\ events[j].turn = events[i].turn /\ events[j].type = "turnCompleted"

\* A turn that is over and shown as active is on its way to be shown as ended,
\* by an event or by the detail that was read.
ViewFollows ==
  /\ ~stale /\ link \in {"open", "opening"} =>
       \A t \in Turns : upstream[t] = "over" /\ view[t] = "inProgress" => EndComes(events, t)
  /\ ~stale /\ link = "read" =>
       \A t \in Turns : upstream[t] = "over" => snapshot[t] # "inProgress"
  /\ \A t \in Turns : view[t] = "inProgress" \/ snapshot[t] = "inProgress" => upstream[t] # "new"
  /\ \A m \in Messages, t \in Turns : <<m, t>> \in replies => upstream[t] # "new"

ViewInv == TypeOK /\ EventsFollow /\ ViewFollows

\* The initial state shows nothing.
LEMMA InitView == Init => ViewInv
<1> SUFFICES ASSUME Init PROVE ViewInv
  OBVIOUS
<1>1. TypeOK
  BY InitTypeOK
<1>2. /\ link = "open" /\ events = <<>> /\ replies = {}
      /\ \A t \in Turns : view[t] = "absent" /\ snapshot[t] = "absent" /\ upstream[t] = "new"
  BY DEF Init
<1>3. EventsFollow /\ ViewFollows
  BY <1>2 DEF EventsFollow, ViewFollows
<1> QED
  BY <1>1, <1>3 DEF ViewInv

\* A step of a turn is told on an open stream, and missed between the reading of
\* the detail and the opening of the stream.
LEMMA TurnKeepsView ==
  ASSUME ViewInv, TypeOK', NEW t \in Turns, NEW state \in {"running", "failed", "over"},
         NEW type \in {"turnStarted", "turnError", "turnCompleted"},
         type = "turnCompleted" <=> state = "over", upstream[t] # "over",
         upstream' = [upstream EXCEPT ![t] = state], Emit(type, t), stale' = (stale \/ Missed),
         UNCHANGED <<streamVars, view>>,
         \A m \in Messages, s \in Turns : <<m, s>> \in replies' => <<m, s>> \in replies \/ s = t
  PROVE  ViewInv'
<1>1. /\ upstream \in [Turns -> {"new", "running", "failed", "over"}]
      /\ upstream'[t] = state /\ \A s \in Turns \ {t} : upstream'[s] = upstream[s]
      /\ events \in Seq(Events)
  BY DEF ViewInv, TypeOK
<1>2. UNCHANGED <<link, snapshot, view>>
  BY DEF streamVars
<1> DEFINE e == [type |-> type, turn |-> t]
<1>3. e \in Events /\ e.turn = t /\ e.type = type
  BY DEF Events
<1>4. events' = IF link = "open" THEN Append(events, e) ELSE events
  BY DEF Emit
<1> HIDE DEF e
<1>5. /\ Len(events) \in Nat /\ DOMAIN events = 1 .. Len(events)
      /\ \A i \in DOMAIN events : events[i] \in Events /\ events[i].turn \in Turns
  <2>1. Len(events) \in Nat /\ DOMAIN events = 1 .. Len(events)
    BY <1>1
  <2>2. \A i \in DOMAIN events : events[i] \in Events
    BY <1>1
  <2> QED
    BY <2>1, <2>2 DEF Events
<1>6. CASE link = "open"
  <2> DEFINE n == Len(events) + 1
  <2>1. /\ DOMAIN events' = 1 .. n /\ events'[n] = e
        /\ \A i \in 1 .. Len(events) : events'[i] = events[i]
    BY <1>1, <1>3, <1>4, <1>6
  <2>2. \A i \in 1 .. n : i = n \/ i \in DOMAIN events
    BY <1>5
  <2>3. \A i \in DOMAIN events : n >= i /\ i \in DOMAIN events'
    BY <1>5, <2>1
  <2>4. n \in DOMAIN events' /\ n >= n
    BY <1>5, <2>1
  <2> HIDE DEF n
  <2>5. EventsFollow'
    <3>1. ASSUME NEW i \in DOMAIN events'
          PROVE  /\ upstream'[events'[i].turn] # "new"
                 /\ upstream'[events'[i].turn] = "over" =>
                      \E j \in DOMAIN events' :
                        j >= i /\ events'[j].turn = events'[i].turn /\ events'[j].type = "turnCompleted"
      <4>1. CASE events'[i].turn = t
        <5>1. upstream'[events'[i].turn] = state
          BY <1>1, <4>1
        <5>2. n >= i
          BY <2>1, <2>2, <2>3, <2>4
        <5> QED
          BY <1>3, <2>1, <2>4, <4>1, <5>1, <5>2
      <4>2. CASE events'[i].turn # t
        <5>1. i \in DOMAIN events /\ events'[i] = events[i] /\ events[i].turn \in Turns \ {t}
          BY <1>3, <1>5, <2>1, <2>2, <4>2
        <5>2. upstream'[events'[i].turn] = upstream[events[i].turn]
          BY <1>1, <5>1
        <5>3. upstream[events[i].turn] # "new"
          BY <5>1 DEF ViewInv, EventsFollow
        <5>4. ASSUME upstream[events[i].turn] = "over"
              PROVE  \E j \in DOMAIN events' :
                       j >= i /\ events'[j].turn = events'[i].turn /\ events'[j].type = "turnCompleted"
          <6>1. PICK j \in DOMAIN events :
                       j >= i /\ events[j].turn = events[i].turn /\ events[j].type = "turnCompleted"
            BY <5>1, <5>4 DEF ViewInv, EventsFollow
          <6>2. j \in DOMAIN events' /\ events'[j] = events[j]
            BY <1>5, <2>1, <2>3
          <6> QED
            BY <5>1, <6>1, <6>2
        <5> QED
          BY <5>2, <5>3, <5>4
      <4> QED
        BY <4>1, <4>2
    <3> QED
      BY <1>2, <1>6, <3>1 DEF EventsFollow
  <2>6. \A s \in Turns : EndComes(events, s) => EndComes(events', s)
    BY <1>5, <2>1, <2>3 DEF EndComes
  <2>7. state = "over" => EndComes(events', t)
    BY <1>3, <2>1, <2>4 DEF EndComes
  <2>8. stale' <=> stale
    BY <1>6 DEF Missed
  <2>9. ViewFollows'
    BY <1>1, <1>2, <1>6, <2>6, <2>7, <2>8 DEF ViewInv, ViewFollows
  <2> QED
    BY <2>5, <2>9 DEF ViewInv
<1>7. CASE link # "open"
  <2>1. events = <<>> /\ events' = <<>>
    BY <1>4, <1>7 DEF ViewInv, EventsFollow
  <2>2. EventsFollow'
    BY <2>1 DEF EventsFollow
  <2>3. link \in {"read", "opening"} => stale'
    BY DEF Missed
  <2>4. ViewFollows'
    BY <1>1, <1>2, <1>7, <2>3 DEF ViewInv, ViewFollows
  <2> QED
    BY <2>2, <2>4 DEF ViewInv
<1> QED
  BY <1>6, <1>7

\* An event is read: it shows its turn as what it says, or leaves it.
LEMMA EventKeepsView ==
  ASSUME ViewInv, TypeOK', NEW type, EventRead(type),
         UNCHANGED <<upstream, streamVars, stale, replies>>,
         \A s \in Turns \ {Head(events).turn} : view'[s] = view[s],
         \/ type = "turnStarted" /\ view'[Head(events).turn] = "inProgress"
         \/ view'[Head(events).turn] # "inProgress"
  PROVE  ViewInv'
<1>1. events \in Seq(Events) /\ events # <<>> /\ events' = Tail(events) /\ Head(events).type = type
  BY DEF ViewInv, TypeOK, EventRead
<1>2. UNCHANGED <<link, snapshot>>
  BY DEF streamVars
<1>3. /\ Len(events) \in Nat /\ Len(events) >= 1 /\ DOMAIN events = 1 .. Len(events)
      /\ DOMAIN events' = 1 .. Len(events) - 1 /\ Head(events) = events[1]
      /\ \A i \in 1 .. Len(events) - 1 : events'[i] = events[i + 1]
  BY <1>1
<1>4. /\ \A i \in DOMAIN events' : i + 1 \in DOMAIN events /\ events'[i] = events[i + 1]
      /\ \A i \in DOMAIN events : i = 1 \/ (i - 1 \in DOMAIN events' /\ events'[i - 1] = events[i])
      /\ 1 \in DOMAIN events
  BY <1>3
<1> DEFINE t == Head(events).turn
<1>5. t \in Turns /\ upstream[t] # "new"
  BY <1>3, <1>4, EventReadType DEF ViewInv, EventsFollow
<1>6. link = "open"
  BY <1>1 DEF ViewInv, EventsFollow
<1>7. EventsFollow'
  <2>1. ASSUME NEW i \in DOMAIN events'
        PROVE  /\ upstream[events'[i].turn] # "new"
               /\ upstream[events'[i].turn] = "over" =>
                    \E j \in DOMAIN events' :
                      j >= i /\ events'[j].turn = events'[i].turn /\ events'[j].type = "turnCompleted"
    <3>1. upstream[events'[i].turn] # "new"
      BY <1>4 DEF ViewInv, EventsFollow
    <3>2. ASSUME upstream[events'[i].turn] = "over"
          PROVE  \E j \in DOMAIN events' :
                   j >= i /\ events'[j].turn = events'[i].turn /\ events'[j].type = "turnCompleted"
      <4>1. PICK j \in DOMAIN events :
              j >= i + 1 /\ events[j].turn = events[i + 1].turn /\ events[j].type = "turnCompleted"
        BY <1>4, <3>2 DEF ViewInv, EventsFollow
      <4>2. j # 1 /\ j - 1 >= i
        BY <1>3, <4>1
      <4> QED
        BY <1>4, <4>1, <4>2
    <3> QED
      BY <3>1, <3>2
  <2> QED
    BY <1>2, <1>6, <2>1 DEF EventsFollow
<1>8. ASSUME NEW s \in Turns, upstream[s] = "over", view'[s] = "inProgress", ~stale
      PROVE  EndComes(events', s)
  <2>1. CASE s = t
    <3>1. type = "turnStarted"
      BY <1>8, <2>1
    <3>2. PICK j \in DOMAIN events : events[j].turn = t /\ events[j].type = "turnCompleted"
      BY <1>3, <1>4, <1>8, <2>1 DEF ViewInv, EventsFollow
    <3>3. j # 1
      BY <1>1, <1>3, <3>1, <3>2
    <3> QED
      BY <1>4, <2>1, <3>2, <3>3 DEF EndComes
  <2>2. CASE s # t
    <3>1. view[s] = "inProgress"
      BY <1>8, <2>2
    <3>2. PICK j \in DOMAIN events : events[j].turn = s /\ events[j].type = "turnCompleted"
      BY <1>6, <1>8, <3>1 DEF ViewInv, ViewFollows, EndComes
    <3>3. j # 1
      BY <1>3, <2>2, <3>2
    <3> QED
      BY <1>4, <3>2, <3>3 DEF EndComes
  <2> QED
    BY <2>1, <2>2
<1> HIDE DEF t
<1>9. ViewFollows'
  BY <1>2, <1>5, <1>6, <1>8 DEF ViewInv, ViewFollows, t
<1> QED
  BY <1>7, <1>9 DEF ViewInv

\* Steps that leave the turns, the stream and the view alone.
LEMMA RestKeepsView ==
  ASSUME ViewInv, TypeOK', UNCHANGED <<upstream, events, streamVars, view, stale>>,
         \A m \in Messages, t \in Turns : <<m, t>> \in replies' => <<m, t>> \in replies
  PROVE  ViewInv'
  BY DEF ViewInv, EventsFollow, ViewFollows, streamVars

\* Every step keeps the view to the turns.
LEMMA StepView == ViewInv /\ [Next]_vars => ViewInv'
<1> SUFFICES ASSUME ViewInv, [Next]_vars PROVE ViewInv'
  OBVIOUS
<1>t. TypeOK'
  BY StepTypeOK DEF ViewInv
<1>n. \A t \in Turns : t # None
  BY QueueAssumption DEF Turns
<1>1. ASSUME NEW t \in Turns, NEW m, Starts(t, m), UNCHANGED <<streamVars, view>>,
             \A k \in Messages, s \in Turns : <<k, s>> \in replies' => <<k, s>> \in replies \/ s = t
      PROVE  ViewInv'
  <2>1. upstream[t] # "over" /\ upstream' = [upstream EXCEPT ![t] = "running"] /\ Emit("turnStarted", t)
        /\ stale' = (stale \/ Missed)
    BY <1>1 DEF Starts, Fresh
  <2> QED
    BY <1>1, <1>t, <2>1, TurnKeepsView
<1>2. ASSUME NEW t \in Turns, OtherTurnStarts(t) PROVE ViewInv'
  BY <1>1, <1>2 DEF OtherTurnStarts, callVars
<1>3. ASSUME NEW t \in Turns, TurnFails(t) PROVE ViewInv'
  <2>1. /\ upstream[t] # "over" /\ upstream' = [upstream EXCEPT ![t] = "failed"] /\ Emit("turnError", t)
        /\ stale' = (stale \/ Missed) /\ UNCHANGED <<streamVars, view>> /\ replies' = replies
    BY <1>3 DEF TurnFails, callVars
  <2> QED
    BY <1>t, <2>1, TurnKeepsView
<1>4. ASSUME NEW t \in Turns, TurnEnds(t) PROVE ViewInv'
  <2>1. /\ upstream[t] # "over" /\ upstream' = [upstream EXCEPT ![t] = "over"] /\ Emit("turnCompleted", t)
        /\ stale' = (stale \/ Missed) /\ UNCHANGED <<streamVars, view>> /\ replies' = replies
    BY <1>4 DEF TurnEnds, callVars
  <2> QED
    BY <1>t, <2>1, TurnKeepsView
<1>5. ASSUME NEW t \in Turns, CompactHandled(t) PROVE ViewInv'
  BY <1>1, <1>5 DEF CompactHandled, callVars
<1>6. ASSUME NEW m \in Messages, StartTurnRefused(m) PROVE ViewInv'
  BY <1>6, <1>t, <1>n, RestKeepsView DEF StartTurnRefused, upstreamVars
<1>7. ASSUME NEW m \in Messages, NEW t \in Turns, StartTurnHandled(m, t) PROVE ViewInv'
  BY <1>1, <1>7 DEF StartTurnHandled
<1>8. CASE CompactRefused \/ CompactStarts \/ CompactFails
  BY <1>8, <1>t, RestKeepsView DEF CompactRefused, CompactStarts, CompactFails, upstreamVars, callVars
<1>9. ASSUME NEW m \in Messages, SendPosts(m) \/ SendQueues(m) PROVE ViewInv'
  BY <1>9, <1>t, RestKeepsView DEF SendPosts, SendQueues, upstreamVars, callVars
<1>10. ASSUME NEW m \in Messages, SendFails(m) PROVE ViewInv'
  BY <1>10, <1>t, RestKeepsView DEF SendFails, upstreamVars
<1>11. ASSUME NEW m \in Messages, NEW t \in Turns, ReplyLost(m, t) PROVE ViewInv'
  BY <1>11, <1>t, <1>n, RestKeepsView DEF ReplyLost, upstreamVars
<1>12. ASSUME NEW m \in Messages, NEW t \in Turns, SendSucceeds(m, t) PROVE ViewInv'
  <2> SUFFICES ASSUME link # "out" PROVE ViewInv'
    <3>1. CASE link = "out"
      BY <1>12, <1>t, <3>1, RestKeepsView DEF SendSucceeds, upstreamVars
    <3> QED
      BY <3>1
  <2>1. /\ <<m, t>> \in replies /\ replies' \subseteq replies
        /\ view' = [view EXCEPT ![t] = "inProgress"]
        /\ stale' = (stale \/ (upstream[t] = "over" /\ \A i \in DOMAIN events : events[i].turn # t))
        /\ UNCHANGED <<upstream, events, link, snapshot>>
    BY <1>12 DEF SendSucceeds, upstreamVars, streamVars
  <2>2. /\ upstream[t] # "new" /\ view \in [Turns -> Shown] /\ view'[t] = "inProgress"
        /\ \A s \in Turns \ {t} : view'[s] = view[s]
    BY <2>1 DEF ViewInv, ViewFollows, TypeOK
  <2>3. ~stale' /\ upstream[t] = "over" => EndComes(events, t)
    BY <2>1 DEF ViewInv, EventsFollow, EndComes
  <2>4. EventsFollow'
    BY <2>1 DEF ViewInv, EventsFollow
  <2>5. ViewFollows'
    BY <2>1, <2>2, <2>3 DEF ViewInv, ViewFollows
  <2> QED
    BY <1>t, <2>4, <2>5 DEF ViewInv
<1>13. CASE StartedArrives
  <2>1. Head(events).turn \in Turns
    BY <1>13, EventReadType DEF ViewInv, StartedArrives
  <2>2. /\ view'[Head(events).turn] = "inProgress"
        /\ \A s \in Turns \ {Head(events).turn} : view'[s] = view[s]
    BY <1>13, <2>1 DEF ViewInv, TypeOK, StartedArrives
  <2> QED
    BY <1>13, <1>t, <2>2, EventKeepsView DEF StartedArrives, callVars
<1>14. CASE CompletedArrives
  <2>1. Head(events).turn \in Turns
    BY <1>14, EventReadType DEF ViewInv, CompletedArrives
  <2>2. /\ view'[Head(events).turn] = "ended"
        /\ \A s \in Turns \ {Head(events).turn} : view'[s] = view[s]
    BY <1>14, <2>1 DEF ViewInv, TypeOK, CompletedArrives
  <2> QED
    BY <1>14, <1>t, <2>2, EventKeepsView DEF CompletedArrives
<1>15. CASE ErrorArrives
  <2>1. Head(events).turn \in Turns
    BY <1>15, EventReadType DEF ViewInv, ErrorArrives
  <2>2. /\ view'[Head(events).turn] # "inProgress"
        /\ \A s \in Turns \ {Head(events).turn} : view'[s] = view[s]
    BY <1>15, <2>1 DEF ViewInv, TypeOK, ErrorArrives
  <2> QED
    BY <1>15, <1>t, <2>2, EventKeepsView DEF ErrorArrives
<1>16. CASE StreamLost
  BY <1>16, <1>t DEF ViewInv, EventsFollow, ViewFollows, StreamLost, callVars
<1>17. CASE DetailRead
  <2>1. \A t \in Turns : snapshot'[t] = "inProgress" => upstream[t] = "running"
    BY <1>17 DEF DetailRead, ViewInv, TypeOK
  <2> QED
    BY <1>17, <1>t, <2>1 DEF ViewInv, EventsFollow, ViewFollows, DetailRead, upstreamVars, callVars
<1>18. CASE DetailArrives
  BY <1>18, <1>t DEF ViewInv, EventsFollow, ViewFollows, DetailArrives, upstreamVars, callVars
<1>19. CASE StreamOpens
  BY <1>19, <1>t DEF ViewInv, EventsFollow, ViewFollows, StreamOpens, upstreamVars, callVars
<1>20. ASSUME NEW i \in DOMAIN queue, RemovePending(i) PROVE ViewInv'
  BY <1>20, <1>t, RestKeepsView DEF RemovePending, upstreamVars, callVars
<1>21. CASE UNCHANGED vars
  BY <1>21, <1>t, RestKeepsView DEF vars, upstreamVars, callVars
<1>22. CASE SessionEnds
  <2>1. EventsFollow'
    BY <1>22 DEF SessionEnds, EventsFollow
  <2>2. ViewFollows'
    BY <1>22 DEF SessionEnds, ViewInv, ViewFollows, callVars
  <2> QED
    BY <1>t, <2>1, <2>2 DEF ViewInv
<1> QED
  BY <1>2, <1>3, <1>4, <1>5, <1>6, <1>7, <1>8, <1>9, <1>10, <1>11, <1>12, <1>13, <1>14,
     <1>15, <1>16, <1>17, <1>18, <1>19, <1>20, <1>21, <1>22, SessionSteps
  DEF Next, AppServerStep, CallStep, StreamStep, EventArrives

\* Once every event and reply has arrived, the view shows as active only turns
\* that run (ViewSettles), for any messages, turns, losses and orders of replies,
\* events and reads.
THEOREM ViewIsSettled == Spec => []ViewSettles
<1>1. ViewInv => ViewSettles
  <2> SUFFICES ASSUME ViewInv, link = "open", events = <<>>, ~stale,
                      NEW t \in Turns, view[t] = "inProgress"
               PROVE  upstream[t] \in {"running", "failed"}
    BY DEF ViewSettles
  <2>1. ~EndComes(events, t)
    BY DEF EndComes
  <2> QED
    BY <2>1 DEF ViewInv, ViewFollows, TypeOK
<1> QED
  BY InitView, StepView, <1>1, PTL DEF Spec
=============================================================================
