------------------- MODULE ThreadEventStreamRegistryProofs -------------------
(***************************************************************************)
(* For any finite set of clients and any threads: the registry's variables *)
(* keep their types, it counts and writes to no stream but those it holds, *)
(* and it never forgets a subscribed thread that no stream holds.          *)
(***************************************************************************)
EXTENDS ThreadEventStreamRegistry, FiniteSetTheorems, TLAPS

-----------------------------------------------------------------------------
(* How each kind of step moves the set of clients held for a thread.       *)

LEMMA HeldIsFinite ==
  ASSUME NEW t \in Threads
  PROVE  /\ IsFiniteSet(Held(t))
         /\ Cardinality(Held(t)) \in Nat
         /\ Cardinality(Held(t)) = 0 <=> Held(t) = {}
<1>1. Held(t) \subseteq Clients
  BY DEF Held
<1>2. IsFiniteSet(Held(t))
  BY <1>1, ClientsAssumption, FS_Subset
<1>3. QED
  BY <1>2, FS_CardinalityType, FS_EmptySet

LEMMA HeldUnchanged ==
  ASSUME UNCHANGED stream
  PROVE  \A t \in Threads : Held(t)' = Held(t)
BY DEF Held

LEMMA HeldAfterJoin ==
  ASSUME TypeOK, NEW c \in Clients, stream[c] = "new",
         NEW s \in {"resuming", "open"}, stream' = [stream EXCEPT ![c] = s]
  PROVE  /\ Held(ThreadOf[c])' = Held(ThreadOf[c]) \cup {c}
         /\ Cardinality(Held(ThreadOf[c])') = Cardinality(Held(ThreadOf[c])) + 1
         /\ \A t \in Threads : t # ThreadOf[c] => Held(t)' = Held(t)
<1>1. Held(ThreadOf[c])' = Held(ThreadOf[c]) \cup {c}
  BY DEF Held, TypeOK
<1>2. c \notin Held(ThreadOf[c])
  BY DEF Held
<1>3. \A t \in Threads : t # ThreadOf[c] => Held(t)' = Held(t)
  BY DEF Held, TypeOK
<1>4. ThreadOf[c] \in Threads
  BY ClientsAssumption
<1>5. QED
  BY <1>1, <1>2, <1>3, <1>4, HeldIsFinite, FS_AddElement

LEMMA HeldAfterReturn ==
  ASSUME TypeOK, NEW c \in Clients, stream[c] = "resuming",
         stream' = [stream EXCEPT ![c] = "open"]
  PROVE  \A t \in Threads : Held(t)' = Held(t)
BY DEF Held, TypeOK

LEMMA HeldAfterLeave ==
  ASSUME TypeOK, NEW c \in Clients, stream[c] \in {"resuming", "open"},
         stream' = [stream EXCEPT ![c] = "gone"]
  PROVE  /\ Held(ThreadOf[c])' = Held(ThreadOf[c]) \ {c}
         /\ Cardinality(Held(ThreadOf[c])') = Cardinality(Held(ThreadOf[c])) - 1
         /\ \A t \in Threads : t # ThreadOf[c] => Held(t)' = Held(t)
<1>1. Held(ThreadOf[c])' = Held(ThreadOf[c]) \ {c}
  BY DEF Held, TypeOK
<1>2. c \in Held(ThreadOf[c])
  BY DEF Held
<1>3. \A t \in Threads : t # ThreadOf[c] => Held(t)' = Held(t)
  BY DEF Held, TypeOK
<1>4. ThreadOf[c] \in Threads
  BY ClientsAssumption
<1>5. QED
  BY <1>1, <1>2, <1>3, <1>4, HeldIsFinite, FS_RemoveElement

LEMMA HeldAfterRefusal ==
  ASSUME TypeOK, NEW c \in Clients, stream[c] = "new",
         stream' = [stream EXCEPT ![c] = "gone"]
  PROVE  \A t \in Threads : Held(t)' = Held(t)
BY DEF Held, TypeOK

-----------------------------------------------------------------------------
(* Types.                                                                  *)

LEMMA InitTypeOK == Init => TypeOK
<1> SUFFICES ASSUME Init
             PROVE  TypeOK
  OBVIOUS
<1>1. stream \in [Clients -> {"new", "resuming", "open", "gone"}]
  BY DEF Init
<1>2. subscriberCounts \in [Threads -> Nat] /\ checks \in [Threads -> Nat]
  BY DEF Init
<1>3. /\ peerClosed \subseteq Clients
      /\ doomed \subseteq Clients
      /\ eventClients \subseteq Clients
      /\ timers \subseteq Threads
      /\ subscribed \subseteq Threads
      /\ refused \subseteq Threads
  BY DEF Init
<1>4. closing \in BOOLEAN
  BY DEF Init
<1>5. QED
  BY <1>1, <1>2, <1>3, <1>4 DEF TypeOK

LEMMA ClientStepTypeOK ==
  ASSUME TypeOK, NEW c \in Clients, ClientStep(c)
  PROVE  TypeOK'
<1>0. ThreadOf[c] \in Threads
  BY ClientsAssumption
<1>1. CASE AddClientResumes(c)
  BY <1>0, <1>1 DEF TypeOK, AddClientResumes, Register, Answers
<1>2. CASE AddClientJoins(c)
  BY <1>0, <1>2 DEF TypeOK, AddClientJoins, Register
<1>3. CASE AddClientRefused(c)
  BY <1>3 DEF TypeOK, AddClientRefused
<1>4. CASE ResumeReturns(c)
  BY <1>4 DEF TypeOK, ResumeReturns
<1>5. CASE ResumeThrows(c)
  BY <1>0, <1>5 DEF TypeOK, ResumeThrows
<1>6. CASE PeerClosesEarly(c)
  BY <1>6 DEF TypeOK, PeerClosesEarly
<1>7. CASE PeerCloses(c)
  BY <1>0, <1>7 DEF TypeOK, PeerCloses, RemoveClient
<1>8. QED
  BY <1>1, <1>2, <1>3, <1>4, <1>5, <1>6, <1>7 DEF ClientStep

LEMMA ThreadStepTypeOK ==
  ASSUME TypeOK, NEW t \in Threads, ThreadStep(t)
  PROVE  TypeOK'
<1>1. CASE BroadcastDrops(t)
  BY <1>1 DEF TypeOK, BroadcastDrops
<1>2. CASE UnsubscribeTimerFires(t)
  BY <1>2 DEF TypeOK, UnsubscribeTimerFires
<1>3. CASE CheckSaysBusy(t)
  BY <1>3 DEF TypeOK, CheckSaysBusy
<1>4. CASE CheckSaysIdle(t)
  BY <1>4 DEF TypeOK, CheckSaysIdle, Answers
<1>5. QED
  BY <1>1, <1>2, <1>3, <1>4 DEF ThreadStep

LEMMA NextTypeOK == TypeOK /\ [Next]_vars => TypeOK'
<1> SUFFICES ASSUME TypeOK, [Next]_vars
             PROVE  TypeOK'
  OBVIOUS
<1>1. CASE Close
  BY <1>1 DEF TypeOK, Close
<1>2. CASE UNCHANGED vars
  BY <1>2 DEF TypeOK, vars
<1>3. QED
  BY <1>1, <1>2, ClientStepTypeOK, ThreadStepTypeOK DEF Next

\* Every variable of the registry keeps its type, for any clients and threads.
THEOREM RegistryTypeOK == Spec => []TypeOK
BY InitTypeOK, NextTypeOK, PTL DEF Spec

-----------------------------------------------------------------------------
(***************************************************************************)
(* The inductive invariant.  The count bound is inductive with the types;  *)
(* that only held clients are written to needs that a closed registry has  *)
(* none.  The clean-up of a thread whose last request was taken needs the  *)
(* count bounded by the streams whose resume was taken too: a stream still *)
(* waiting to be refused must not make the timer give up.                  *)
(***************************************************************************)

ClosedHasNoClients ==
  closing => /\ eventClients = {}
             /\ \A t \in Threads : subscriberCounts[t] = 0

CountWithinHeld ==
  \A t \in Threads : subscriberCounts[t] <= Cardinality(Held(t))

\* Only a stream that awaits its resume, or has ended, was refused.
DoomedResumed == \A c \in doomed : stream[c] \in {"resuming", "gone"}

\* The streams of a thread that can be open one day.
Sound(t) == Held(t) \ doomed

\* What the count and the pending clean-up say of a subscribed thread.
Cared(t) ==
  /\ subscriberCounts[t] <= Cardinality(Sound(t))
  /\ Sound(t) = {} => closing \/ t \in timers \/ checks[t] > 0

CleanupInv == \A t \in subscribed \ refused : Cared(t)

IInv ==
  /\ TypeOK
  /\ CountWithinHeld
  /\ ClosedHasNoClients
  /\ BroadcastsOnlyToHeld
  /\ DoomedResumed
  /\ CleanupInv

LEMMA InitIInv == Init => IInv
<1> SUFFICES ASSUME Init
             PROVE  IInv
  OBVIOUS
<1>1. TypeOK
  BY InitTypeOK
<1>2. CountWithinHeld
  BY HeldIsFinite DEF Init, CountWithinHeld
<1>3. ClosedHasNoClients /\ BroadcastsOnlyToHeld /\ DoomedResumed
  BY DEF Init, ClosedHasNoClients, BroadcastsOnlyToHeld, DoomedResumed
<1>4. CleanupInv
  BY DEF Init, CleanupInv
<1>5. QED
  BY <1>1, <1>2, <1>3, <1>4 DEF IInv

-----------------------------------------------------------------------------
(* The count bound.                                                        *)

LEMMA CountKept ==
  ASSUME IInv, UNCHANGED subscriberCounts,
         \A t \in Threads : Held(t)' = Held(t)
  PROVE  CountWithinHeld'
BY DEF IInv, CountWithinHeld

LEMMA ClientStepCount ==
  ASSUME IInv, NEW c \in Clients, ClientStep(c)
  PROVE  CountWithinHeld'
<1>0. /\ ThreadOf[c] \in Threads
      /\ TypeOK /\ CountWithinHeld
      /\ \A t \in Threads : Cardinality(Held(t)) \in Nat
      /\ \A t \in Threads : subscriberCounts[t] \in Nat
  BY ClientsAssumption, HeldIsFinite DEF IInv, TypeOK
<1>1. ASSUME AddClientResumes(c) \/ AddClientJoins(c)
      PROVE  CountWithinHeld'
  <2>1. subscriberCounts' = [subscriberCounts EXCEPT ![ThreadOf[c]] = @ + 1]
    BY <1>1 DEF AddClientResumes, AddClientJoins, Register
  <2>2. PICK s \in {"resuming", "open"} :
          stream[c] = "new" /\ stream' = [stream EXCEPT ![c] = s]
    BY <1>1 DEF AddClientResumes, AddClientJoins
  <2>3. /\ Cardinality(Held(ThreadOf[c])') = Cardinality(Held(ThreadOf[c])) + 1
        /\ \A t \in Threads : t # ThreadOf[c] => Held(t)' = Held(t)
    BY <1>0, <2>2, HeldAfterJoin
  <2>4. ASSUME NEW t \in Threads
        PROVE  subscriberCounts'[t] <= Cardinality(Held(t)')
    <3>1. CASE t = ThreadOf[c]
      BY <1>0, <2>1, <2>3, <3>1 DEF CountWithinHeld, TypeOK
    <3>2. CASE t # ThreadOf[c]
      BY <1>0, <2>1, <2>3, <3>2 DEF CountWithinHeld, TypeOK
    <3>3. QED
      BY <3>1, <3>2
  <2>5. QED
    BY <2>4 DEF CountWithinHeld
<1>2. CASE AddClientRefused(c)
  BY <1>0, <1>2, HeldAfterRefusal, CountKept DEF AddClientRefused
<1>3. CASE ResumeReturns(c)
  BY <1>0, <1>3, HeldAfterReturn, CountKept DEF ResumeReturns
<1>4. CASE PeerClosesEarly(c)
  BY <1>4, HeldUnchanged, CountKept DEF PeerClosesEarly
<1>5. ASSUME ResumeThrows(c) \/ PeerCloses(c)
      PROVE  CountWithinHeld'
  <2>1. stream[c] \in {"resuming", "open"} /\ stream' = [stream EXCEPT ![c] = "gone"]
    BY <1>5 DEF ResumeThrows, PeerCloses
  <2>2. /\ Held(ThreadOf[c])' = Held(ThreadOf[c]) \ {c}
        /\ Cardinality(Held(ThreadOf[c])') = Cardinality(Held(ThreadOf[c])) - 1
        /\ \A t \in Threads : t # ThreadOf[c] => Held(t)' = Held(t)
    BY <1>0, <2>1, HeldAfterLeave
  <2>3. Cardinality(Held(ThreadOf[c])') \in Nat
    <3>1. IsFiniteSet(Held(ThreadOf[c])')
      BY <1>0, <2>2, HeldIsFinite, FS_RemoveElement
    <3>2. QED
      BY <3>1, FS_CardinalityType
  <2>4. CASE ~closing \/ ResumeThrows(c)
    <3>1. \/ subscriberCounts' = [subscriberCounts EXCEPT ![ThreadOf[c]] = 0]
          \/ subscriberCounts' = [subscriberCounts EXCEPT ![ThreadOf[c]] = @ - 1]
      BY <1>5, <2>4 DEF ResumeThrows, PeerCloses, RemoveClient
    <3>2. ASSUME NEW t \in Threads
          PROVE  subscriberCounts'[t] <= Cardinality(Held(t)')
      <4>1. CASE t = ThreadOf[c]
        <5>1. subscriberCounts'[t] = 0 \/ subscriberCounts'[t] = subscriberCounts[t] - 1
          BY <1>0, <3>1, <4>1 DEF TypeOK
        <5>2. /\ subscriberCounts[t] <= Cardinality(Held(t))
              /\ subscriberCounts[t] \in Nat /\ Cardinality(Held(t)) \in Nat
          BY <1>0 DEF CountWithinHeld
        <5>3. /\ Cardinality(Held(t)') = Cardinality(Held(t)) - 1
              /\ Cardinality(Held(t)') \in Nat
          BY <2>2, <2>3, <4>1
        <5>4. QED
          BY <5>1, <5>2, <5>3
      <4>2. CASE t # ThreadOf[c]
        BY <1>0, <2>2, <3>1, <4>2 DEF CountWithinHeld, TypeOK
      <4>3. QED
        BY <4>1, <4>2
    <3>3. QED
      BY <3>2 DEF CountWithinHeld
  <2>5. CASE closing /\ PeerCloses(c)
    <3>1. /\ UNCHANGED subscriberCounts
          /\ \A t \in Threads : subscriberCounts[t] = 0
      BY <2>5 DEF PeerCloses, RemoveClient, IInv, ClosedHasNoClients
    <3>2. \A t \in Threads : Cardinality(Held(t)') \in Nat
      BY <1>0, <2>2, <2>3
    <3>3. QED
      BY <3>1, <3>2 DEF CountWithinHeld
  <2>6. QED
    BY <1>5, <2>4, <2>5
<1>6. QED
  BY <1>1, <1>2, <1>3, <1>4, <1>5 DEF ClientStep

LEMMA OtherStepCount ==
  ASSUME IInv, \/ \E t \in Threads : ThreadStep(t)
               \/ Close
               \/ UNCHANGED vars
  PROVE  CountWithinHeld'
<1>1. UNCHANGED stream
  BY DEF ThreadStep, BroadcastDrops, UnsubscribeTimerFires, CheckSaysBusy,
         CheckSaysIdle, Close, vars
<1>2. \A t \in Threads : subscriberCounts'[t] \in {0, subscriberCounts[t]}
  BY DEF ThreadStep, BroadcastDrops, UnsubscribeTimerFires, CheckSaysBusy,
         CheckSaysIdle, Close, vars, IInv, TypeOK
<1>3. ASSUME NEW t \in Threads
      PROVE  subscriberCounts'[t] <= Cardinality(Held(t)')
  <2>1. /\ Held(t)' = Held(t)
        /\ Cardinality(Held(t)) \in Nat
        /\ subscriberCounts[t] <= Cardinality(Held(t))
    BY <1>1, HeldUnchanged, HeldIsFinite DEF IInv, CountWithinHeld
  <2>2. QED
    BY <1>2, <2>1
<1>4. QED
  BY <1>3 DEF CountWithinHeld

-----------------------------------------------------------------------------
(* The closed registry, the refused streams and the clients broadcast to.  *)

LEMMA ClosedKept ==
  ASSUME IInv, [Next]_vars
  PROVE  ClosedHasNoClients'
<1>0. TypeOK /\ ClosedHasNoClients
  BY DEF IInv
<1>1. ASSUME NEW c \in Clients, ClientStep(c)
      PROVE  ClosedHasNoClients'
  BY <1>0, <1>1 DEF ClosedHasNoClients, TypeOK, ClientStep, AddClientResumes,
       AddClientJoins, AddClientRefused, ResumeReturns, ResumeThrows,
       PeerClosesEarly, PeerCloses, RemoveClient
<1>2. ASSUME NEW t \in Threads, ThreadStep(t)
      PROVE  ClosedHasNoClients'
  BY <1>0, <1>2 DEF ClosedHasNoClients, TypeOK, ThreadStep, BroadcastDrops,
       UnsubscribeTimerFires, CheckSaysBusy, CheckSaysIdle
<1>3. CASE Close
  BY <1>3 DEF ClosedHasNoClients, Close
<1>4. CASE UNCHANGED vars
  BY <1>0, <1>4 DEF ClosedHasNoClients, vars
<1>5. QED
  BY <1>1, <1>2, <1>3, <1>4 DEF Next

LEMMA DoomedKept ==
  ASSUME IInv, [Next]_vars
  PROVE  DoomedResumed'
<1>0. TypeOK /\ DoomedResumed
  BY DEF IInv
<1>1. ASSUME NEW c \in Clients, ClientStep(c)
      PROVE  DoomedResumed'
  BY <1>0, <1>1 DEF DoomedResumed, TypeOK, ClientStep, AddClientResumes,
       AddClientJoins, AddClientRefused, ResumeReturns, ResumeThrows,
       PeerClosesEarly, PeerCloses
<1>2. CASE UNCHANGED <<stream, doomed>>
  BY <1>0, <1>2 DEF DoomedResumed
<1>3. QED
  BY <1>1, <1>2 DEF Next, ThreadStep, BroadcastDrops, UnsubscribeTimerFires,
       CheckSaysBusy, CheckSaysIdle, Close, vars

LEMMA BroadcastKept ==
  ASSUME IInv, [Next]_vars
  PROVE  BroadcastsOnlyToHeld'
<1>0. /\ TypeOK /\ ClosedHasNoClients /\ BroadcastsOnlyToHeld
      /\ \A c \in eventClients : stream[c] \in {"resuming", "open"}
  BY DEF IInv, BroadcastsOnlyToHeld, Held
<1>1. SUFFICES \A d \in eventClients' :
                 d \in Clients /\ stream'[d] \in {"resuming", "open"}
  BY DEF BroadcastsOnlyToHeld, Held
<1>2. ASSUME NEW c \in Clients, ClientStep(c), NEW d \in eventClients'
      PROVE  d \in Clients /\ stream'[d] \in {"resuming", "open"}
  BY <1>0, <1>2 DEF TypeOK, ClosedHasNoClients, ClientStep, AddClientResumes,
       AddClientJoins, AddClientRefused, Register, ResumeReturns,
       ResumeThrows, PeerClosesEarly, PeerCloses, RemoveClient
<1>3. ASSUME NEW t \in Threads, ThreadStep(t)
      PROVE  eventClients' \subseteq eventClients /\ UNCHANGED stream
  BY <1>3 DEF ThreadStep, BroadcastDrops, UnsubscribeTimerFires,
       CheckSaysBusy, CheckSaysIdle
<1>4. CASE Close \/ UNCHANGED vars
  BY <1>0, <1>4 DEF Close, vars, TypeOK
<1>5. QED
  BY <1>0, <1>2, <1>3, <1>4 DEF Next, TypeOK

-----------------------------------------------------------------------------
(* No subscribed thread that no stream holds is forgotten.                 *)

LEMMA SoundIsFinite ==
  ASSUME NEW t \in Threads
  PROVE  /\ IsFiniteSet(Sound(t))
         /\ Cardinality(Sound(t)) \in Nat
         /\ Cardinality(Sound(t)) = 0 <=> Sound(t) = {}
<1>1. IsFiniteSet(Sound(t))
  BY HeldIsFinite, FS_Difference DEF Sound
<1>2. QED
  BY <1>1, FS_CardinalityType, FS_EmptySet

\* A step that leaves a thread's sound streams alone and takes away neither
\* its timer nor its check cares for it as before.
LEMMA CaredKept ==
  ASSUME NEW t \in Threads, TypeOK, Cared(t), Sound(t)' = Sound(t),
         subscriberCounts'[t] \in {0, subscriberCounts[t]},
         t \in timers => t \in timers', checks'[t] = checks[t],
         closing => closing'
  PROVE  Cared(t)'
<1>1. Cardinality(Sound(t)) \in Nat /\ subscriberCounts[t] \in Nat
  BY SoundIsFinite DEF TypeOK
<1>2. subscriberCounts'[t] <= Cardinality(Sound(t)')
  BY <1>1 DEF Cared
<1>3. Sound(t)' = {} => closing' \/ t \in timers' \/ checks'[t] > 0
  BY DEF Cared
<1>4. QED
  BY <1>2, <1>3 DEF Cared

LEMMA JoinCleanup ==
  ASSUME IInv, NEW c \in Clients, AddClientResumes(c) \/ AddClientJoins(c),
         NEW t \in Threads, t \in (subscribed \ refused)'
  PROVE  Cared(t)'
<1>0. /\ TypeOK
      /\ \A u \in subscribed \ refused : Cared(u)
      /\ ThreadOf[c] \in Threads
  BY ClientsAssumption DEF IInv, CleanupInv
<1>1. c \notin doomed /\ stream[c] = "new"
  BY DEF IInv, DoomedResumed, AddClientResumes, AddClientJoins
<1>2. PICK s \in {"resuming", "open"} : stream' = [stream EXCEPT ![c] = s]
  BY DEF AddClientResumes, AddClientJoins
<1>3. /\ Held(ThreadOf[c])' = Held(ThreadOf[c]) \cup {c}
      /\ c \notin Held(ThreadOf[c])
      /\ \A u \in Threads : u # ThreadOf[c] => Held(u)' = Held(u)
  BY <1>0, <1>1, <1>2, HeldAfterJoin DEF Held
<1>4. doomed' \subseteq doomed \cup {c} /\ doomed \subseteq doomed'
  BY DEF AddClientResumes, AddClientJoins
<1>5. CASE t # ThreadOf[c]
  <2>1. Sound(t)' = Sound(t)
    <3>1. c \notin Held(t)
      BY <1>5 DEF Held
    <3>2. QED
      BY <1>3, <1>4, <1>5, <3>1 DEF Sound
  <2>2. t \in subscribed \ refused
    BY <1>5 DEF AddClientResumes, AddClientJoins, Answers
  <2>3. /\ subscriberCounts'[t] = subscriberCounts[t]
        /\ t \in timers => t \in timers'
        /\ UNCHANGED <<checks, closing>>
    BY <1>0, <1>5 DEF AddClientResumes, AddClientJoins, Register, TypeOK
  <2>4. QED
    BY <1>0, <2>1, <2>2, <2>3, CaredKept
<1>6. CASE t = ThreadOf[c]
  <2>1. doomed' = doomed
    BY <1>6 DEF AddClientResumes, AddClientJoins, Answers
  <2>2. Sound(t)' = Sound(t) \cup {c} /\ c \notin Sound(t)
    BY <1>1, <1>3, <1>6, <2>1 DEF Sound
  <2>3. /\ Cardinality(Sound(t)') = Cardinality(Sound(t)) + 1
        /\ Cardinality(Sound(t)) \in Nat
    BY <2>2, SoundIsFinite, FS_AddElement
  <2>4. /\ subscriberCounts'[t] = subscriberCounts[t] + 1
        /\ subscriberCounts[t] \in Nat
    BY <1>0, <1>6 DEF AddClientResumes, AddClientJoins, Register, TypeOK
  <2>5. subscriberCounts[t] <= Cardinality(Sound(t))
    <3>1. CASE AddClientResumes(c)
      BY <1>6, <2>3, <3>1 DEF AddClientResumes, NeedsResume
    <3>2. CASE AddClientJoins(c)
      BY <1>0, <3>2 DEF AddClientJoins, Cared
    <3>3. QED
      BY <3>1, <3>2
  <2>6. subscriberCounts'[t] <= Cardinality(Sound(t)')
    BY <2>3, <2>4, <2>5
  <2>7. Sound(t)' # {}
    BY <2>2
  <2>8. QED
    BY <2>6, <2>7 DEF Cared
<1>7. QED
  BY <1>5, <1>6

LEMMA LeaveCleanup ==
  ASSUME IInv, NEW c \in Clients, PeerCloses(c),
         NEW t \in Threads, t \in (subscribed \ refused)'
  PROVE  Cared(t)'
<1>0. /\ TypeOK /\ ClosedHasNoClients
      /\ \A u \in subscribed \ refused : Cared(u)
      /\ ThreadOf[c] \in Threads
  BY ClientsAssumption DEF IInv, CleanupInv
<1>1. c \notin doomed /\ stream[c] = "open" /\ stream' = [stream EXCEPT ![c] = "gone"]
  BY DEF IInv, DoomedResumed, PeerCloses
<1>2. /\ Held(ThreadOf[c])' = Held(ThreadOf[c]) \ {c}
      /\ c \in Held(ThreadOf[c])
      /\ \A u \in Threads : u # ThreadOf[c] => Held(u)' = Held(u)
  BY <1>0, <1>1, HeldAfterLeave DEF Held
<1>3. t \in subscribed \ refused /\ Cared(t)
  BY <1>0 DEF PeerCloses
<1>4. UNCHANGED <<doomed, checks, closing>> /\ timers \subseteq timers'
  BY DEF PeerCloses, RemoveClient
<1>5. CASE t # ThreadOf[c]
  <2>1. Sound(t)' = Sound(t)
    BY <1>2, <1>4, <1>5 DEF Sound
  <2>2. subscriberCounts'[t] = subscriberCounts[t]
    BY <1>0, <1>5 DEF PeerCloses, RemoveClient, TypeOK
  <2>3. QED
    BY <1>0, <1>3, <1>4, <2>1, <2>2, CaredKept
<1>6. CASE t = ThreadOf[c]
  <2>1. Sound(t)' = Sound(t) \ {c} /\ c \in Sound(t)
    BY <1>1, <1>2, <1>4, <1>6 DEF Sound
  <2>2. /\ Cardinality(Sound(t)') = Cardinality(Sound(t)) - 1
        /\ Cardinality(Sound(t)) \in Nat
        /\ IsFiniteSet(Sound(t)')
    BY <2>1, SoundIsFinite, FS_RemoveElement
  <2>3. Cardinality(Sound(t)') \in Nat /\ (Sound(t)' = {} => Cardinality(Sound(t)') = 0)
    BY <2>2, FS_CardinalityType, FS_EmptySet
  <2>4. /\ subscriberCounts[t] \in Nat
        /\ subscriberCounts[t] <= Cardinality(Sound(t))
    BY <1>0, <1>3 DEF Cared, TypeOK
  <2>5. CASE closing
    <3>1. subscriberCounts'[t] = 0
      BY <1>0, <2>5 DEF PeerCloses, RemoveClient, ClosedHasNoClients
    <3>2. QED
      BY <1>4, <2>3, <2>5, <3>1 DEF Cared
  <2>6. CASE ~closing
    <3>1. \/ subscriberCounts'[t] = 0 /\ t \in timers'
          \/ subscriberCounts[t] > 1 /\ subscriberCounts'[t] = subscriberCounts[t] - 1
      BY <1>0, <1>6, <2>4, <2>6 DEF PeerCloses, RemoveClient, TypeOK
    <3>2. subscriberCounts'[t] <= Cardinality(Sound(t)')
      BY <2>2, <2>3, <2>4, <3>1
    <3>3. Sound(t)' = {} => t \in timers'
      BY <2>2, <2>3, <2>4, <3>1
    <3>4. QED
      BY <3>2, <3>3 DEF Cared
  <2>7. QED
    BY <2>5, <2>6
<1>7. QED
  BY <1>5, <1>6

LEMMA ClientStepCleanup ==
  ASSUME IInv, NEW c \in Clients, ClientStep(c),
         NEW t \in Threads, t \in (subscribed \ refused)'
  PROVE  Cared(t)'
<1>0. /\ TypeOK
      /\ \A u \in subscribed \ refused : Cared(u)
      /\ ThreadOf[c] \in Threads
  BY ClientsAssumption DEF IInv, CleanupInv
<1>1. ASSUME \/ AddClientRefused(c) \/ ResumeReturns(c)
             \/ ResumeThrows(c) \/ PeerClosesEarly(c)
      PROVE  Cared(t)'
  <2>1. UNCHANGED <<doomed, subscribed, refused, timers, checks, closing>>
    BY <1>1 DEF AddClientRefused, ResumeReturns, ResumeThrows, PeerClosesEarly
  <2>2. subscriberCounts'[t] \in {0, subscriberCounts[t]}
    BY <1>0, <1>1 DEF AddClientRefused, ResumeReturns, ResumeThrows,
         PeerClosesEarly, TypeOK
  <2>3. Sound(t)' = Sound(t)
    <3>1. CASE ResumeThrows(c)
      <4>1. c \in doomed /\ \A d \in Clients \ {c} : stream'[d] = stream[d]
        BY <1>0, <3>1 DEF ResumeThrows, TypeOK
      <4>2. QED
        BY <2>1, <4>1 DEF Sound, Held
    <3>2. CASE AddClientRefused(c)
      BY <1>0, <2>1, <3>2, HeldAfterRefusal DEF AddClientRefused, Sound
    <3>3. CASE ResumeReturns(c)
      BY <1>0, <2>1, <3>3, HeldAfterReturn DEF ResumeReturns, Sound
    <3>4. CASE PeerClosesEarly(c)
      BY <2>1, <3>4, HeldUnchanged DEF PeerClosesEarly, Sound
    <3>5. QED
      BY <1>1, <3>1, <3>2, <3>3, <3>4
  <2>4. QED
    BY <1>0, <2>1, <2>2, <2>3, CaredKept
<1>2. QED
  BY <1>1, JoinCleanup, LeaveCleanup DEF ClientStep

LEMMA ThreadStepCleanup ==
  ASSUME IInv, NEW u \in Threads, ThreadStep(u),
         NEW t \in Threads, t \in (subscribed \ refused)'
  PROVE  Cared(t)'
<1>0. /\ TypeOK
      /\ \A v \in subscribed \ refused : Cared(v)
      /\ subscriberCounts[t] \in Nat /\ checks[t] \in Nat /\ checks[u] \in Nat
      /\ Cardinality(Sound(t)) \in Nat
      /\ Cardinality(Sound(t)) = 0 <=> Sound(t) = {}
  BY SoundIsFinite DEF IInv, CleanupInv, TypeOK
<1>1. UNCHANGED <<stream, doomed, closing>>
  BY DEF ThreadStep, BroadcastDrops, UnsubscribeTimerFires, CheckSaysBusy,
     CheckSaysIdle
<1>2. Sound(t)' = Sound(t)
  BY <1>1, HeldUnchanged DEF Sound
<1>3. t \in subscribed \ refused /\ Cared(t)
  BY <1>0 DEF ThreadStep, BroadcastDrops, UnsubscribeTimerFires,
     CheckSaysBusy, CheckSaysIdle, Answers
<1>4. SUFFICES /\ subscriberCounts'[t] \in {0, subscriberCounts[t]}
               /\ Sound(t) = {} /\ ~closing => t \in timers' \/ checks'[t] > 0
  BY <1>0, <1>1, <1>2, <1>3 DEF Cared
<1>5. CASE BroadcastDrops(u)
  BY <1>3, <1>5 DEF BroadcastDrops, Cared
<1>6. CASE UnsubscribeTimerFires(u)
  <2>1. CASE t = u
    <3>1. CASE Sound(t) = {}
      <4>1. ~(subscriberCounts[t] > 0)
        BY <1>0, <1>3, <3>1 DEF Cared
      <4>2. checks'[t] = checks[t] + 1
        BY <1>0, <1>6, <2>1, <4>1 DEF UnsubscribeTimerFires, TypeOK
      <4>3. QED
        BY <1>0, <1>6, <4>2 DEF UnsubscribeTimerFires
    <3>2. CASE Sound(t) # {}
      BY <1>6, <3>2 DEF UnsubscribeTimerFires
    <3>3. QED
      BY <3>1, <3>2
  <2>2. CASE t # u
    BY <1>0, <1>3, <1>6, <2>2 DEF UnsubscribeTimerFires, Cared, TypeOK
  <2>3. QED
    BY <2>1, <2>2
<1>7. CASE CheckSaysBusy(u)
  BY <1>0, <1>3, <1>7 DEF CheckSaysBusy, Cared, TypeOK
<1>8. CASE CheckSaysIdle(u)
  <2>1. t # u
    BY <1>8 DEF CheckSaysIdle, Answers
  <2>2. QED
    BY <1>0, <1>3, <1>8, <2>1 DEF CheckSaysIdle, Cared, TypeOK
<1>9. QED
  BY <1>5, <1>6, <1>7, <1>8 DEF ThreadStep

LEMMA CleanupKept ==
  ASSUME IInv, [Next]_vars
  PROVE  CleanupInv'
<1>0. TypeOK /\ CleanupInv /\ TypeOK'
  BY NextTypeOK DEF IInv
<1> SUFFICES ASSUME NEW t \in Threads, t \in (subscribed \ refused)'
             PROVE  Cared(t)'
  BY <1>0 DEF CleanupInv, TypeOK
<1>1. CASE Close
  <2>1. Sound(t)' = Sound(t)
    BY <1>1, HeldUnchanged DEF Close, Sound
  <2>2. subscriberCounts'[t] = 0 /\ closing'
    BY <1>1 DEF Close
  <2>3. QED
    BY <2>1, <2>2, SoundIsFinite DEF Cared
<1>2. CASE UNCHANGED vars
  <2>1. t \in subscribed \ refused /\ Sound(t)' = Sound(t)
    BY <1>2, HeldUnchanged DEF vars, Sound
  <2>2. QED
    BY <1>0, <1>2, <2>1, CaredKept DEF vars, CleanupInv
<1>3. QED
  BY <1>1, <1>2, ClientStepCleanup, ThreadStepCleanup DEF Next

-----------------------------------------------------------------------------
LEMMA NextIInv == IInv /\ [Next]_vars => IInv'
<1> SUFFICES ASSUME IInv, [Next]_vars
             PROVE  IInv'
  OBVIOUS
<1>1. TypeOK'
  BY NextTypeOK DEF IInv
<1>2. CountWithinHeld'
  BY ClientStepCount, OtherStepCount DEF Next
<1>3. QED
  BY <1>1, <1>2, ClosedKept, BroadcastKept, DoomedKept, CleanupKept DEF IInv

LEMMA RegistryInvariant == Spec => []IInv
BY InitIInv, NextIInv, PTL DEF Spec

\* addClient, removeClient and the delayed unsubscribe never leave a thread's
\* count above its connected clients by more than the streams that closed while
\* their own resume was awaited: those are the only phantom subscribers.
THEOREM CountBound == Spec => []PhantomsAreLeaks
<1>1. IInv => PhantomsAreLeaks
  <2> SUFFICES ASSUME IInv, NEW t \in Threads
               PROVE  subscriberCounts[t]
                        <= Cardinality(Connected(t)) + Cardinality(Leaked(t))
    BY DEF PhantomsAreLeaks
  <2>1. IsFiniteSet(Held(t)) /\ Cardinality(Held(t)) \in Nat
    BY HeldIsFinite
  <2>2. /\ Cardinality(Connected(t)) = Cardinality(Held(t)) - Cardinality(Leaked(t))
        /\ Cardinality(Leaked(t)) \in Nat
    BY <2>1, FS_Difference, FS_Intersection, FS_CardinalityType DEF Connected, Leaked
  <2>3. subscriberCounts[t] <= Cardinality(Held(t)) /\ subscriberCounts[t] \in Nat
    BY DEF IInv, CountWithinHeld, TypeOK
  <2>4. QED
    BY <2>1, <2>2, <2>3
<1>2. QED
  BY <1>1, RegistryInvariant, PTL

\* broadcast writes only to clients the registry still holds.
THEOREM BroadcastTargets == Spec => []BroadcastsOnlyToHeld
<1>1. IInv => BroadcastsOnlyToHeld
  BY DEF IInv
<1>2. QED
  BY <1>1, RegistryInvariant, PTL

\* A subscribed thread that no stream holds always has a timer or a check
\* pending while the bridge runs, unless the app-server refused the last request
\* about it.
THEOREM NoAbandonedThread == Spec => []AbandonedThreadHasCleanup
<1>1. IInv => AbandonedThreadHasCleanup
  <2>1. ASSUME IInv, NEW t \in subscribed \ refused, Held(t) = {}
        PROVE  closing \/ t \in timers \/ checks[t] > 0
    BY <2>1 DEF IInv, CleanupInv, Cared, Sound
  <2>2. QED
    BY <2>1 DEF AbandonedThreadHasCleanup
<1>2. QED
  BY <1>1, RegistryInvariant, PTL
=============================================================================
