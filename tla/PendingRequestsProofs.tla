----------------------- MODULE PendingRequestsProofs -----------------------
(***************************************************************************)
(* Proofs about the approvals and questions the bridge holds, for any      *)
(* requests, threads, clients, replays and responses.                      *)
(***************************************************************************)
EXTENDS PendingRequests, TLAPS

-----------------------------------------------------------------------------
(* Queues                                                                  *)

\* The last word on a request, once one more message is in the queue.
LEMMA WillHoldAppend ==
  ASSUME NEW q \in Seq(Messages), NEW m \in Messages,
         NEW r \in Requests, NEW now \in BOOLEAN
  PROVE  WillHold(Append(q, m), r, now)
           <=> IF About(m, r) THEN SaysOpen(m, r) ELSE WillHold(q, r, now)
<1> DEFINE p == Append(q, m)
<1>1. /\ p \in Seq(Messages)
      /\ DOMAIN p = 1 .. Len(q) + 1
      /\ DOMAIN q = 1 .. Len(q)
      /\ Len(q) \in Nat
      /\ p[Len(q) + 1] = m
      /\ \A i \in 1 .. Len(q) : p[i] = q[i]
  OBVIOUS
<1> HIDE DEF p
<1>2. CASE About(m, r)
  <2>1. \A i \in DOMAIN p : i < Len(q) + 1 => ~ \A j \in DOMAIN p : j > i => ~About(p[j], r)
    BY <1>1, <1>2
  <2>2. \A j \in DOMAIN p : j > Len(q) + 1 => ~About(p[j], r)
    BY <1>1
  <2>3. \A i \in DOMAIN p : i = Len(q) + 1 \/ i < Len(q) + 1
    BY <1>1
  <2> QED
    BY <1>1, <1>2, <2>1, <2>2, <2>3 DEF WillHold
<1>3. CASE ~About(m, r)
  <2>1. (\A i \in DOMAIN p : ~About(p[i], r)) <=> (\A i \in DOMAIN q : ~About(q[i], r))
    BY <1>1, <1>3
  <2>2. ASSUME NEW i \in 1 .. Len(q)
        PROVE  (\A j \in DOMAIN p : j > i => ~About(p[j], r))
                 <=> (\A j \in DOMAIN q : j > i => ~About(q[j], r))
    BY <1>1, <1>3
  <2> DEFINE LastIn(s, i) == /\ About(s[i], r)
                             /\ SaysOpen(s[i], r)
                             /\ \A j \in DOMAIN s : j > i => ~About(s[j], r)
  <2>3. \A i \in DOMAIN p : LastIn(p, i) => i \in DOMAIN q
    BY <1>1, <1>3
  <2>4. \A i \in DOMAIN q : i \in DOMAIN p /\ (LastIn(p, i) <=> LastIn(q, i))
    BY <1>1, <2>2
  <2>5. WillHold(p, r, now)
          <=> (now /\ \A i \in DOMAIN p : ~About(p[i], r)) \/ \E i \in DOMAIN p : LastIn(p, i)
    BY DEF WillHold
  <2>6. WillHold(q, r, now)
          <=> (now /\ \A i \in DOMAIN q : ~About(q[i], r)) \/ \E i \in DOMAIN q : LastIn(q, i)
    BY DEF WillHold
  <2> HIDE DEF LastIn
  <2> QED
    BY <1>3, <2>1, <2>3, <2>4, <2>5, <2>6 DEF p
<1> QED
  BY <1>2, <1>3 DEF p

\* Reading a message makes it part of what holds now.
LEMMA WillHoldTail ==
  ASSUME NEW q \in Seq(Messages), q # <<>>,
         NEW r \in Requests, NEW now \in BOOLEAN
  PROVE  WillHold(q, r, now)
           <=> WillHold(Tail(q), r, IF About(Head(q), r) THEN SaysOpen(Head(q), r) ELSE now)
<1> DEFINE p == Tail(q)
           n == Len(q)
           after == IF About(q[1], r) THEN SaysOpen(q[1], r) ELSE now
<1>1. /\ n \in Nat
      /\ n >= 1
      /\ DOMAIN q = 1 .. n
      /\ DOMAIN p = 1 .. n - 1
      /\ Head(q) = q[1]
      /\ \A i \in 1 .. n - 1 : p[i] = q[i + 1]
  OBVIOUS
<1>2. after \in BOOLEAN
  BY DEF SaysOpen
<1> HIDE DEF p, n
<1>3. (\A i \in DOMAIN q : ~About(q[i], r))
        <=> ~About(q[1], r) /\ \A i \in DOMAIN p : ~About(p[i], r)
  <2>1. \A i \in DOMAIN q : i = 1 \/ (i - 1 \in DOMAIN p /\ q[i] = p[i - 1])
    BY <1>1
  <2>2. 1 \in DOMAIN q /\ \A i \in DOMAIN p : i + 1 \in DOMAIN q /\ q[i + 1] = p[i]
    BY <1>1
  <2> QED
    BY <2>1, <2>2
<1>4. ASSUME NEW i \in DOMAIN p
      PROVE  (\A j \in DOMAIN p : j > i => ~About(p[j], r))
               <=> (\A j \in DOMAIN q : j > i + 1 => ~About(q[j], r))
  <2>1. \A j \in DOMAIN q : j > i + 1 => j - 1 \in DOMAIN p /\ j - 1 > i /\ q[j] = p[j - 1]
    BY <1>1
  <2>2. \A j \in DOMAIN p : j > i => j + 1 \in DOMAIN q /\ j + 1 > i + 1 /\ q[j + 1] = p[j]
    BY <1>1
  <2> QED
    BY <2>1, <2>2
<1>5. (\A j \in DOMAIN q : j > 1 => ~About(q[j], r)) <=> (\A i \in DOMAIN p : ~About(p[i], r))
  <2>1. \A j \in DOMAIN q : j > 1 => j - 1 \in DOMAIN p /\ q[j] = p[j - 1]
    BY <1>1
  <2>2. \A j \in DOMAIN p : j + 1 \in DOMAIN q /\ j + 1 > 1 /\ q[j + 1] = p[j]
    BY <1>1
  <2> QED
    BY <2>1, <2>2
<1> DEFINE LastIn(s, i) == /\ About(s[i], r)
                           /\ SaysOpen(s[i], r)
                           /\ \A j \in DOMAIN s : j > i => ~About(s[j], r)
<1>6. (\E i \in DOMAIN q : LastIn(q, i)) <=> LastIn(q, 1) \/ \E i \in DOMAIN p : LastIn(p, i)
  <2>1. \A i \in DOMAIN q : i = 1 \/ (i - 1 \in DOMAIN p /\ i = (i - 1) + 1)
    BY <1>1
  <2>2. 1 \in DOMAIN q /\ \A i \in DOMAIN p : i + 1 \in DOMAIN q /\ q[i + 1] = p[i]
    BY <1>1
  <2>3. \A i \in DOMAIN p : LastIn(p, i) <=> LastIn(q, i + 1)
    BY <1>4, <2>2
  <2> HIDE DEF LastIn
  <2> QED
    BY <2>1, <2>2, <2>3
<1>7. LastIn(q, 1) <=> About(q[1], r) /\ SaysOpen(q[1], r) /\ \A i \in DOMAIN p : ~About(p[i], r)
  BY <1>5
<1>8. WillHold(q, r, now)
        <=> (now /\ \A i \in DOMAIN q : ~About(q[i], r)) \/ \E i \in DOMAIN q : LastIn(q, i)
  BY DEF WillHold
<1>9. WillHold(p, r, after)
        <=> (after /\ \A i \in DOMAIN p : ~About(p[i], r)) \/ \E i \in DOMAIN p : LastIn(p, i)
  BY DEF WillHold
<1> HIDE DEF LastIn
<1>10. WillHold(q, r, now) <=> WillHold(p, r, after)
  <2>1. CASE About(q[1], r)
    BY <1>3, <1>6, <1>7, <1>8, <1>9, <2>1
  <2>2. CASE ~About(q[1], r)
    BY <1>3, <1>6, <1>7, <1>8, <1>9, <2>2
  <2> QED
    BY <2>1, <2>2
<1> HIDE DEF after
<1>11. after = IF About(Head(q), r) THEN SaysOpen(Head(q), r) ELSE now
  BY <1>1 DEF after
<1> QED
  BY <1>10, <1>11 DEF p

-----------------------------------------------------------------------------
(* Types                                                                   *)

\* What the app-server writes, and what the bridge sends its clients.
FromAppServer ==
  {m \in Messages :
     /\ m.pending = {}
     /\ \/ m.type \in {"request", "resolved"} /\ m.about \in Requests
        \/ m.type = "closed" /\ m.about \in Threads}

ToClients ==
  {m \in Messages :
     \/ /\ m.type \in {"added", "resolved"}
        /\ m.about \in Requests
        /\ m.pending = {}
     \/ /\ m.type = "started"
        /\ m.about \in Undetected
        /\ m.pending \subseteq RequestsOf(m.about)}

TInv ==
  /\ TypeOK
  /\ pipe \in Seq(FromAppServer)
  /\ events \in [Clients -> Seq(ToClients)]
  /\ \A t \in Threads : /\ t \notin Undetected => detection[t] = "announced"
                        /\ listing[t] \subseteq RequestsOf(t)
  /\ \A c \in Clients : c \notin interrupted => link[c] = "open"

\* The messages that are written are of these kinds.
LEMMA MessagesFit ==
  /\ \A r \in Requests : /\ Message("request", r) \in FromAppServer
                         /\ Message("resolved", r) \in FromAppServer
                         /\ Message("added", r) \in ToClients
                         /\ Message("resolved", r) \in ToClients
  /\ \A t \in Threads : Message("closed", t) \in FromAppServer
  /\ \A t \in Undetected : \A p \in SUBSET RequestsOf(t) :
       [type |-> "started", about |-> t, pending |-> p] \in ToClients
<1>1. \A r \in Requests : Message("request", r) \in FromAppServer
  BY DEF Message, Messages, FromAppServer
<1>2. \A r \in Requests : Message("resolved", r) \in FromAppServer
  BY DEF Message, Messages, FromAppServer
<1>3. \A r \in Requests : Message("added", r) \in ToClients
  BY DEF Message, Messages, ToClients
<1>4. \A r \in Requests : Message("resolved", r) \in ToClients
  BY DEF Message, Messages, ToClients
<1>5. \A t \in Threads : Message("closed", t) \in FromAppServer
  BY DEF Message, Messages, FromAppServer
<1>6. ASSUME NEW t \in Undetected, NEW p \in SUBSET RequestsOf(t)
      PROVE  [type |-> "started", about |-> t, pending |-> p] \in ToClients
  BY RequestsAssumption DEF Messages, ToClients, RequestsOf
<1> QED
  BY <1>1, <1>2, <1>3, <1>4, <1>5, <1>6

\* Queues of such messages are queues of messages.
LEMMA QueuesOfMessages ==
  /\ \A q \in Seq(FromAppServer) : q \in Seq(Messages)
  /\ \A q \in Seq(ToClients) : q \in Seq(Messages)
<1>1. FromAppServer \subseteq Messages /\ ToClients \subseteq Messages
  BY DEF FromAppServer, ToClients
<1> QED
  BY <1>1

\* A broadcast reaches the clients whose stream is open.
LEMMA BroadcastDelivers ==
  ASSUME events \in [Clients -> Seq(ToClients)], NEW m \in ToClients, Broadcast(m)
  PROVE  /\ events' \in [Clients -> Seq(ToClients)]
         /\ \A c \in Clients : events'[c] = IF link[c] = "open" THEN Append(events[c], m)
                                            ELSE events[c]
BY DEF Broadcast

LEMMA TInvInit == Init => TInv
<1> SUFFICES ASSUME Init PROVE TInv
  OBVIOUS
<1>1. TypeOK
  BY RequestsAssumption DEF Init, TypeOK
<1>2. /\ pipe \in Seq(FromAppServer)
      /\ events \in [Clients -> Seq(ToClients)]
  BY DEF Init
<1> QED
  BY <1>1, <1>2 DEF Init, TInv

LEMMA TInvStep == TInv /\ [Next]_vars => TInv'
<1> SUFFICES ASSUME TInv, [Next]_vars PROVE TInv'
  OBVIOUS
<1> USE RequestsAssumption
<1>1. ASSUME NEW r \in Requests, AppServerAsks(r) PROVE TInv'
  <2>1. pipe' \in Seq(FromAppServer)
    BY <1>1, MessagesFit DEF TInv, AppServerAsks
  <2> QED
    BY <1>1, <2>1, QueuesOfMessages
       DEF TInv, TypeOK, AppServerAsks, tableVars, detectorVars, clientVars, respondVars
<1>2. ASSUME NEW r \in Requests, AppServerReplays(r) PROVE TInv'
  <2>1. pipe' \in Seq(FromAppServer)
    BY <1>2, MessagesFit DEF TInv, AppServerReplays
  <2>2. replays' \in 0 .. MaxReplays
    BY <1>2 DEF TInv, TypeOK, AppServerReplays
  <2> QED
    BY <1>2, <2>1, <2>2, QueuesOfMessages
       DEF TInv, TypeOK, AppServerReplays, tableVars, detectorVars, clientVars, respondVars
<1>3. ASSUME NEW r \in Requests, AppServerCleansUp(r) PROVE TInv'
  <2>1. pipe' \in Seq(FromAppServer)
    BY <1>3, MessagesFit DEF TInv, AppServerCleansUp
  <2> QED
    BY <1>3, <2>1, QueuesOfMessages
       DEF TInv, TypeOK, AppServerCleansUp, tableVars, detectorVars, clientVars, respondVars
<1>4. ASSUME NEW t \in Threads, AppServerCloses(t) PROVE TInv'
  <2>1. pipe' \in Seq(FromAppServer)
    BY <1>4, MessagesFit DEF TInv, AppServerCloses
  <2> QED
    BY <1>4, <2>1, QueuesOfMessages
       DEF TInv, TypeOK, AppServerCloses, tableVars, detectorVars, clientVars, respondVars
<1>5. CASE AppServerReadsAnswer
  <2>1. Head(answers) \in Requests /\ answers' \in Seq(Requests)
    BY <1>5 DEF TInv, TypeOK, AppServerReadsAnswer
  <2>2. pipe' = pipe \/ pipe' = Append(pipe, Message("resolved", Head(answers)))
    BY <1>5 DEF AppServerReadsAnswer
  <2>3. Message("resolved", Head(answers)) \in FromAppServer
    BY <2>1, MessagesFit
  <2>4. pipe' \in Seq(FromAppServer)
    BY <2>2, <2>3 DEF TInv
  <2> QED
    BY <1>5, <2>1, <2>4, QueuesOfMessages
       DEF TInv, TypeOK, AppServerReadsAnswer, tableVars, detectorVars, clientVars, respondVars
<1>6. CASE RequestArrives
  <2>1. Head(pipe) \in FromAppServer /\ pipe' \in Seq(FromAppServer)
    BY <1>6 DEF TInv, RequestArrives
  <2>2. Head(pipe).about \in Requests
    BY <1>6, <2>1, RequestsAssumption DEF FromAppServer, RequestArrives
  <2>3. events' \in [Clients -> Seq(ToClients)]
    BY <1>6, <2>2, MessagesFit, BroadcastDelivers DEF TInv, RequestArrives
  <2>4. /\ listed' \in [Requests -> Nat]
        /\ byId' \subseteq Requests
        /\ methods' \subseteq Requests
    BY <1>6, <2>2 DEF TInv, TypeOK, RequestArrives, tableVars
  <2> QED
    BY <1>6, <2>1, <2>3, <2>4, QueuesOfMessages
       DEF TInv, TypeOK, RequestArrives, appServerVars, detectorVars, clientVars, respondVars
<1>7. CASE ResolvedArrives
  <2>1. Head(pipe) \in FromAppServer /\ pipe' \in Seq(FromAppServer)
    BY <1>7 DEF TInv, ResolvedArrives
  <2>2. Head(pipe).about \in Requests
    BY <1>7, <2>1 DEF FromAppServer, ResolvedArrives
  <2>3. events' \in [Clients -> Seq(ToClients)]
    BY <1>7, <2>2, MessagesFit, BroadcastDelivers DEF TInv, ResolvedArrives
  <2>4. /\ listed' \in [Requests -> Nat]
        /\ byId' \subseteq Requests
        /\ methods' \subseteq Requests
    BY <1>7, <2>2 DEF TInv, TypeOK, ResolvedArrives
  <2> QED
    BY <1>7, <2>1, <2>3, <2>4, QueuesOfMessages
       DEF TInv, TypeOK, ResolvedArrives, appServerVars, detectorVars, clientVars, respondVars
<1>8. CASE ClosedArrives
  <2>1. pipe' \in Seq(FromAppServer)
    BY <1>8 DEF TInv, ClosedArrives
  <2>2. /\ listed' \in [Requests -> Nat]
        /\ byId' \subseteq Requests
    BY <1>8 DEF TInv, TypeOK, ClosedArrives
  <2> QED
    BY <1>8, <2>1, <2>2, QueuesOfMessages
       DEF TInv, TypeOK, ClosedArrives, appServerVars, detectorVars, clientVars, respondVars
<1>9. ASSUME NEW t \in Threads, DetectorLists(t) PROVE TInv'
  BY <1>9 DEF TInv, TypeOK, DetectorLists, RequestsOf, appServerVars, tableVars,
     clientVars, respondVars
<1>10. ASSUME NEW t \in Threads, DetectorAnnounces(t) PROVE TInv'
  <2>1. /\ t \in Undetected
        /\ listing[t] \in SUBSET RequestsOf(t)
    BY <1>10 DEF TInv, DetectorAnnounces
  <2>2. events' \in [Clients -> Seq(ToClients)]
    BY <1>10, <2>1, MessagesFit, BroadcastDelivers DEF TInv, DetectorAnnounces
  <2> QED
    BY <1>10, <2>2, QueuesOfMessages
       DEF TInv, TypeOK, DetectorAnnounces, appServerVars, tableVars, clientVars, respondVars
<1>11. ASSUME NEW c \in Clients, EventArrives(c) PROVE TInv'
  <2>1. Head(events[c]) \in ToClients /\ events' \in [Clients -> Seq(ToClients)]
    BY <1>11 DEF TInv, EventArrives
  <2>2. shown' \in [Clients -> SUBSET Requests]
    BY <1>11, <2>1 DEF TInv, TypeOK, EventArrives, ToClients, RequestsOf
  <2> QED
    BY <1>11, <2>1, <2>2, QueuesOfMessages
       DEF TInv, TypeOK, EventArrives, appServerVars, tableVars, detectorVars, respondVars
<1>12. ASSUME NEW c \in Clients, StreamLost(c) PROVE TInv'
  <2>1. events' \in [Clients -> Seq(ToClients)]
    BY <1>12 DEF TInv, StreamLost
  <2> QED
    BY <1>12, <2>1, QueuesOfMessages
       DEF TInv, TypeOK, StreamLost, appServerVars, tableVars, detectorVars, respondVars
<1>13. ASSUME NEW c \in Clients, ThreadsListed(c) PROVE TInv'
  BY <1>13 DEF TInv, TypeOK, ThreadsListed, appServerVars, tableVars, detectorVars, respondVars
<1>14. ASSUME NEW c \in Clients, StreamOpens(c) PROVE TInv'
  BY <1>14 DEF TInv, TypeOK, StreamOpens, appServerVars, tableVars, detectorVars, respondVars
<1>15. ASSUME NEW c \in Clients, NEW r \in Requests, Responds(c, r) PROVE TInv'
  BY <1>15 DEF TInv, TypeOK, Responds, appServerVars, tableVars, detectorVars, clientVars
<1>16. ASSUME NEW c \in Clients, NEW r \in Requests, RespondHandled(c, r) PROVE TInv'
  BY <1>16 DEF TInv, TypeOK, RespondHandled, appServerVars, tableVars, detectorVars, clientVars
<1>17. ASSUME NEW c \in Clients, NEW r \in Requests, RespondSettles(c, r) PROVE TInv'
  BY <1>17 DEF TInv, TypeOK, RespondSettles, appServerVars, tableVars, detectorVars, clientVars
<1>18. ASSUME NEW c \in Clients, NEW r \in Requests, RespondLost(c, r) PROVE TInv'
  BY <1>18 DEF TInv, TypeOK, RespondLost, appServerVars, tableVars, detectorVars, clientVars
<1>19. CASE UNCHANGED vars
  BY <1>19 DEF TInv, TypeOK, vars, appServerVars, tableVars, detectorVars, clientVars, respondVars
<1> QED
  BY <1>1, <1>2, <1>3, <1>4, <1>5, <1>6, <1>7, <1>8, <1>9, <1>10, <1>11, <1>12, <1>13,
     <1>14, <1>15, <1>16, <1>17, <1>18, <1>19
     DEF Next, AppServerStep, BridgeReads, ClientStep

\* For any requests, threads and clients: the tables, queues and lists keep
\* their types; in particular no count of list entries goes below zero.
THEOREM PendingTypeOK == Spec => []TypeOK
<1>1. TInv => TypeOK
  BY DEF TInv
<1> QED
  BY <1>1, TInvInit, TInvStep, PTL DEF Spec

-----------------------------------------------------------------------------
(* The tables                                                              *)

LEMMA TablesAgreeInit == Init => TablesAgree
BY DEF Init, TablesAgree

LEMMA TablesAgreeStep == TInv /\ TablesAgree /\ [Next]_vars => TablesAgree'
<1> SUFFICES ASSUME TInv, TablesAgree, [Next]_vars PROVE TablesAgree'
  OBVIOUS
<1>1. CASE RequestArrives
  BY <1>1 DEF TInv, TypeOK, TablesAgree, RequestArrives, tableVars
<1>2. CASE ResolvedArrives
  BY <1>2 DEF TInv, TypeOK, TablesAgree, ResolvedArrives
<1>3. CASE ClosedArrives
  BY <1>3 DEF TInv, TypeOK, TablesAgree, ClosedArrives
<1>4. ASSUME UNCHANGED tableVars PROVE TablesAgree'
  BY <1>4 DEF TablesAgree, tableVars
<1>5. CASE AppServerStep
  BY <1>4, <1>5 DEF AppServerStep, AppServerAsks, AppServerReplays, AppServerCleansUp,
     AppServerCloses, AppServerReadsAnswer
<1>6. ASSUME NEW t \in Threads, DetectorLists(t) \/ DetectorAnnounces(t) PROVE TablesAgree'
  BY <1>4, <1>6 DEF DetectorLists, DetectorAnnounces
<1>7. ASSUME NEW c \in Clients, ClientStep(c) PROVE TablesAgree'
  BY <1>4, <1>7 DEF ClientStep, EventArrives, StreamLost, ThreadsListed, StreamOpens,
     Responds, RespondHandled, RespondSettles, RespondLost
<1>8. CASE UNCHANGED vars
  BY <1>4, <1>8 DEF vars
<1> QED
  BY <1>1, <1>2, <1>3, <1>5, <1>6, <1>7, <1>8 DEF Next, BridgeReads

\* For any number of requests, replays and closed threads: the id index and
\* the threads' lists hold the same requests, each once and with its method.
THEOREM TablesAlwaysAgree == Spec => []TablesAgree
BY TInvInit, TInvStep, TablesAgreeInit, TablesAgreeStep, PTL DEF Spec

-----------------------------------------------------------------------------
(* The bridge and the app-server                                           *)

\* What the app-server's messages say of a request.
LEMMA WordsOfAppServer ==
  ASSUME NEW m \in FromAppServer, NEW r \in Requests
  PROVE  /\ About(m, r) <=> IF m.type = "closed" THEN m.about = ThreadOf[r] ELSE m.about = r
         /\ SaysOpen(m, r) <=> m.type = "request"
BY RequestsAssumption DEF FromAppServer, Messages, About, SaysOpen

\* A message that is written leaves the word on the requests it is not about.
LEMMA PipeWritten ==
  ASSUME TInv, NEW m \in FromAppServer, NEW r \in Requests
  PROVE  WillHold(Append(pipe, m), r, r \in byId)
           <=> IF About(m, r) THEN m.type = "request" ELSE WillHold(pipe, r, r \in byId)
<1>1. pipe \in Seq(Messages) /\ m \in Messages
  BY QueuesOfMessages DEF TInv, FromAppServer
<1>2. (r \in byId) \in BOOLEAN
  OBVIOUS
<1>3. WillHold(Append(pipe, m), r, r \in byId)
        <=> IF About(m, r) THEN SaysOpen(m, r) ELSE WillHold(pipe, r, r \in byId)
  BY <1>1, <1>2, WillHoldAppend, Zenon
<1> QED
  BY <1>3, WordsOfAppServer

\* A message that is read must leave the index as it says.
LEMMA PipeRead ==
  ASSUME TInv, pipe # <<>>, NEW r \in Requests, NEW now \in BOOLEAN,
         now <=> IF About(Head(pipe), r) THEN Head(pipe).type = "request" ELSE r \in byId
  PROVE  WillHold(Tail(pipe), r, now) <=> WillHold(pipe, r, r \in byId)
<1>1. pipe \in Seq(Messages) /\ Head(pipe) \in FromAppServer
  BY QueuesOfMessages DEF TInv
<1>2. SaysOpen(Head(pipe), r) <=> Head(pipe).type = "request"
  BY <1>1, WordsOfAppServer
<1>3. SaysOpen(Head(pipe), r) \in BOOLEAN
  BY DEF SaysOpen
<1>4. now = IF About(Head(pipe), r) THEN SaysOpen(Head(pipe), r) ELSE r \in byId
  BY <1>2, <1>3
<1>5. (r \in byId) \in BOOLEAN
  OBVIOUS
<1>6. WillHold(pipe, r, r \in byId)
        <=> WillHold(Tail(pipe), r, IF About(Head(pipe), r) THEN SaysOpen(Head(pipe), r)
                                    ELSE r \in byId)
  BY <1>1, <1>5, WillHoldTail, Zenon
<1> QED
  BY <1>4, <1>6, Zenon

LEMMA PendingIsKnownInit == Init => PendingIsKnown
<1> SUFFICES ASSUME Init, NEW r \in Supported
             PROVE  upstream[r] = "open" <=> WillHold(pipe, r, r \in byId)
  BY DEF PendingIsKnown
<1>1. upstream[r] # "open" /\ r \notin byId /\ DOMAIN pipe = {}
  BY RequestsAssumption DEF Init
<1> QED
  BY <1>1 DEF WillHold

LEMMA PendingIsKnownStep ==
  TInv /\ TablesAgree /\ PendingIsKnown /\ [Next]_vars => PendingIsKnown'
<1> SUFFICES ASSUME TInv, TablesAgree, PendingIsKnown, [Next]_vars,
                    NEW r \in Supported
             PROVE  upstream'[r] = "open" <=> WillHold(pipe', r, r \in byId')
  BY DEF PendingIsKnown
<1>0. /\ r \in Requests
      /\ upstream[r] = "open" <=> WillHold(pipe, r, r \in byId)
      /\ upstream \in [Requests -> {"new", "open", "closed"}]
  BY RequestsAssumption DEF PendingIsKnown, TInv, TypeOK
<1> DEFINE Goal == upstream'[r] = "open" <=> WillHold(pipe', r, r \in byId')
<1>1. ASSUME NEW q \in Requests, AppServerAsks(q) \/ AppServerReplays(q) PROVE Goal
  <2>1. /\ pipe' = Append(pipe, Message("request", q))
        /\ byId' = byId
        /\ upstream'[r] = IF q = r THEN "open" ELSE upstream[r]
    BY <1>0, <1>1 DEF AppServerAsks, AppServerReplays, tableVars
  <2>2. /\ About(Message("request", q), r) <=> q = r
        /\ Message("request", q).type = "request"
    BY <1>0, MessagesFit, WordsOfAppServer DEF Message
  <2> QED
    BY <1>0, <2>1, <2>2, MessagesFit, PipeWritten
<1>2. ASSUME NEW q \in Requests,
             pipe' = Append(pipe, Message("resolved", q)),
             byId' = byId,
             upstream' = [upstream EXCEPT ![q] = "closed"]
      PROVE  Goal
  <2>1. /\ About(Message("resolved", q), r) <=> q = r
        /\ Message("resolved", q).type # "request"
    BY <1>0, MessagesFit, WordsOfAppServer DEF Message
  <2> QED
    BY <1>0, <1>2, <2>1, MessagesFit, PipeWritten
<1>3. ASSUME NEW q \in Requests, AppServerCleansUp(q) PROVE Goal
  BY <1>2, <1>3 DEF AppServerCleansUp, tableVars
<1>4. ASSUME NEW t \in Threads, AppServerCloses(t) PROVE Goal
  <2>1. /\ pipe' = Append(pipe, Message("closed", t))
        /\ byId' = byId
        /\ upstream'[r] = IF ThreadOf[r] = t /\ upstream[r] = "open" THEN "closed"
                          ELSE upstream[r]
    BY <1>0, <1>4 DEF AppServerCloses, tableVars
  <2>2. /\ About(Message("closed", t), r) <=> ThreadOf[r] = t
        /\ Message("closed", t).type # "request"
    BY <1>0, MessagesFit, WordsOfAppServer DEF Message
  <2> QED
    BY <1>0, <2>1, <2>2, MessagesFit, PipeWritten
<1>5. CASE AppServerReadsAnswer
  <2>1. Head(answers) \in Requests
    BY <1>5 DEF TInv, TypeOK, AppServerReadsAnswer
  <2>2. CASE upstream[Head(answers)] = "open"
    BY <1>2, <1>5, <2>1, <2>2 DEF AppServerReadsAnswer, tableVars
  <2>3. CASE upstream[Head(answers)] # "open"
    BY <1>0, <1>5, <2>3 DEF AppServerReadsAnswer, tableVars
  <2> QED
    BY <2>2, <2>3
<1>6. ASSUME pipe # <<>>, pipe' = Tail(pipe), UNCHANGED upstream,
             r \in byId' <=> IF About(Head(pipe), r) THEN Head(pipe).type = "request"
                             ELSE r \in byId
      PROVE  Goal
  <2>1. (r \in byId') \in BOOLEAN
    OBVIOUS
  <2>2. WillHold(Tail(pipe), r, r \in byId') <=> WillHold(pipe, r, r \in byId)
    BY <1>0, <1>6, <2>1, PipeRead, Zenon
  <2> QED
    BY <1>0, <1>6, <2>2
<1>7. pipe # <<>> => Head(pipe) \in FromAppServer
  BY DEF TInv
<1>8. CASE RequestArrives
  <2>1. About(Head(pipe), r) <=> Head(pipe).about = r
    BY <1>0, <1>7, <1>8, WordsOfAppServer DEF RequestArrives
  <2> QED
    BY <1>6, <1>8, <2>1 DEF RequestArrives, appServerVars, tableVars
<1>9. CASE ResolvedArrives
  <2>1. About(Head(pipe), r) <=> Head(pipe).about = r
    BY <1>0, <1>7, <1>9, WordsOfAppServer DEF ResolvedArrives
  <2> QED
    BY <1>6, <1>9, <2>1 DEF ResolvedArrives, appServerVars
<1>10. CASE ClosedArrives
  <2>1. About(Head(pipe), r) <=> Head(pipe).about = ThreadOf[r]
    BY <1>0, <1>7, <1>10, WordsOfAppServer DEF ClosedArrives
  <2>2. r \in byId => listed[r] > 0
    BY <1>0 DEF TablesAgree
  <2>3. r \in byId' <=> r \in byId /\ Head(pipe).about # ThreadOf[r]
    BY <1>0, <1>10, <2>2 DEF ClosedArrives, RequestsOf
  <2> QED
    BY <1>6, <1>10, <2>1, <2>3 DEF ClosedArrives, appServerVars
<1>11. ASSUME UNCHANGED <<upstream, pipe, byId>> PROVE Goal
  BY <1>0, <1>11
<1>12. ASSUME NEW t \in Threads, DetectorLists(t) \/ DetectorAnnounces(t) PROVE Goal
  BY <1>11, <1>12 DEF DetectorLists, DetectorAnnounces, appServerVars, tableVars
<1>13. ASSUME NEW c \in Clients, ClientStep(c) PROVE Goal
  BY <1>11, <1>13 DEF ClientStep, EventArrives, StreamLost, ThreadsListed, StreamOpens,
     Responds, RespondHandled, RespondSettles, RespondLost, appServerVars, tableVars
<1>14. CASE UNCHANGED vars
  BY <1>11, <1>14 DEF vars, appServerVars, tableVars
<1> QED
  BY <1>1, <1>3, <1>4, <1>5, <1>8, <1>9, <1>10, <1>12, <1>13, <1>14
     DEF Next, AppServerStep, BridgeReads

\* For any requests, threads, replays and responses: once the bridge has read
\* its pipe it holds exactly the open requests whose method it knows.
THEOREM PendingAlwaysKnown == Spec => []PendingIsKnown
BY TInvInit, TInvStep, TablesAgreeInit, TablesAgreeStep,
   PendingIsKnownInit, PendingIsKnownStep, PTL DEF Spec

-----------------------------------------------------------------------------
(* The clients' lists                                                      *)

\* What the events say of a request whose thread the detector knew.
LEMMA WordsToClients ==
  ASSUME NEW m \in ToClients, NEW r \in Requests, ThreadOf[r] \notin Undetected
  PROVE  /\ About(m, r) <=> m.type # "started" /\ m.about = r
         /\ SaysOpen(m, r) <=> m.type = "added"
BY RequestsAssumption DEF ToClients, Messages, About, SaysOpen, RequestsOf

\* An event that is sent leaves the word on the requests it is not about.
LEMMA EventsWritten ==
  ASSUME NEW q \in Seq(ToClients), NEW m \in ToClients, NEW r \in Requests, NEW list
  PROVE  WillHold(Append(q, m), r, r \in list)
           <=> IF About(m, r) THEN SaysOpen(m, r) ELSE WillHold(q, r, r \in list)
<1>1. q \in Seq(Messages) /\ m \in Messages
  BY QueuesOfMessages DEF ToClients
<1>2. (r \in list) \in BOOLEAN
  OBVIOUS
<1> QED
  BY <1>1, <1>2, WillHoldAppend, Zenon

LEMMA ReachInit == Init => RequestsReachConnectedClients
BY DEF Init, RequestsReachConnectedClients

LEMMA ReachStep ==
  TInv /\ RequestsReachConnectedClients /\ [Next]_vars => RequestsReachConnectedClients'
<1> SUFFICES ASSUME TInv, RequestsReachConnectedClients, [Next]_vars,
                    NEW c \in Clients, c \notin interrupted',
                    NEW r \in byId', ThreadOf[r] \notin Undetected
             PROVE  WillHold(events'[c], r, r \in shown'[c])
  BY DEF RequestsReachConnectedClients
<1> DEFINE Goal == WillHold(events'[c], r, r \in shown'[c])
<1>0. /\ events[c] \in Seq(ToClients)
      /\ events[c] \in Seq(Messages)
      /\ (r \in shown[c]) \in BOOLEAN
      /\ (r \in shown'[c]) \in BOOLEAN
      /\ shown \in [Clients -> SUBSET Requests]
      /\ events \in [Clients -> Seq(ToClients)]
  BY QueuesOfMessages DEF TInv, TypeOK
<1>1. r \in Requests
  BY TInvStep DEF TInv, TypeOK
<1>2. c \notin interrupted => link[c] = "open"
  BY DEF TInv
<1>3. c \notin interrupted /\ r \in byId => WillHold(events[c], r, r \in shown[c])
  BY DEF RequestsReachConnectedClients
<1>4. ASSUME NEW m \in ToClients, events'[c] = Append(events[c], m), shown' = shown
      PROVE  Goal <=> IF About(m, r) THEN SaysOpen(m, r)
                      ELSE WillHold(events[c], r, r \in shown[c])
  <2>1. WillHold(Append(events[c], m), r, r \in shown[c])
          <=> IF About(m, r) THEN SaysOpen(m, r) ELSE WillHold(events[c], r, r \in shown[c])
    BY <1>0, <1>1, EventsWritten
  <2>2. shown'[c] = shown[c]
    BY <1>4
  <2> QED
    BY <1>4, <2>1, <2>2
<1>5. ASSUME UNCHANGED <<events, shown, interrupted>>, r \in byId PROVE Goal
  BY <1>3, <1>5
<1>6. CASE RequestArrives
  <2>1. Head(pipe) \in FromAppServer
    BY <1>6 DEF TInv, RequestArrives
  <2>2. Head(pipe).about \in Requests
    BY <1>6, <2>1, RequestsAssumption DEF FromAppServer, RequestArrives
  <2>3. shown' = shown /\ interrupted' = interrupted
    BY <1>6 DEF RequestArrives, clientVars
  <2>4. CASE Head(pipe).about \in Supported
    <3> DEFINE m == Message("added", Head(pipe).about)
    <3>1. /\ m \in ToClients
          /\ m.type = "added"
          /\ m.about = Head(pipe).about
      BY <2>2, MessagesFit DEF Message
    <3>2. r \in byId \/ r = m.about
      BY <1>6, <2>4, <3>1 DEF RequestArrives
    <3>3. events'[c] = Append(events[c], m)
      BY <1>0, <1>2, <1>6, <2>3, <2>4, <3>1, BroadcastDelivers DEF RequestArrives
    <3>4. (About(m, r) <=> m.about = r) /\ SaysOpen(m, r)
      BY <1>1, <3>1, WordsToClients
    <3> HIDE DEF m
    <3> QED
      BY <1>3, <1>4, <2>3, <3>1, <3>2, <3>3, <3>4
  <2>5. CASE Head(pipe).about \notin Supported
    BY <1>5, <1>6, <2>3, <2>5 DEF RequestArrives, tableVars
  <2> QED
    BY <2>4, <2>5
<1>7. CASE ResolvedArrives
  <2> DEFINE m == Message("resolved", Head(pipe).about)
  <2>1. Head(pipe) \in FromAppServer
    BY <1>7 DEF TInv, ResolvedArrives
  <2>2. Head(pipe).about \in Requests
    BY <1>7, <2>1 DEF FromAppServer, ResolvedArrives
  <2>3. /\ m \in ToClients
        /\ m.type = "resolved"
        /\ m.about = Head(pipe).about
    BY <2>2, MessagesFit DEF Message
  <2>4. r \in byId /\ r # m.about
    BY <1>7, <2>3 DEF ResolvedArrives
  <2>5. shown' = shown /\ interrupted' = interrupted
    BY <1>7 DEF ResolvedArrives, clientVars
  <2>6. events'[c] = Append(events[c], m)
    BY <1>0, <1>2, <1>7, <2>3, <2>5, BroadcastDelivers DEF ResolvedArrives
  <2>7. ~About(m, r)
    BY <1>1, <2>3, <2>4, WordsToClients
  <2> HIDE DEF m
  <2> QED
    BY <1>3, <1>4, <2>3, <2>4, <2>5, <2>6, <2>7
<1>8. CASE ClosedArrives
  BY <1>5, <1>8 DEF ClosedArrives, clientVars
<1>9. ASSUME NEW t \in Threads, DetectorLists(t) PROVE Goal
  BY <1>5, <1>9 DEF DetectorLists, tableVars, clientVars
<1>10. ASSUME NEW t \in Threads, DetectorAnnounces(t) PROVE Goal
  <2> DEFINE m == [type |-> "started", about |-> t, pending |-> listing[t]]
  <2>1. /\ m \in ToClients
        /\ m.type = "started"
    <3>1. t \in Undetected /\ listing[t] \in SUBSET RequestsOf(t)
      BY <1>10 DEF TInv, DetectorAnnounces
    <3> QED
      BY <3>1, MessagesFit
  <2>2. shown' = shown /\ interrupted' = interrupted /\ r \in byId
    BY <1>10 DEF DetectorAnnounces, clientVars, tableVars
  <2>3. events'[c] = Append(events[c], m)
    BY <1>0, <1>2, <1>10, <2>1, <2>2, BroadcastDelivers DEF DetectorAnnounces
  <2>4. ~About(m, r)
    BY <1>1, <2>1, WordsToClients
  <2> HIDE DEF m
  <2> QED
    BY <1>3, <1>4, <2>1, <2>2, <2>3, <2>4
<1>11. ASSUME NEW d \in Clients, EventArrives(d) PROVE Goal
  <2>1. interrupted' = interrupted /\ r \in byId
    BY <1>11 DEF EventArrives, tableVars
  <2>2. CASE d # c
    <3>1. events'[c] = events[c] /\ shown'[c] = shown[c]
      BY <1>0, <1>11, <2>2 DEF EventArrives
    <3> QED
      BY <1>3, <2>1, <3>1
  <2>3. CASE d = c
    <3> DEFINE m == Head(events[c])
    <3>1. /\ events[c] # <<>>
          /\ events'[c] = Tail(events[c])
          /\ m \in ToClients
      BY <1>0, <1>11, <2>3 DEF EventArrives
    <3>2. /\ About(m, r) <=> m.type # "started" /\ m.about = r
          /\ SaysOpen(m, r) <=> m.type = "added"
      BY <1>1, <3>1, WordsToClients
    <3>3. r \in shown'[c] <=> IF About(m, r) THEN SaysOpen(m, r) ELSE r \in shown[c]
      <4>1. shown'[c] = CASE m.type = "added"    -> shown[c] \cup {m.about}
                          [] m.type = "resolved" -> shown[c] \ {m.about}
                          [] m.type = "started"  -> (shown[c] \ RequestsOf(m.about)) \cup m.pending
        BY <1>0, <1>11, <2>3 DEF EventArrives
      <4>2. CASE m.type = "added"
        BY <3>2, <4>1, <4>2
      <4>3. CASE m.type = "resolved"
        BY <3>2, <4>1, <4>3
      <4>4. CASE m.type = "started"
        <5>1. /\ r \notin RequestsOf(m.about)
              /\ r \notin m.pending
          BY <3>1, <4>4 DEF ToClients, RequestsOf
        <5> QED
          BY <3>2, <4>1, <4>4, <5>1
      <4> QED
        BY <3>1, <4>2, <4>3, <4>4 DEF ToClients
    <3>4. (r \in shown'[c]) = IF About(m, r) THEN SaysOpen(m, r) ELSE r \in shown[c]
      <4>1. SaysOpen(m, r) \in BOOLEAN
        BY DEF SaysOpen
      <4> QED
        BY <3>3, <4>1
    <3>5. WillHold(events[c], r, r \in shown[c])
            <=> WillHold(Tail(events[c]), r,
                         IF About(m, r) THEN SaysOpen(m, r) ELSE r \in shown[c])
      BY <1>0, <1>1, <3>1, WillHoldTail, Zenon
    <3> HIDE DEF m
    <3>6. WillHold(events[c], r, r \in shown[c])
      BY <1>3, <2>1
    <3> QED
      BY <3>1, <3>4, <3>5, <3>6, Zenon
  <2> QED
    BY <2>2, <2>3
<1>12. ASSUME NEW d \in Clients, StreamLost(d) PROVE Goal
  <2>1. d # c /\ c \notin interrupted
    BY <1>12 DEF StreamLost
  <2>2. events'[c] = events[c] /\ shown'[c] = shown[c] /\ r \in byId
    BY <1>0, <1>12, <2>1 DEF StreamLost, tableVars
  <2> QED
    BY <1>3, <2>1, <2>2
<1>13. ASSUME NEW d \in Clients, ThreadsListed(d) PROVE Goal
  <2>1. c \notin interrupted /\ d # c
    BY <1>2, <1>13 DEF ThreadsListed
  <2>2. events'[c] = events[c] /\ shown'[c] = shown[c] /\ r \in byId
    BY <1>0, <1>13, <2>1 DEF ThreadsListed, tableVars
  <2> QED
    BY <1>3, <2>1, <2>2
<1>14. ASSUME NEW d \in Clients, StreamOpens(d) PROVE Goal
  BY <1>5, <1>14 DEF StreamOpens, tableVars
<1>15. ASSUME NEW d \in Clients, NEW q \in Requests,
              \/ Responds(d, q)
              \/ RespondHandled(d, q)
              \/ RespondSettles(d, q)
              \/ RespondLost(d, q)
       PROVE  Goal
  BY <1>5, <1>15 DEF Responds, RespondHandled, RespondSettles, RespondLost, tableVars, clientVars
<1>16. CASE AppServerStep
  BY <1>5, <1>16 DEF AppServerStep, AppServerAsks, AppServerReplays, AppServerCleansUp,
     AppServerCloses, AppServerReadsAnswer, tableVars, clientVars
<1>17. CASE UNCHANGED vars
  BY <1>5, <1>17 DEF vars, tableVars, clientVars
<1> QED
  BY <1>6, <1>7, <1>8, <1>9, <1>10, <1>11, <1>12, <1>13, <1>14, <1>15, <1>16, <1>17
     DEF Next, BridgeReads, ClientStep

\* For any requests, threads and clients: what the bridge holds is shown, or on
\* its way, wherever the stream was never interrupted, for threads the detector
\* knew from the start.
THEOREM RequestsReach == Spec => []RequestsReachConnectedClients
BY TInvInit, TInvStep, ReachInit, ReachStep, PTL DEF Spec
=============================================================================
