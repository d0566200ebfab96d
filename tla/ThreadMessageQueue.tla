------------------------- MODULE ThreadMessageQueue -------------------------
(***************************************************************************)
(* The messages a user sends to the selected thread of an SDK runtime:     *)
(* sent at once when the runtime's view of the thread shows no active      *)
(* turn, queued otherwise, and drained, one at a time, when a turn ends.   *)
(*                                                                         *)
(* A message is posted over HTTP, the turns' events come over the event    *)
(* stream, and the view follows both; so the answer to a post and the      *)
(* events of the turn it started arrive in any order.  The app-server      *)
(* starts a turn for each message it accepts, for a compaction, and for    *)
(* other clients.  A lost session, or one the user gives up, discards the   *)
(* queue with the rest of the snapshot; the model ends with the session:   *)
(* what it takes to begin another is ThreadRuntime's.                      *)
(***************************************************************************)
EXTENDS Integers, Sequences, FiniteSets

CONSTANTS
  Messages,   \* messages the user may send, each once
  MaxTurns,   \* bound on turns
  MaxTroubles, \* bound on lost streams, failed sends and compactions together
  None

ASSUME QueueAssumption ==
  /\ None \notin Messages
  /\ None \notin 1 .. MaxTurns
  /\ IsFiniteSet(Messages)
  /\ MaxTurns \in Nat
  /\ MaxTroubles \in Nat

Turns == 1 .. MaxTurns

VARIABLES
  upstream,     \* each turn at the app-server: new, running, failed, over
  startedBy,    \* the message that started a turn
  events,       \* events on the stream
  link,         \* the stream: open, lost, read (detail under way), opening;
                \* out when the session has ended
  snapshot,     \* the detail under way
  losses,       \* number of losses
  view,         \* the turns in the runtime's detail: absent, inProgress, ended
  stale,        \* history: since the last detail was read, an event was missed
                \* or the end of a turn undone
  queue,        \* pendingMessages
  draining,     \* the message drainMessageQueue is sending, or None
  posts,        \* posts of a message that the bridge has not handled
  replies,      \* replies under way: the turn, or None for a failure
  compacting,   \* compactingThreadIds has the thread
  compaction,   \* the compaction request: none, posted, refused, done
  given,        \* messages the user has sent
  failed,       \* messages whose failure the user was told of
  removed       \* messages the user took out of the queue

upstreamVars == <<upstream, startedBy, events>>
streamVars == <<link, snapshot, losses>>
queueVars == <<queue, draining>>
callVars == <<posts, replies>>
compactVars == <<compacting, compaction>>
userVars == <<given, failed, removed>>

vars == <<upstreamVars, streamVars, view, stale, queueVars, callVars, compactVars, userVars>>

Events == [type : {"turnStarted", "turnError", "turnCompleted"}, turn : Turns]

Shown == {"absent", "inProgress", "ended"}

TypeOK ==
  /\ upstream \in [Turns -> {"new", "running", "failed", "over"}]
  /\ startedBy \in [Turns -> Messages \cup {None}]
  /\ events \in Seq(Events)
  /\ link \in {"open", "lost", "read", "opening", "out"}
  /\ snapshot \in [Turns -> Shown]
  /\ losses \in 0 .. MaxTroubles
  /\ view \in [Turns -> Shown]
  /\ stale \in BOOLEAN
  /\ queue \in Seq(Messages)
  /\ draining \in Messages \cup {None}
  /\ posts \in [Messages -> Nat]
  /\ replies \subseteq Messages \X (Turns \cup {None})
  /\ compacting \in BOOLEAN
  /\ compaction \in {"none", "posted", "refused", "done"}
  /\ given \subseteq Messages
  /\ failed \subseteq Messages
  /\ removed \subseteq Messages

Init ==
  /\ upstream = [t \in Turns |-> "new"]
  /\ startedBy = [t \in Turns |-> None]
  /\ events = <<>>
  /\ link = "open"
  /\ snapshot = [t \in Turns |-> "absent"]
  /\ losses = 0
  /\ view = [t \in Turns |-> "absent"]
  /\ stale = FALSE
  /\ queue = <<>>
  /\ draining = None
  /\ posts = [m \in Messages |-> 0]
  /\ replies = {}
  /\ compacting = FALSE
  /\ compaction = "none"
  /\ given = {}
  /\ failed = {}
  /\ removed = {}

-----------------------------------------------------------------------------
(* The app-server.                                                         *)

\* Turns are numbered in the order in which they start.
Fresh(t) == upstream[t] = "new" /\ \A s \in 1 .. t - 1 : upstream[s] # "new"

\* A turn that none of the messages starts leaves turns for all of them.
Spare(t) ==
  Cardinality({m \in Messages : \A s \in Turns : startedBy[s] # m}) <= MaxTurns - t

\* Room for one more trouble.
MayTrouble ==
  losses + Cardinality(failed \cup {m \in Messages : <<m, None>> \in replies})
         + (IF compaction = "none" THEN 0 ELSE 1) < MaxTroubles

Emit(type, t) ==
  events' = IF link = "open" THEN Append(events, [type |-> type, turn |-> t]) ELSE events

\* An event between the reading of the detail and the opening of the stream is
\* in neither.
Missed == link \in {"read", "opening"}

Starts(t, m) ==
  /\ Fresh(t)
  /\ upstream' = [upstream EXCEPT ![t] = "running"]
  /\ startedBy' = [startedBy EXCEPT ![t] = m]
  /\ Emit("turnStarted", t)
  /\ stale' = (stale \/ Missed)

\* Another client, or a review, starts a turn.
OtherTurnStarts(t) ==
  /\ Spare(t)
  /\ Starts(t, None)
  /\ UNCHANGED <<streamVars, view, queueVars, callVars, compactVars, userVars>>

\* A turn fails for good; its completion follows.
TurnFails(t) ==
  /\ upstream[t] = "running"
  /\ upstream' = [upstream EXCEPT ![t] = "failed"]
  /\ Emit("turnError", t)
  /\ stale' = (stale \/ Missed)
  /\ UNCHANGED <<startedBy, streamVars, view, queueVars, callVars, compactVars, userVars>>

TurnEnds(t) ==
  /\ upstream[t] \in {"running", "failed"}
  /\ upstream' = [upstream EXCEPT ![t] = "over"]
  /\ Emit("turnCompleted", t)
  /\ stale' = (stale \/ Missed)
  /\ UNCHANGED <<startedBy, streamVars, view, queueVars, callVars, compactVars, userVars>>

StartTurnHandled(m, t) ==
  /\ posts[m] > 0
  /\ Starts(t, m)
  /\ posts' = [posts EXCEPT ![m] = @ - 1]
  /\ replies' = replies \cup {<<m, t>>}
  /\ UNCHANGED <<streamVars, view, queueVars, compactVars, userVars>>

\* Faulty: a timeout refuses a post that has been answered.
StartTurnRefusedLate(m) ==
  /\ m \in given
  /\ MayTrouble
  /\ posts' = [posts EXCEPT ![m] = @ - 1]
  /\ replies' = replies \cup {<<m, None>>}
  /\ UNCHANGED <<upstreamVars, streamVars, view, stale, queueVars, compactVars, userVars>>

\* The bridge or the app-server refuses, or the post is lost.
StartTurnRefused(m) ==
  /\ posts[m] > 0
  /\ MayTrouble
  /\ posts' = [posts EXCEPT ![m] = @ - 1]
  /\ replies' = replies \cup {<<m, None>>}
  /\ UNCHANGED <<upstreamVars, streamVars, view, stale, queueVars, compactVars, userVars>>

ReplyLost(m, t) ==
  /\ <<m, t>> \in replies
  /\ MayTrouble
  /\ replies' = (replies \ {<<m, t>>}) \cup {<<m, None>>}
  /\ UNCHANGED <<upstreamVars, streamVars, view, stale, queueVars, posts, compactVars, userVars>>

-----------------------------------------------------------------------------
(* sendMessage and its reply.                                              *)

\* hasActiveTurn
Active(v) == \E t \in Turns : v[t] = "inProgress"

\* A message is not taken while a compaction is pending.
SendPosts(m) ==
  /\ link # "out"
  /\ m \notin given
  /\ ~compacting
  /\ ~Active(view)
  /\ given' = given \cup {m}
  /\ posts' = [posts EXCEPT ![m] = @ + 1]
  /\ UNCHANGED <<upstreamVars, streamVars, view, stale, queueVars, replies, compactVars,
                 failed, removed>>

SendQueues(m) ==
  /\ link # "out"
  /\ m \notin given
  /\ ~compacting
  /\ Active(view)
  /\ given' = given \cup {m}
  /\ queue' = Append(queue, m)
  /\ UNCHANGED <<upstreamVars, streamVars, view, stale, draining, callVars, compactVars,
                 failed, removed>>

Settled(m) == draining' = IF draining = m THEN None ELSE draining

\* Faulty: a failed send leaves the thread in drainingThreads.
SendFailsDraining(m) ==
  /\ <<m, None>> \in replies
  /\ replies' = replies \ {<<m, None>>}
  /\ failed' = failed \cup {m}
  /\ UNCHANGED <<upstreamVars, streamVars, view, stale, queueVars, posts, compactVars,
                 given, removed>>

SendFails(m) ==
  /\ <<m, None>> \in replies
  /\ replies' = replies \ {<<m, None>>}
  /\ failed' = failed \cup {m}
  /\ Settled(m)
  /\ UNCHANGED <<upstreamVars, streamVars, view, stale, queue, posts, compactVars,
                 given, removed>>

\* applyStartedTurn puts the turn in progress, whatever the view knows of it, if
\* the thread is still selected.
SendSucceeds(m, t) ==
  /\ <<m, t>> \in replies
  /\ replies' = replies \ {<<m, t>>}
  /\ IF link = "out"
     THEN UNCHANGED <<view, stale>>
     ELSE /\ view' = [view EXCEPT ![t] = "inProgress"]
          /\ stale' = (stale \/ (upstream[t] = "over"
                                  /\ \A i \in DOMAIN events : events[i].turn # t))
  /\ Settled(m)
  /\ UNCHANGED <<upstreamVars, streamVars, queue, posts, compactVars, userVars>>

RemovePending(i) ==
  /\ i \in DOMAIN queue
  /\ queue' = SubSeq(queue, 1, i - 1) \o SubSeq(queue, i + 1, Len(queue))
  /\ removed' = removed \cup {queue[i]}
  /\ UNCHANGED <<upstreamVars, streamVars, view, stale, draining, callVars, compactVars,
                 given, failed>>

-----------------------------------------------------------------------------
(* The event stream.                                                       *)

\* Faulty: the head stays in the queue while it is sent.
DrainKeepingHead ==
  IF draining # None \/ queue = <<>> \/ compacting' \/ Active(view')
  THEN UNCHANGED <<queueVars, posts>>
  ELSE /\ draining' = Head(queue)
       /\ posts' = [posts EXCEPT ![Head(queue)] = @ + 1]
       /\ UNCHANGED queue

\* Faulty: what is not sent at once is dropped.
DrainDropping ==
  IF draining # None \/ queue = <<>>
  THEN UNCHANGED <<queueVars, posts>>
  ELSE /\ queue' = Tail(queue)
       /\ IF compacting' \/ Active(view')
          THEN UNCHANGED <<draining, posts>>
          ELSE /\ draining' = Head(queue)
               /\ posts' = [posts EXCEPT ![Head(queue)] = @ + 1]

\* drainMessageQueue takes the head out and hands it to sendMessage, which
\* throws while a compaction is pending and queues it again, at the end, while
\* a turn is active.
Drain ==
  IF draining # None \/ queue = <<>>
  THEN UNCHANGED <<queueVars, posts>>
  ELSE LET next == Head(queue)
       IN  IF compacting' \/ Active(view')
           THEN /\ queue' = IF compacting' THEN Tail(queue) ELSE Append(Tail(queue), next)
                /\ UNCHANGED <<draining, posts>>
           ELSE /\ queue' = Tail(queue)
                /\ draining' = next
                /\ posts' = [posts EXCEPT ![next] = @ + 1]

EventRead(type) ==
  /\ events # <<>>
  /\ Head(events).type = type
  /\ events' = Tail(events)

StartedArrives ==
  /\ EventRead("turnStarted")
  /\ view' = [view EXCEPT ![Head(events).turn] = "inProgress"]
  /\ compacting' = FALSE
  /\ UNCHANGED <<upstream, startedBy, streamVars, stale, queueVars, callVars, compaction, userVars>>

\* Faulty: a turn that ended is left in progress.
CompletedArrivesUnseen ==
  /\ EventRead("turnCompleted")
  /\ compacting' = FALSE
  /\ view' = view
  /\ Drain
  /\ UNCHANGED <<upstream, startedBy, streamVars, stale, replies, compaction, userVars>>

\* Faulty: only errors drain the queue.
CompletedArrivesOnly ==
  /\ EventRead("turnCompleted")
  /\ compacting' = FALSE
  /\ view' = [view EXCEPT ![Head(events).turn] = "ended"]
  /\ UNCHANGED <<upstream, startedBy, streamVars, stale, queueVars, callVars, compaction, userVars>>

CompletedArrives ==
  /\ EventRead("turnCompleted")
  /\ compacting' = FALSE
  /\ view' = [view EXCEPT ![Head(events).turn] = "ended"]
  /\ Drain
  /\ UNCHANGED <<upstream, startedBy, streamVars, stale, replies, compaction, userVars>>

\* An error changes a turn the view knows, and leaves a compaction pending.
ErrorArrives ==
  /\ EventRead("turnError")
  /\ view' = [view EXCEPT ![Head(events).turn] = IF @ = "absent" THEN @ ELSE "ended"]
  /\ compacting' = compacting
  /\ Drain
  /\ UNCHANGED <<upstream, startedBy, streamVars, stale, replies, compaction, userVars>>

StreamLost ==
  /\ link = "open"
  /\ MayTrouble
  /\ losses' = losses + 1
  /\ link' = "lost"
  /\ events' = <<>>
  /\ UNCHANGED <<upstream, startedBy, snapshot, view, stale, queueVars, callVars, compactVars,
                 userVars>>

\* performResync: the bridge reads the thread ...
DetailRead ==
  /\ link = "lost"
  /\ link' = "read"
  /\ snapshot' = [t \in Turns |-> CASE upstream[t] = "new"  -> "absent"
                                    [] upstream[t] = "running" -> "inProgress"
                                    [] OTHER -> "ended"]
  /\ stale' = FALSE
  /\ UNCHANGED <<upstreamVars, losses, view, queueVars, callVars, compactVars, userVars>>

\* ... the detail replaces the view, and the stream is requested ...
DetailArrives ==
  /\ link = "read"
  /\ link' = "opening"
  /\ view' = snapshot
  /\ snapshot' = [t \in Turns |-> "absent"]
  /\ UNCHANGED <<upstreamVars, losses, stale, queueVars, callVars, compactVars, userVars>>

\* ... and opened.
StreamOpens ==
  /\ link = "opening"
  /\ link' = "open"
  /\ UNCHANGED <<upstreamVars, snapshot, losses, view, stale, queueVars, callVars, compactVars,
                 userVars>>

-----------------------------------------------------------------------------
(* compactThread.                                                          *)

CompactStarts ==
  /\ link # "out"
  /\ ~compacting
  /\ compaction = "none"
  /\ MayTrouble
  /\ compacting' = TRUE
  /\ compaction' = "posted"
  /\ UNCHANGED <<upstreamVars, streamVars, view, stale, queueVars, callVars, userVars>>

\* The app-server compacts in a turn.
CompactHandled(t) ==
  /\ compaction = "posted"
  /\ Spare(t)
  /\ Starts(t, None)
  /\ compaction' = "done"
  /\ UNCHANGED <<streamVars, view, queueVars, callVars, compacting, userVars>>

CompactRefused ==
  /\ compaction = "posted"
  /\ compaction' = "refused"
  /\ UNCHANGED <<upstreamVars, streamVars, view, stale, queueVars, callVars, compacting, userVars>>

CompactFails ==
  /\ compaction = "refused"
  /\ compaction' = "done"
  /\ compacting' = FALSE
  /\ UNCHANGED <<upstreamVars, streamVars, view, stale, queueVars, callVars, userVars>>

-----------------------------------------------------------------------------
(* The end of the session.                                                 *)

\* The stream is closed and the snapshot is the initial one: no thread is
\* selected, no turn is known and no message waits.  Calls under way go on.
SessionEnds ==
  /\ link # "out"
  /\ link' = "out"
  /\ events' = <<>>
  /\ snapshot' = [t \in Turns |-> "absent"]
  /\ view' = [t \in Turns |-> "absent"]
  /\ queue' = <<>>
  /\ compacting' = FALSE
  /\ UNCHANGED <<upstream, startedBy, losses, stale, callVars, compaction, userVars>>

\* The bridge refuses the session's credentials.
ApplySessionLoss == SessionEnds /\ UNCHANGED draining

\* The user logs out; what drains is forgotten too.
ResetState == SessionEnds /\ draining' = None

-----------------------------------------------------------------------------
AppServerStep ==
  \/ \E t \in Turns : OtherTurnStarts(t) \/ TurnFails(t) \/ TurnEnds(t) \/ CompactHandled(t)
  \/ \E m \in Messages : StartTurnRefused(m) \/ \E t \in Turns : StartTurnHandled(m, t)
  \/ CompactRefused

CallStep ==
  \E m \in Messages : \/ SendPosts(m)
                      \/ SendQueues(m)
                      \/ SendFails(m)
                      \/ \E t \in Turns : SendSucceeds(m, t) \/ ReplyLost(m, t)

EventArrives == StartedArrives \/ CompletedArrives \/ ErrorArrives

StreamStep == EventArrives \/ StreamLost \/ DetailRead \/ DetailArrives \/ StreamOpens

Next ==
  \/ AppServerStep
  \/ CallStep
  \/ StreamStep
  \/ \E i \in DOMAIN queue : RemovePending(i)
  \/ CompactStarts
  \/ CompactFails
  \/ ApplySessionLoss
  \/ ResetState

Spec == Init /\ [][Next]_vars

(* Turns end, the bridge handles posts and answers them, and the stream    *)
(* delivers.                                                               *)
Fairness ==
  /\ \A t \in Turns : WF_vars(TurnEnds(t))
  /\ \A m \in Messages :
       /\ WF_vars(StartTurnRefused(m) \/ \E t \in Turns : StartTurnHandled(m, t))
       /\ WF_vars(SendFails(m) \/ \E t \in Turns : SendSucceeds(m, t))
  /\ WF_vars(EventArrives)

FairSpec == Spec /\ Fairness

-----------------------------------------------------------------------------
(* Properties                                                              *)

\* No message is in two places: waiting twice, waiting while it is posted,
\* posted twice, or posted or waiting although it has started a turn (the head
\* leaves the queue before it is sent, and may come back).
NeverSentTwice ==
  /\ \A i, j \in DOMAIN queue : queue[i] = queue[j] => i = j
  /\ \A i \in DOMAIN queue : posts[queue[i]] = 0
  /\ \A m \in Messages : posts[m] <= 1
  /\ \A t \in Turns : startedBy[t] # None =>
       /\ posts[startedBy[t]] = 0
       /\ \A i \in DOMAIN queue : queue[i] # startedBy[t]
       /\ \A s \in Turns \ {t} : startedBy[s] # startedBy[t]

\* While drainMessageQueue holds the thread, the message it sends is under way
\* or its reply is: the flag that stops other drains cannot stay behind.
DrainIsUnderWay ==
  draining # None =>
    \/ posts[draining] > 0
    \/ \E t \in Turns \cup {None} : <<draining, t>> \in replies

Queued(m) == \E i \in DOMAIN queue : queue[i] = m

Stage(m) ==
  IF m \notin given THEN "unsent"
  ELSE IF Queued(m) THEN "waiting"
  ELSE IF posts[m] > 0 THEN "posted"
  ELSE IF \E t \in Turns : startedBy[t] = m THEN "accepted"
  ELSE IF m \in failed \/ <<m, None>> \in replies THEN "failed"
  ELSE IF m \in removed THEN "removed" ELSE "dropped"

Delivery == INSTANCE MessageDelivery
              WITH stage <- [m \in Messages |-> Stage(m)], drained <- draining,
                   compacted <- compaction # "none", signedOut <- link = "out"

\* The queue implements the delivery of messages: whatever the order of replies,
\* events and lost streams, no message vanishes, is posted twice or comes back,
\* and waiting messages go one at a time.  Only a compaction can lose a waiting
\* message, and the end of the session drops them all.
DeliversMessages == Delivery!Spec

\* Once every event and reply has arrived, the view shows as active exactly the
\* turns that run, unless an event fell between a detail and its stream or a
\* reply came after its turn had ended.
ViewSettles ==
  link = "open" /\ events = <<>> /\ ~stale /\ (\A r \in replies : r[2] = None) =>
    \A t \in Turns : view[t] = "inProgress" => upstream[t] \in {"running", "failed"}

Troubled == losses > 0 \/ failed # {} \/ compaction # "none"

\* A queued message leaves the queue, unless a stream was lost, a send failed,
\* the thread was compacted, or a reply came after the end of its turn.  The end
\* of the session empties the queue (DeliversMessages says what is lost then).
QueuedIsSent ==
  \A m \in Messages : Queued(m) ~> ~Queued(m) \/ Troubled \/ stale

\* The runtime's comment: queued messages are drained when a turn completes.
\* Whatever the order of replies and events, without troubles they are sent.
TurnEndsDrainQueue ==
  \A m \in Messages : Queued(m) ~> ~Queued(m) \/ Troubled
=============================================================================
