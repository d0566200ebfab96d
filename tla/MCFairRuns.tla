----------------------------- MODULE MCFairRuns -----------------------------
(* The streams of a thread, the requests pending on another and the queue  *)
(* of messages of a client.  They share nothing, and each behaviour takes  *)
(* the steps of one of them, part; the others rest in their initial        *)
(* states, where nothing is under way that fairness would have to end.     *)
EXTENDS ThreadEventStreamRegistry

CONSTANTS
  c1, c2, c3, t1,
  Requests, Known, New, Runtimes, MaxReplays, MaxResponses,
  SentMessages, MaxTurns, MaxTroubles, None

MCClients == {c1, c2, c3}
MCThreadOf == [c \in MCClients |-> t1]

VARIABLES
  part,
  upstream, replays, pipe, listed, byId, methods, answers, detection, listing, link,
  interrupted, events, shown, responding, posts, attempts,
  turns, startedBy, turnEvents, turnLink, snapshot, losses, view, stale, queue, draining,
  turnPosts, replies, compacting, compaction, given, failed, removed

pendingVars ==
  <<upstream, replays, pipe, listed, byId, methods, answers, detection, listing, link,
    interrupted, events, shown, responding, posts, attempts>>

queueVars ==
  <<turns, startedBy, turnEvents, turnLink, snapshot, losses, view, stale, queue, draining,
    turnPosts, replies, compacting, compaction, given, failed, removed>>

Pending == INSTANCE PendingRequests
             WITH Clients <- Runtimes, Threads <- {Known, New}, Undetected <- {New},
                  ThreadOf <- [r \in Requests |-> Known], Supported <- Requests

Queue == INSTANCE ThreadMessageQueue
           WITH Messages <- SentMessages, upstream <- turns, events <- turnEvents,
                link <- turnLink, posts <- turnPosts

PartInit ==
  /\ part \in {"streams", "requests", "queue"}
  /\ Init /\ Pending!Init /\ Queue!Init

PartNext ==
  /\ UNCHANGED part
  /\ \/ part = "streams" /\ Next /\ UNCHANGED <<pendingVars, queueVars>>
     \/ part = "requests" /\ Pending!Next /\ UNCHANGED <<vars, queueVars>>
     \/ part = "queue" /\ Queue!Next /\ UNCHANGED <<vars, pendingVars>>

PartSpec ==
  /\ PartInit /\ [][PartNext]_<<part, vars, pendingVars, queueVars>>
  /\ Fairness /\ Pending!Fairness /\ Queue!Fairness

\* A request that was answered is forgotten (PendingRequests).
AnsweredIsForgotten == Pending!AnsweredIsForgotten

\* A queued message leaves the queue (ThreadMessageQueue).
QueuedIsSent == Queue!QueuedIsSent
=============================================================================
