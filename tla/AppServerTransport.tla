------------------------- MODULE AppServerTransport -------------------------
(***************************************************************************)
(* The JSON-RPC connection to the codex app-server, a child process that   *)
(* answers the calls written to its stdin in any order, and the client     *)
(* that makes the calls.  Calls are numbers in the order they are made.    *)
(* A line that is no JSON ends the bridge, and is left out, as is a child  *)
(* that cannot be spawned.                                                 *)
(***************************************************************************)
EXTENDS Naturals, Sequences, FiniteSets

CONSTANTS MaxCalls  \* bound on the calls made

ASSUME RpcAssumption == MaxCalls \in Nat

VARIABLES
  rpcCalls,     \* the calls made: method, id, how the promise was settled, and by which answer
  rpcPending,   \* #pendingRequests: the call that waits for the id, 0 if none does
  rpcUnread,    \* calls the child has read and not answered
  rpcLines,     \* answers in the pipe
  rpcChild,     \* the child runs, has died, and its exit event was handled
  rpcClose,     \* progress of close()
  rpcInit,      \* #initialized
  rpcBridge     \* the bridge runs, or was ended by an error event nobody listens to

rpcVars == <<rpcCalls, rpcPending, rpcUnread, rpcLines, rpcChild, rpcClose, rpcInit, rpcBridge>>

RpcCalls == 1 .. MaxCalls
Methods == {"initialize", "read", "summary", "other"}
Answers == {"result", "error", "unmaterialized"}
Made == 1 .. Len(rpcCalls)

RpcTypeOK ==
  /\ rpcCalls \in Seq([method : Methods, id : RpcCalls, by : RpcCalls \cup {0},
                       end : Answers \cup {"waits", "exit"}, late : BOOLEAN])
  /\ Len(rpcCalls) <= MaxCalls
  /\ rpcPending \in [RpcCalls -> RpcCalls \cup {0}]
  /\ rpcUnread \subseteq RpcCalls
  /\ rpcLines \in Seq([call : RpcCalls, answer : Answers])
  /\ rpcChild \in {"runs", "died", "exited"}
  /\ rpcClose \in {"no", "waits", "killed", "done"}
  /\ rpcInit \in BOOLEAN
  /\ rpcBridge \in {"runs", "ended"}

RpcInit ==
  /\ rpcCalls = <<>> /\ rpcPending = [i \in RpcCalls |-> 0] /\ rpcUnread = {} /\ rpcLines = <<>>
  /\ rpcChild = "runs" /\ rpcClose = "no" /\ rpcInit = FALSE /\ rpcBridge = "runs"

-----------------------------------------------------------------------------
(* sendRequest                                                             *)

\* Faulty: ids of settled calls are given again.
NextIdReused == 1 + Cardinality({i \in RpcCalls : rpcPending[i] # 0})

NextId == Len(rpcCalls) + 1

\* A write to a child that died raises an error event before the exit is
\* handled, and is lost without one afterwards, as stdin is destroyed then; a
\* write after close() has ended stdin raises one too.
WriteCall(call) ==
  CASE rpcChild = "exited" -> UNCHANGED <<rpcUnread, rpcBridge>>
    [] rpcChild # "exited" /\ rpcClose # "no" -> rpcBridge' = "ended" /\ UNCHANGED rpcUnread
    [] rpcChild = "died" /\ rpcClose = "no" -> rpcBridge' \in {"runs", "ended"} /\ UNCHANGED rpcUnread
    [] OTHER -> rpcUnread' = rpcUnread \cup {call} /\ UNCHANGED rpcBridge

\* One more call, to the calls and the table given.
SendRequest(calls, pending, method) ==
  /\ rpcCalls' = Append(calls, [method |-> method, id |-> NextId, by |-> 0, end |-> "waits",
                                late |-> rpcChild = "exited"])
  /\ rpcPending' = [pending EXCEPT ![NextId] = Len(calls) + 1]
  /\ WriteCall(Len(calls) + 1)

\* initialize twice, or any other method before it has returned, throws.
Call(method) ==
  /\ rpcBridge = "runs"
  /\ Len(rpcCalls) < MaxCalls
  /\ rpcInit = (method # "initialize")
  /\ SendRequest(rpcCalls, rpcPending, method)
  /\ UNCHANGED <<rpcLines, rpcChild, rpcClose, rpcInit>>

-----------------------------------------------------------------------------
(* The child                                                               *)

ChildAnswers(call, answer) ==
  /\ rpcBridge = "runs" /\ rpcChild = "runs"
  /\ call \in rpcUnread
  /\ answer = "unmaterialized" => rpcCalls[call].method = "read"
  /\ rpcUnread' = rpcUnread \ {call}
  /\ rpcLines' = Append(rpcLines, [call |-> call, answer |-> answer])
  /\ UNCHANGED <<rpcCalls, rpcPending, rpcChild, rpcClose, rpcInit, rpcBridge>>

\* What it has written is still read.
ChildDies ==
  /\ rpcBridge = "runs" /\ rpcChild = "runs"
  /\ rpcChild' = "died"
  /\ rpcUnread' = {}
  /\ UNCHANGED <<rpcCalls, rpcPending, rpcLines, rpcClose, rpcInit, rpcBridge>>

-----------------------------------------------------------------------------
(* handleLine                                                              *)

\* A read that fails because the thread is not materialized is made again,
\* without its turns.
HandleLine ==
  /\ rpcBridge = "runs"
  /\ rpcLines # <<>>
  /\ rpcLines' = Tail(rpcLines)
  /\ LET line == Head(rpcLines)
         id == rpcCalls[line.call].id
         waiting == rpcPending[id]
         settled == [rpcCalls EXCEPT ![waiting].end = line.answer, ![waiting].by = line.call]
     IN  IF rpcClose # "no" \/ waiting = 0
         THEN UNCHANGED <<rpcCalls, rpcPending, rpcUnread, rpcInit, rpcBridge>>
         ELSE IF line.answer = "unmaterialized"
         THEN /\ Len(rpcCalls) < MaxCalls
              /\ SendRequest(settled, [rpcPending EXCEPT ![id] = 0], "summary")
              /\ UNCHANGED rpcInit
         ELSE /\ rpcCalls' = settled
              /\ rpcPending' = [rpcPending EXCEPT ![id] = 0]
              /\ rpcInit' = (rpcInit \/ (settled[waiting].method = "initialize" /\ line.answer = "result"))
              /\ UNCHANGED <<rpcUnread, rpcBridge>>
  /\ UNCHANGED <<rpcChild, rpcClose>>

\* Faulty: the calls are forgotten, but nobody is told.
HandleExitSilently ==
  /\ rpcBridge = "runs" /\ rpcChild = "died"
  /\ rpcChild' = "exited"
  /\ rpcPending' = [i \in RpcCalls |-> 0]
  /\ rpcClose' = IF rpcClose = "no" THEN "no" ELSE "done"
  /\ UNCHANGED <<rpcCalls, rpcUnread, rpcLines, rpcInit, rpcBridge>>

\* The exit event may come before the last lines of stdout.
HandleExit ==
  /\ rpcBridge = "runs" /\ rpcChild = "died"
  /\ rpcChild' = "exited"
  /\ rpcCalls' = [c \in Made |-> IF \E i \in RpcCalls : rpcPending[i] = c
                                 THEN [rpcCalls[c] EXCEPT !.end = "exit"] ELSE rpcCalls[c]]
  /\ rpcPending' = [i \in RpcCalls |-> 0]
  /\ rpcClose' = IF rpcClose = "no" THEN "no" ELSE "done"
  /\ UNCHANGED <<rpcUnread, rpcLines, rpcInit, rpcBridge>>

-----------------------------------------------------------------------------
(* close                                                                   *)

CloseTransport ==
  /\ rpcBridge = "runs" /\ rpcClose = "no"
  /\ rpcClose' = IF rpcChild = "exited" THEN "done" ELSE "waits"
  /\ UNCHANGED <<rpcCalls, rpcPending, rpcUnread, rpcLines, rpcChild, rpcInit, rpcBridge>>

Kill ==
  /\ rpcBridge = "runs" /\ rpcClose = "waits"
  /\ rpcClose' = "killed"
  /\ UNCHANGED <<rpcCalls, rpcPending, rpcUnread, rpcLines, rpcChild, rpcInit, rpcBridge>>

RpcNext ==
  \/ \E method \in Methods : Call(method)
  \/ \E call \in RpcCalls, answer \in Answers : ChildAnswers(call, answer)
  \/ ChildDies \/ HandleLine \/ HandleExit \/ CloseTransport \/ Kill

RpcSpec == RpcInit /\ [][RpcNext]_rpcVars

-----------------------------------------------------------------------------
(* Properties                                                              *)

\* Whatever order the child answers in, and whenever it dies or is closed: a
\* call gets the answer to itself and no other, and once the exit was handled
\* no call waits that was made before it.
CallsSettleRight ==
  \A c \in Made :
    /\ rpcCalls[c].by \in {0, c}
    /\ rpcChild = "exited" /\ ~rpcCalls[c].late => rpcCalls[c].end # "waits"

\* A call that was settled stays as it was settled: no answer that comes late,
\* no exit and no call that is given its number settles it again.
SettledStay == \A c \in Made : rpcCalls[c].end # "waits" => rpcCalls'[c] = rpcCalls[c]
CallsSettleOnce == [][SettledStay]_rpcVars
=============================================================================
