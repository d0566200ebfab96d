-------------------------- MODULE ApprovalRequests --------------------------
(***************************************************************************)
(* A request of the app-server for a decision of the user, on its way to   *)
(* the client and back: translated by the bridge, shown as a choice of     *)
(* buttons or as questions, and answered in the words of the method that   *)
(* asked.  Payloads are what the code tells apart; "odd" stands for        *)
(* whatever cannot be parsed.  Which tables hold a request, and for how    *)
(* long, is the module PendingRequests.                                    *)
(***************************************************************************)
EXTENDS Naturals, FiniteSets

VARIABLES
  apprAsked,    \* the request of the app-server
  apprPending,  \* the request in the table of the bridge
  apprMethod,   \* the method remembered for it
  apprShown,    \* the request as a client shows it
  apprReplies   \* pairs of the user's choice and what the app-server was told

apprVars == <<apprAsked, apprPending, apprMethod, apprShown, apprReplies>>

CommandMethods == {"item/commandExecution/requestApproval", "execCommandApproval"}
FileMethods == {"item/fileChange/requestApproval", "applyPatchApproval"}
Methods == CommandMethods \cup FileMethods \cup
           {"item/permissions/requestApproval", "item/tool/requestUserInput"}
Legacy == {"execCommandApproval", "applyPatchApproval"}

Plain == {"accept", "acceptForSession", "decline", "cancel"}
Decisions == Plain \cup {"acceptWithExecpolicyAmendment", "allowNetwork", "denyNetwork"}
Offers == {{}, {"odd"}, {"accept", "odd"}, Decisions}
Questions == {"q1", "q2"}
Nothing == [kind |-> "none"]

\* offers: availableDecisions, absent if ~offered; questions that are odd lack
\* a header, say.
Asked == [method : Methods, complete : BOOLEAN, offered : BOOLEAN, offers : Offers,
          network : BOOLEAN, permissions : BOOLEAN, policy : BOOLEAN,
          amendments : SUBSET {"allowNetwork", "denyNetwork", "odd"},
          questions : SUBSET Questions, odd : SUBSET Questions]

ApprTypeOK ==
  /\ apprAsked = Nothing \/ apprAsked \in [kind : {"asked"}, request : Asked]
  /\ apprMethod \in Methods \cup {"none"}
  /\ apprPending = Nothing \/ apprPending.kind \in {"command", "fileChange", "permissions", "userInput"}
  /\ apprShown = Nothing \/ apprShown.kind \in {"command", "fileChange", "permissions", "userInput"}

ApprInit ==
  /\ apprAsked = Nothing /\ apprPending = Nothing /\ apprMethod = "none" /\ apprShown = Nothing
  /\ apprReplies = {}

-----------------------------------------------------------------------------
(* The bridge translates a request                                         *)

toCommandApprovalDecisions(offers) == offers \ {"odd"}

\* A list of which nothing can be parsed is dropped, an empty one is kept.
toPendingRequest(r) ==
  [kind |-> CASE r.method \in CommandMethods -> "command"
              [] r.method \in FileMethods -> "fileChange"
              [] r.method = "item/permissions/requestApproval" -> "permissions"
              [] OTHER -> "userInput",
   offered |-> r.offered /\ r.method \notin Legacy
               /\ (r.offers = {} \/ toCommandApprovalDecisions(r.offers) # {}),
   offers |-> toCommandApprovalDecisions(r.offers),
   network |-> r.network /\ r.method \notin Legacy,
   permissions |-> r.permissions /\ r.method \notin Legacy,
   policy |-> r.policy /\ r.method \notin Legacy,
   amendments |-> IF r.method \in Legacy THEN {} ELSE r.amendments \ {"odd"},
   questions |-> r.questions \ r.odd]

\* A request whose ids are not all there is not answered at all.
Asks(r) ==
  /\ r.odd \subseteq r.questions
  /\ r.method = "item/commandExecution/requestApproval" \/
       (~r.offered /\ r.offers = {} /\ ~r.network /\ ~r.permissions /\ ~r.policy /\ r.amendments = {})
  /\ r.method = "item/tool/requestUserInput" \/ r.questions = {}
  /\ apprAsked' = [kind |-> "asked", request |-> r]
  /\ IF r.complete THEN apprPending' = toPendingRequest(r) /\ apprMethod' = r.method
     ELSE UNCHANGED <<apprPending, apprMethod>>
  /\ UNCHANGED <<apprShown, apprReplies>>

\* The event, or a read of the thread.
Shows ==
  /\ apprPending # Nothing /\ apprShown = Nothing
  /\ apprShown' = apprPending
  /\ UNCHANGED <<apprAsked, apprPending, apprMethod, apprReplies>>

-----------------------------------------------------------------------------
(* The choices of the client                                               *)

deriveFallbackCommandDecisions(request) ==
  CASE request.network -> {"accept", "acceptForSession", "cancel"} \cup
                          (request.amendments \cap {"allowNetwork"})
    [] ~request.network /\ request.permissions -> {"accept", "cancel"}
    [] OTHER -> {"accept", "cancel"} \cup
                (IF request.policy THEN {"acceptWithExecpolicyAmendment"} ELSE {})

\* Faulty: an empty list counts as no list.
buildCommandDecisionOptionsFilled(request) ==
  IF request.offered /\ request.offers # {} THEN request.offers
  ELSE deriveFallbackCommandDecisions(request)

buildCommandDecisionOptions(request) ==
  IF request.offered THEN request.offers ELSE deriveFallbackCommandDecisions(request)

\* For permissions: those asked for, for a turn or the session, or none.
Choices(request) ==
  CASE request.kind = "command" -> buildCommandDecisionOptions(request)
    [] request.kind = "fileChange" -> Plain
    [] request.kind = "permissions" -> {"turn", "session", "denied"}
    [] request.kind = "userInput" -> {"answers"}

-----------------------------------------------------------------------------
(* respondToRequest                                                        *)

LegacyWord(choice) ==
  CASE choice = "accept" -> "approved"
    [] choice = "acceptForSession" -> "approved_for_session"
    [] choice = "decline" -> "denied"
    [] choice = "cancel" -> "abort"
    [] choice = "acceptWithExecpolicyAmendment" -> "approved_execpolicy_amendment"
    [] OTHER -> "network_policy_amendment"

toAppServerCommandDecision(choice) ==
  IF apprMethod = "execCommandApproval" THEN LegacyWord(choice) ELSE choice

\* Faulty: the other legacy method is looked for.
toAppServerFileChangeDecisionModern(choice) ==
  IF apprMethod = "execCommandApproval" THEN LegacyWord(choice) ELSE choice

toAppServerFileChangeDecision(choice) ==
  IF apprMethod = "applyPatchApproval" THEN LegacyWord(choice) ELSE choice

\* Every question that is shown gets an answer.
Reply(request, choice) ==
  [choice |-> choice,
   told |-> CASE request.kind = "command" -> toAppServerCommandDecision(choice)
              [] request.kind = "fileChange" -> toAppServerFileChangeDecision(choice)
              [] OTHER -> choice,
   answers |-> request.questions]

\* Several clients may answer, each as often as the request is pending.  A
\* request that is no longer is refused.
RespondToRequest(choice) ==
  /\ apprShown # Nothing
  /\ choice \in Choices(apprShown)
  /\ apprPending # Nothing /\ apprPending.kind = apprShown.kind
  /\ apprReplies' = apprReplies \cup {Reply(apprShown, choice)}
  /\ UNCHANGED <<apprAsked, apprPending, apprMethod, apprShown>>

RequestResolved ==
  /\ apprAsked # Nothing
  /\ apprPending' = Nothing /\ apprMethod' = "none"
  /\ UNCHANGED <<apprAsked, apprShown, apprReplies>>

\* The method stays.
ThreadClosed ==
  /\ apprPending # Nothing
  /\ apprPending' = Nothing
  /\ UNCHANGED <<apprAsked, apprMethod, apprShown, apprReplies>>

ApprNext ==
  \/ apprAsked = Nothing /\ \E r \in Asked : Asks(r)
  \/ Shows \/ RequestResolved \/ ThreadClosed
  \/ \E choice \in Decisions \cup {"turn", "session", "denied", "answers"} : RespondToRequest(choice)

-----------------------------------------------------------------------------
(* Properties                                                              *)

\* What the app-server is told is the user's choice in the words of the method
\* that asked, one of the decisions it offered if any of them could be parsed,
\* and an answer to each question that could; and as long as it is pending, a
\* request can be answered unless the app-server offered nothing.
AnswersAreUnderstood ==
  LET r == apprAsked.request
  IN  /\ apprAsked # Nothing => \A reply \in apprReplies :
           /\ reply.told = IF r.method \in Legacy THEN LegacyWord(reply.choice) ELSE reply.choice
           /\ r.offered /\ r.offers # {"odd"} => reply.choice \in r.offers
           /\ reply.answers = r.questions \ r.odd
      /\ apprPending # Nothing => (Choices(apprPending) = {} <=> r.offered /\ r.offers = {})
=============================================================================
