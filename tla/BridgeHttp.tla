------------------------------ MODULE BridgeHttp ------------------------------
(***************************************************************************)
(* The bridge's HTTP server: which requests reach an operation, and what   *)
(* they are answered. A request is checked on arrival; its body is read    *)
(* and its operation awaited after that, while others are handled.         *)
(* What the operations do is other modules' matter: here they end well or  *)
(* with an error, and pairing, revoking and deleting change who is         *)
(* trusted.                                                                *)
(***************************************************************************)
EXTENDS Naturals, Sequences, FiniteSets

CONSTANTS
  HttpRoutes, \* the routes asked for
  Attempts,   \* RateLimiter.max
  Window,     \* RateLimiter.windowMs
  MaxTime,    \* bound on the time that passes
  MaxTries    \* bound on the attempts let through

VARIABLES
  httpNow,     \* Date.now()
  httpTrusted, \* is the device's token accepted? (one device)
  httpLimit,   \* the limiter's entry of one address
  httpRequest, \* the requests being handled, at most one by each connection
  httpTries,   \* the times of the attempts let through
  httpStreams  \* event streams open

httpVars == <<httpNow, httpTrusted, httpLimit, httpRequest, httpTries, httpStreams>>

Connections == {1, 2}

\* A route: is it public, limited, does it have a body, and what an operation's
\* failure is answered with when the error does not say.
Public(limited, body, status) == [public |-> TRUE, limited |-> limited, body |-> body, fails |-> {status}]
Own(body, status) == [public |-> FALSE, limited |-> FALSE, body |-> body, fails |-> {status}]

\* classifyAppServerError: a conflict, a bad request, or the fallback.
Classified(body) == [public |-> FALSE, limited |-> FALSE, body |-> body, fails |-> {409, 400, 502}]

PublicRoutes == [healthz |-> Public(FALSE, FALSE, 500), version |-> Public(FALSE, FALSE, 500),
                 pairing |-> Public(FALSE, FALSE, 500), complete |-> Public(TRUE, TRUE, 400),
                 refresh |-> Public(TRUE, TRUE, 401)]
DeviceRoutes == [devices |-> Own(FALSE, 500), revoke |-> Own(TRUE, 404), delete |-> Own(TRUE, 404)]
ProjectRoutes == [projects |-> Classified(FALSE), searchProjects |-> Classified(FALSE),
                  importProject |-> Classified(TRUE)]
WorkspaceRoutes == [directory |-> Classified(FALSE), file |-> Classified(FALSE), search |-> Classified(FALSE)]
ThreadRoutes == [threads |-> Own(FALSE, 502), models |-> Classified(FALSE), read |-> Classified(FALSE),
                 start |-> Classified(TRUE), rename |-> Classified(TRUE), compact |-> Classified(TRUE)]
TurnRoutes == [turn |-> Classified(TRUE), interrupt |-> Classified(TRUE), review |-> Classified(TRUE),
               respond |-> Classified(TRUE)]
EventRoute == [events |-> Own(FALSE, 200)]

Route(r) ==
  CASE r \in DOMAIN PublicRoutes -> PublicRoutes[r]
    [] r \in DOMAIN DeviceRoutes -> DeviceRoutes[r]
    [] r \in DOMAIN ProjectRoutes -> ProjectRoutes[r]
    [] r \in DOMAIN WorkspaceRoutes -> WorkspaceRoutes[r]
    [] r \in DOMAIN ThreadRoutes -> ThreadRoutes[r]
    [] r \in DOMAIN TurnRoutes -> TurnRoutes[r]
    [] r = "events" -> EventRoute.events

Idle == [at |-> "idle"]
\* known: was the token accepted when the request came?
Statuses == {200, 400, 401, 404, 409, 429, 500, 502}

HttpTypeOK ==
  /\ httpNow \in 0 .. MaxTime /\ httpTrusted \in BOOLEAN
  /\ httpLimit \in [count : 0 .. MaxTries + Cardinality(Connections) + 1, resetAt : 0 .. MaxTime + Window]
  /\ httpRequest \in [Connections -> {Idle} \cup [at : {"body", "operation", "answered"}, route : HttpRoutes,
                                                  known : BOOLEAN, status : Statuses \cup {0}]]
  /\ \A c \in Connections : httpRequest[c].at = "answered" => httpRequest[c].status # 0
  /\ httpTries \in Seq(0 .. MaxTime) /\ Len(httpTries) <= MaxTries
  /\ httpStreams \in 0 .. Cardinality(Connections)

HttpInit ==
  /\ httpNow = 0 /\ httpTrusted = FALSE
  /\ httpLimit = [count |-> 0, resetAt |-> 0]
  /\ httpRequest = [c \in Connections |-> Idle]
  /\ httpTries = <<>> /\ httpStreams = 0

-----------------------------------------------------------------------------
(* RateLimiter.check: the first attempt after the window opens the next    *)

Admits == httpNow >= httpLimit.resetAt \/ httpLimit.count + 1 <= Attempts

\* Faulty: an attempt that is refused starts the count again.
CountsAnew ==
  /\ httpLimit' = IF httpNow >= httpLimit.resetAt THEN [count |-> 1, resetAt |-> httpNow + Window]
                  ELSE [httpLimit EXCEPT !.count = IF Admits THEN @ + 1 ELSE 0]
  /\ httpTries' = IF Admits THEN Append(httpTries, httpNow) ELSE httpTries

\* The count is not followed beyond Attempts + 1, which refuses just the same.
Counts ==
  /\ httpLimit' = IF httpNow >= httpLimit.resetAt THEN [count |-> 1, resetAt |-> httpNow + Window]
                  ELSE [httpLimit EXCEPT !.count = IF @ > Attempts THEN @ ELSE @ + 1]
  /\ httpTries' = IF Admits THEN Append(httpTries, httpNow) ELSE httpTries

Passes ==
  /\ httpNow < MaxTime /\ httpNow' = httpNow + 1
  /\ UNCHANGED <<httpTrusted, httpLimit, httpRequest, httpTries, httpStreams>>

-----------------------------------------------------------------------------
(* #handleRequest                                                          *)

Turns(c, route, at, known, status) ==
  httpRequest' = [httpRequest EXCEPT ![c] = [at |-> at, route |-> route, known |-> known, status |-> status]]

\* What is let through is read, or goes on to its operation.
Enters(c, route, known) == Turns(c, route, IF Route(route).body THEN "body" ELSE "operation", known, 0)

HandlePublicRoutes(c, route) ==
  /\ Route(route).public
  /\ IF Route(route).limited
     THEN /\ Len(httpTries) < MaxTries /\ Counts
          /\ IF Admits THEN Enters(c, route, FALSE) ELSE Turns(c, route, "answered", FALSE, 429)
     ELSE Enters(c, route, FALSE) /\ UNCHANGED <<httpLimit, httpTries>>

\* authenticateBridgeRequest, before the route is looked for
HandleProtectedRoutes(c, route) ==
  /\ ~Route(route).public
  /\ IF httpTrusted THEN Enters(c, route, TRUE) ELSE Turns(c, route, "answered", FALSE, 401)
  /\ UNCHANGED <<httpLimit, httpTries>>

Request(c, route) ==
  /\ httpRequest[c].at = "idle"
  /\ HandlePublicRoutes(c, route) \/ HandleProtectedRoutes(c, route)
  /\ UNCHANGED <<httpNow, httpTrusted, httpStreams>>

\* Faulty: an unreadable body is answered with nothing.
ReadJsonBodySilently(c) ==
  /\ httpRequest[c].at = "body"
  /\ LET r == httpRequest[c]
     IN  Turns(c, r.route, "operation", r.known, 0) \/ Turns(c, r.route, "answered", r.known, 0)
  /\ UNCHANGED <<httpNow, httpTrusted, httpLimit, httpTries, httpStreams>>

\* readJsonBody: what is no JSON, or not what the route takes, is refused.
ReadJsonBody(c) ==
  /\ httpRequest[c].at = "body"
  /\ LET r == httpRequest[c]
     IN  \/ Turns(c, r.route, "operation", r.known, 0)
         \/ Turns(c, r.route, "answered", r.known, 400)
         \/ Turns(c, r.route, "answered", r.known, IF 400 \in Route(r.route).fails THEN 400
                                                   ELSE CHOOSE s \in Route(r.route).fails : TRUE)
  /\ UNCHANGED <<httpNow, httpTrusted, httpLimit, httpTries, httpStreams>>

\* External: completing a pairing trusts the device, revoking or deleting it no longer.
Trusts(route) == CASE route = "complete" -> TRUE
                   [] route \in {"revoke", "delete"} -> FALSE
                   [] OTHER -> httpTrusted

OperationEnds(c) ==
  /\ httpRequest[c].at = "operation" /\ httpRequest[c].route # "events"
  /\ LET r == httpRequest[c]
     IN  \/ Turns(c, r.route, "answered", r.known, 200) /\ httpTrusted' = Trusts(r.route)
         \/ /\ \E status \in Route(r.route).fails : Turns(c, r.route, "answered", r.known, status)
            /\ UNCHANGED httpTrusted
  /\ UNCHANGED <<httpNow, httpLimit, httpTries, httpStreams>>

\* The headers go out before the client is added; a stream that fails is ended
\* with an event. One that is added stays, whatever becomes of its device.
HandleEventRoute(c) ==
  /\ httpRequest[c].at = "operation" /\ httpRequest[c].route = "events"
  /\ Turns(c, "events", "answered", httpRequest[c].known, 200)
  /\ \/ httpStreams < Cardinality(Connections) /\ httpStreams' = httpStreams + 1
     \/ UNCHANGED httpStreams
  /\ UNCHANGED <<httpNow, httpTrusted, httpLimit, httpTries>>

\* The answer is received, or the connection lost.
Ends(c) ==
  /\ httpRequest[c].at = "answered"
  /\ httpRequest' = [httpRequest EXCEPT ![c] = Idle]
  /\ UNCHANGED <<httpNow, httpTrusted, httpLimit, httpTries, httpStreams>>

StreamCloses ==
  /\ httpStreams > 0 /\ httpStreams' = httpStreams - 1
  /\ UNCHANGED <<httpNow, httpTrusted, httpLimit, httpRequest, httpTries>>

HttpNext ==
  \/ Passes \/ StreamCloses
  \/ \E c \in Connections : \/ ReadJsonBody(c) \/ OperationEnds(c) \/ HandleEventRoute(c) \/ Ends(c)
                            \/ \E route \in HttpRoutes : Request(c, route)

-----------------------------------------------------------------------------
\* Whatever time an address lets pass between its attempts to pair or refresh,
\* no window of that length lets through more than those of the two windows it
\* may overlap.
AttemptsAreBounded ==
  \A i, j \in DOMAIN httpTries :
    i <= j /\ httpTries[j] < httpTries[i] + Window => j - i + 1 <= 2 * Attempts
=============================================================================
