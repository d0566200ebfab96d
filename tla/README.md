# Verification of my-codex-app

my-codex-app lets a phone or a browser follow and drive the Codex sessions of a
computer. A *bridge* (`apps/bridge`, one Node process) runs the Codex
*app-server* as a child process, talks JSON-RPC to it over two pipes, and offers
its *clients* (`apps/client` on top of `packages/sdk`) an HTTP API and
server-sent event streams. Other programs, such as the terminal UI of Codex,
write the same sessions on disk.

This directory holds TLA+ models of that system, TLC runs that check them on
small instances, and TLAPS proofs of what matters most for instances of any size.
`PROJECT.json` lists the components, runs, mutants, the map from definitions to
source lines, the findings, the hazards and the theorems.

## Inventory

| Component | State | Operations | What is hard, and what makes it correct |
|---|---|---|---|
| Per-thread event streams (`threadEventStreamRegistry.ts`, `/api/events` of `bridgeServer.ts`) | clients, subscriber count, unsubscribe timer per thread | addClient (resumes the thread), removeClient, broadcast, delayed unsubscribe, close | every operation awaits the app-server in the middle: joins, failures and closes interleave. Counts must match clients, broadcasts go to live clients only, an abandoned thread is unsubscribed in the end |
| Global event streams (same files) | global clients, one change detector, the promise of its start | addGlobalClient, removeGlobalClient, broadcast, close | two streams may start the detector together, one may leave while it starts. One detector watches, and it runs while there are clients |
| Thread change detector (`threadChangeDetector.ts`, `rolloutStatusInference.ts`) | cache of summaries, debounce timer, processing flag, watcher | start, file event, diff, close, scan of a rollout | list, infer and diff are spread over awaits while files keep changing. Listeners must agree with the cache, changes must show, a scan must see whole lines |
| Pending requests (`pendingRequestState.ts`, `threadRuntimeCache.ts`, `threadEventTranslator.ts`, `threadService.ts`) | list per thread, index by id, method by id | request, resolved, thread closed, respond | answers, resolutions and replays cross; two clients answer. Tables agree, follow the app-server and reach the clients; answers are in the words of the method that asked |
| Thread service (`threadService.ts`, `threadMappers.ts`, `rolloutTokenUsage.ts`) | settings, context usage, command output caches | list, resume, start turn, unsubscribe, settings | settings read before an await are written after it; the scan of a rollout overtaken by live usage |
| App-server transport (`jsonRpcProcessClient.ts`, `appServerClient.ts`) | pending JSON-RPC calls, child process | call, answer, exit, close | replies, exit and close race; each call settles once, by its own answer |
| Device trust (`deviceTrustStore.ts`, `authService.ts`) | one trust file: pairing code, devices, tokens | pair, refresh (rotation), revoke, delete | written by the daemon and by the CLI without a lock, in two steps; crashes |
| Daemon (`server.ts`, `daemon/`) | lock file, manifest, port | start, stop, signals | stale locks and manifests, two daemons starting, a stop that outlives its daemon |
| HTTP server (`bridgeServer.ts`, `http.ts`) | rate limiter, open streams | requests | checks before a body is read and an operation awaited, attempts at the edge of a window |
| CLI and configuration (`cli/index.ts`, `server/config.ts`) | config file | config, run, start, stop, pair, devices, projects | four sources of a value, and flags handed on to a spawned daemon; files shared with the daemon |
| Projects (`projectService.ts`, `projectRegistryStore.ts`, `use-project-home.ts`) | project file, list shown | import, remove, list | calls overlap over one file; listings overtake an import |
| Workspace browser (`workspaceService.ts`, `use-workspace-browser.ts`) | tree and preview of a client | list, read, open a path | shared and forced listings, reads that overtake each other |
| SDK thread runtime (`sdk/threadRuntime.ts`) | connection state, selected thread, event buffer | connect, resync, select, reconnect | a resync is a chain of awaits during which selection and streams change |
| SDK message queue (same file) | messages per thread, set of draining threads | send, enqueue, drain, remove | turn events, replies and failed sends cross: no message may be lost, doubled or stuck |
| SDK thread state (`sdk/threadState.ts`) | none (pure) | merge events, turns and items | events applied to a detail that has them already |
| SDK bridge client (`sdk/bridgeClient.ts`) | credentials, one refresh in flight | requests with refresh, SSE parsing | many expired requests, several tabs over one store |
| Client UI (`apps/client`) | composer text, settings draft, popups, hooks | type, send, run commands, choose settings | a draft outlives changes of the settings it was taken from; late answers of searches and sends |
| Protocol types, mobile shell | none | | see *Not modelled* |

How they interact: notifications and requests of the app-server become bridge
events (`threadEventTranslator`), which the registry broadcasts to the streams;
the registry calls the app-server when streams come and go; global streams start
and stop the detector, whose events go through the same broadcast; the SDK
runtime folds events into its snapshot, lists everything anew after an
interruption, and posts the users' commands.

## What is modelled

The bridge is a single Node thread, so code between two awaits is one action, and
an operation with n awaits is n + 1 actions with a record of where it stands.
JSON-RPC calls travel over ordered pipes: the app-server's state changes when a
call is written and the reply comes in a later action.

### `ThreadEventStreamRegistry`

The streams of threads. `stream` is the place of each client's request
(`new`, `resuming`, `open`, `gone`), `eventClients`, `subscriberCounts` and `timers`
are the registry's tables, `checks` the unload checks awaiting
`canUnloadThread`, `subscribed` the app-server's side. `AddClientResumes`,
`AddClientJoins` and `AddClientRefused` are addClient up to its first await,
`ResumeReturns` and `ResumeThrows` its rest; `PeerClosesEarly`/`PeerCloses` are the
request's close event before and after `clientAdded` (`peerClosed`): a stream whose peer goes away while its resume is awaited
is joined when that returns, and stays counted for ever (`Leaked`), which is what the code does; `UnsubscribeTimerFires`,
`CheckSaysBusy` and `CheckSaysIdle` are the delayed unsubscribe; `BroadcastDrops` is the
`catch` of broadcast; `Close` is close. Left out: the retry counter for failed unload checks,
whose branch cannot be reached because canUnloadThread never throws.

### `ThreadChangeDetector` and `GlobalEventStreams`

`ThreadChangeDetector` models detectors and what they watch: `disk` is what the rollout
files say, changed by other processes at any time (`DiskChanges`, at most `MaxChanges`
times); `fsEvent`, `timer` and `work` are the undelivered file event, the debounce
timer and the stage of handleChange; `newMap` and `unread` its local variables;
`cache` the detector's map. `told` is a history variable: what a listener that applied
`updateThreadSummaryState` to the baseline and to every event would show.
`GlobalEventStreams` EXTENDS it with the registry's side: the global clients, the detector assigned,
the lock of its start, and the route's two close events.

Assumptions: while it watches, the watcher reports every change; a listing and
its reply are one step; closing the watcher waits for no I/O, so the cache is emptied
at once; only threads the app-server has not loaded are listed (loaded ones carry
their own status), and every rollout file holds a lifecycle event. Debouncing is untimed: the timer fires at any
moment after it was set.

### `PendingRequests`

Requests, notifications and answers on the two pipes of the app-server (`pipe`,
`answers`), the bridge's tables (`listed`, how often a request is in its thread's list;
`byId`; `methods`), the events on each client's global stream and its thread list
(`events`, `shown`), and responses over HTTP (`responding`, `posts`). The app-server is external and
modelled from `docs/reference/2026-04-11-codex-upstream-integration-guide.md`: it
reports a request resolved when it is answered or when its turn ends, sends open requests again when a
thread is resumed, and takes the first answer. Lists hold a count per request, which is all that the
properties tell apart: ids are never reused, so a request belongs to one thread. Any interruption of a client's stream ends in a
resync, which lists first and opens the stream afterwards. The kind of a response always matches its request,
because the client copies it from the request shown. The detector appears with
the two moments that matter here, the listing and the announcement of a new thread.
The selected thread's own copy of its requests is not modelled.

### `ThreadMessageQueue`

The messages of the selected thread in one SDK runtime. `upstream` and `startedBy` are the turns at
the app-server, `events` its events on the stream, `view` the status of each turn in the runtime's detail;
`queue` is `pendingMessages`, `draining` the message that holds the thread in `drainingThreads`, `posts` and
`replies` the calls of startTurn under way, `compacting` the entry in `compactingThreadIds`. `given`, `failed`, `removed`
and `stale` are history. `SendPosts` and `SendQueues` are sendMessage up to its await,
`SendSucceeds` (applyStartedTurn) and `SendFails` its rest; `StartedArrives`,
`CompletedArrives` and `ErrorArrives` are onEvent, the last two with the whole drain, whose sendMessage may
post, queue again at the end, or throw; `StreamLost`, `DetailRead`, `DetailArrives` and `StreamOpens` are
the part of a resync that touches turns; `ApplySessionLoss` and `ResetState` are the two ends of a session, which rebuild the snapshot without
the messages that wait. Replies and events travel separately, so any order is possible.

Assumptions: the app-server starts a turn for each message it accepts, for a compaction, and for other
clients, and a final error is followed by the turn's completion; errors that will be retried are
left out; the model ends with the session, because what is selected next is `ThreadRuntime`'s subject (resetState also forgets what drains, so that
the `finally` of a drain that was under way could delete the mark of a later session's drain: that is not modelled); turns are numbered in the order they start, and turns of others leave enough numbers for the messages (`Spare`), so that
the bound never blocks a message. `MaxTroubles` bounds lost streams, failed sends and compactions together.

`MessageDelivery` is the abstract specification of the queue: a message is posted at once or waits; a waiting
one is posted, one at a time, or taken back; a posted one is accepted or fails, once, and never waits
again; only after a compaction may a waiting one be dropped, and the end of the session drops all that wait. `DeliversMessages` says that the queue implements it,
with `Stage` computed from the queue, the posts, the turns and the replies.

### `ThreadRuntime`

The rest of `BridgeThreadRuntime`: `rt` is its snapshot and private fields as one record, and its methods are operators
from record to record, composed the way the code calls them; a JavaScript task is one action. `upstream` counts the events of each
thread at the bridge; a detail is the set of the events that it shows. Reads (`loads`, and `read` of a resync) are waiting for
credentials, sent, or answered with what the bridge had when it answered; streams are connecting, opening or open, with what was sent on
them. `excused` is history: events that no stream carried, or that the answer to an older read took back. Left out: dispose, clock
skew, the errors of single requests other than reads. A pairing is made only while no refresh is in flight. `Fairness` assumes that requests and streams are answered, timers fire,
and that the user comes back to the window (`RetryConnection`, the provider's focus and online listeners), without which a runtime that
gave up stays `unreachable` by design.

### The parts: modules that share no state

Each of the following models a component that shares no variable with the others. So that one run can check them all, their variables
carry a prefix, and `MCParts` composes them: a behaviour picks one part and takes its steps.

| Module | What it models | Main properties |
|---|---|---|
| `DeviceTrust` | the trust file under daemon and CLI, each write a truncation and a write, with crashes | `SpentStaysSpent` |
| `SessionRefresh` | tabs that share credentials: single flight, recovery from another tab's refresh, losses, the provider | `StoreIsCurrent`, `TabsSignIn` |
| `DaemonLifecycle` | lock, manifest and port of daemons that start, die, are killed and stopped | `LockIsExclusive`, `RunningIsFound` |
| `BridgeConfig` | flags, file, environment and defaults; what start hands on | `SpawnedAsAsked`, `SetIsEffective` |
| `AppServerTransport` | JSON-RPC calls, answers in any order, exit and close | `CallsSettleRight` |
| `BridgeHttp` | routes, limiter, authentication, bodies, errors | `AttemptsAreBounded` |
| `ThreadCaches` | settings and usage of a thread, and the calls that change them | `SettingsAgree`, `LiveUsageWins` |
| `ThreadDetailState` | the read of a turn and the events applied to it | `TurnConverges` |
| `ApprovalRequests` | translation of approvals and questions, and of answers | `AnswersAreUnderstood` |
| `RolloutScan` | the two backward scans of a growing file, in chunks | `ScanFindsLast` |
| `Projects` | the project file, its service, the CLI, the client's hook | `ImportsAreKept`, `ImportsAreShown` |
| `WorkspaceBrowser` | confined reads and the hook with its tree and preview | `LoadingIsUnderWay`, `PreviewIsOfSelection` |
| `ComposerInput` | text box, popups, file search, commands and sends | `MatchesAnswerQuery` |
| `ComposerSettings` | the draft of settings and what is sent of it | `OverridesAreChosen` (violated) |

The composer is mounted anew for every thread shown (the `key` in `thread-detail-panel.tsx`), so `Remounts` starts both of its modules over. A file search
is answered for the query as the bridge spells it (`Normalised`). In `ThreadDetailState` the stream may open before or after the read is answered, as in
`performResync` and `#loadSelectedThread`; the events sent after an answer that came first, until the stream opens, are in neither (`turnMissed`), and
`TurnConverges` claims nothing of what such an event would have told if no later one tells it: the end of the turn is then missing from the view until
the next resync. That gap is the code's, and the same `DetailIsComplete` excuses.

Several of these properties have an exception, kept as a history variable and named in the property: the code gives up there,
and the exception says where. Two processes that write the trust or project file at the same time (`overlap`, `projOverlaps`); a refresh
whose reply is lost after the rotation (`sessTroubles`), which leaves the device to be paired again although the acceptance criteria of
`docs/specs/2026-04-11-local-direct-reconnect-and-resync.md` ask for expiry to be recovered without; two processes that look at the lock
at the same time, a daemon that cannot listen and releases the lock twice, a stop that outlives its daemon (`daemonFaults`); values
that a command line cannot hand on (empty, beginning with a dash, an empty list); overlapping startTurns (`strayed`); calls made
after the app-server's exit, which never settle (`late`). A signal that arrives while the daemon gets ready is taken to arrive after the
manifest was written.

## Runs

All bounds are constants of the instances in the `MC*` modules and configurations.

| Run | Question | Result |
|---|---|---|
| `fair_runs` | with resumes and unsubscribes that may be refused, are there no phantom subscribers but leaked streams, and no broadcasts to streams that are gone? is an abandoned thread unsubscribed, an answered request forgotten, a queued message sent? | holds, the second question under fairness |
| `registry_unsubscribe_race` | is a thread unsubscribed only when nobody streams it? | **violated** |
| `change_detection` | one watcher, streams served, listeners agree with the cache, accepted changes are reported | holds |
| `detector_missed_change` | does every change show in the end? | **violated** |
| `detector_without_clients` | does the detector run only while a stream is connected? | **violated** |
| `pending_requests` | do the tables agree, follow the app-server and reach clients, with replays, closes, lost streams and announcements? | holds |
| `pending_stale_announcement` | does every connected client show what waits for it? | **violated** |
| `message_queue` | with lost streams, failed sends, a compaction and a session that ends, does the queue implement `MessageDelivery`, is a drain left open, a dead turn shown as active? | holds |
| `message_queue_stuck` | is every queued message sent, whatever the order of replies and events? | **violated** |
| `thread_runtime_live` | after a failure anywhere and an expiry, does the runtime get back? do stream and detail stay those of the selected thread, and is a settled detail complete? | holds, the first under fairness |
| `parts` | the properties of the parts above, but for `OverridesAreChosen` | holds |
| `composer_overrides` | does a message override only what its user chose? | **violated** |

`fair_runs` and `parts` compose models that share nothing, so that one exploration answers several questions; each
behaviour takes the steps of one of them, and the others rest in their initial states.

**Bounds.** The registry runs use three streams of one thread, so that one can resume while
another joins and a third leaves. The
detector runs use two streams (hence two detectors that may overlap), one file and one change after the
baseline: the races of the detector are between one change and one diff, and files are diffed independently. The
pending-request run has two requests of one thread, one of a method the bridge does
not know, and a third in a thread the detector has yet to announce; one replay, one answer, one
client. In `fair_runs` there is one request, two clients, two responses and one replay, which covers a retry by one user and two
answers by two. The message queue has two messages and three turns: one turn of another client, or of a compaction, to queue
behind, and one for each message. `message_queue` allows two troubles, so any pair of them
meets; `fair_runs` and `message_queue_stuck` allow none, because their properties excuse them. `thread_runtime_live` has two threads to select
or leave with one event each, one read by selectThread beside the resync's, one failure, one expiry and one attempt to reconnect: enough for
reads of one thread, or of two, to overtake each other and the stream, and for the failure and the expiry together to use the attempts up. Once
something has failed or expired the second thread (`Untroubled`) is out of use (`Bounded`): recovery does not depend on which of two threads is
selected, and what overlapping selections do is explored before. In `parts`: two devices, three tokens and two codes; two tabs and three sessions; three processes; three calls;
two calls of the service; two items with a delta each; three lines of three cells read in chunks of two, so that chunks cut lines at every
place; two project commands; two loaded files and two listings; two searches, one call and four queries of the composer, of which the bridge spells one like another; two changes of settings;
four routes (public, two that change trust, one stream), one attempt in a window of two ticks over four ticks. Deadlock is not checked because in every model everything may
come to rest: all streams closed, all requests answered.

**Fairness.** `fair_runs` assumes that timers fire, that the app-server answers a call that is under way (resume,
unsubscribe, the unload check), that a thread is not busy for ever, that both ends of the pipes are read, that turns end, that a post is
handled and answered, and that the stream delivers; none of it forces a client to come or
go, a user to send, or another client to start turns. `EventuallyUnsubscribed` excuses a thread whose last unsubscribe was refused, which nothing
tries again, and one with a leaked stream; `QueuedIsSent` excuses a session that ends and finding 5. `change_detection` and `detector_missed_change` assume weak fairness of the event
loop (file events delivered, the debounce timer, each stage of handleChange); nothing
makes other processes write. Listings that fail are allowed for in the property. `message_queue_stuck` assumes the same of turns, posts and the stream as
`fair_runs`; `thread_runtime_live` is described with its module.

### Findings

1. `attemptThreadUnsubscribe` checks the count before `await canUnloadThread` and not after it: a
   client that joins meanwhile keeps an open stream of a thread that is unsubscribed.
2. The detector drops file events while it works, so a change made after its listing stays
   unseen until the next one.
3. A stream that closes while its detector starts is counted for ever: the detector goes on
   without clients.
4. A new thread is announced with a summary listed before several awaits; the
   announcement replaces the summary of every client, so an approval requested meanwhile disappears from their
   lists.
5. The reply to startTurn may arrive after the turn's completion event. `applyStartedTurn` then puts the
   finished turn back in progress: later messages are queued behind it and no event drains them. `ViewSettles` holds
   apart from this case and from events that fall between a detail and the opening of its stream; a resync repairs both.
6. The composer's draft of the settings is what they were when it was mounted, and a message overrides every setting in which the draft differs from
   the thread's by then: what another client has changed meanwhile is sent back to what it was, and settings that were unknown at first are sent as null.

Each contradicts a line of the repository's documents, quoted in `PROJECT.json`. Two more were met in `ThreadRuntime`, where they
are behaviours of the model that no run is spent on (both are listed hazards):

7. A thread selected while the session is refreshed is never read: selectThread returns early (`threadRuntime.ts:171`) and the listener of
   `refreshed` (`:75`) marks the runtime authenticated. The connection spec
   (`docs/specs/2026-04-11-local-direct-reconnect-and-resync.md:104`) says that in this state "the runtime snapshot is aligned with bridge authority".
8. A list that is answered after the session was lost makes the runtime authenticated again (`:456`), although line 122 of that spec says that
   "`revoked` and `expired` are terminal".

One is a comment that the code has outgrown, without harm to the program, and `RolloutScan` follows the code:

9. The comment on `findLastLifecycleEventType` (`rolloutStatusInference.ts:73-77`) says that the file is read "up to ~64KB from the tail" and that null is
   returned when the scanned range has no event. The loop goes on to the beginning of the file, 64 KB at a time, so `ScanFindsLast` claims that an event
   is found wherever it lies.

## Proofs

The `*Proofs` modules prove every invariant that a run checks, and the refinement, for any sets of clients, threads, files, requests,
devices and processes and any bounds. They assume what the modules name as assumptions on constants: sets are disjoint, functions are
typed, bounds are naturals and some of them not 0; `PartsAssumption` in `MCParts` holds those of the parts, with
the routes of a request being routes of the server. Each proof is an inductive invariant shown in three steps (initial, preserved,
implies the property) and lifted by PTL.

- **`ThreadEventStreamRegistryProofs`**: `RegistryTypeOK`, `CountBound`, `BroadcastTargets`,
  `NoAbandonedThread`. `CountBound` (`PhantomsAreLeaks`) says that a count exceeds the connected clients by at most the leaked
  streams: the close of a resuming stream is spent before `clientAdded`, so that stream stays held, and counted, for good. The theorems hold together: the
  count of a thread never exceeds what is held only because a closed registry holds nothing, and an abandoned thread keeps a timer or a check only because
  no count stands for a client that is not held. `NoAbandonedThread` leaves out threads whose last request the app-server refused (`refused`).
- **`GlobalEventStreamsProofs`**: `GlobalTypeOK`, `OneDetector`, `StreamsServed`, `ListenerAgrees`. One
  detector at a time needs the lock of its start in the invariant. `ListenerAgrees` rests on
  `DiffIsHeard`, a lemma on the operators alone: for any two rows, the events of the diff turn a listener
  that showed the old one into one that shows the new one.
- **`PendingRequestsProofs`**: `PendingTypeOK`, `TablesAlwaysAgree`, `PendingAlwaysKnown`, `RequestsReach`. The key is
  `WillHold`, the last word of a queue on a request. Two lemmas, `WillHoldAppend` and `WillHoldTail`,
  say how it changes when a message is written and read; they turn each step of a
  queue of any length into a statement about one message. `PendingAlwaysKnown` needs `TablesAgree`, because
  clearThread finds what it takes out of the index in the thread's list. `RequestsReach` needs the
  shape of the messages: an announcement is only about threads the detector did not know.

- **`ThreadMessageQueueProofs`**: `QueueTypeOK`, `MessagesSentOnce`, `DrainSettles`, and the refinement `QueueDelivers`
  (`Spec => DeliversMessages`). The invariant, `QueueInv`, adds to the type that a message which waits or is posted is
  untouched: no turn, reply, failure or removal is known of it. That is what `NeverSentTwice` lacks to be inductive, since a
  post may only be accepted if no turn has been started for it before. The end of the session is a step like another: it takes what waits to `dropped` at once. Each step then moves one message from one
  stage to the next, or none: the lemmas `DrainDelivers`, `ReplyDelivers` and `RestDelivers` say so for the three
  kinds of steps, and need the lemmas on sequences without duplicates (`AppendHolds`, `TailHolds`, `TakenOutHolds`).
  `ViewIsSettled` (`ViewSettles`) has an invariant of its own, `ViewInv`: a turn that is over and shown as active
  is on its way to be shown as ended, by an event or by the detail that was read, unless an excused step intervened (`ViewFollows`). It needs the order
  of the stream: no event of a turn comes after its end (`EventsFollow`).
- **`ThreadRuntimeProofs`**: `RuntimeFollows` (`FollowsSelection`), `RuntimeIsTyped` (`TypeOK`) and `RuntimeShowsEveryEvent`
  (`DetailIsComplete`). The first invariant, `Follows`, is that property with the fields the
  runtime's record must have for the methods, which are operators from one record to the next, to be composed: one lemma per group of methods
  (closing, reconnecting, selecting, opening, resync, reads, refresh) and one per group of steps. `CompleteInv` adds where an event can be
  that the detail does not show: held back until the read returns (`pending`), on the stream (`Carried`), or `excused`; and it says the same of every answer
  that may still replace the detail (`RepliesAreComplete`), because a late answer puts an older detail in place of a newer one. Its one
  delicate lemma, `ExcuseKeeps`, is about all steps that answer no read; the others are the steps that send, answer or apply one.
- **`DeviceTrustProofs`**: `TrustIsKept` (`TrustSpec => []SpentStaysSpent`, for any interleaving of the two processes and a crash anywhere).
  `SpentStaysSpent` speaks of the file; the invariant `Orderly` adds what waits to be written: a save fits (`Fits`) when the file it
  carries respects the history as it will be after the write, and the second save of a pairing when the first is written. It needs in
  addition that no two devices share a token and that only numbers already drawn occur.
- **`AppServerTransportProofs`**: `CallsSettle` (`RpcSpec => []CallsSettleRight`). The invariant says that a call waits under its own number
  until something settles it and no longer (`Filed`), that lines and unread calls are of calls that were made (`Pipes`), and that those an exit found waiting were told (`Told`). The
  retried read is the delicate step: it settles one call and files another. The same invariant gives an action property that no run
  checks, `SettledOnce` (`RpcSpec => CallsSettleOnce`): no step touches a call that was settled. It is why `Filed` is an equivalence: a line settles
  the call its id finds in the table, and an exit all that it finds there, so the table must hold no call that was settled before.

- **`PartsProofs`**: the parts, in one section each, and at the end a theorem for each about all parts together
  (`PartsSpec`), but for the settings of the composer, of which only the type is proved. `PartsBegin` and `PartsMove` say that each part begins and moves as it would alone. `PartsAreTyped` (`TypeOK`) is the conjunction of all fourteen
  invariants. What each of them adds to the property:

  | Theorem (property) | What its invariant says besides |
  |---|---|
  | `SessionsAlwaysRecover` (`SessionsRecover`) | a token on its way to a tab is in no other place (`TokensAreFresh`); a refused one stays spent; as long as nothing was lost or revoked, what is on its way is taken by the bridge, and if the store's token is not, the reply that replaces it is under way. After such a trouble the theorem claims nothing of the store |
  | `OneDaemonRuns` (`OneDaemonIsFound`) | at most one process takes the lock or has it, and the file is its own, half written while it creates it; the daemon that listens has the port and the one that runs the manifest; what a stop waits for does not run any more. The theorem claims exclusion until two starts race or a listen fails, and that the daemon is found until, besides, one outlives its stop |
  | `StartHandsOn` (`ConfigIsHandedOn`) | what `config set` wrote last is what the file holds |
  | `CachesStayTrue` (`CachesAgree`) | a call that was alone when it began is the only one that touches the settings (`AloneTouches`), and as long as every call was, what it will write agrees with the app-server's settings (`Unstrayed`) |
  | `TurnIsShown` (`TurnConverges`) | an item that is done has an event that says so, the last about the item and the only one with a text, and either that event is still to be applied, was missed (or the turn's start was, without which items are dropped), or the client shows the item as done; the same of what ended the turn, which no later event changes, and of the thread's going idle |
  | `AnswersAreKnown` (`AnswersAreUnderstood`) | what is pending, what is shown and what was answered belong to the one request asked |
  | `LastRecordIsFound` (`ScanFindsLast`) | lines are laid out cell by cell, in their order, between newlines, whatever is appended; what the scan holds over are the cells at its position, none of them a newline; and no line of interest ends behind what it still has to read |
  | `ImportsAreNeverLost` (`ImportsStay`) | a call of the daemon that nobody overtook while it resolved a path knows what the file holds; what the client was told it imported was imported, and is in a listing that was read afterwards |
  | `BrowserSettles` (`BrowserFollows`) | listings in flight are at most those asked for; a read has at most the number of the preview, and one with that number is of its path; requests beyond the user's came from openers that are done |
  | `MatchesAreOfTheQuery` (`MatchesAnswerQuery`) | while the timer runs no search in flight is the last one; once it has fired, the last one is of the text, and matches are of their query as the bridge spells it. While the timer runs, 120 ms, the popup may show and insert what it had |
  | `AttemptsStayBounded` (`AttemptsAreBounded`) | the limiter's count and reset time are those of the last attempts let through, which are in order of time, and those before the window's first and its predecessors are a window older |

  The scan looks for the last newline of a chunk and the last line of a file, which takes induction over numbers. The provers cannot take an operator as
  a parameter, so it is done with `Least` and `Greatest`: a set of naturals that is not empty has a least element, and a greatest if it is
  bounded, which the library's theorems on well-founded orders give for sets. `ReadItems` and `mergeCachedCommandItems` of
  `ThreadDetailState` are written with `Sifted`, the items at some places in their order, rather than with `SelectSeq`, which is recursive: `SiftedIs`
  then says by counting alone which items there are.

Only model-checked is what holds under fairness (`EventuallyUnsubscribed`, `AcceptedChangeIsReported`,
`AnsweredIsForgotten`, `QueuedIsSent`, `Recovers`), because the prover has no rules for fairness.
The runs that expect a violation are counterexamples and need no proof.

## Not modelled

- **Protocol types**: type declarations only. **Mobile shell**: a Tauri wrapper of the client, mostly generated.
- **Client UI**: rendering, themes and translations, and the components that only show the runtime's snapshot.
- **CLI**: the terminal dialogue, and `logs --follow`, which mixes byte sizes with lengths of decoded text.
- **SDK**: the parsing of server-sent events; dispose; renameThread, startReview and interruptTurn, which change nothing but a thread's data.
- In the detector: rollout files without a lifecycle event, loaded threads, errors of the watcher; and `updatedAt` in a listener's row, which no event carries
  although a comment promises recency updates (a listed hazard).
- Time: codes, sessions and access tokens expire at any moment; only the rate limiter has a clock.

## Plan

Ordered by what the program is for.

1. `ThreadEventStreamRegistry` with its proofs: the core of the bridge.
2. `ThreadChangeDetector`, `GlobalEventStreams`, composed, with their proofs.
3. `PendingRequests` with its proofs, from the app-server to the clients' lists.
4. `ThreadMessageQueue`, with the abstract specification `MessageDelivery`, and the proof that the one implements the other.
5. `ThreadRuntime`: connection states, resync and selection, with the proof that what is shown follows the selection.
6. The parts: trust, sessions, daemons, configuration, transport, HTTP, caches, details, approvals, scans, projects, workspace, composer.
7. Theorems for `DeviceTrust` and `AppServerTransport`, for the completeness of the runtime's detail and of the queue's view, and for the other parts: every invariant that a run checks is proved.
8. To come: more action properties like `CallsSettleOnce` (what a step may never undo), and an abstract specification of the event streams that `ThreadEventStreamRegistry` implements.
