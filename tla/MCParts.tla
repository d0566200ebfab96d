------------------------------ MODULE MCParts ------------------------------
(* The parts of the bridge, the SDK and the client that share no state      *)
(* with the streams, the pending requests and the queue.  They share none   *)
(* with each other either: each behaviour takes the steps of one, part, and *)
(* the others rest in their initial states.                                 *)
EXTENDS DeviceTrust, AppServerTransport, FiniteSets

CONSTANTS
  Tabs, MaxSessions, MaxPids, SvcCalls, SvcFields, ItemTypes,
  Deltas, MaxDeltas, MaxLines, LineCells, ChunkSize, MaxCommands,
  MaxCancelled, Openers, MaxFiles, MaxLists, MaxSearches,
  MaxBoxCalls, MaxDraftEdits, HttpRoutes, Attempts, Window,
  MaxTime, MaxTries

VARIABLES
  part,
  sessStore, sessValid, sessGiven, sessTabs, sessTroubles,
  daemonProcs, daemonLock, daemonLockTorn, daemonManifest, daemonPort,
  daemonStop, daemonFaults,
  confKey, confEnv, confFile, confSet, confDaemon,
  svcActual, svcSettings, svcUsage, svcRuns, svcHistory,
  turnServer, turnEvents, turnNext, turnMissed, turnRead, turnClient,
  apprAsked, apprPending, apprMethod, apprShown, apprReplies,
  scanLines, scanFile, scanPlace, scanReader,
  projFile, projState, projDirs, projCalls, projCli, projView, projAdded,
  projCommands, projOverlaps,
  workDisk, workFolders, workLists, workOpeners, workPreview, workReads,
  workAsked,
  boxEnabled, boxText, boxSearch, boxTimer, boxId, boxAsked, boxCalls,
  boxSheet,
  draftCommitted, draftState, draftChosen, draftModels, draftSends,
  draftEdits,
  httpNow, httpTrusted, httpLimit, httpRequest, httpTries, httpStreams

sessVars == <<sessStore, sessValid, sessGiven, sessTabs, sessTroubles>>
daemonVars == <<daemonProcs, daemonLock, daemonLockTorn, daemonManifest, daemonPort,
    daemonStop, daemonFaults>>
confVars == <<confKey, confEnv, confFile, confSet, confDaemon>>
svcVars == <<svcActual, svcSettings, svcUsage, svcRuns, svcHistory>>
turnVars == <<turnServer, turnEvents, turnNext, turnMissed, turnRead, turnClient>>
apprVars == <<apprAsked, apprPending, apprMethod, apprShown, apprReplies>>
scanVars == <<scanLines, scanFile, scanPlace, scanReader>>
projVars == <<projFile, projState, projDirs, projCalls, projCli, projView, projAdded,
    projCommands, projOverlaps>>
workVars == <<workDisk, workFolders, workLists, workOpeners, workPreview, workReads,
    workAsked>>
boxVars == <<boxEnabled, boxText, boxSearch, boxTimer, boxId, boxAsked, boxCalls,
    boxSheet>>
draftVars == <<draftCommitted, draftState, draftChosen, draftModels, draftSends,
    draftEdits>>
httpVars == <<httpNow, httpTrusted, httpLimit, httpRequest, httpTries, httpStreams>>

Sess == INSTANCE SessionRefresh
Daemon == INSTANCE DaemonLifecycle
Conf == INSTANCE BridgeConfig
Svc == INSTANCE ThreadCaches
Turn == INSTANCE ThreadDetailState
Appr == INSTANCE ApprovalRequests
Scan == INSTANCE RolloutScan
Proj == INSTANCE Projects
Work == INSTANCE WorkspaceBrowser
Box == INSTANCE ComposerInput
Draft == INSTANCE ComposerSettings
Http == INSTANCE BridgeHttp

\* The routes are the server's; the limiters of bridgeServer.ts allow 10 and 30
\* attempts in a window.
ASSUME PartsAssumption ==
  /\ MaxSessions \in Nat \ {0} /\ MaxPids \in Nat /\ MaxDeltas \in Nat /\ MaxLines \in Nat
  /\ LineCells \in Nat \ {0} /\ ChunkSize \in Nat \ {0}
  /\ MaxCommands \in Nat /\ MaxCancelled \in Nat
  /\ MaxFiles \in Nat /\ MaxLists \in Nat /\ IsFiniteSet(Openers)
  /\ MaxSearches \in Nat /\ MaxBoxCalls \in Nat /\ MaxDraftEdits \in Nat
  /\ Attempts \in Nat \ {0} /\ Window \in Nat /\ MaxTime \in Nat /\ MaxTries \in Nat
  /\ HttpRoutes \subseteq DOMAIN Http!PublicRoutes \cup DOMAIN Http!DeviceRoutes
       \cup DOMAIN Http!ProjectRoutes \cup DOMAIN Http!WorkspaceRoutes
       \cup DOMAIN Http!ThreadRoutes \cup DOMAIN Http!TurnRoutes \cup {"events"}

PartsInit ==
  /\ part \in {"trust", "sess", "daemon", "conf", "rpc", "svc", "turn",
               "appr", "scan", "proj", "work", "box", "draft", "http"}
  /\ TrustInit
  /\ Sess!SessInit
  /\ Daemon!DaemonInit
  /\ Conf!ConfInit
  /\ RpcInit
  /\ Svc!SvcInit
  /\ Turn!TurnInit
  /\ Appr!ApprInit
  /\ Scan!ScanInit
  /\ Proj!ProjInit
  /\ Work!WorkInit
  /\ Box!BoxInit
  /\ Draft!DraftInit
  /\ Http!HttpInit
  \* one rest is enough where a part can begin in several states
  /\ part # "conf" => confKey = "port" /\ confEnv = Conf!None
  /\ part # "draft" => draftCommitted = Draft!Plain

PartsNext ==
  /\ UNCHANGED part
  /\ part # "trust" => UNCHANGED trustVars
  /\ part # "sess" => UNCHANGED sessVars
  /\ part # "daemon" => UNCHANGED daemonVars
  /\ part # "conf" => UNCHANGED confVars
  /\ part # "rpc" => UNCHANGED rpcVars
  /\ part # "svc" => UNCHANGED svcVars
  /\ part # "turn" => UNCHANGED turnVars
  /\ part # "appr" => UNCHANGED apprVars
  /\ part # "scan" => UNCHANGED scanVars
  /\ part # "proj" => UNCHANGED projVars
  /\ part # "work" => UNCHANGED workVars
  /\ part # "box" => UNCHANGED boxVars
  /\ part # "draft" => UNCHANGED draftVars
  /\ part # "http" => UNCHANGED httpVars
  /\ \/ part = "trust" /\ TrustNext
     \/ part = "sess" /\ Sess!SessNext
     \/ part = "daemon" /\ Daemon!DaemonNext
     \/ part = "conf" /\ Conf!ConfNext
     \/ part = "rpc" /\ RpcNext
     \/ part = "svc" /\ Svc!SvcNext
     \/ part = "turn" /\ Turn!TurnNext
     \/ part = "appr" /\ Appr!ApprNext
     \/ part = "scan" /\ Scan!ScanNext
     \/ part = "proj" /\ Proj!ProjNext
     \/ part = "work" /\ Work!WorkNext
     \/ part = "box" /\ Box!BoxNext
     \/ part = "draft" /\ Draft!DraftNext
     \/ part = "http" /\ Http!HttpNext

partsVars ==
  <<part, trustVars, sessVars, daemonVars, confVars, rpcVars, svcVars, turnVars, apprVars,
    scanVars, projVars, workVars, boxVars, draftVars, httpVars>>
PartsSpec == PartsInit /\ [][PartsNext]_partsVars

TypeOK ==
  /\ TrustTypeOK
  /\ Sess!SessTypeOK
  /\ Daemon!DaemonTypeOK
  /\ Conf!ConfTypeOK
  /\ RpcTypeOK
  /\ Svc!SvcTypeOK
  /\ Turn!TurnTypeOK
  /\ Appr!ApprTypeOK
  /\ Scan!ScanTypeOK
  /\ Proj!ProjTypeOK
  /\ Work!WorkTypeOK
  /\ Box!BoxTypeOK
  /\ Draft!DraftTypeOK
  /\ Http!HttpTypeOK

\* Settled refreshes leave a token the bridge takes, in a behaviour where no reply
\* was lost, nobody left or revoked a device and no tab missed credentials; and a
\* tab that lost its session comes back with the next credentials, if no tab missed
\* some (SessionRefresh).
SessionsRecover == Sess!StoreIsCurrent /\ Sess!TabsSignIn

\* One daemon holds the lock, unless two starts looked at it together or a listen
\* failed; the one that runs is found, unless, besides, a stop was outlived by the
\* daemon it stopped (DaemonLifecycle).
OneDaemonIsFound == Daemon!LockIsExclusive /\ Daemon!RunningIsFound

\* A daemon spawned by start is configured as one run in the foreground, and
\* config set is obeyed (BridgeConfig).
ConfigIsHandedOn == Conf!SpawnedAsAsked /\ Conf!SetIsEffective

\* Settings told are the app-server's, and live usage wins (ThreadCaches).
CachesAgree == Svc!SettingsAgree /\ Svc!LiveUsageWins

\* A client that has applied every event of its stream shows the turn as it is,
\* in whichever order it read and opened the stream, but for what came in between
\* and no later event tells (ThreadDetailState).
TurnConverges == Turn!TurnConverges

\* The app-server is told the user's choice in words it understands
\* (ApprovalRequests).
AnswersAreUnderstood == Appr!AnswersAreUnderstood

\* A scan finds the last line of interest across its chunks (RolloutScan).
ScanFindsLast == Scan!ScanFindsLast

\* Imported projects stay recorded and are shown (Projects).
ImportsStay == Proj!ImportsAreKept /\ Proj!ImportsAreShown

\* Folders do not load for good, and the preview is the selected file's
\* (WorkspaceBrowser).
BrowserFollows == Work!LoadingIsUnderWay /\ Work!PreviewIsOfSelection

\* Once the timer has fired, the file popup shows the answer to what is typed
\* (ComposerInput).
MatchesAnswerQuery == Box!MatchesAnswerQuery

\* What a message overrides was chosen in its composer; it fails
\* (ComposerSettings).
OverridesAreChosen == Draft!OverridesAreChosen

\* No window lets through more attempts than two windows allow (BridgeHttp).
AttemptsAreBounded == Http!AttemptsAreBounded
============================================================================
