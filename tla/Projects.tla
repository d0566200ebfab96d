------------------------------ MODULE Projects ------------------------------
(***************************************************************************)
(* The list of imported projects: a JSON file that the daemon and the CLI  *)
(* each load, change and write back, and the list a client shows.  A       *)
(* project is the real path of its directory; "link" is a symbolic link    *)
(* to "p".                                                                 *)
(***************************************************************************)
EXTENDS Naturals, FiniteSets

CONSTANTS
  MaxCommands,  \* bound on the imports and removals
  MaxCancelled  \* bound on the listings that were cancelled and may still be answered

VARIABLES
  projFile,     \* the paths recorded in the file
  projState,    \* #state of the daemon's store
  projDirs,     \* the directories that exist
  projCalls,    \* the daemon's calls in flight
  projCli,      \* a CLI process
  projView,     \* the client: projectsState, and the listings it waits for
  projAdded,    \* history: what was imported and not removed since
  projCommands, \* number of imports and removals asked for
  projOverlaps  \* history: a process wrote back what another had changed meanwhile

projVars == <<projFile, projState, projDirs, projCalls, projCli, projView, projAdded, projCommands, projOverlaps>>
service == <<projFile, projState, projDirs, projCalls, projCli, projAdded, projCommands, projOverlaps>>

Dirs == {"p", "q"}
Names == {"link", "q"}
Callers == {"import", "other"}
Real(name) == IF name = "link" THEN "p" ELSE name
NoCall == [at |-> "idle", name |-> "link", loaded |-> {}, overtaken |-> FALSE]

ProjTypeOK ==
  /\ projFile \subseteq Dirs /\ projState \subseteq Dirs /\ projDirs \subseteq Dirs
  /\ projCalls \in [Callers -> [at : {"idle", "resolves", "summarises"}, name : Names,
                           loaded : {{}}, overtaken : BOOLEAN]]
  /\ projCli \in [at : {"idle", "import", "remove"}, name : Names, loaded : SUBSET Dirs,
               overtaken : {FALSE}]
  /\ projView \in [kind : {"idle", "loading", "ready", "error"}, shown : SUBSET Dirs, imported : SUBSET Dirs,
                   listing : {"none", "sent", "read"}, lists : SUBSET Dirs,
                   stale : SUBSET (SUBSET Dirs)]
  /\ Cardinality(projView.stale) <= MaxCancelled
  /\ projAdded \subseteq Dirs /\ projCommands \in 0 .. MaxCommands /\ projOverlaps \in BOOLEAN

ProjInit ==
  /\ projFile = {} /\ projState = {} /\ projDirs = Dirs
  /\ projCalls = [c \in Callers |-> NoCall] /\ projCli = NoCall
  /\ projView = [kind |-> "idle", shown |-> {}, imported |-> {}, listing |-> "none", lists |-> {}, stale |-> {}]
  /\ projAdded = {} /\ projCommands = 0 /\ projOverlaps = FALSE

-----------------------------------------------------------------------------
(* Reading and writing the file                                            *)

Reload == projState' = projFile

DirectoryVanishes ==
  /\ projDirs' = projDirs \ {"p"} /\ projDirs' # projDirs
  /\ UNCHANGED <<projFile, projState, projCalls, projCli, projView, projAdded, projCommands, projOverlaps>>

-----------------------------------------------------------------------------
(* The daemon                                                              *)

Commands == projCommands < MaxCommands /\ projCommands' = projCommands + 1

Imports(c, name) ==
  /\ projCalls[c].at = "idle"
  /\ projCalls' = [projCalls EXCEPT ![c] = [NoCall EXCEPT !.at = "resolves", !.name = name]]
  /\ Commands
  /\ UNCHANGED <<projFile, projDirs, projCli, projView, projAdded, projOverlaps>>

\* Faulty: what another process wrote is not read again.
ImportProjectCached(c, name) == Imports(c, name) /\ UNCHANGED projState

ImportProject(c, name) == Imports(c, name) /\ Reload

\* The path is no directory, or cannot be read.
ImportRefused(c) ==
  /\ projCalls[c].at = "resolves" /\ Real(projCalls[c].name) \notin projDirs
  /\ projCalls' = [projCalls EXCEPT ![c] = NoCall]
  /\ UNCHANGED <<projFile, projState, projDirs, projCli, projView, projAdded, projCommands, projOverlaps>>

UpsertProject(c) ==
  /\ projCalls[c].at = "resolves" /\ Real(projCalls[c].name) \in projDirs
  /\ projState' = projState \cup {Real(projCalls[c].name)}
  /\ projFile' = projState'
  /\ projOverlaps' = (projOverlaps \/ projCalls[c].overtaken)
  /\ projAdded' = projAdded \cup {Real(projCalls[c].name)}
  /\ projCalls' = [projCalls EXCEPT ![c].at = "summarises", ![c].overtaken = FALSE]
  /\ UNCHANGED <<projDirs, projCli, projView, projCommands>>

Cancelled ==
  IF projView.listing = "read" /\ Cardinality(projView.stale) < MaxCancelled
  THEN projView.stale \cup {projView.lists} ELSE projView.stale

\* The client hears of its import, adds the project to its list and asks for
\* the list again; the listing on its way is cancelled.
ImportReturns ==
  /\ projCalls["import"].at = "summarises"
  /\ LET path == Real(projCalls["import"].name)
     IN  projView' =
           [projView EXCEPT
              !.shown = IF projView.kind = "ready" THEN @ \cup {path} ELSE @,
              !.imported = @ \cup ({path} \cap projAdded),
              !.kind = CASE @ = "idle" -> "idle" [] @ = "ready" -> "ready" [] OTHER -> "loading",
              !.listing = IF projView.kind = "idle" THEN "none" ELSE "sent",
              !.stale = Cancelled, !.lists = {}]
  /\ projCalls' = [projCalls EXCEPT !["import"] = NoCall]
  /\ UNCHANGED <<projFile, projState, projDirs, projCli, projAdded, projCommands, projOverlaps>>

\* An import whose threads cannot be listed is reported as failed, and recorded.
ImportFails(c) ==
  /\ projCalls[c].at = "summarises"
  /\ projCalls' = [projCalls EXCEPT ![c] = NoCall]
  /\ UNCHANGED <<projFile, projState, projDirs, projCli, projView, projAdded, projCommands, projOverlaps>>

\* listProjects and searchProjects.
SearchProjects ==
  /\ Reload
  /\ UNCHANGED <<projFile, projDirs, projCalls, projCli, projView, projAdded, projCommands, projOverlaps>>

-----------------------------------------------------------------------------
(* The CLI                                                                 *)

HandleProjects(op, name) ==
  /\ projCli.at = "idle"
  /\ projCli' = [NoCall EXCEPT !.at = op, !.name = name, !.loaded = projFile]
  /\ Commands
  /\ UNCHANGED <<projFile, projState, projDirs, projCalls, projView, projAdded, projOverlaps>>

CliRefused ==
  /\ projCli.at # "idle"
  /\ \/ Real(projCli.name) \notin projDirs
     \/ projCli.at = "remove" /\ Real(projCli.name) \notin projCli.loaded
  /\ projCli' = NoCall
  /\ UNCHANGED <<projFile, projState, projDirs, projCalls, projView, projAdded, projCommands, projOverlaps>>

CliWrites(projects) ==
  /\ projFile' = projects
  /\ projOverlaps' = (projOverlaps \/ projCli.loaded # projFile)
  /\ projCalls' = [c \in Callers |-> [projCalls[c] EXCEPT !.overtaken = projCalls[c].at = "resolves"]]
  /\ projCli' = NoCall
  /\ UNCHANGED <<projState, projDirs, projCommands>>

CliImports ==
  /\ projCli.at = "import" /\ Real(projCli.name) \in projDirs
  /\ CliWrites(projCli.loaded \cup {Real(projCli.name)})
  /\ projAdded' = projAdded \cup {Real(projCli.name)}
  /\ UNCHANGED projView

RemoveProject ==
  /\ projCli.at = "remove" /\ Real(projCli.name) \in projDirs \cap projCli.loaded
  /\ CliWrites(projCli.loaded \ {Real(projCli.name)})
  /\ projAdded' = projAdded \ {Real(projCli.name)}
  /\ projView' = [projView EXCEPT !.imported = @ \ {Real(projCli.name)}]

-----------------------------------------------------------------------------
(* The client                                                              *)

\* The effect of the hook, when the connection allows requests or does no
\* longer.
QueryBridge ==
  /\ projView.kind = "idle"
  /\ projView' = [projView EXCEPT !.kind = "loading", !.listing = "sent"]
  /\ UNCHANGED service

LeaveBridge ==
  /\ projView.kind # "idle"
  /\ projView' = [projView EXCEPT !.kind = "idle", !.shown = {}, !.listing = "none",
                                  !.stale = Cancelled, !.lists = {}]
  /\ UNCHANGED service

ListProjects ==
  /\ projView.listing = "sent"
  /\ Reload
  /\ projView' = [projView EXCEPT !.listing = "read", !.lists = projFile]
  /\ UNCHANGED <<projFile, projDirs, projCalls, projCli, projAdded, projCommands, projOverlaps>>

ListReturns ==
  /\ projView.listing = "read"
  /\ projView' = [projView EXCEPT !.kind = "ready", !.shown = projView.lists,
                                  !.listing = "none", !.lists = {}]
  /\ UNCHANGED service

ListFails ==
  /\ projView.listing # "none"
  /\ projView' = [projView EXCEPT !.kind = IF @ = "ready" THEN @ ELSE "error",
                                  !.listing = "none", !.lists = {}]
  /\ UNCHANGED service

\* Faulty: the answer of a listing that was cancelled is shown.
CancelledReturnsShown(lists) ==
  /\ lists \in projView.stale /\ projView.kind # "idle"
  /\ projView' = [projView EXCEPT !.stale = @ \ {lists}, !.kind = "ready", !.shown = lists]
  /\ UNCHANGED service

CancelledReturns(lists) ==
  /\ lists \in projView.stale
  /\ projView' = [projView EXCEPT !.stale = @ \ {lists}]
  /\ UNCHANGED service

ProjNext ==
  \/ DirectoryVanishes \/ SearchProjects \/ ImportReturns
  \/ \E name \in Names : HandleProjects("import", name) \/ HandleProjects("remove", name)
  \/ \E c \in Callers : ImportRefused(c) \/ UpsertProject(c) \/ ImportFails(c)
  \/ \E c \in Callers, name \in Names : ImportProject(c, name)
  \/ CliRefused \/ CliImports \/ RemoveProject
  \/ QueryBridge \/ LeaveBridge \/ ListProjects \/ ListReturns \/ ListFails
  \/ \E lists \in SUBSET Dirs : CancelledReturns(lists)

-----------------------------------------------------------------------------
(* Properties                                                              *)

\* Calls of the daemon overlap, and the CLI works beside it: as long as no
\* process writes the file between another's load and its save, the file holds
\* every project that was imported and not removed (ProjectRegistryStore).
ImportsAreKept == ~projOverlaps => projFile = projAdded

\* A list that is shown lacks no project this client was told it has imported,
\* whatever listings overtook the import (useProjectHome).
ImportsAreShown ==
  ~projOverlaps /\ projView.kind = "ready" => projView.imported \subseteq projView.shown
=============================================================================
